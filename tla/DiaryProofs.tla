---------------------------- MODULE DiaryProofs ------------------------------
(***************************************************************************)
(* What the diary guarantees for any number of days, any calendar of       *)
(* months, any rule of editing and any number of transactions that         *)
(* overlap, each read and each write of theirs a step of its own.          *)
(***************************************************************************)
EXTENDS Diary, FiniteSetTheorems, WellFoundedInduction, TLAPS

----------------------------------------------------------------------------
(* The series.  What the walk over the marks comes to is shown by          *)
(* induction over the days, an argument about the least counterexample.    *)

LEMMA LeastNumber ==
    ASSUME NEW T, T \subseteq Nat, T # {}
    PROVE  \E x \in T : \A y \in T : x <= y
<1> DEFINE R == OpToRel(<, Nat)
<1>1. \E x \in T : \A y \in T : ~ (<<y, x>> \in R)
  <2>1. IsWellFoundedOn(R, Nat)
    BY NatLessThanWellFounded
  <2> HIDE DEF R
  <2> QED
    BY <2>1, WFMin
<1>2. PICK x \in T : \A y \in T : ~ (<<y, x>> \in R)
  BY <1>1
<1>3. ASSUME NEW y \in T PROVE x <= y
  <2>1. ~ (y < x)
    BY <1>2 DEF OpToRel
  <2> QED
    BY <2>1
<1> QED
  BY <1>3

LEMMA NumberInduction ==
    ASSUME NEW S, S \subseteq Nat, 0 \in S, \A n \in S : n + 1 \in S
    PROVE  S = Nat
<1> SUFFICES ASSUME Nat \ S # {} PROVE FALSE
  OBVIOUS
<1>1. PICK x \in Nat \ S : \A y \in Nat \ S : x <= y
  BY LeastNumber
<1>2. x # 0 /\ x \in Nat
  OBVIOUS
<1>3. x - 1 \in Nat /\ ~ (x <= x - 1) /\ (x - 1) + 1 = x
  BY <1>2
<1>4. x - 1 \in S
  BY <1>1, <1>3
<1> QED
  BY <1>3, <1>4

IsRuns(g, marks) ==
    g = [n \in 0..LastDay + 1 |-> IF n = 0 THEN 0 ELSE Step(g[n - 1], marks[n - 1])]

LEMMA RunsExist ==
    ASSUME NEW marks
    PROVE  \E g : IsRuns(g, marks)
<1> DEFINE IsPart(g, n) ==
               g = [i \in 0..n |-> IF i = 0 THEN 0 ELSE Step(g[i - 1], marks[i - 1])]
           Built == {n \in Nat : \E g : IsPart(g, n)}
<1>1. 0 \in Built
  <2> DEFINE g == [i \in 0..0 |-> 0]
  <2>1. IsPart(g, 0)
    OBVIOUS
  <2> HIDE DEF IsPart, g
  <2> QED
    BY <2>1
<1>2. ASSUME NEW n \in Built PROVE n + 1 \in Built
  <2>1. PICK g : IsPart(g, n)
    OBVIOUS
  <2> DEFINE h == [i \in 0..(n + 1) |->
                     IF i = 0 THEN 0 ELSE Step(g[i - 1], marks[i - 1])]
  <2>2. \A i \in 0..n : h[i] = g[i]
    BY <2>1
  <2>3. \A i \in 0..(n + 1) : i # 0 => i - 1 \in 0..n
    OBVIOUS
  <2>4. h = [i \in 0..(n + 1) |-> IF i = 0 THEN 0 ELSE Step(h[i - 1], marks[i - 1])]
    BY <2>2, <2>3
  <2> HIDE DEF h
  <2>5. \E f : IsPart(f, n + 1)
    BY <2>4
  <2> HIDE DEF IsPart
  <2> QED
    BY <2>5
<1>3. Built = Nat
  <2>1. Built \subseteq Nat
    OBVIOUS
  <2> HIDE DEF Built
  <2> QED
    BY <1>1, <1>2, <2>1, NumberInduction
<1>4. LastDay + 1 \in Nat
  BY DiaryAssumption
<1>5. PICK g : IsPart(g, LastDay + 1)
  BY <1>3, <1>4
<1> QED
  BY <1>5 DEF IsRuns

LEMMA RunsUnfold ==
    ASSUME NEW marks
    PROVE  /\ Runs(marks)[0] = 0
           /\ \A n \in 0..LastDay : Runs(marks)[n + 1] = Step(Runs(marks)[n], marks[n])
<1>1. IsRuns(Runs(marks), marks)
  <2>1. Runs(marks) = CHOOSE g : IsRuns(g, marks)
    BY DEF Runs, IsRuns
  <2> QED
    BY <2>1, RunsExist
<1>2. LastDay \in Nat
  BY DiaryAssumption
<1>3. ASSUME NEW n \in 0..LastDay
      PROVE  Runs(marks)[n + 1] = Step(Runs(marks)[n], marks[n])
  <2>1. n + 1 \in 0..LastDay + 1 /\ n + 1 # 0 /\ (n + 1) - 1 = n
    BY <1>2
  <2> QED
    BY <1>1, <2>1 DEF IsRuns
<1> QED
  BY <1>1, <1>2, <1>3 DEF IsRuns

\* The days kept before day n since the last one before it that was not.
KeptBefore(marks, n) ==
    {d \in Days : /\ d < n /\ marks[d] = "ok"
                  /\ \A e \in Days : d < e /\ e < n => marks[e] \in {"ok", "none", "frozen"}}

LEMMA KeptIsFinite ==
    ASSUME NEW marks, NEW n
    PROVE  IsFiniteSet(KeptBefore(marks, n))
<1>1. IsFiniteSet(Days)
  BY FS_Interval, DiaryAssumption DEF Days
<1> QED
  BY <1>1, FS_Subset DEF KeptBefore

\* The run that ends with a day is the number of those days.
LEMMA RunsCount ==
    ASSUME NEW marks, NEW n \in 0..LastDay + 1
    PROVE  Runs(marks)[n] = Cardinality(KeptBefore(marks, n))
<1> DEFINE Good == {i \in Nat : i <= LastDay + 1 =>
                       Runs(marks)[i] = Cardinality(KeptBefore(marks, i))}
<1>1. LastDay \in Nat
  BY DiaryAssumption
<1>2. 0 \in Good
  <2>1. KeptBefore(marks, 0) = {}
    BY <1>1 DEF KeptBefore, Days
  <2> QED
    BY <2>1, RunsUnfold, FS_EmptySet
<1>3. ASSUME NEW i \in Good PROVE i + 1 \in Good
  <2> SUFFICES ASSUME i + 1 <= LastDay + 1
               PROVE  Runs(marks)[i + 1] = Cardinality(KeptBefore(marks, i + 1))
    OBVIOUS
  <2> DEFINE K == KeptBefore(marks, i)
  <2>1. i \in Nat /\ i \in 0..LastDay /\ i <= LastDay + 1
    BY <1>1
  <2>2. Runs(marks)[i + 1] = Step(Cardinality(K), marks[i])
    BY <2>1, RunsUnfold
  <2>3. i \in Days /\ \A d \in Days : d \in Int /\ (d < i + 1 <=> d < i \/ d = i)
    BY <2>1 DEF Days
  <2>4. CASE marks[i] \in {"none", "frozen"}
    <3>1. KeptBefore(marks, i + 1) = K
      BY <2>1, <2>3, <2>4 DEF KeptBefore
    <3> HIDE DEF K
    <3> QED
      BY <2>2, <2>4, <3>1 DEF Step
  <2>5. CASE marks[i] = "ok"
    <3>1. KeptBefore(marks, i + 1) = K \union {i}
      <4>1. ASSUME NEW d \in Days, d # i
            PROVE  d \in KeptBefore(marks, i + 1) <=> d \in K
        BY <2>3, <2>5, <4>1 DEF KeptBefore
      <4>2. i < i + 1 /\ \A e \in Days : ~(i < e /\ e < i + 1)
        BY <2>1, <2>3
      <4>3. i \in KeptBefore(marks, i + 1)
        BY <2>3, <2>5, <4>2 DEF KeptBefore
      <4>4. KeptBefore(marks, i + 1) \subseteq Days /\ K \subseteq Days
        BY DEF KeptBefore
      <4> HIDE DEF K
      <4> QED
        BY <2>3, <4>1, <4>3, <4>4
    <3>2. i \notin K /\ IsFiniteSet(K)
      <4>1. ~(i < i)
        BY <2>1
      <4> QED
        BY <4>1, KeptIsFinite DEF KeptBefore
    <3> HIDE DEF K
    <3>3. Cardinality(K \union {i}) = Cardinality(K) + 1
      BY <3>2, FS_AddElement
    <3> QED
      BY <2>2, <2>5, <3>1, <3>3 DEF Step
  <2>6. CASE marks[i] \notin {"ok", "none", "frozen"}
    <3>1. KeptBefore(marks, i + 1) = {}
      BY <2>1, <2>3, <2>6 DEF KeptBefore
    <3> HIDE DEF K
    <3> QED
      BY <2>2, <2>6, <3>1, FS_EmptySet DEF Step
  <2> QED
    BY <2>4, <2>5, <2>6
<1>4. Good = Nat
  <2>1. Good \subseteq Nat
    OBVIOUS
  <2> HIDE DEF Good
  <2> QED
    BY <1>2, <1>3, <2>1, NumberInduction
<1>5. n \in Nat /\ n <= LastDay + 1
  BY <1>1
<1> QED
  BY <1>4, <1>5

\* The longest run is a number, and the run up to some day.
LEMMA LongestIsNumber ==
    ASSUME NEW marks
    PROVE  /\ Longest(marks) \in 0..LastDay + 1
           /\ \E i \in 0..LastDay + 1 : Longest(marks) = Runs(marks)[i]
<1> DEFINE N == LastDay + 1
           run == Runs(marks)
           Below == {N - run[i] : i \in 0..N}
<1>1. N \in Nat /\ 0 \in 0..N
  BY DiaryAssumption
<1>2. ASSUME NEW i \in 0..N PROVE run[i] \in 0..N
  <2>1. IsFiniteSet(Days) /\ Cardinality(Days) = N
    BY FS_Interval, DiaryAssumption DEF Days
  <2>2. KeptBefore(marks, i) \in SUBSET Days
    BY DEF KeptBefore
  <2>3. Cardinality(KeptBefore(marks, i)) <= N
    BY <2>1, <2>2, FS_Subset
  <2>4. Cardinality(KeptBefore(marks, i)) \in Nat
    BY KeptIsFinite, FS_CardinalityType
  <2>5. run[i] = Cardinality(KeptBefore(marks, i))
    BY RunsCount
  <2> HIDE DEF run, N
  <2> QED
    BY <1>1, <2>3, <2>4, <2>5
<1> HIDE DEF run, N
<1>3. \A i \in 0..N : N - run[i] \in Nat
  <2> TAKE i \in 0..N
  <2>1. run[i] \in Int /\ run[i] <= N
    BY <1>1, <1>2
  <2> QED
    BY <1>1, <2>1
<1>4. Below \subseteq Nat /\ Below # {}
  BY <1>1, <1>3
<1>5. PICK x \in Below : \A y \in Below : x <= y
  <2> HIDE DEF Below
  <2> QED
    BY <1>4, LeastNumber
<1>6. PICK k \in 0..N : x = N - run[k]
  BY <1>5
<1>7. \A i \in 0..N : run[i] <= run[k]
  <2> TAKE i \in 0..N
  <2>1. N - run[k] <= N - run[i]
    BY <1>5, <1>6
  <2>2. run[i] \in Int /\ run[k] \in Int
    BY <1>2
  <2> QED
    BY <1>1, <2>1, <2>2
<1>8. \E n \in 0..N : /\ \E i \in 0..N : run[i] = n
                      /\ \A i \in 0..N : run[i] <= n
  BY <1>2, <1>7
<1> QED
  BY <1>8 DEF Longest, run, N
----------------------------------------------------------------------------
(* Types *)

SeriesRow == [current : 0..LastDay, best : 0..LastDay,
              month : Months \union {NoMonth}, used : 0..FreezesPerMonth]

\* Only days that ended before "now" are counted; a later one is frozen at most.
MarksInTime(marks, now) ==
    /\ marks \in [Days -> Reasons \union {"none"}]
    /\ \A d \in Days : marks[d] \in {"none", "frozen"} \/ d < now

\* What a transaction has written, to the marks.
WritesInTime(marks, now) ==
    /\ marks \in [Days -> Reasons \union {"none", Keep}]
    /\ \A d \in Days : marks[d] # Keep => d < now

\* A transaction writes marks of finished days, holds the series from its read
\* to its count, and freezes no more than was left when it asked.
InTime(s, now) ==
    /\ s \in RequestRow
    /\ s.on <= now
    /\ WritesInTime(s.marks, now)
    /\ s.at # "counted" => (s.current = Same <=> s.best = Same)
    /\ s.at = "written" \/ s.op = "freeze" => s.current # Same
    /\ s.op = "freeze" => /\ s.at = "begun"
                          /\ UsedIn(s.month, s.used, s.on) < FreezesPerMonth

Typed ==
    /\ today \in Days
    /\ facts \in [Days -> {"quiet", "traded", "violated", "breached"}]
    /\ entry \in [Days -> {"none", "empty", "filled"}]
    /\ MarksInTime(mark, today)
    /\ series \in SeriesRow
    /\ request = [q \in Requests |-> request[q]]
    /\ \A r \in Requests : InTime(request[r], today)
    /\ stale \in BOOLEAN
    /\ overtaken \in BOOLEAN

\* A record of a transaction is the record of its fields.
Shape(s) ==
    s = [op |-> s.op, at |-> s.at, on |-> s.on, days |-> s.days,
         text |-> s.text, marks |-> s.marks, current |-> s.current,
         best |-> s.best, month |-> s.month, used |-> s.used,
         fresh |-> s.fresh]

LEMMA RowShape ==
    ASSUME NEW s \in RequestRow
    PROVE  Shape(s)
BY DEF Shape, RequestRow

LEMMA TodayIsNumber ==
    ASSUME today \in Days
    PROVE  /\ LastDay \in Nat /\ Days = 0..LastDay /\ 0 \in Days
           /\ today \in Nat /\ \A d \in Days : d \in Nat
BY DiaryAssumption DEF Days

LEMMA ReadyInTime ==
    ASSUME NEW now \in Nat
    PROVE  InTime(Ready, now)
<1>1. PICK m : m = KeepAll
  OBVIOUS
<1>2. Ready = [op |-> "none", at |-> "idle", on |-> 0, days |-> {}, text |-> "none",
               marks |-> m, current |-> Same, best |-> Same,
               month |-> NoMonth, used |-> 0, fresh |-> {}]
  BY <1>1 DEF Ready
<1>3. m \in [Days -> {Keep}]
  BY <1>1 DEF KeepAll
<1>4. 0 \in Days /\ 0 \in 0..FreezesPerMonth
  BY DiaryAssumption DEF Days
<1>5. WritesInTime(m, now)
  BY <1>3 DEF WritesInTime
<1>6. Ready \in RequestRow
  BY <1>2, <1>4, <1>5 DEF RequestRow, WritesInTime
<1> QED
  BY <1>2, <1>5, <1>6 DEF InTime

\* What was in time stays so.
LEMMA LaterInTime ==
    ASSUME NEW now \in Int, NEW later \in Int, now <= later
    PROVE  /\ \A s : InTime(s, now) => InTime(s, later)
           /\ \A marks : MarksInTime(marks, now) => MarksInTime(marks, later)
<1>1. \A d \in Days : d \in Int
  BY DiaryAssumption DEF Days
<1>2. \A d \in Days : d < now => d < later
  BY <1>1
<1>3. ASSUME NEW s, InTime(s, now) PROVE InTime(s, later)
  <2>1. s.on \in Days
    BY <1>3 DEF InTime, RequestRow
  <2>2. s.on <= later
    BY <1>1, <1>3, <2>1 DEF InTime
  <2>3. WritesInTime(s.marks, later)
    BY <1>2, <1>3 DEF InTime, WritesInTime
  <2> QED
    BY <1>3, <2>2, <2>3 DEF InTime
<1> QED
  BY <1>2, <1>3 DEF MarksInTime

----------------------------------------------------------------------------
(* What each step makes of its transaction *)

\* The rows and the days of a transaction stay as they were.
SameWork(t, s) ==
    /\ t.op = s.op /\ t.days = s.days /\ t.text = s.text

LEMMA BegunInTime ==
    ASSUME Typed, NEW op \in {"refresh", "close", "review", "entry"},
           NEW days \in SUBSET Days, NEW s, s = Begun(op, days)
    PROVE  /\ InTime(s, today)
           /\ s.op = op /\ s.at = "begun" /\ s.on = today /\ s.days = days
           /\ s.text = "none" /\ s.marks = KeepAll /\ s.current = Same
           /\ s.best = Same /\ s.fresh = {}
           /\ s.month = NoMonth /\ s.used = 0
<1>1. PICK m : m = KeepAll
  OBVIOUS
<1>2. s = [op |-> op, at |-> "begun", on |-> today, days |-> days, text |-> "none",
           marks |-> m, current |-> Same, best |-> Same,
           month |-> NoMonth, used |-> 0, fresh |-> {}]
  BY <1>1 DEF Begun, Ready
<1>3. today \in Nat /\ today \in Days
  BY TodayIsNumber DEF Typed
<1>4. InTime(Ready, today) /\ Ready.marks = m
  BY <1>1, <1>3, ReadyInTime DEF Ready
<1>5. WritesInTime(m, today) /\ m \in [Days -> Reasons \union {"none", Keep}]
  BY <1>4 DEF InTime, WritesInTime
<1>6. 0 \in 0..FreezesPerMonth /\ today <= today
  BY <1>3, DiaryAssumption
<1>7. s \in RequestRow
  BY <1>2, <1>3, <1>5, <1>6 DEF RequestRow
<1> QED
  BY <1>1, <1>2, <1>5, <1>6, <1>7 DEF InTime

\* The assignments of each step to the record of its transaction.
GatheredAs(s, marks, on) ==
    [s EXCEPT !.at = "gathered", !.marks = marks, !.on = on]

ComparedAs(s, marks, fresh) ==
    [s EXCEPT !.at = "compared", !.marks = marks, !.fresh = fresh]

WrittenAs(s, current, best, fresh) ==
    [s EXCEPT !.at = "written", !.current = current,
              !.best = best, !.fresh = fresh]

CountedAs(s, current, best) ==
    [s EXCEPT !.at = "counted", !.current = current, !.best = best]

OvertakenAs(s, fresh) ==
    [s EXCEPT !.fresh = fresh]

HeldAs(s, current, best, fresh) ==
    [s EXCEPT !.current = current, !.best = best, !.fresh = fresh]

ToldAs(s, text) ==
    [s EXCEPT !.text = text]

LEMMA Gathering ==
    ASSUME NEW now, NEW s, InTime(s, now), s.at = "begun", s.op # "freeze",
           NEW marks, WritesInTime(marks, now), NEW on \in Days, on <= now
    PROVE  \E t :
           /\ t = GatheredAs(s, marks, on)
           /\ InTime(t, now) /\ SameWork(t, s)
           /\ t.at = "gathered" /\ t.on = on
           /\ t.current = s.current /\ t.best = s.best /\ t.fresh = s.fresh
<1>0. PICK t : t = GatheredAs(s, marks, on)
  OBVIOUS
<1>1. Shape(s)
  BY RowShape DEF InTime
<1>2. t = [op |-> s.op, at |-> "gathered", on |-> on, days |-> s.days,
           text |-> s.text, marks |-> marks, current |-> s.current,
           best |-> s.best, month |-> s.month, used |-> s.used,
           fresh |-> s.fresh]
  BY <1>0, <1>1 DEF Shape, GatheredAs
<1>3. /\ t.op = s.op /\ t.at = "gathered" /\ t.on = on /\ t.days = s.days
      /\ t.text = s.text /\ t.marks = marks /\ t.current = s.current
      /\ t.best = s.best /\ t.fresh = s.fresh
  BY <1>2
<1>4. t \in RequestRow
  BY <1>2 DEF RequestRow, WritesInTime, InTime
<1> QED
  BY <1>0, <1>3, <1>4 DEF InTime, SameWork

LEMMA Comparing ==
    ASSUME NEW now, NEW s, InTime(s, now),
           s.at = "gathered", NEW marks, WritesInTime(marks, now),
           NEW fresh \in SUBSET {"marks", "series"}
    PROVE  \E t :
           /\ t = ComparedAs(s, marks, fresh)
           /\ InTime(t, now) /\ SameWork(t, s) /\ t.at = "compared"
           /\ t.on = s.on /\ t.marks = marks /\ t.fresh = fresh
           /\ t.current = s.current /\ t.best = s.best
<1>0. PICK t : t = ComparedAs(s, marks, fresh)
  OBVIOUS
<1>1. Shape(s)
  BY RowShape DEF InTime
<1>2. t = [op |-> s.op, at |-> "compared", on |-> s.on, days |-> s.days,
           text |-> s.text, marks |-> marks, current |-> s.current,
           best |-> s.best, month |-> s.month, used |-> s.used,
           fresh |-> fresh]
  BY <1>0, <1>1 DEF Shape, ComparedAs
<1>3. /\ t.op = s.op /\ t.at = "compared" /\ t.on = s.on /\ t.days = s.days
      /\ t.text = s.text /\ t.marks = marks /\ t.current = s.current
      /\ t.best = s.best /\ t.month = s.month /\ t.used = s.used
      /\ t.fresh = fresh
  BY <1>2
<1>4. t \in RequestRow
  BY <1>2 DEF RequestRow, WritesInTime, InTime
<1> QED
  BY <1>0, <1>3, <1>4 DEF InTime, SameWork

LEMMA Writing ==
    ASSUME NEW now, NEW s, InTime(s, now),
           s.at = "compared",
           NEW current \in 0..LastDay, NEW best \in 0..LastDay,
           NEW fresh \in SUBSET {"marks", "series"}
    PROVE  \E t :
           /\ t = WrittenAs(s, current, best, fresh)
           /\ InTime(t, now) /\ SameWork(t, s) /\ t.at = "written"
           /\ t.on = s.on /\ t.marks = s.marks /\ t.fresh = fresh
           /\ t.current = current /\ t.best = best
<1>0. PICK t : t = WrittenAs(s, current, best, fresh)
  OBVIOUS
<1>1. Shape(s)
  BY RowShape DEF InTime
<1>2. t = [op |-> s.op, at |-> "written", on |-> s.on, days |-> s.days,
           text |-> s.text, marks |-> s.marks, current |-> current,
           best |-> best, month |-> s.month, used |-> s.used,
           fresh |-> fresh]
  BY <1>0, <1>1 DEF Shape, WrittenAs
<1>3. /\ t.op = s.op /\ t.at = "written" /\ t.on = s.on /\ t.days = s.days
      /\ t.text = s.text /\ t.marks = s.marks /\ t.current = current
      /\ t.best = best /\ t.month = s.month /\ t.used = s.used
      /\ t.fresh = fresh
  BY <1>2
<1>4. t \in RequestRow
  BY <1>2 DEF RequestRow, WritesInTime, InTime, Same
<1> QED
  BY <1>0, <1>3, <1>4 DEF InTime, SameWork, Same

LEMMA Counting ==
    ASSUME NEW now, NEW s, InTime(s, now),
           s.at = "written",
           NEW current \in {Same} \union 0..LastDay,
           NEW best \in {Same} \union 0..LastDay
    PROVE  \E t :
           /\ t = CountedAs(s, current, best)
           /\ InTime(t, now) /\ SameWork(t, s) /\ t.at = "counted"
           /\ t.on = s.on /\ t.marks = s.marks /\ t.fresh = s.fresh
           /\ t.current = current /\ t.best = best
<1>0. PICK t : t = CountedAs(s, current, best)
  OBVIOUS
<1>1. Shape(s)
  BY RowShape DEF InTime
<1>2. t = [op |-> s.op, at |-> "counted", on |-> s.on, days |-> s.days,
           text |-> s.text, marks |-> s.marks, current |-> current,
           best |-> best, month |-> s.month, used |-> s.used,
           fresh |-> s.fresh]
  BY <1>0, <1>1 DEF Shape, CountedAs
<1>3. /\ t.op = s.op /\ t.at = "counted" /\ t.on = s.on /\ t.days = s.days
      /\ t.text = s.text /\ t.marks = s.marks /\ t.current = current
      /\ t.best = best /\ t.month = s.month /\ t.used = s.used
      /\ t.fresh = s.fresh
  BY <1>2
<1>4. t \in RequestRow
  BY <1>2 DEF RequestRow, WritesInTime, InTime
<1> QED
  BY <1>0, <1>3, <1>4 DEF InTime, SameWork

LEMMA Overtaking ==
    ASSUME NEW now, NEW s, InTime(s, now),
           NEW fresh \in SUBSET {"marks", "series"}
    PROVE  \E t :
           /\ t = OvertakenAs(s, fresh)
           /\ InTime(t, now) /\ SameWork(t, s) /\ t.at = s.at
           /\ t.on = s.on /\ t.marks = s.marks /\ t.fresh = fresh
           /\ t.current = s.current /\ t.best = s.best
<1>0. PICK t : t = OvertakenAs(s, fresh)
  OBVIOUS
<1>1. Shape(s)
  BY RowShape DEF InTime
<1>2. t = [op |-> s.op, at |-> s.at, on |-> s.on, days |-> s.days,
           text |-> s.text, marks |-> s.marks, current |-> s.current,
           best |-> s.best, month |-> s.month, used |-> s.used,
           fresh |-> fresh]
  BY <1>0, <1>1 DEF Shape, OvertakenAs
<1>3. /\ t.op = s.op /\ t.at = s.at /\ t.on = s.on /\ t.days = s.days
      /\ t.text = s.text /\ t.marks = s.marks /\ t.current = s.current
      /\ t.best = s.best /\ t.month = s.month /\ t.used = s.used
      /\ t.fresh = fresh
  BY <1>2
<1>4. t \in RequestRow
  BY <1>2 DEF RequestRow, WritesInTime, InTime
<1> QED
  BY <1>0, <1>3, <1>4 DEF InTime, SameWork

LEMMA Holding ==
    ASSUME NEW now, NEW s, InTime(s, now),
           s.at = "begun", NEW current \in 0..LastDay, NEW best \in 0..LastDay,
           NEW fresh \in SUBSET {"marks", "series"}
    PROVE  \E t :
           /\ t = HeldAs(s, current, best, fresh)
           /\ InTime(t, now) /\ SameWork(t, s) /\ t.at = s.at
           /\ t.on = s.on /\ t.marks = s.marks /\ t.fresh = fresh
           /\ t.current = current /\ t.best = best
<1>0. PICK t : t = HeldAs(s, current, best, fresh)
  OBVIOUS
<1>1. Shape(s)
  BY RowShape DEF InTime
<1>2. t = [op |-> s.op, at |-> s.at, on |-> s.on, days |-> s.days,
           text |-> s.text, marks |-> s.marks, current |-> current,
           best |-> best, month |-> s.month, used |-> s.used,
           fresh |-> fresh]
  BY <1>0, <1>1 DEF Shape, HeldAs
<1>3. /\ t.op = s.op /\ t.at = s.at /\ t.on = s.on /\ t.days = s.days
      /\ t.text = s.text /\ t.marks = s.marks /\ t.current = current
      /\ t.best = best /\ t.month = s.month /\ t.used = s.used
      /\ t.fresh = fresh
  BY <1>2
<1>4. t \in RequestRow
  BY <1>2 DEF RequestRow, WritesInTime, InTime, Same
<1> QED
  BY <1>0, <1>3, <1>4 DEF InTime, SameWork, Same

LEMMA Telling ==
    ASSUME NEW now, NEW s, InTime(s, now),
           NEW text \in {"empty", "filled"}
    PROVE  \E t :
           /\ t = ToldAs(s, text)
           /\ InTime(t, now) /\ t.op = s.op /\ t.at = s.at
           /\ t.days = s.days /\ t.text = text /\ t.on = s.on
           /\ t.fresh = s.fresh /\ t.current = s.current /\ t.best = s.best
<1>0. PICK t : t = ToldAs(s, text)
  OBVIOUS
<1>1. Shape(s)
  BY RowShape DEF InTime
<1>2. t = [op |-> s.op, at |-> s.at, on |-> s.on, days |-> s.days,
           text |-> text, marks |-> s.marks, current |-> s.current,
           best |-> s.best, month |-> s.month, used |-> s.used,
           fresh |-> s.fresh]
  BY <1>0, <1>1 DEF Shape, ToldAs
<1>3. /\ t.op = s.op /\ t.at = s.at /\ t.on = s.on /\ t.days = s.days
      /\ t.text = text /\ t.marks = s.marks /\ t.current = s.current
      /\ t.best = s.best /\ t.month = s.month /\ t.used = s.used
      /\ t.fresh = s.fresh
  BY <1>2
<1>4. t \in RequestRow
  BY <1>2 DEF RequestRow, WritesInTime, InTime
<1> QED
  BY <1>0, <1>3, <1>4 DEF InTime, SameWork

----------------------------------------------------------------------------
(* Steps of one transaction *)

OthersStay(r) ==
    /\ request' = [q \in Requests |-> request'[q]]
    /\ \A q \in Requests \ {r} : request'[q] = request[q]

LEMMA Advancing ==
    ASSUME Typed, NEW r \in Requests, NEW t, Advance(r, t)
    PROVE  request'[r] = t /\ OthersStay(r)
BY DEF Typed, Advance, OthersStay

LEMMA FoundInTime ==
    ASSUME Typed, NEW s, InTime(s, today), NEW window
    PROVE  WritesInTime(Found(s, window), today)
<1>1. \A d \in Days : Found(s, window)[d] \in Reasons \union {"none", Keep}
  BY DEF Found, MarkOf, Reasons
<1>2. \A d \in Days : Found(s, window)[d] # Keep => d < s.on
  BY DEF Found
<1>3. s.on \in Int /\ s.on <= today /\ today \in Int /\ \A d \in Days : d \in Int
  BY TodayIsNumber DEF Typed, InTime, RequestRow
<1>4. \A d \in Days : Found(s, window)[d] # Keep => d < today
  BY <1>2, <1>3
<1>5. Found(s, window) = [d \in Days |-> Found(s, window)[d]]
  BY DEF Found
<1> QED
  BY <1>1, <1>4, <1>5 DEF WritesInTime

LEMMA AfterGather ==
    ASSUME Typed, NEW r \in Requests, NEW s, InTime(s, today), s.at = "begun",
           s.op # "freeze", NEW window, Gather(r, s, window)
    PROVE  /\ InTime(request'[r], today) /\ SameWork(request'[r], s)
           /\ request'[r].at = "gathered" /\ request'[r].fresh = s.fresh
           /\ s.op = "entry" => request'[r].on = s.on
           /\ request'[r].current = s.current /\ request'[r].best = s.best
           /\ \A q \in Requests \ {r} :
                 Held(request[q]) \intersect Held(request'[r]) = {}
           /\ OthersStay(r)
           /\ UNCHANGED <<today, rows, mark, series, ghosts>>
<1>1. PICK m, on : m = Found(s, window) /\ on = IF s.op = "entry" THEN s.on ELSE 0
  OBVIOUS
<1>2. PICK t : t = GatheredAs(s, m, on)
  OBVIOUS
<1>3. t = [s EXCEPT !.at = "gathered", !.marks = Found(s, window),
                    !.on = IF s.op = "entry" THEN @ ELSE 0]
  BY <1>1, <1>2 DEF GatheredAs
<1>4. /\ \A q \in Requests \ {r} : Held(request[q]) \intersect Held(t) = {}
      /\ Advance(r, t)
      /\ UNCHANGED <<today, rows, mark, series, ghosts>>
  BY <1>3 DEF Gather
<1>5. WritesInTime(m, today)
  BY <1>1, FoundInTime
<1>6. on \in Days /\ on <= today /\ (s.op = "entry" => on = s.on)
  BY <1>1, TodayIsNumber DEF Typed, InTime, RequestRow
<1>7. /\ InTime(t, today) /\ SameWork(t, s)
      /\ t.at = "gathered" /\ t.on = on
      /\ t.current = s.current /\ t.best = s.best /\ t.fresh = s.fresh
  BY <1>2, <1>5, <1>6, Gathering
<1>8. request'[r] = t /\ OthersStay(r)
  BY <1>4, Advancing
<1> QED
  BY <1>4, <1>6, <1>7, <1>8

\* What a transaction is that begins and gathers in one step.
Beginning(s) ==
    /\ InTime(s, today) /\ s.at = "begun"
    /\ s.op \in {"refresh", "review", "entry"}
    /\ s.op = "refresh" => s.days = {}
    /\ s.op = "review" => \A d \in s.days : day[d].closed
    /\ s.op = "entry" => \A d \in s.days : UpsertEntry(d) /\ s.on = today
    /\ \/ s.fresh = {}
       \/ s.fresh = {"series"} /\ s.current = series.current /\ s.best = series.best

\* The requests that begin so.
Begins(r) ==
    \/ OnDayChanged(r)
    \/ \E d \in Days :
        \/ MarkTrade(r, d) \/ Recount(r, d) \/ SubmitReview(r, d)
        \/ \E text \in Writes[d] : PutEntry(r, d, text)

LEMMA AfterBegin ==
    ASSUME Typed, NEW r \in Requests, Begins(r)
    PROVE  \E s, window : Beginning(s) /\ Gather(r, s, window)
<1>1. ASSUME NEW window, Gather(r, Begun("refresh", {}), window)
      PROVE  \E s : Beginning(s) /\ Gather(r, s, window)
  <2>1. PICK s : s = Begun("refresh", {})
    OBVIOUS
  <2>2. Beginning(s)
    BY <2>1, BegunInTime DEF Beginning
  <2> QED
    BY <1>1, <2>1, <2>2
<1>2. ASSUME NEW d \in Days, Recount(r, d)
      PROVE  \E s, window : Beginning(s) /\ Gather(r, s, window)
  <2>1. PICK s, c, b, window :
            /\ s = Begun("refresh", {}) /\ c = series.current /\ b = series.best
            /\ window = {e \in Days : d <= e \/ d = today}
    OBVIOUS
  <2>2. PICK t : t = HeldAs(s, c, b, {"series"})
    OBVIOUS
  <2>3. InTime(s, today) /\ s.op = "refresh" /\ s.at = "begun" /\ s.days = {}
    BY <2>1, BegunInTime
  <2>4. c \in 0..LastDay /\ b \in 0..LastDay
    BY <2>1 DEF Typed, SeriesRow
  <2>5. /\ InTime(t, today) /\ SameWork(t, s) /\ t.at = s.at
        /\ t.fresh = {"series"} /\ t.current = c /\ t.best = b
    BY <2>2, <2>3, <2>4, Holding
  <2>6. Beginning(t)
    BY <2>1, <2>3, <2>5 DEF Beginning, SameWork
  <2>7. Gather(r, t, window)
    BY <1>2, <2>1, <2>2 DEF Recount, HeldAs
  <2> QED
    BY <2>6, <2>7
<1>3. ASSUME NEW d \in Days, SubmitReview(r, d)
      PROVE  \E s, window : Beginning(s) /\ Gather(r, s, window)
  <2>1. PICK s : s = Begun("review", {d})
    OBVIOUS
  <2>2. Review(d) /\ Gather(r, s, Days)
    BY <1>3, <2>1 DEF SubmitReview
  <2>3. Beginning(s)
    BY <2>1, <2>2, BegunInTime DEF Beginning, Review
  <2> QED
    BY <2>2, <2>3
<1>4. ASSUME NEW d \in Days, NEW text \in Writes[d], PutEntry(r, d, text)
      PROVE  \E s, window : Beginning(s) /\ Gather(r, s, window)
  <2>1. PICK s : s = Begun("entry", {d})
    OBVIOUS
  <2>2. PICK t : t = ToldAs(s, text)
    OBVIOUS
  <2>3. UpsertEntry(d) /\ Gather(r, t, {d}) /\ text \in {"empty", "filled"}
    BY <1>4, <2>1, <2>2, DiaryAssumption DEF PutEntry, ToldAs
  <2>4. InTime(s, today) /\ s.op = "entry" /\ s.at = "begun" /\ s.days = {d}
        /\ s.fresh = {} /\ s.on = today
    BY <2>1, BegunInTime
  <2>5. /\ InTime(t, today) /\ t.op = "entry" /\ t.at = "begun" /\ t.days = {d}
        /\ t.on = today /\ t.fresh = {}
    BY <2>2, <2>3, <2>4, Telling
  <2>6. Beginning(t)
    BY <2>3, <2>5 DEF Beginning
  <2> QED
    BY <2>3, <2>6
<1> QED
  BY <1>1, <1>2, <1>3, <1>4 DEF Begins, OnDayChanged, MarkTrade

LEMMA AfterReadUnfinished ==
    ASSUME Typed, NEW r \in Requests, ReadUnfinished(r)
    PROVE  /\ InTime(request'[r], today) /\ request'[r].op = "close"
           /\ request'[r].at = "begun" /\ request'[r].days = Unfinished
           /\ request'[r].fresh = {} /\ OthersStay(r)
           /\ UNCHANGED <<today, rows, mark, series, ghosts>>
<1>1. PICK s : s = Begun("close", Unfinished)
  OBVIOUS
<1>2. Advance(r, s) /\ UNCHANGED <<today, rows, mark, series, ghosts>>
  BY <1>1 DEF ReadUnfinished
<1>3. Unfinished \in SUBSET Days
  BY DEF Unfinished
<1>4. InTime(s, today) /\ s.op = "close" /\ s.at = "begun"
      /\ s.days = Unfinished /\ s.fresh = {}
  BY <1>1, <1>3, BegunInTime
<1> QED
  BY <1>2, <1>4, Advancing

LEMMA AfterCompare ==
    ASSUME Typed, NEW r \in Requests, Compare(r)
    PROVE  /\ InTime(request'[r], today) /\ SameWork(request'[r], request[r])
           /\ request[r].at = "gathered" /\ request'[r].at = "compared"
           /\ request'[r].on = request[r].on
           /\ request'[r].marks = Differing(request[r].marks)
           /\ request'[r].fresh = request[r].fresh \union {"marks"}
           /\ request'[r].current = request[r].current
           /\ request'[r].best = request[r].best
           /\ OthersStay(r)
           /\ UNCHANGED <<today, rows, mark, series, ghosts>>
<1>1. PICK s, m, f : /\ s = request[r] /\ m = Differing(s.marks)
                     /\ f = s.fresh \union {"marks"}
  OBVIOUS
<1>2. PICK t : t = ComparedAs(s, m, f)
  OBVIOUS
<1>3. /\ s.at = "gathered" /\ Advance(r, t)
      /\ UNCHANGED <<today, rows, mark, series, ghosts>>
  BY <1>1, <1>2 DEF Compare, ComparedAs
<1>4. InTime(s, today)
  BY <1>1 DEF Typed
<1>5. WritesInTime(m, today)
  <2>1. \A d \in Days : Differing(s.marks)[d] \in {Keep, s.marks[d]}
    BY DEF Differing
  <2>2. Differing(s.marks) = [d \in Days |-> Differing(s.marks)[d]]
    BY DEF Differing
  <2> QED
    BY <1>1, <1>4, <2>1, <2>2 DEF InTime, WritesInTime
<1>6. f \in SUBSET {"marks", "series"}
  BY <1>1, <1>4 DEF InTime, RequestRow
<1>7. /\ InTime(t, today) /\ SameWork(t, s) /\ t.at = "compared"
      /\ t.on = s.on /\ t.marks = m /\ t.fresh = f
      /\ t.current = s.current /\ t.best = s.best
  <2>1. s.at = "gathered"
    BY <1>3
  <2> QED
    BY <1>2, <1>4, <1>5, <1>6, <2>1, Comparing
<1> QED
  BY <1>1, <1>3, <1>7, Advancing

LEMMA AfterWrite ==
    ASSUME Typed, NEW r \in Requests, Write(r)
    PROVE  /\ InTime(request'[r], today) /\ SameWork(request'[r], request[r])
           /\ request[r].at = "compared" /\ request'[r].at = "written"
           /\ request'[r].on = request[r].on
           /\ request'[r].marks = request[r].marks
           /\ \/ /\ request'[r].current = series.current
                 /\ request'[r].best = series.best
                 /\ request'[r].fresh = request[r].fresh \union {"series"}
              \/ /\ request'[r].current = request[r].current
                 /\ request'[r].best = request[r].best
                 /\ request'[r].fresh = request[r].fresh
           /\ OthersStay(r)
           /\ UNCHANGED <<today, rows, mark, series, ghosts>>
<1>1. PICK s, c, b, f :
         /\ s = request[r]
         /\ c = (IF s.current = Same THEN series.current ELSE s.current)
         /\ b = (IF s.current = Same THEN series.best ELSE s.best)
         /\ f = (IF s.current = Same THEN s.fresh \union {"series"} ELSE s.fresh)
  OBVIOUS
<1>2. PICK t : t = WrittenAs(s, c, b, f)
  OBVIOUS
<1>3. t = [s EXCEPT
              !.at = "written",
              !.current = IF s.current = Same THEN series.current ELSE @,
              !.best = IF s.current = Same THEN series.best ELSE @,
              !.fresh = IF s.current = Same THEN @ \union {"series"} ELSE @]
  BY <1>1, <1>2 DEF WrittenAs
<1>4. /\ s.at = "compared" /\ Advance(r, t)
      /\ UNCHANGED <<today, rows, mark, series, ghosts>>
  BY <1>1, <1>3 DEF Write
<1>5. InTime(s, today) /\ series \in SeriesRow
  BY <1>1 DEF Typed
<1>6. c \in 0..LastDay /\ b \in 0..LastDay
  <2>1. series.current \in 0..LastDay /\ series.best \in 0..LastDay
    BY <1>5 DEF SeriesRow
  <2>2. s.at = "compared" /\ s \in RequestRow
        /\ (s.at # "counted" => (s.current = Same <=> s.best = Same))
    BY <1>4, <1>5 DEF InTime
  <2>3. /\ s.current \in {Same} \union 0..LastDay
        /\ s.best \in {Same} \union 0..LastDay
        /\ s.current = Same <=> s.best = Same
    BY <2>2 DEF RequestRow
  <2> QED
    BY <1>1, <2>1, <2>3
<1>7. f \in SUBSET {"marks", "series"}
  BY <1>1, <1>5 DEF InTime, RequestRow
<1>8. /\ InTime(t, today) /\ SameWork(t, s) /\ t.at = "written"
      /\ t.on = s.on /\ t.marks = s.marks /\ t.fresh = f
      /\ t.current = c /\ t.best = b
  BY <1>2, <1>4, <1>5, <1>6, <1>7, Writing
<1>9. request'[r] = t /\ OthersStay(r)
  BY <1>4, Advancing
<1> QED
  BY <1>1, <1>4, <1>8, <1>9

----------------------------------------------------------------------------
(* The count *)

\* Today is never counted, so a run is shorter than the days are many.
LEMMA RunsAreShort ==
    ASSUME today \in Days, NEW marks, MarksInTime(marks, today)
    PROVE  \A i \in 0..LastDay + 1 : Runs(marks)[i] \in 0..LastDay
<1> TAKE i \in 0..LastDay + 1
<1>1. LastDay \in Nat /\ today \in 0..LastDay
  BY DiaryAssumption DEF Days
<1>2. KeptBefore(marks, i) \in SUBSET (0..LastDay - 1)
  <2>1. \A d \in KeptBefore(marks, i) : d \in 0..LastDay /\ d < today
    BY DEF KeptBefore, MarksInTime, Days
  <2> QED
    BY <1>1, <2>1
<1>3. IsFiniteSet(0..LastDay - 1) /\ Cardinality(0..LastDay - 1) = LastDay
  BY <1>1, FS_Interval
<1>4. Cardinality(KeptBefore(marks, i)) <= LastDay
  BY <1>2, <1>3, FS_Subset
<1>5. Cardinality(KeptBefore(marks, i)) \in Nat
  BY KeptIsFinite, FS_CardinalityType
<1>6. Runs(marks)[i] = Cardinality(KeptBefore(marks, i))
  BY RunsCount
<1> QED
  BY <1>1, <1>4, <1>5, <1>6

\* The count of marks in time, and a best series it is laid upon.
LEMMA CountIsShort ==
    ASSUME today \in Days, NEW marks, MarksInTime(marks, today),
           NEW best \in 0..LastDay
    PROVE  /\ Current(marks) \in 0..LastDay
           /\ Best(best, marks) \in 0..LastDay
           /\ Best(best, marks) >= best
<1>1. LastDay + 1 \in 0..LastDay + 1 /\ LastDay \in Nat
  BY DiaryAssumption
<1>2. Current(marks) \in 0..LastDay
  BY <1>1, RunsAreShort DEF Current
<1>3. Longest(marks) \in 0..LastDay
  BY RunsAreShort, LongestIsNumber
<1> QED
  BY <1>1, <1>2, <1>3 DEF Best

\* What is written over the value that was read is the value.
LEMMA UpdatedByChange ==
    ASSUME NEW value \in 0..LastDay, NEW column \in 0..LastDay
    PROVE  /\ Updated(column, Changed(column, value)) = value
           /\ \A read : Changed(read, value) \in {Same} \union 0..LastDay
           /\ \A read : Updated(column, Changed(read, value)) \in 0..LastDay
BY DiaryAssumption DEF Updated, Changed, Same

LEMMA MarksOfInTime ==
    ASSUME Typed, NEW s, InTime(s, today)
    PROVE  MarksInTime(MarksOf(s), today)
<1>1. \A d \in Days : MarksOf(s)[d] = IF s.marks[d] = Keep THEN mark[d] ELSE s.marks[d]
  BY DEF MarksOf
<1>2. MarksOf(s) = [d \in Days |-> MarksOf(s)[d]]
  BY DEF MarksOf
<1>3. \A d \in Days : /\ s.marks[d] \in Reasons \union {"none", Keep}
                      /\ s.marks[d] # Keep => d < today
  BY DEF InTime, WritesInTime
<1>4. \A d \in Days : /\ mark[d] \in Reasons \union {"none"}
                      /\ mark[d] \in {"none", "frozen"} \/ d < today
  BY DEF Typed, MarksInTime
<1>5. \A d \in Days : MarksOf(s)[d] \in Reasons \union {"none"}
  BY <1>1, <1>3, <1>4
<1>6. \A d \in Days : MarksOf(s)[d] \in {"none", "frozen"} \/ d < today
  BY <1>1, <1>3, <1>4
<1> QED
  BY <1>2, <1>5, <1>6 DEF MarksInTime

LEMMA AfterCount ==
    ASSUME Typed, NEW r \in Requests, Count(r),
           NEW marks, marks = MarksOf(request[r])
    PROVE  /\ InTime(request'[r], today) /\ SameWork(request'[r], request[r])
           /\ request[r].at = "written" /\ request'[r].at = "counted"
           /\ request'[r].on = request[r].on
           /\ request'[r].marks = request[r].marks
           /\ request'[r].fresh = request[r].fresh
           /\ request[r].current \in 0..LastDay /\ request[r].best \in 0..LastDay
           /\ request'[r].current = Changed(request[r].current, Current(marks))
           /\ request'[r].best = Changed(request[r].best, Best(request[r].best, marks))
           /\ OthersStay(r)
           /\ UNCHANGED <<today, rows, mark, series, ghosts>>
<1>1. PICK s, c, b : /\ s = request[r]
                     /\ c = Changed(s.current, Current(marks))
                     /\ b = Changed(s.best, Best(s.best, marks))
  OBVIOUS
<1>2. PICK t : t = CountedAs(s, c, b)
  OBVIOUS
<1>3. t = [s EXCEPT !.at = "counted",
                    !.current = Changed(@, Current(MarksOf(s))),
                    !.best = Changed(@, Best(@, MarksOf(s)))]
  BY <1>1, <1>2 DEF CountedAs
<1>4. /\ s.at = "written" /\ Advance(r, t)
      /\ UNCHANGED <<today, rows, mark, series, ghosts>>
  BY <1>1, <1>3 DEF Count
<1>5. InTime(s, today) /\ today \in Days
  BY <1>1 DEF Typed
<1>6. s.current \in 0..LastDay /\ s.best \in 0..LastDay
  BY <1>4, <1>5 DEF InTime, RequestRow
<1>7. MarksInTime(marks, today)
  BY <1>1, <1>5, MarksOfInTime
<1>8. Current(marks) \in 0..LastDay /\ Best(s.best, marks) \in 0..LastDay
  BY <1>5, <1>6, <1>7, CountIsShort
<1>9. c \in {Same} \union 0..LastDay /\ b \in {Same} \union 0..LastDay
  BY <1>1, <1>6, <1>8, UpdatedByChange
<1>10. /\ InTime(t, today) /\ SameWork(t, s) /\ t.at = "counted"
       /\ t.on = s.on /\ t.marks = s.marks /\ t.fresh = s.fresh
       /\ t.current = c /\ t.best = b
  <2>1. s.at = "written"
    BY <1>4
  <2> QED
    BY <1>2, <1>5, <1>9, <2>1, Counting
<1>11. request'[r] = t /\ OthersStay(r)
  BY <1>4, Advancing
<1> QED
  BY <1>1, <1>4, <1>6, <1>10, <1>11

\* A transaction that ends leaves the others where they are, with what they
\* have read no longer fresh.
LEMMA AfterFinish ==
    ASSUME Typed, NEW r \in Requests, Finish(r)
    PROVE  /\ request' = [q \in Requests |-> request'[q]] /\ request'[r] = Ready
           /\ overtaken' = ("series" \notin request[r].fresh)
           /\ \A q \in Requests \ {r} :
                /\ InTime(request'[q], today) /\ SameWork(request'[q], request[q])
                /\ request'[q].at = request[q].at
                /\ request'[q].on = request[q].on
                /\ request'[q].marks = request[q].marks
                /\ request'[q].fresh = {}
<1>1. /\ request' = [q \in Requests |-> request'[q]] /\ request'[r] = Ready
      /\ overtaken' = ("series" \notin request[r].fresh)
  BY DEF Finish
<1>2. ASSUME NEW q \in Requests \ {r}
      PROVE  /\ InTime(request'[q], today) /\ SameWork(request'[q], request[q])
             /\ request'[q].at = request[q].at
             /\ request'[q].on = request[q].on
             /\ request'[q].marks = request[q].marks
             /\ request'[q].fresh = {}
  <2>1. request'[q] = OvertakenAs(request[q], {})
    BY DEF Finish, OvertakenAs
  <2>2. InTime(request[q], today)
    BY DEF Typed
  <2> QED
    BY <2>1, <2>2, Overtaking
<1> QED
  BY <1>1, <1>2

\* What is committed.
LEMMA AfterCommit ==
    ASSUME Typed, NEW r \in Requests, Commit(r)
    PROVE  /\ request[r].at = "counted"
           /\ MarksInTime(mark', today) /\ mark' = MarksOf(request[r])
           /\ series' \in SeriesRow
           /\ series'.current = Updated(series.current, request[r].current)
           /\ series'.best = Updated(series.best, request[r].best)
           /\ entry' \in [Days -> {"none", "empty", "filled"}]
           /\ entry' = EntriesOf(request[r])
           /\ day' = DaysOf(request[r])
           /\ stale' = (stale \/ ClosesOver(request[r]))
           /\ Finish(r) /\ UNCHANGED <<today, facts>>
<1>1. PICK s, c, b : /\ s = request[r]
                     /\ c = Updated(series.current, s.current)
                     /\ b = Updated(series.best, s.best)
  OBVIOUS
<1>2. InTime(s, today) /\ series \in SeriesRow
  BY <1>1 DEF Typed
<1>3. /\ s.at = "counted"
      /\ mark' = MarksOf(s) /\ entry' = EntriesOf(s) /\ day' = DaysOf(s)
      /\ stale' = (stale \/ ClosesOver(s))
      /\ Finish(r) /\ UNCHANGED <<today, facts>>
  BY <1>1 DEF Commit
<1>4. series' = [series EXCEPT !.current = c, !.best = b]
  BY <1>1 DEF Commit
<1>5. c \in 0..LastDay /\ b \in 0..LastDay
  BY <1>1, <1>2 DEF Updated, InTime, RequestRow, SeriesRow
<1>6. series' \in SeriesRow /\ series'.current = c /\ series'.best = b
  BY <1>2, <1>4, <1>5 DEF SeriesRow
<1>7. entry' \in [Days -> {"none", "empty", "filled"}]
  <2>1. s.text \in {"none", "empty", "filled"}
    BY <1>2 DEF InTime, RequestRow
  <2>2. \A d \in Days : EntriesOf(s)[d] \in {s.text, entry[d]}
    BY DEF EntriesOf
  <2>3. EntriesOf(s) = [d \in Days |-> EntriesOf(s)[d]]
    BY DEF EntriesOf
  <2> QED
    BY <1>3, <2>1, <2>2, <2>3 DEF Typed
<1>8. MarksInTime(mark', today)
  BY <1>2, <1>3, MarksOfInTime
<1> QED
  BY <1>1, <1>3, <1>6, <1>7, <1>8

AskedAs(s, current, best, month, used, fresh) ==
    [s EXCEPT !.current = current, !.best = best, !.month = month, !.used = used,
              !.fresh = fresh]

LEMMA Asking ==
    ASSUME NEW s, Shape(s), NEW current, NEW best, NEW month, NEW used, NEW fresh
    PROVE  AskedAs(s, current, best, month, used, fresh)
             = [op |-> s.op, at |-> s.at, on |-> s.on, days |-> s.days,
                text |-> s.text, marks |-> s.marks, current |-> current,
                best |-> best, month |-> month, used |-> used, fresh |-> fresh]
<1>1. ASSUME NEW t, t = AskedAs(s, current, best, month, used, fresh)
      PROVE  t = [op |-> s.op, at |-> s.at, on |-> s.on, days |-> s.days,
                  text |-> s.text, marks |-> s.marks, current |-> current,
                  best |-> best, month |-> month, used |-> used, fresh |-> fresh]
  BY <1>1 DEF Shape, AskedAs
<1> QED
  BY <1>1

LEMMA AfterAskFreeze ==
    ASSUME Typed, NEW r \in Requests, NEW d \in Days, AskFreeze(r, d)
    PROVE  /\ InTime(request'[r], today) /\ request'[r].op = "freeze"
           /\ request'[r].at = "begun" /\ request'[r].days = {d}
           /\ request'[r].marks = KeepAll
           /\ request'[r].current = series.current
           /\ request'[r].best = series.best
           /\ OthersStay(r)
           /\ UNCHANGED <<today, rows, mark, series, ghosts>>
<1>1. PICK c, b, m, u : /\ c = series.current /\ b = series.best
                        /\ m = series.month /\ u = series.used
  OBVIOUS
<1>2. PICK k : k = KeepAll
  OBVIOUS
<1>3. PICK t : t = [op |-> "freeze", at |-> "begun", on |-> today, days |-> {d},
                    text |-> "none", marks |-> k, current |-> c, best |-> b,
                    month |-> m, used |-> u, fresh |-> {"marks", "series"}]
  OBVIOUS
<1>4. t = [Begun("freeze", {d}) EXCEPT
              !.current = series.current, !.best = series.best,
              !.month = series.month, !.used = series.used,
              !.fresh = {"marks", "series"}]
  <2>1. PICK s : s = Begun("freeze", {d})
    OBVIOUS
  <2>2. s = [op |-> "freeze", at |-> "begun", on |-> today, days |-> {d},
             text |-> "none", marks |-> k, current |-> Same, best |-> Same,
             month |-> NoMonth, used |-> 0, fresh |-> {}]
    BY <1>2, <2>1 DEF Begun, Ready
  <2>3. Shape(s) /\ s.op = "freeze" /\ s.at = "begun" /\ s.on = today
        /\ s.days = {d} /\ s.text = "none" /\ s.marks = k
    BY <2>2 DEF Shape
  <2>4. PICK f : f = {"marks", "series"}
    OBVIOUS
  <2>5. AskedAs(s, c, b, m, u, f)
          = [op |-> s.op, at |-> s.at, on |-> s.on, days |-> s.days,
             text |-> s.text, marks |-> s.marks, current |-> c,
             best |-> b, month |-> m, used |-> u, fresh |-> f]
    <3>1. Shape(s)
      BY <2>3
    <3> QED
      BY <3>1, Asking
  <2>6. t = AskedAs(s, c, b, m, u, f)
    BY <1>3, <2>3, <2>4, <2>5
  <2> QED
    BY <1>1, <2>1, <2>4, <2>6 DEF AskedAs
<1>5. /\ UsedIn(m, u, today) < FreezesPerMonth /\ Advance(r, t)
      /\ UNCHANGED <<today, rows, mark, series, ghosts>>
  BY <1>1, <1>4 DEF AskFreeze
<1>6. /\ c \in 0..LastDay /\ b \in 0..LastDay
      /\ m \in Months \union {NoMonth} /\ u \in 0..FreezesPerMonth
      /\ today \in Days /\ today <= today
  BY <1>1, TodayIsNumber DEF Typed, SeriesRow
<1>7. WritesInTime(k, today)
  BY <1>2 DEF WritesInTime, KeepAll
<1>8. t \in RequestRow
  BY <1>3, <1>6, <1>7 DEF RequestRow, WritesInTime
<1>9. /\ t.op = "freeze" /\ t.at = "begun" /\ t.on = today /\ t.days = {d}
      /\ t.marks = k /\ t.current = c /\ t.best = b /\ t.month = m /\ t.used = u
  BY <1>3
<1>10. InTime(t, today)
  BY <1>5, <1>6, <1>7, <1>8, <1>9 DEF InTime, Same
<1>11. request'[r] = t /\ OthersStay(r)
  BY <1>5, Advancing
<1> QED
  BY <1>1, <1>2, <1>5, <1>9, <1>10, <1>11

LEMMA AfterFreeze ==
    ASSUME Typed, NEW r \in Requests, Freeze(r)
    PROVE  /\ request[r].op = "freeze"
           /\ request[r].current \in 0..LastDay /\ request[r].best \in 0..LastDay
           /\ mark' = [d \in Days |-> IF d \in request[r].days THEN "frozen"
                                      ELSE mark[d]]
           /\ MarksInTime(mark', today)
           /\ series' \in SeriesRow
           /\ series'.current = Updated(series.current,
                                  Changed(request[r].current, Current(mark')))
           /\ series'.best = Updated(series.best,
                               Changed(request[r].best, Best(request[r].best, mark')))
           /\ Finish(r) /\ UNCHANGED <<today, rows, stale>>
<1>1. PICK s : s = request[r]
  OBVIOUS
<1>2. /\ s.op = "freeze"
      /\ mark' = [d \in Days |-> IF d \in s.days THEN "frozen" ELSE mark[d]]
      /\ Finish(r) /\ UNCHANGED <<today, rows, stale>>
  BY <1>1 DEF Freeze
<1>3. InTime(s, today) /\ series \in SeriesRow /\ today \in Days
  BY <1>1 DEF Typed
<1>4. s.current \in 0..LastDay /\ s.best \in 0..LastDay
  BY <1>2, <1>3 DEF InTime, RequestRow
<1>5. MarksInTime(mark', today)
  <2>1. \A d \in Days : mark'[d] = "frozen" \/ mark'[d] = mark[d]
    BY <1>2
  <2>2. mark' = [d \in Days |-> mark'[d]]
    BY <1>2
  <2>3. "frozen" \in Reasons
    BY DEF Reasons
  <2> QED
    BY <2>1, <2>2, <2>3 DEF Typed, MarksInTime
<1>6. Current(mark') \in 0..LastDay /\ Best(s.best, mark') \in 0..LastDay
  BY <1>3, <1>4, <1>5, CountIsShort
<1>7. PICK c, b, m, u :
         /\ c = Updated(series.current, Changed(s.current, Current(mark')))
         /\ b = Updated(series.best, Changed(s.best, Best(s.best, mark')))
         /\ m = Updated(series.month, Changed(s.month, MonthOf[s.on]))
         /\ u = Updated(series.used, Changed(s.used, UsedIn(s.month, s.used, s.on) + 1))
  OBVIOUS
<1>8. series' = [current |-> c, best |-> b, month |-> m, used |-> u]
  BY <1>1, <1>7 DEF Freeze
<1>9. c \in 0..LastDay /\ b \in 0..LastDay
  BY <1>3, <1>6, <1>7, UpdatedByChange DEF SeriesRow
<1>10. m \in Months \union {NoMonth}
  <2>1. s.on \in Days /\ MonthOf[s.on] \in Months
    BY <1>3 DEF InTime, RequestRow, Months
  <2>2. series.month \in Months \union {NoMonth}
    BY <1>3 DEF SeriesRow
  <2>3. m \in {series.month, MonthOf[s.on]}
    BY <1>7 DEF Updated, Changed
  <2> QED
    BY <2>1, <2>2, <2>3
<1>11. u \in 0..FreezesPerMonth
  <2>1. UsedIn(s.month, s.used, s.on) + 1 \in 0..FreezesPerMonth
    <3>1. s.used \in 0..FreezesPerMonth /\ FreezesPerMonth \in Nat
          /\ UsedIn(s.month, s.used, s.on) < FreezesPerMonth
      BY <1>2, <1>3, DiaryAssumption DEF InTime, RequestRow
    <3> QED
      BY <3>1 DEF UsedIn
  <2>2. series.used \in 0..FreezesPerMonth
    BY <1>3 DEF SeriesRow
  <2>3. u \in {series.used, UsedIn(s.month, s.used, s.on) + 1}
    BY <1>7 DEF Updated, Changed
  <2> QED
    BY <2>1, <2>2, <2>3
<1>12. series' \in SeriesRow /\ series'.current = c /\ series'.best = b
  BY <1>8, <1>9, <1>10, <1>11 DEF SeriesRow
<1> QED
  BY <1>1, <1>2, <1>4, <1>5, <1>7, <1>12

----------------------------------------------------------------------------
(* Types hold *)

LEMMA TypedInit == Init => Typed
<1> SUFFICES ASSUME Init PROVE Typed
  OBVIOUS
<1>1. 0 \in Days /\ 0 \in Nat /\ 0 \in 0..LastDay /\ 0 \in 0..FreezesPerMonth
  BY DiaryAssumption DEF Days
<1>2. InTime(Ready, 0)
  BY ReadyInTime
<1>3. MarksInTime(mark, 0)
  BY DEF Init, MarksInTime
<1>4. series \in SeriesRow
  BY <1>1 DEF Init, NoSeries, SeriesRow
<1> QED
  BY <1>1, <1>2, <1>3, <1>4 DEF Init, Typed

\* A step of one transaction that commits nothing.
LEMMA WorkTyped ==
    ASSUME Typed, NEW r \in Requests, InTime(request'[r], today), OthersStay(r),
           UNCHANGED <<today, rows, mark, series, ghosts>>
    PROVE  Typed'
<1>1. \A q \in Requests : InTime(request'[q], today')
  BY DEF OthersStay, Typed
<1> QED
  BY <1>1 DEF Typed, OthersStay, rows, ghosts

\* A step that commits.
LEMMA FinishTyped ==
    ASSUME Typed, NEW r \in Requests, Finish(r), UNCHANGED <<today, facts>>,
           MarksInTime(mark', today), series' \in SeriesRow, stale' \in BOOLEAN,
           entry' \in [Days -> {"none", "empty", "filled"}]
    PROVE  Typed'
<1>1. \A q \in Requests : InTime(request'[q], today')
  <2>1. InTime(Ready, today)
    BY TodayIsNumber, ReadyInTime DEF Typed
  <2> QED
    BY <2>1, AfterFinish
<1>2. request' = [q \in Requests |-> request'[q]] /\ overtaken' \in BOOLEAN
  BY AfterFinish
<1> QED
  BY <1>1, <1>2 DEF Typed

\* The other steps: time, the trader's day and what is told of it.
LEMMA RestTyped ==
    ASSUME Typed, UNCHANGED <<entry, mark, series, request, ghosts>>,
           today' \in Days, today <= today',
           facts' \in [Days -> {"quiet", "traded", "violated", "breached"}]
    PROVE  Typed'
<1>1. today \in Int /\ today' \in Int
  BY DiaryAssumption DEF Typed, Days
<1>2. MarksInTime(mark, today') /\ \A r \in Requests : InTime(request[r], today')
  BY <1>1, LaterInTime DEF Typed
<1> QED
  BY <1>2 DEF Typed, ghosts

\* The steps that leave the transactions alone.
Rests ==
    \/ NextDay \/ CloseSession \/ RemarkAll
    \/ \E verdict \in {"granted", "denied"} : SubmitCheck(verdict)
    \/ \E d \in Days : \E f \in Happens[d] : NewFacts(d, f)

\* The steps of transactions, by what they leave behind.
Gathers(r) == Begins(r) \/ CloseFinished(r)

LEMMA Steps ==
    ASSUME Typed, [Next]_vars
    PROVE  \/ Rests \/ UNCHANGED vars
           \/ \E r \in Requests :
                \/ Gathers(r) \/ ReadUnfinished(r) \/ Compare(r) \/ Write(r)
                \/ Count(r) \/ Commit(r) \/ Freeze(r) \/ Fail(r)
                \/ \E d \in Days : AskFreeze(r, d)
<1>1. ASSUME NEW verdict \in Checks[today], SubmitCheck(verdict)
      PROVE  Rests
  <2>1. verdict \in {"granted", "denied"}
    BY DiaryAssumption DEF Typed
  <2> QED
    BY <1>1, <2>1 DEF Rests
<1>2. CASE NextDay \/ CloseSession \/ RemarkAll
           \/ \E d \in Days : \E f \in Happens[d] : NewFacts(d, f)
  BY <1>2 DEF Rests
<1>3. ASSUME NEW r \in Requests, Begin(r)
      PROVE  Gathers(r) \/ ReadUnfinished(r) \/ \E d \in Days : AskFreeze(r, d)
  BY <1>3 DEF Begin, Gathers, Begins
<1>4. ASSUME NEW r \in Requests, GoOn(r)
      PROVE  \/ Gathers(r) \/ Compare(r) \/ Write(r) \/ Count(r) \/ Commit(r)
             \/ Freeze(r) \/ Fail(r)
  BY <1>4 DEF GoOn, Gathers
<1> QED
  BY <1>1, <1>2, <1>3, <1>4 DEF Next

LEMMA AfterGathers ==
    ASSUME Typed, NEW r \in Requests, Gathers(r)
    PROVE  \E s : /\ \/ Beginning(s)
                     \/ s = request[r] /\ s.op = "close" /\ s.at = "begun"
                  /\ InTime(request'[r], today) /\ SameWork(request'[r], s)
                  /\ request'[r].at = "gathered" /\ request'[r].fresh = s.fresh
                  /\ s.op = "entry" => request'[r].on = s.on
                  /\ request'[r].current = s.current
                  /\ request'[r].best = s.best
                  /\ \A q \in Requests \ {r} :
                        Held(request[q]) \intersect Held(request'[r]) = {}
                  /\ OthersStay(r)
                  /\ UNCHANGED <<today, rows, mark, series, ghosts>>
<1>1. CASE Begins(r)
  <2>1. PICK s, window : Beginning(s) /\ Gather(r, s, window)
    BY <1>1, AfterBegin
  <2>2. InTime(s, today) /\ s.at = "begun" /\ s.op # "freeze"
    BY <2>1 DEF Beginning
  <2> QED
    BY <2>1, <2>2, AfterGather
<1>2. CASE CloseFinished(r)
  <2>1. PICK s : s = request[r]
    OBVIOUS
  <2>2. s.op = "close" /\ s.at = "begun" /\ Gather(r, s, Days)
    BY <1>2, <2>1 DEF CloseFinished
  <2>3. InTime(s, today)
    BY <2>1 DEF Typed
  <2> QED
    BY <2>1, <2>2, <2>3, AfterGather
<1> QED
  BY <1>1, <1>2 DEF Gathers

LEMMA AfterFail ==
    ASSUME Typed, NEW r \in Requests, Fail(r)
    PROVE  /\ request'[r] = Ready /\ InTime(request'[r], today) /\ OthersStay(r)
           /\ UNCHANGED <<today, rows, mark, series, ghosts>>
<1>1. InTime(Ready, today)
  BY TodayIsNumber, ReadyInTime DEF Typed
<1> QED
  BY <1>1, Advancing DEF Fail

LEMMA TypedStep == Typed /\ [Next]_vars => Typed'
<1> SUFFICES ASSUME Typed, [Next]_vars PROVE Typed'
  OBVIOUS
<1>1. CASE Rests
  <2>1. UNCHANGED <<entry, mark, series, request, ghosts>>
    BY <1>1 DEF Rests, NextDay, CloseSession, RemarkAll, SubmitCheck, NewFacts,
                rows
  <2>2. today' \in Days /\ today <= today'
    <3>1. today' = today \/ (today < LastDay /\ today' = today + 1)
      BY <1>1 DEF Rests, NextDay, CloseSession, RemarkAll, SubmitCheck, NewFacts
    <3> QED
      BY <3>1, DiaryAssumption DEF Typed, Days
  <2>3. facts' \in [Days -> {"quiet", "traded", "violated", "breached"}]
    <3>1. CASE RemarkAll
      BY <3>1 DEF RemarkAll, Typed, Violated
    <3>2. ASSUME NEW d \in Days, NEW f \in Happens[d], NewFacts(d, f)
          PROVE  facts' \in [Days -> {"quiet", "traded", "violated", "breached"}]
      <4>1. f \in {"traded", "violated", "breached"}
        BY DiaryAssumption
      <4> QED
        BY <3>2, <4>1 DEF NewFacts, Typed
    <3>3. CASE UNCHANGED facts
      BY <3>3 DEF Typed
    <3> QED
      BY <1>1, <3>1, <3>2, <3>3 DEF Rests, NextDay, CloseSession, SubmitCheck, rows
  <2> QED
    BY <2>1, <2>2, <2>3, RestTyped
<1>2. CASE UNCHANGED vars
  BY <1>2 DEF vars, rows, ghosts, Typed
<1>3. ASSUME NEW r \in Requests,
             \/ Gathers(r) \/ ReadUnfinished(r) \/ Compare(r) \/ Write(r)
             \/ Count(r) \/ Fail(r) \/ \E d \in Days : AskFreeze(r, d)
      PROVE  Typed'
  <2>1. /\ InTime(request'[r], today) /\ OthersStay(r)
        /\ UNCHANGED <<today, rows, mark, series, ghosts>>
    BY <1>3, AfterGathers, AfterReadUnfinished, AfterCompare, AfterWrite,
       AfterCount, AfterFail, AfterAskFreeze
  <2> QED
    BY <2>1, WorkTyped
<1>4. ASSUME NEW r \in Requests, Commit(r)
      PROVE  Typed'
  <2>1. stale' \in BOOLEAN
    BY <1>4, AfterCommit DEF ClosesOver, Typed
  <2> QED
    BY <1>4, <2>1, AfterCommit, FinishTyped
<1>5. ASSUME NEW r \in Requests, Freeze(r)
      PROVE  Typed'
  <2>1. UNCHANGED <<today, facts, entry, stale>>
    BY <1>5, AfterFreeze DEF rows
  <2> QED
    BY <1>5, <2>1, AfterFreeze, FinishTyped DEF Typed
<1> QED
  BY <1>1, <1>2, <1>3, <1>4, <1>5, Steps

----------------------------------------------------------------------------
(* The order of the days *)

\* A session is opened by an admission, closed once, reviewed when closed; a
\* closed one has its review asked for.
DaysInOrder ==
    /\ today \in Days
    /\ day \in [Days -> DayRow]
    /\ \A d \in Days :
        /\ day[d].opened <=> day[d].admission = "granted"
        /\ day[d].closed => day[d].opened /\ day[d].review # "none"
        /\ day[d].review # "none" => day[d].closed
        /\ day[d].review = "done" => day[d].reviewed
        /\ day[d].reviewed => day[d].closed

\* A transaction that is to close days read them open: they still are open, or
\* closed by now.  One that reviews a day read it closed.
Backed(s) ==
    /\ s.op = "close" => \A d \in s.days : d \in Days /\ day[d].opened
    /\ s.op = "review" => \A d \in s.days : d \in Days /\ day[d].closed

Order ==
    /\ DaysInOrder
    /\ \A r \in Requests : Backed(request[r])
    /\ PendingReviewIsOpen

LEMMA OrderInit == Init => Order
  BY DiaryAssumption
  DEF Init, Order, DaysInOrder, Backed, PendingReviewIsOpen, Days, EmptyDay,
      DayRow, Ready

\* Closing days leaves the others as they were and asks for the review that
\* was not asked for yet.
LEMMA ClosingDays ==
    ASSUME DaysInOrder, NEW days \in SUBSET Days,
           \A d \in days : day[d].opened
    PROVE  /\ ClosedDays(days) \in [Days -> DayRow]
           /\ \A d \in Days :
                /\ ClosedDays(days)[d].opened = day[d].opened
                /\ ClosedDays(days)[d].admission = day[d].admission
                /\ ClosedDays(days)[d].reviewed = day[d].reviewed
                /\ ClosedDays(days)[d].closed = (d \in days \/ day[d].closed)
                /\ ClosedDays(days)[d].review =
                     IF d \in days /\ day[d].review = "none" THEN "pending"
                     ELSE day[d].review
<1>1. \A d \in Days : Closed(day[d]) \in DayRow
  BY DEF DaysInOrder, Closed, DayRow
<1>2. \A d \in Days : /\ Closed(day[d]).opened = day[d].opened
                      /\ Closed(day[d]).admission = day[d].admission
                      /\ Closed(day[d]).reviewed = day[d].reviewed
                      /\ Closed(day[d]).closed
                      /\ Closed(day[d]).review =
                           IF day[d].review = "none" THEN "pending"
                           ELSE day[d].review
  BY DEF DaysInOrder, Closed, DayRow
<1>3. \A d \in Days :
        ClosedDays(days)[d] = IF d \in days THEN Closed(day[d]) ELSE day[d]
  BY DEF ClosedDays
<1>4. \A d \in Days : day[d] \in DayRow
  BY DEF DaysInOrder
<1>5. \A d \in Days : ClosedDays(days)[d].closed = (d \in days \/ day[d].closed)
  <2>1. ASSUME NEW d \in Days, d \in days
        PROVE  Closed(day[d]).closed = TRUE
    BY <1>1, <1>2, <2>1 DEF Closed, DayRow
  <2>2. \A d \in Days : day[d].closed \in BOOLEAN
    BY <1>4 DEF DayRow
  <2> QED
    BY <1>3, <2>1, <2>2
<1>6. ClosedDays(days) \in [Days -> DayRow]
  BY <1>1, <1>4 DEF ClosedDays
<1> QED
  BY <1>2, <1>3, <1>5, <1>6

\* Days that are closed in good order are in good order.
LEMMA ClosedInOrder ==
    ASSUME Order, NEW days \in SUBSET Days, \A d \in days : Open(d),
           day' = ClosedDays(days), UNCHANGED <<today, request, ghosts>>
    PROVE  Order'
<1>1. DaysInOrder /\ \A d \in days : day[d].opened
  BY DEF Order, Open
<1>2. /\ day' \in [Days -> DayRow]
      /\ \A d \in Days :
           /\ day'[d].opened = day[d].opened
           /\ day'[d].admission = day[d].admission
           /\ day'[d].reviewed = day[d].reviewed
           /\ day'[d].closed = (d \in days \/ day[d].closed)
           /\ day'[d].review = IF d \in days /\ day[d].review = "none"
                               THEN "pending" ELSE day[d].review
  BY <1>1, ClosingDays
<1>3. DaysInOrder'
  <2>1. ASSUME NEW d \in Days
        PROVE  /\ day'[d].opened <=> day'[d].admission = "granted"
               /\ day'[d].closed => day'[d].opened /\ day'[d].review # "none"
               /\ day'[d].review # "none" => day'[d].closed
               /\ day'[d].review = "done" => day'[d].reviewed
               /\ day'[d].reviewed => day'[d].closed
    <3>1. /\ day[d].opened <=> day[d].admission = "granted"
          /\ day[d].closed => day[d].opened /\ day[d].review # "none"
          /\ day[d].review # "none" => day[d].closed
          /\ day[d].review = "done" => day[d].reviewed
          /\ day[d].reviewed => day[d].closed
          /\ d \in days => day[d].opened
      BY <1>1 DEF DaysInOrder
    <3> QED
      BY <1>2, <3>1
  <2>2. today' \in Days
    BY <1>1 DEF DaysInOrder
  <2> QED
    BY <1>2, <2>1, <2>2 DEF DaysInOrder
<1>4. \A r \in Requests : Backed(request[r])'
  BY <1>2 DEF Order, Backed
<1>5. PendingReviewIsOpen'
  <2>1. ASSUME NEW d \in days PROVE ~day[d].reviewed
    BY <1>1 DEF Order, DaysInOrder, Open
  <2> QED
    BY <1>1, <1>2, <2>1 DEF Order, PendingReviewIsOpen, ghosts
<1> QED
  BY <1>3, <1>4, <1>5 DEF Order

LEMMA CheckInOrder ==
    ASSUME Order, NEW verdict \in {"granted", "denied"}, SubmitCheck(verdict)
    PROVE  Order'
<1>1. PICK rowsThen : rowsThen = ClosedDays(Unfinished)
  OBVIOUS
<1>2. /\ rowsThen[today].admission = "none"
      /\ day' = [rowsThen EXCEPT ![today] = Checked(@, verdict)]
      /\ UNCHANGED <<today, request, stale>>
  BY <1>1 DEF SubmitCheck, Submit, ghosts
<1>3. /\ DaysInOrder
      /\ Unfinished \in SUBSET Days
      /\ \A d \in Unfinished : day[d].opened /\ ~day[d].closed
  BY DEF Order, Unfinished, Open
<1>4. /\ rowsThen \in [Days -> DayRow]
      /\ \A d \in Days :
           /\ rowsThen[d].opened = day[d].opened
           /\ rowsThen[d].admission = day[d].admission
           /\ rowsThen[d].reviewed = day[d].reviewed
           /\ rowsThen[d].closed = (d \in Unfinished \/ day[d].closed)
           /\ rowsThen[d].review = IF d \in Unfinished /\ day[d].review = "none"
                                   THEN "pending" ELSE day[d].review
  BY <1>1, <1>3, ClosingDays
<1>5. today \in Days /\ today \notin Unfinished
  BY DiaryAssumption DEF Order, DaysInOrder, Unfinished, Days
<1>6. /\ day' \in [Days -> DayRow]
      /\ \A d \in Days : d # today => day'[d] = rowsThen[d]
      /\ day'[today].admission = verdict
      /\ day'[today].opened = (verdict = "granted")
      /\ day'[today].closed = day[today].closed
      /\ day'[today].review = day[today].review
      /\ day'[today].reviewed = day[today].reviewed
  <2>1. rowsThen[today] \in DayRow
    BY <1>4, <1>5
  <2>2. /\ Checked(rowsThen[today], verdict) \in DayRow
        /\ Checked(rowsThen[today], verdict).admission = verdict
        /\ Checked(rowsThen[today], verdict).opened = (verdict = "granted")
        /\ Checked(rowsThen[today], verdict).closed = rowsThen[today].closed
        /\ Checked(rowsThen[today], verdict).review = rowsThen[today].review
        /\ Checked(rowsThen[today], verdict).reviewed = rowsThen[today].reviewed
    BY <2>1 DEF Checked, DayRow
  <2>3. rowsThen[today].closed = day[today].closed
    BY <1>3, <1>4, <1>5 DEF DaysInOrder, DayRow
  <2> QED
    BY <1>2, <1>4, <1>5, <2>2, <2>3
<1>7. /\ ~day[today].opened /\ ~day[today].closed /\ ~day[today].reviewed
      /\ day[today].review = "none"
  BY <1>2, <1>3, <1>4, <1>5 DEF DaysInOrder
<1>8. DaysInOrder'
  <2>1. ASSUME NEW d \in Days, d # today
        PROVE  /\ day'[d].opened <=> day'[d].admission = "granted"
               /\ day'[d].closed => day'[d].opened /\ day'[d].review # "none"
               /\ day'[d].review # "none" => day'[d].closed
               /\ day'[d].review = "done" => day'[d].reviewed
               /\ day'[d].reviewed => day'[d].closed
    <3>1. /\ day'[d].opened = day[d].opened
          /\ day'[d].admission = day[d].admission
          /\ day'[d].reviewed = day[d].reviewed
          /\ day'[d].closed = (d \in Unfinished \/ day[d].closed)
          /\ day'[d].review = IF d \in Unfinished /\ day[d].review = "none"
                              THEN "pending" ELSE day[d].review
      BY <1>4, <1>6, <2>1
    <3> QED
      BY <1>3, <3>1 DEF DaysInOrder
  <2>2. /\ day'[today].opened <=> day'[today].admission = "granted"
        /\ ~day'[today].closed /\ ~day'[today].reviewed
        /\ day'[today].review = "none"
    BY <1>6, <1>7
  <2>3. today' \in Days /\ day' \in [Days -> DayRow]
    BY <1>2, <1>5, <1>6
  <2> QED
    BY <1>2, <2>1, <2>2, <2>3 DEF DaysInOrder
<1>9. \A r \in Requests : Backed(request[r])'
  <2>1. \A d \in Days : d # today => /\ day[d].opened => day'[d].opened
                                     /\ day[d].closed => day'[d].closed
    BY <1>4, <1>6
  <2>2. \A d \in Days : /\ day[d].opened => day'[d].opened
                        /\ day[d].closed => day'[d].closed
    BY <1>7, <2>1
  <2> QED
    BY <1>2, <2>2 DEF Order, Backed
<1>10. PendingReviewIsOpen'
  <2>1. ASSUME NEW d \in Unfinished PROVE ~day[d].reviewed
    BY <1>3 DEF DaysInOrder
  <2> QED
    BY <1>2, <1>3, <1>4, <1>6, <1>7, <2>1 DEF Order, PendingReviewIsOpen
<1> QED
  BY <1>8, <1>9, <1>10 DEF Order

\* A step that leaves the days alone, and a transaction that is backed.
LEMMA WorkInOrder ==
    ASSUME Order, NEW r \in Requests, Backed(request'[r]), OthersStay(r),
           UNCHANGED <<today, rows, mark, series, ghosts>>
    PROVE  Order'
<1>1. UNCHANGED <<today, day, stale>>
  BY DEF rows, ghosts
<1>2. \A q \in Requests : Backed(request'[q])
  BY DEF Order, OthersStay
<1>3. \A q \in Requests : Backed(request[q])'
  BY <1>1, <1>2 DEF Backed
<1> QED
  BY <1>1, <1>3 DEF Order, DaysInOrder, PendingReviewIsOpen

\* Closing a day over one that was closed meanwhile is what "stale" notes.
LEMMA CommitInOrder ==
    ASSUME Typed, Order, NEW r \in Requests, Commit(r)
    PROVE  Order'
<1>1. PICK s : s = request[r]
  OBVIOUS
<1>2. /\ day' = DaysOf(s) /\ UNCHANGED today
      /\ stale' = (stale \/ ClosesOver(s)) /\ Finish(r)
  BY <1>1, AfterCommit
<1>3. /\ day \in [Days -> DayRow] /\ DaysInOrder /\ Backed(s)
      /\ PendingReviewIsOpen
  BY <1>1 DEF Order, DaysInOrder
<1>4. ASSUME NEW d \in Days
      PROVE  \/ day'[d] = day[d]
             \/ /\ d \in s.days /\ s.op = "close" /\ day[d].opened
                /\ day'[d] = ClosedUnasked(day[d])
             \/ /\ d \in s.days /\ s.op = "review" /\ day[d].closed
                /\ day'[d] = Reviewed(day[d])
  BY <1>2, <1>3 DEF DaysOf, Backed
<1>5. ASSUME NEW d \in Days
      PROVE  /\ ClosedUnasked(day[d]) \in DayRow
             /\ ClosedUnasked(day[d]).opened = day[d].opened
             /\ ClosedUnasked(day[d]).admission = day[d].admission
             /\ ClosedUnasked(day[d]).closed = TRUE
             /\ ClosedUnasked(day[d]).review = "pending"
             /\ ClosedUnasked(day[d]).reviewed = day[d].reviewed
             /\ Reviewed(day[d]) \in DayRow
             /\ Reviewed(day[d]).opened = day[d].opened
             /\ Reviewed(day[d]).admission = day[d].admission
             /\ Reviewed(day[d]).closed = day[d].closed
             /\ Reviewed(day[d]).review = "done"
             /\ Reviewed(day[d]).reviewed = TRUE
  BY <1>3 DEF ClosedUnasked, Reviewed, DayRow
<1>6. day' \in [Days -> DayRow]
  <2>1. \A d \in Days : day'[d] \in DayRow
    BY <1>3, <1>4, <1>5
  <2>2. day' = [d \in Days |-> day'[d]]
    BY <1>2 DEF DaysOf
  <2> QED
    BY <2>1, <2>2
<1>7. DaysInOrder'
  <2>1. ASSUME NEW d \in Days
        PROVE  /\ day'[d].opened <=> day'[d].admission = "granted"
               /\ day'[d].closed => day'[d].opened /\ day'[d].review # "none"
               /\ day'[d].review # "none" => day'[d].closed
               /\ day'[d].review = "done" => day'[d].reviewed
               /\ day'[d].reviewed => day'[d].closed
    <3>0. DaysInOrder
      BY <1>3
    <3>1. CASE day'[d] = day[d]
      BY <3>0, <3>1 DEF DaysInOrder
    <3>2. CASE day[d].opened /\ day'[d] = ClosedUnasked(day[d])
      BY <3>0, <3>2, <1>5 DEF DaysInOrder
    <3>3. CASE day[d].closed /\ day'[d] = Reviewed(day[d])
      BY <3>0, <3>3, <1>5 DEF DaysInOrder
    <3> QED
      BY <1>4, <3>1, <3>2, <3>3
  <2> QED
    BY <1>2, <1>3, <1>6, <2>1 DEF DaysInOrder
<1>8. \A q \in Requests : Backed(request[q])'
  <2>1. \A d \in Days : /\ day[d].opened => day'[d].opened
                        /\ day[d].closed => day'[d].closed
    BY <1>4, <1>5
  <2>2. ASSUME NEW q \in Requests PROVE Backed(request'[q])
    <3>1. CASE q = r
      BY <1>2, <3>1, AfterFinish DEF Backed, Ready
    <3>2. CASE q # r
      <4>1. SameWork(request'[q], request[q])
        BY <1>2, <3>2, AfterFinish
      <4> QED
        BY <4>1 DEF Order, Backed, SameWork
    <3> QED
      BY <3>1, <3>2
  <2> QED
    BY <2>1, <2>2 DEF Backed
<1>9. PendingReviewIsOpen'
  <2> SUFFICES ASSUME ~stale', NEW d \in Days, day'[d].review = "pending"
               PROVE  ~day'[d].reviewed
    BY DEF PendingReviewIsOpen
  <2>1. CASE day'[d] = day[d]
    BY <1>2, <1>3, <2>1 DEF PendingReviewIsOpen
  <2>2. CASE d \in s.days /\ s.op = "close" /\ day'[d] = ClosedUnasked(day[d])
    <3>1. ~day[d].closed
      BY <1>2, <2>2 DEF ClosesOver
    <3>2. ~day[d].reviewed
      BY <1>3, <3>1 DEF DaysInOrder
    <3> QED
      BY <1>5, <2>2, <3>2
  <2> QED
    BY <1>4, <1>5, <2>1, <2>2
<1> QED
  BY <1>7, <1>8, <1>9 DEF Order

LEMMA FreezeInOrder ==
    ASSUME Typed, Order, NEW r \in Requests, Freeze(r)
    PROVE  Order'
<1>1. Finish(r) /\ UNCHANGED <<today, day, stale>>
  BY AfterFreeze DEF rows
<1>2. ASSUME NEW q \in Requests PROVE Backed(request'[q])
  <2>1. CASE q = r
    BY <1>1, <2>1, AfterFinish DEF Backed, Ready
  <2>2. CASE q # r
    <3>1. SameWork(request'[q], request[q])
      BY <1>1, <2>2, AfterFinish
    <3> QED
      BY <3>1 DEF Order, Backed, SameWork
  <2> QED
    BY <2>1, <2>2
<1>3. \A q \in Requests : Backed(request[q])'
  BY <1>1, <1>2 DEF Backed
<1> QED
  BY <1>1, <1>3 DEF Order, DaysInOrder, PendingReviewIsOpen

LEMMA RestInOrder ==
    ASSUME Typed, Order, Rests
    PROVE  Order'
<1>1. CASE NextDay \/ RemarkAll \/ \E d \in Days : \E f \in Happens[d] : NewFacts(d, f)
  <2>1. UNCHANGED <<day, request, stale>>
    BY <1>1 DEF NextDay, RemarkAll, NewFacts, rows, ghosts
  <2>2. today' \in Days
    BY <1>1, DiaryAssumption DEF NextDay, RemarkAll, NewFacts, Typed, Days
  <2> QED
    BY <2>1, <2>2 DEF Order, DaysInOrder, Backed, PendingReviewIsOpen
<1>2. CASE CloseSession
  <2>1. /\ day' = ClosedDays({today}) /\ Open(today) /\ today \in Days
        /\ UNCHANGED <<today, request, ghosts>>
    BY <1>2 DEF CloseSession, CloseByHand, Typed
  <2> QED
    BY <2>1, ClosedInOrder
<1> QED
  BY <1>1, <1>2, CheckInOrder DEF Rests

LEMMA OrderStep == Typed /\ Order /\ [Next]_vars => Order'
<1> SUFFICES ASSUME Typed, Order, [Next]_vars PROVE Order'
  OBVIOUS
<1>1. CASE UNCHANGED vars
  BY <1>1 DEF vars, rows, ghosts, Order, DaysInOrder, Backed, PendingReviewIsOpen
<1>2. ASSUME NEW r \in Requests,
             \/ Gathers(r) \/ ReadUnfinished(r) \/ Compare(r) \/ Write(r)
             \/ Count(r) \/ Fail(r) \/ \E d \in Days : AskFreeze(r, d)
      PROVE  Order'
  <2>1. OthersStay(r) /\ UNCHANGED <<today, rows, mark, series, ghosts>>
    BY <1>2, AfterGathers, AfterReadUnfinished, AfterCompare, AfterWrite,
       AfterCount, AfterFail, AfterAskFreeze
  <2>2. Backed(request[r])
    BY DEF Order
  <2>3. CASE Gathers(r)
    <3>1. PICK s : /\ Beginning(s) \/ s = request[r]
                   /\ InTime(request'[r], today) /\ SameWork(request'[r], s)
      BY <2>3, AfterGathers
    <3>2. Backed(s)
      BY <2>2, <3>1 DEF Beginning, Backed, InTime, RequestRow
    <3> QED
      BY <2>1, <3>1, <3>2, WorkInOrder DEF Backed, SameWork
  <2>4. CASE ReadUnfinished(r)
    <3>1. request'[r].op = "close" /\ request'[r].days = Unfinished
      BY <2>4, AfterReadUnfinished
    <3>2. Backed(request'[r])
      BY <3>1 DEF Backed, Unfinished, Open
    <3> QED
      BY <2>1, <3>2, WorkInOrder
  <2>5. CASE Compare(r) \/ Write(r) \/ Count(r)
    <3>1. SameWork(request'[r], request[r])
      BY <2>5, AfterCompare, AfterWrite, AfterCount
    <3>2. Backed(request'[r])
      BY <2>2, <3>1 DEF Backed, SameWork
    <3> QED
      BY <2>1, <3>2, WorkInOrder
  <2>6. CASE Fail(r) \/ \E d \in Days : AskFreeze(r, d)
    <3>1. request'[r].op \in {"none", "freeze"}
      BY <2>6, AfterFail, AfterAskFreeze DEF Ready
    <3>2. Backed(request'[r])
      BY <3>1 DEF Backed
    <3> QED
      BY <2>1, <3>2, WorkInOrder
  <2> QED
    BY <1>2, <2>3, <2>4, <2>5, <2>6
<1> QED
  BY <1>1, <1>2, RestInOrder, CommitInOrder, FreezeInOrder, Steps

LEMMA TypesHold == Spec => []Typed
  BY TypedInit, TypedStep, PTL DEF Spec

LEMMA InOrder == Spec => []Order
  BY OrderInit, OrderStep, TypesHold, PTL DEF Spec

\* Unless two requests closed a day over each other, a review that is asked
\* for can be given, for any number of days and requests.
THEOREM PendingReviewsCanBeGiven == Spec => []PendingReviewIsOpen
<1>1. Order => PendingReviewIsOpen
  BY DEF Order
<1> QED
  BY InOrder, <1>1, PTL

----------------------------------------------------------------------------
(* Admission *)

\* Only the check of today gives a day its admission.
LEMMA AdmissionIsChecked ==
    ASSUME Typed, Order, [Next]_vars, NEW d \in Days,
           day[d].admission = "none", day'[d].admission # "none"
    PROVE  d = today /\ \E verdict : SubmitCheck(verdict)
<1>0. day \in [Days -> DayRow] /\ today \in Days
  BY DEF Order, DaysInOrder
<1>1. CASE UNCHANGED day
  BY <1>1
<1>2. ASSUME NEW verdict, SubmitCheck(verdict)
      PROVE  d = today
  <2>1. ASSUME d # today PROVE day'[d].admission = day[d].admission
    <3>1. day'[d] = ClosedDays(Unfinished)[d]
      <4>1. ClosedDays(Unfinished) = [e \in Days |-> ClosedDays(Unfinished)[e]]
        BY DEF ClosedDays
      <4> QED
        BY <1>2, <2>1, <4>1 DEF SubmitCheck, Submit
    <3>2. \A e \in Unfinished : day[e].opened
      BY DEF Unfinished, Open
    <3> QED
      BY <3>1, <3>2, ClosingDays DEF Order, Unfinished
  <2> QED
    BY <2>1
<1>3. CASE CloseSession
  <2>1. day' = ClosedDays({today}) /\ Open(today)
    BY <1>3 DEF CloseSession, CloseByHand
  <2> QED
    BY <1>0, <2>1, ClosingDays DEF Order, Open
<1>4. ASSUME NEW r \in Requests, Commit(r)
      PROVE  FALSE
  <2>1. day' = DaysOf(request[r])
    BY <1>4, AfterCommit
  <2>2. /\ ClosedUnasked(day[d]).admission = day[d].admission
        /\ Reviewed(day[d]).admission = day[d].admission
    BY <1>0 DEF ClosedUnasked, Reviewed, DayRow
  <2> QED
    BY <2>1, <2>2 DEF DaysOf
<1>5. ASSUME NEW r \in Requests, Freeze(r)
      PROVE  UNCHANGED day
  BY <1>5, AfterFreeze DEF rows
<1>6. ASSUME NEW r \in Requests,
             \/ Gathers(r) \/ ReadUnfinished(r) \/ Compare(r) \/ Write(r)
             \/ Count(r) \/ Fail(r) \/ \E e \in Days : AskFreeze(r, e)
      PROVE  UNCHANGED day
  <2>1. UNCHANGED rows
    BY <1>6, AfterGathers, AfterReadUnfinished, AfterCompare, AfterWrite,
       AfterCount, AfterFail, AfterAskFreeze
  <2> QED
    BY <2>1 DEF rows
<1>7. CASE \/ NextDay \/ RemarkAll
           \/ \E e \in Days : \E f \in Happens[e] : NewFacts(e, f)
  BY <1>1, <1>7 DEF NextDay, RemarkAll, NewFacts, rows
<1>8. CASE UNCHANGED vars
  BY <1>1, <1>8 DEF vars, rows
<1> QED
  BY <1>1, <1>2, <1>3, <1>4, <1>5, <1>6, <1>7, <1>8, Steps DEF Rests

\* Whoever has not reviewed a session gets no admission on a later day,
\* though nothing closes a day at its end.
THEOREM AdmissionsFollowReviews == Spec => CheckAfterReviews
<1>1. Typed /\ Order /\ [Next]_vars =>
        [\A d \in Days :
           day[d].admission = "none" /\ day'[d].admission # "none"
               => \A e \in Days : e < d /\ day[e].opened => day[e].reviewed]_day
  <2> SUFFICES ASSUME Typed, Order, [Next]_vars, NEW d \in Days,
                      day[d].admission = "none", day'[d].admission # "none",
                      NEW e \in Days, e < d, day[e].opened
               PROVE  day[e].reviewed
    OBVIOUS
  <2>1. d = today /\ \E verdict : SubmitCheck(verdict)
    BY AdmissionIsChecked
  <2>2. ClosedDays(Unfinished)[e].review # "pending"
    BY <2>1 DEF SubmitCheck, Submit, ReviewWaits
  <2>3. /\ DaysInOrder /\ Unfinished \in SUBSET Days
        /\ \A f \in Unfinished : day[f].opened
    BY DEF Order, Unfinished, Open
  <2>4. ClosedDays(Unfinished)[e].review =
          IF e \in Unfinished /\ day[e].review = "none" THEN "pending"
          ELSE day[e].review
    BY <2>3, ClosingDays
  <2>5. e \notin Unfinished => day[e].closed
    BY <2>1 DEF Unfinished, Open
  <2>6. day[e].review = "done"
    BY <2>2, <2>3, <2>4, <2>5 DEF DaysInOrder, DayRow
  <2> QED
    BY <2>3, <2>6 DEF DaysInOrder
<1> QED
  BY TypesHold, InOrder, <1>1, PTL DEF Spec, CheckAfterReviews

----------------------------------------------------------------------------
(* The series that is committed *)

\* While nobody has committed since a transaction read the series, what it
\* holds is the series, and what it counted is the series it will commit;
\* while nobody has since it read the marks, it counts over no frozen day.
Fresh(s) ==
    /\ "series" \in s.fresh /\ s.at # "counted" =>
           s.current = series.current /\ s.best = series.best
    /\ "series" \in s.fresh /\ s.at = "counted" =>
           /\ Updated(series.current, s.current) = Current(MarksOf(s))
           /\ Updated(series.best, s.best) >= series.best
    /\ "marks" \in s.fresh =>
           /\ \A d \in Days : s.marks[d] # Keep => mark[d] # "frozen"
           /\ s.op = "freeze" \/ s.at \in {"compared", "written", "counted"}

SeriesInOrder ==
    /\ ~overtaken => series.current = Current(mark)
    /\ \A r \in Requests : Fresh(request[r])

\* What a step that commits leaves of the past.
SeriesKept ==
    /\ ~overtaken' => series'.best >= series.best
    /\ \A d \in Days :
         mark[d] = "frozen" /\ mark'[d] # "frozen"
             => \E r \in Requests : /\ request[r].at = "counted"
                                    /\ "marks" \notin request[r].fresh
                                    /\ request[r].marks[d] # Keep

LEMMA SeriesInit == Init => SeriesInOrder
<1> SUFFICES ASSUME Init PROVE SeriesInOrder
  OBVIOUS
<1>1. KeptBefore(mark, LastDay + 1) = {}
  BY DEF Init, KeptBefore
<1>2. Current(mark) = 0
  <2>1. LastDay + 1 \in 0..LastDay + 1
    BY DiaryAssumption
  <2> QED
    BY <1>1, <2>1, RunsCount, FS_EmptySet DEF Current
<1>3. \A r \in Requests : request[r].fresh = {}
  BY DEF Init, Ready
<1> QED
  BY <1>2, <1>3 DEF Init, SeriesInOrder, NoSeries, Fresh

\* A step that commits nothing keeps the series, the marks and what the others
\* have read.
LEMMA WorkFresh ==
    ASSUME SeriesInOrder, Typed, NEW r \in Requests, Fresh(request'[r]), OthersStay(r),
           UNCHANGED <<today, rows, mark, series, ghosts>>
    PROVE  SeriesInOrder' /\ SeriesKept
<1>1. \A q \in Requests : Fresh(request'[q])
  BY DEF SeriesInOrder, OthersStay
<1>2. \A q \in Requests : Fresh(request[q])'
  BY <1>1 DEF Fresh, MarksOf
<1>3. series.best \in Int
  BY DiaryAssumption DEF Typed, SeriesRow
<1> QED
  BY <1>2, <1>3 DEF SeriesInOrder, SeriesKept, ghosts

\* What the others have read is fresh no longer.
LEMMA FinishFresh ==
    ASSUME Typed, NEW r \in Requests, Finish(r)
    PROVE  \A q \in Requests : Fresh(request[q])'
<1>1. \A q \in Requests : request'[q].fresh = {}
  <2>1. Ready.fresh = {}
    BY DEF Ready
  <2> QED
    BY <2>1, AfterFinish
<1> QED
  BY <1>1 DEF Fresh

LEMMA CommitSeries ==
    ASSUME SeriesInOrder, Typed, NEW r \in Requests, Commit(r)
    PROVE  SeriesInOrder' /\ SeriesKept
<1>1. PICK s : s = request[r]
  OBVIOUS
<1>2. /\ s.at = "counted" /\ mark' = MarksOf(s) /\ Finish(r)
      /\ series'.current = Updated(series.current, s.current)
      /\ series'.best = Updated(series.best, s.best)
  BY <1>1, AfterCommit
<1>3. overtaken' = ("series" \notin s.fresh) /\ Fresh(s)
  BY <1>1, <1>2, AfterFinish DEF SeriesInOrder
<1>4. ~overtaken' => /\ series'.current = Current(mark')
                     /\ series'.best >= series.best
  BY <1>2, <1>3 DEF Fresh
<1>5. ASSUME NEW d \in Days, mark[d] = "frozen", mark'[d] # "frozen"
      PROVE  s.marks[d] # Keep /\ "marks" \notin s.fresh
  BY <1>2, <1>3, <1>5 DEF MarksOf, Fresh
<1>6. \A q \in Requests : Fresh(request[q])'
  BY <1>2, FinishFresh
<1> QED
  BY <1>1, <1>2, <1>4, <1>5, <1>6 DEF SeriesInOrder, SeriesKept

LEMMA FreezeSeries ==
    ASSUME SeriesInOrder, Typed, NEW r \in Requests, Freeze(r)
    PROVE  SeriesInOrder' /\ SeriesKept
<1>1. PICK s : s = request[r]
  OBVIOUS
<1>2. /\ s.op = "freeze" /\ Finish(r) /\ MarksInTime(mark', today)
      /\ s.current \in 0..LastDay /\ s.best \in 0..LastDay
      /\ mark' = [d \in Days |-> IF d \in s.days THEN "frozen" ELSE mark[d]]
      /\ series'.current = Updated(series.current, Changed(s.current, Current(mark')))
      /\ series'.best = Updated(series.best, Changed(s.best, Best(s.best, mark')))
  BY <1>1, AfterFreeze
<1>3. overtaken' = ("series" \notin s.fresh) /\ Fresh(s) /\ s.at # "counted"
  <2>1. s.at = "begun"
    BY <1>1, <1>2 DEF Typed, InTime
  <2> QED
    BY <1>1, <1>2, <2>1, AfterFinish DEF SeriesInOrder
<1>4. /\ Current(mark') \in 0..LastDay
      /\ Best(s.best, mark') \in 0..LastDay /\ Best(s.best, mark') >= s.best
  BY <1>2, CountIsShort DEF Typed
<1>5. ~overtaken' => /\ series'.current = Current(mark')
                     /\ series'.best >= series.best
  <2> SUFFICES ASSUME ~overtaken'
               PROVE  /\ series'.current = Current(mark')
                      /\ series'.best >= series.best
    OBVIOUS
  <2>1. s.current = series.current /\ s.best = series.best
    BY <1>3 DEF Fresh
  <2>2. series'.current = Current(mark') /\ series'.best = Best(s.best, mark')
    <3>1. PICK now, best : now = Current(mark') /\ best = Best(s.best, mark')
      OBVIOUS
    <3>2. now \in 0..LastDay /\ best \in 0..LastDay
      BY <1>4, <3>1
    <3>3. /\ Updated(s.current, Changed(s.current, now)) = now
          /\ Updated(s.best, Changed(s.best, best)) = best
      BY <1>2, <3>2, UpdatedByChange
    <3> QED
      BY <1>2, <2>1, <3>1, <3>3
  <2> QED
    BY <1>4, <2>1, <2>2
<1>6. \A d \in Days : mark[d] = "frozen" => mark'[d] = "frozen"
  BY <1>2
<1>7. \A q \in Requests : Fresh(request[q])'
  BY <1>2, FinishFresh
<1> QED
  BY <1>5, <1>6, <1>7 DEF SeriesInOrder, SeriesKept

\* A transaction that reads holds what it read; one that counts, counts the
\* series it holds.
LEMMA CountFresh ==
    ASSUME SeriesInOrder, Typed, NEW r \in Requests, Count(r)
    PROVE  Fresh(request'[r])
<1>1. PICK s, t, marks : s = request[r] /\ t = request'[r] /\ marks = MarksOf(s)
  OBVIOUS
<1>2. /\ s.at = "written" /\ t.at = "counted" /\ t.marks = s.marks
      /\ t.fresh = s.fresh
      /\ s.current \in 0..LastDay /\ s.best \in 0..LastDay
      /\ t.current = Changed(s.current, Current(marks))
      /\ t.best = Changed(s.best, Best(s.best, marks))
  BY <1>1, AfterCount
<1>3. Fresh(s)
  BY <1>1 DEF SeriesInOrder
<1>4. MarksInTime(marks, today)
  BY <1>1, MarksOfInTime DEF Typed
<1>5. /\ Current(marks) \in 0..LastDay
      /\ Best(s.best, marks) \in 0..LastDay /\ Best(s.best, marks) >= s.best
  BY <1>2, <1>4, CountIsShort DEF Typed
<1>6. MarksOf(t) = marks
  BY <1>1, <1>2 DEF MarksOf
<1>7. "series" \in s.fresh => /\ Updated(series.current, t.current) = Current(marks)
                             /\ Updated(series.best, t.best) >= series.best
  <2> SUFFICES ASSUME "series" \in s.fresh
               PROVE  /\ Updated(series.current, t.current) = Current(marks)
                      /\ Updated(series.best, t.best) >= series.best
    OBVIOUS
  <2>1. s.current = series.current /\ s.best = series.best
    BY <1>2, <1>3 DEF Fresh
  <2>2. /\ Updated(series.current, t.current) = Current(marks)
        /\ Updated(series.best, t.best) = Best(s.best, marks)
    BY <1>2, <1>5, <2>1, UpdatedByChange
  <2> QED
    BY <1>5, <2>1, <2>2
<1> QED
  BY <1>1, <1>2, <1>3, <1>6, <1>7 DEF Fresh

LEMMA SeriesStep ==
    ASSUME SeriesInOrder, Typed, [Next]_vars
    PROVE  SeriesInOrder' /\ SeriesKept
<1>1. CASE UNCHANGED vars \/ Rests
  <2>1. UNCHANGED <<mark, series, request, overtaken>>
    BY <1>1 DEF vars, ghosts, Rests, NextDay, CloseSession, RemarkAll,
                SubmitCheck, NewFacts
  <2>2. series.best \in Int
    BY DiaryAssumption DEF Typed, SeriesRow
  <2> QED
    BY <2>1, <2>2 DEF SeriesInOrder, SeriesKept, Fresh, MarksOf
<1>2. ASSUME NEW r \in Requests,
             \/ Gathers(r) \/ ReadUnfinished(r) \/ Compare(r) \/ Write(r)
             \/ Count(r) \/ Fail(r) \/ \E d \in Days : AskFreeze(r, d)
      PROVE  SeriesInOrder' /\ SeriesKept
  <2>1. OthersStay(r) /\ UNCHANGED <<today, rows, mark, series, ghosts>>
    BY <1>2, AfterGathers, AfterReadUnfinished, AfterCompare, AfterWrite,
       AfterCount, AfterFail, AfterAskFreeze
  <2>2. Fresh(request[r])
    BY DEF SeriesInOrder
  <2>3. CASE Gathers(r)
    <3>1. PICK s : /\ \/ Beginning(s)
                      \/ s = request[r] /\ s.op = "close" /\ s.at = "begun"
                   /\ request'[r].at = "gathered" /\ request'[r].fresh = s.fresh
                   /\ request'[r].current = s.current
                   /\ request'[r].best = s.best
      BY <2>3, AfterGathers
    <3>2. "marks" \notin s.fresh
      BY <2>2, <3>1 DEF Fresh, Beginning
    <3>3. "series" \in s.fresh => s.current = series.current /\ s.best = series.best
      BY <2>2, <3>1 DEF Fresh, Beginning
    <3>4. Fresh(request'[r])
      BY <3>1, <3>2, <3>3 DEF Fresh
    <3> QED
      BY <2>1, <3>4, WorkFresh
  <2>4. CASE ReadUnfinished(r) \/ Fail(r)
    <3>1. request'[r].fresh = {}
      BY <2>4, AfterReadUnfinished, AfterFail DEF Ready
    <3> QED
      BY <2>1, <3>1, WorkFresh DEF Fresh
  <2>5. CASE Compare(r)
    <3>1. /\ request[r].at = "gathered" /\ request'[r].at = "compared"
          /\ request'[r].marks = Differing(request[r].marks)
          /\ request'[r].fresh = request[r].fresh \union {"marks"}
          /\ request'[r].current = request[r].current
          /\ request'[r].best = request[r].best
      BY <2>5, AfterCompare
    <3>2. \A d \in Days : request'[r].marks[d] # Keep => mark[d] # "frozen"
      BY <3>1 DEF Differing, Frozen
    <3>3. Fresh(request'[r])
      BY <2>2, <3>1, <3>2 DEF Fresh
    <3> QED
      BY <2>1, <3>3, WorkFresh
  <2>6. CASE Write(r)
    <3>1. /\ request[r].at = "compared" /\ request'[r].at = "written"
          /\ request'[r].marks = request[r].marks
          /\ \/ /\ request'[r].current = series.current
                /\ request'[r].best = series.best
                /\ request'[r].fresh = request[r].fresh \union {"series"}
             \/ /\ request'[r].current = request[r].current
                /\ request'[r].best = request[r].best
                /\ request'[r].fresh = request[r].fresh
      BY <2>6, AfterWrite
    <3>2. Fresh(request'[r])
      BY <2>2, <3>1 DEF Fresh
    <3> QED
      BY <2>1, <3>2, WorkFresh
  <2>7. CASE Count(r)
    BY <2>1, <2>7, CountFresh, WorkFresh
  <2>8. ASSUME NEW d \in Days, AskFreeze(r, d)
        PROVE  SeriesInOrder' /\ SeriesKept
    <3>1. /\ request'[r].at = "begun" /\ request'[r].marks = KeepAll
          /\ request'[r].op = "freeze"
          /\ request'[r].current = series.current
          /\ request'[r].best = series.best
      BY <2>8, AfterAskFreeze
    <3>2. Fresh(request'[r])
      BY <3>1 DEF Fresh, KeepAll
    <3> QED
      BY <2>1, <3>2, WorkFresh
  <2> QED
    BY <1>2, <2>3, <2>4, <2>5, <2>6, <2>7, <2>8
<1> QED
  BY <1>1, <1>2, CommitSeries, FreezeSeries, Steps

LEMMA SeriesIsCounted == Spec => []SeriesInOrder
<1>1. Typed /\ SeriesInOrder /\ [Next]_vars => SeriesInOrder'
  BY SeriesStep
<1> QED
  BY <1>1, SeriesInit, TypesHold, PTL DEF Spec

\* recompute of streaks: the current series is the number of days kept since
\* the last one that was not, after every transaction that nobody overtook
\* between its read of the series and its commit -- however the reads and
\* writes of those that count interleave.
THEOREM SeriesCountsKeptDays == Spec => []SeriesIsUnbroken
<1>1. SeriesInOrder => SeriesIsUnbroken
  <2> SUFFICES ASSUME SeriesInOrder, ~overtaken PROVE SeriesIsUnbroken
    BY DEF SeriesIsUnbroken
  <2>1. LastDay + 1 \in 0..LastDay + 1 /\ \A d \in Days : d < LastDay + 1 /\ d \in Int
    BY DiaryAssumption DEF Days
  <2>2. series.current = Cardinality(KeptBefore(mark, LastDay + 1))
    BY <2>1, RunsCount DEF SeriesInOrder, Current
  <2>3. KeptBefore(mark, LastDay + 1)
          = {d \in Days : mark[d] = "ok" /\
                \A e \in Days : e > d => mark[e] \in {"ok", "none", "frozen"}}
    BY <2>1 DEF KeptBefore
  <2> QED
    BY <2>2, <2>3 DEF SeriesIsUnbroken
<1> QED
  BY <1>1, SeriesIsCounted, PTL

----------------------------------------------------------------------------
(* The past *)

\* A transaction that writes an entry holds it, and was in time for it unless
\* there was none.
EntriesInOrder ==
    /\ \A r \in Requests :
        request[r].op = "entry" =>
            /\ request[r].at \notin {"idle", "begun"}
            /\ \A d \in request[r].days :
                   entry[d] # "none" => request[r].on <= d + EditableDays
    /\ \A q, r \in Requests :
        q # r => Held(request[q]) \intersect Held(request[r]) = {}

\* An entry is rewritten only by a request that came in time.
EntriesKept ==
    \A d \in Days :
        entry[d] # "none" /\ entry'[d] # entry[d]
            => \E r \in Requests : /\ request[r].op = "entry"
                                   /\ d \in request[r].days
                                   /\ request[r].on <= d + EditableDays

\* Two transactions that write the same entry hold the same row.
LEMMA EntryIsHeld ==
    ASSUME EntriesInOrder, NEW q \in Requests, NEW r \in Requests, q # r,
           request[q].op = "entry", request[r].op = "entry",
           NEW d, d \in request[q].days
    PROVE  d \notin request[r].days
<1> SUFFICES ASSUME d \in request[r].days PROVE FALSE
  OBVIOUS
<1>1. <<"entry", d>> \in Held(request[q]) /\ <<"entry", d>> \in Held(request[r])
  BY DEF EntriesInOrder, Held
<1> QED
  BY <1>1 DEF EntriesInOrder

\* A step of one transaction that commits nothing.
LEMMA WorkEntries ==
    ASSUME EntriesInOrder, NEW r \in Requests, OthersStay(r),
           UNCHANGED <<today, rows, mark, series, ghosts>>,
           request'[r].op = "entry" =>
               /\ request'[r].at \notin {"idle", "begun"}
               /\ \A d \in request'[r].days :
                      entry[d] # "none" => request'[r].on <= d + EditableDays,
           \A q \in Requests \ {r} : Held(request[q]) \intersect Held(request'[r]) = {}
    PROVE  EntriesInOrder' /\ EntriesKept
<1>1. entry' = entry
  BY DEF rows
<1>2. \A q \in Requests : q # r => request'[q] = request[q]
  BY DEF OthersStay
<1>3. ASSUME NEW q \in Requests, request'[q].op = "entry"
      PROVE  /\ request'[q].at \notin {"idle", "begun"}
             /\ \A d \in request'[q].days :
                    entry'[d] # "none" => request'[q].on <= d + EditableDays
  BY <1>1, <1>2, <1>3 DEF EntriesInOrder
<1>4. ASSUME NEW p \in Requests, NEW q \in Requests, p # q
      PROVE  Held(request'[p]) \intersect Held(request'[q]) = {}
  <2>1. CASE p # r /\ q # r
    BY <1>2, <1>4, <2>1 DEF EntriesInOrder
  <2>2. CASE p = r
    BY <1>2, <1>4, <2>2
  <2>3. CASE q = r
    BY <1>2, <1>4, <2>3
  <2> QED
    BY <2>1, <2>2, <2>3
<1>5. EntriesInOrder'
  BY <1>3, <1>4 DEF EntriesInOrder, Held
<1> QED
  BY <1>1, <1>5 DEF EntriesKept

\* A step that commits changes the entries of its transaction only.
LEMMA FinishEntries ==
    ASSUME EntriesInOrder, Typed, NEW r \in Requests, Finish(r),
           \/ UNCHANGED entry
           \/ entry' = EntriesOf(request[r])
    PROVE  EntriesInOrder' /\ EntriesKept
<1>1. \A d \in Days : \/ entry'[d] = entry[d]
                      \/ request[r].op = "entry" /\ d \in request[r].days
  BY DEF EntriesOf
<1>2. /\ request'[r] = Ready
      /\ \A q \in Requests : q # r =>
            /\ SameWork(request'[q], request[q])
            /\ request'[q].at = request[q].at /\ request'[q].on = request[q].on
  BY AfterFinish
<1>3. Ready.op = "none" /\ Ready.at = "idle"
  BY DEF Ready
<1>4. ASSUME NEW q \in Requests, request'[q].op = "entry"
      PROVE  /\ request'[q].at \notin {"idle", "begun"}
             /\ \A d \in request'[q].days :
                    entry'[d] # "none" => request'[q].on <= d + EditableDays
  <2>1. q # r
    BY <1>2, <1>3, <1>4
  <2>2. /\ request[q].op = "entry" /\ request'[q].days = request[q].days
        /\ request'[q].at = request[q].at /\ request'[q].on = request[q].on
    BY <1>2, <1>4, <2>1 DEF SameWork
  <2>3. request[q].days \subseteq Days
    BY DEF Typed, InTime, RequestRow
  <2>4. \A d \in request[q].days : entry'[d] = entry[d]
    BY <1>1, <2>1, <2>2, <2>3, EntryIsHeld
  <2> QED
    BY <2>2, <2>4 DEF EntriesInOrder
<1>5. Held(request'[r]) = {}
  BY <1>2, <1>3 DEF Held
<1>6. \A q \in Requests : q # r => Held(request'[q]) = Held(request[q])
  BY <1>2 DEF Held, SameWork
<1>7. ASSUME NEW p \in Requests, NEW q \in Requests, p # q
      PROVE  Held(request'[p]) \intersect Held(request'[q]) = {}
  BY <1>5, <1>6, <1>7 DEF EntriesInOrder
<1>8. EntriesInOrder'
  BY <1>4, <1>7 DEF EntriesInOrder, Held
<1>9. EntriesKept
  BY <1>1 DEF EntriesKept, EntriesInOrder
<1> QED
  BY <1>8, <1>9

LEMMA EntriesStep ==
    ASSUME EntriesInOrder, Typed, [Next]_vars
    PROVE  EntriesInOrder' /\ EntriesKept
<1>1. CASE UNCHANGED vars \/ Rests
  <2>1. UNCHANGED <<entry, request>>
    BY <1>1 DEF vars, rows, Rests, NextDay, CloseSession, RemarkAll,
                SubmitCheck, NewFacts
  <2> QED
    BY <2>1 DEF EntriesInOrder, EntriesKept, Held
<1>2. ASSUME NEW r \in Requests,
             \/ Gathers(r) \/ ReadUnfinished(r) \/ Compare(r) \/ Write(r)
             \/ Count(r) \/ Fail(r) \/ \E d \in Days : AskFreeze(r, d)
      PROVE  EntriesInOrder' /\ EntriesKept
  <2>1. OthersStay(r) /\ UNCHANGED <<today, rows, mark, series, ghosts>>
    BY <1>2, AfterGathers, AfterReadUnfinished, AfterCompare, AfterWrite,
       AfterCount, AfterFail, AfterAskFreeze
  <2>2. CASE Gathers(r)
    <3>1. PICK s :
            /\ \/ Beginning(s)
               \/ s = request[r] /\ s.op = "close" /\ s.at = "begun"
            /\ SameWork(request'[r], s) /\ request'[r].at = "gathered"
            /\ s.op = "entry" => request'[r].on = s.on
            /\ \A q \in Requests \ {r} :
                  Held(request[q]) \intersect Held(request'[r]) = {}
      BY <2>2, AfterGathers
    <3>2. ASSUME s.op = "entry", NEW d \in s.days, entry[d] # "none"
          PROVE  s.on <= d + EditableDays
      BY <3>1, <3>2 DEF Beginning, UpsertEntry, Written, Editable
    <3> QED
      BY <2>1, <3>1, <3>2, WorkEntries DEF SameWork
  <2>3. CASE ReadUnfinished(r) \/ Fail(r) \/ \E d \in Days : AskFreeze(r, d)
    <3>1. request'[r].op # "entry" /\ request'[r].at \in {"idle", "begun"}
      BY <2>3, AfterReadUnfinished, AfterFail, AfterAskFreeze DEF Ready
    <3>2. Held(request'[r]) = {}
      BY <3>1 DEF Held
    <3> QED
      BY <2>1, <3>1, <3>2, WorkEntries
  <2>4. CASE Compare(r) \/ Write(r) \/ Count(r)
    <3>1. /\ SameWork(request'[r], request[r])
          /\ request'[r].on = request[r].on
          /\ request[r].at \in {"gathered", "compared", "written"}
          /\ request'[r].at \in {"compared", "written", "counted"}
      BY <2>4, AfterCompare, AfterWrite, AfterCount
    <3>2. Held(request'[r]) = Held(request[r])
      BY <3>1 DEF Held, SameWork
    <3>3. \A q \in Requests \ {r} :
             Held(request[q]) \intersect Held(request'[r]) = {}
      BY <3>2 DEF EntriesInOrder
    <3>4. request'[r].op = "entry" =>
               /\ request'[r].at \notin {"idle", "begun"}
               /\ \A d \in request'[r].days :
                      entry[d] # "none" => request'[r].on <= d + EditableDays
      BY <3>1 DEF EntriesInOrder, SameWork
    <3> QED
      BY <2>1, <3>3, <3>4, WorkEntries
  <2> QED
    BY <1>2, <2>2, <2>3, <2>4
<1>3. ASSUME NEW r \in Requests, Commit(r)
      PROVE  EntriesInOrder' /\ EntriesKept
  BY <1>3, AfterCommit, FinishEntries
<1>4. ASSUME NEW r \in Requests, Freeze(r)
      PROVE  EntriesInOrder' /\ EntriesKept
  <2>1. Finish(r) /\ UNCHANGED entry
    BY <1>4, AfterFreeze DEF rows
  <2> QED
    BY <2>1, FinishEntries
<1> QED
  BY <1>1, <1>2, <1>3, <1>4, Steps

LEMMA EntriesHold == Spec => []EntriesInOrder
<1>1. Init => EntriesInOrder
  BY DEF Init, EntriesInOrder, Ready, Held
<1>2. Typed /\ EntriesInOrder /\ [Next]_vars => EntriesInOrder'
  BY EntriesStep
<1> QED
  BY <1>1, <1>2, TypesHold, PTL DEF Spec

\* The best series falls only to a transaction that another overtook, a freeze
\* is undone only by one that had read the marks before it, and an entry past
\* its 48 hours stays, whatever transactions write over each other.
THEOREM PastIsKept == Spec => HistoryIsKept
<1> DEFINE Kept ==
        /\ ~overtaken' => series'.best >= series.best
        /\ \A d \in Days :
            /\ mark[d] = "frozen" /\ mark'[d] # "frozen"
                 => \E r \in Requests : /\ request[r].at = "counted"
                                        /\ "marks" \notin request[r].fresh
                                        /\ request[r].marks[d] # Keep
            /\ entry[d] # "none" /\ entry'[d] # entry[d]
                 => \E r \in Requests : /\ request[r].op = "entry"
                                        /\ d \in request[r].days
                                        /\ request[r].on <= d + EditableDays
<1>1. Typed /\ SeriesInOrder /\ EntriesInOrder /\ [Next]_vars
        => [Kept]_<<entry, mark, series>>
  BY SeriesStep, EntriesStep DEF SeriesKept, EntriesKept
<1> QED
  BY <1>1, TypesHold, SeriesIsCounted, EntriesHold, PTL DEF Spec, HistoryIsKept

\* The rows have the shape the code gives them: days to come are not counted,
\* no run is longer than the days that have ended, and no request writes more
\* freezes than a month has, whatever it read before another wrote.
THEOREM TypeCorrect == Spec => []TypeOK
<1>1. Typed /\ Order => TypeOK
  BY DEF Typed, Order, DaysInOrder, TypeOK, MarksInTime, InTime, WritesInTime,
         SeriesRow
<1> QED
  BY <1>1, TypesHold, InOrder, PTL

=============================================================================
