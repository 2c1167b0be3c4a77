---------------------------- MODULE IntakeProofs -----------------------------
(***************************************************************************)
(* What the rows of trades keep for any executions, any window of a pass   *)
(* and any meeting of the stream, the passes and the refresh.              *)
(*                                                                         *)
(* The first part is about single rows: what is closed is announced and    *)
(* stays closed.  The second is about the books as a whole: lemmas on the  *)
(* walk of the aggregation (what it depends on, where it may be cut, what  *)
(* one more fill does to it), then the invariant BInv, by which the border *)
(* and the position that were saved stand for the walk over all fills.     *)
(***************************************************************************)
EXTENDS Intake, WellFoundedInduction, TLAPS

Statuses == {"none", "open", "closed"}

\* What a row looks like; which fills it holds is another matter.
IsTrade(row) ==
    \E status \in Statuses : \E parts : row = [status |-> status, parts |-> parts]

TradesTyped ==
    /\ DOMAIN trades = Ids
    /\ \A n \in Ids : IsTrade(trades[n])

Announced == TradesTyped /\ ClosedIsAnnounced

\* What a step may do to the rows: none that is closed changes.
ClosedStays ==
    \A n \in Ids : trades[n].status = "closed" =>
        /\ trades'[n].status = "closed"
        /\ trades'[n] = trades[n] \/ "overwritten" \in slips'

LEMMA AnnouncedInit == Init => Announced
<1> SUFFICES ASSUME Init PROVE Announced
  OBVIOUS
<1>1. \A n \in Ids : trades[n] = [status |-> "none", parts |-> {}]
  BY DEF Init, NoTrade
<1>2. \A n \in Ids : IsTrade(trades[n])
  BY <1>1 DEF IsTrade, Statuses
<1>3. \A n \in Ids : trades[n].status # "closed"
  BY <1>1
<1>4. announced = {} /\ DOMAIN trades = Ids
  BY DEF Init
<1> QED
  BY <1>2, <1>3, <1>4 DEF Announced, TradesTyped, ClosedIsAnnounced

LEMMA BatchIsTyped ==
    ASSUME NEW done, NEW open, NEW live, NEW n \in Ids
    PROVE  IsTrade(Batch(done, open, live)[n])
<1>1. \E status \in Statuses : \E parts :
          Batch(done, open, live)[n] = [status |-> status, parts |-> parts]
  <2>1. CASE \E d \in done : d.first = n
    <3>1. Batch(done, open, live)[n] =
            [status |-> "closed", parts |-> (CHOOSE d \in done : d.first = n).parts]
      BY <2>1 DEF Batch
    <3> QED
      BY <3>1 DEF Statuses
  <2>2. CASE /\ ~\E d \in done : d.first = n
             /\ live /\ open # None /\ open.first = n
    <3>1. Batch(done, open, live)[n] = [status |-> "open", parts |-> open.parts]
      BY <2>2 DEF Batch
    <3> QED
      BY <3>1 DEF Statuses
  <2>3. CASE /\ ~\E d \in done : d.first = n
             /\ ~(live /\ open # None /\ open.first = n)
    <3>1. Batch(done, open, live)[n] = NoTrade
      BY <2>3 DEF Batch
    <3> QED
      BY <3>1 DEF NoTrade, Statuses
  <2> QED
    BY <2>1, <2>2, <2>3
<1> QED
  BY <1>1 DEF IsTrade

\* A batch closes rows, opens rows and leaves the closed ones alone.
LEMMA IngestAnnounces ==
    ASSUME Announced, NEW done, NEW open, NEW live,
           Ingest(Batch(done, open, live))
    PROVE  Announced' /\ ClosedStays
<1>1. PICK batch : batch = Batch(done, open, live)
  OBVIOUS
<1>2. /\ \A n \in Ids : trades'[n] = IF batch[n] = NoTrade THEN trades[n]
                                     ELSE Admit(trades[n], batch[n])
      /\ DOMAIN trades' = Ids
      /\ announced' = announced \union {n \in Ids :
             batch[n].status = "closed" /\ trades[n].status # "closed"}
  BY <1>1 DEF Ingest, Announce
<1>3. \A n \in Ids : IsTrade(batch[n]) /\ IsTrade(trades[n])
  BY <1>1, BatchIsTyped DEF Announced, TradesTyped
<1>4. ASSUME NEW n \in Ids
      PROVE  trades'[n] = IF batch[n] = NoTrade \/ trades[n].status = "closed"
                          THEN trades[n] ELSE batch[n]
  BY <1>2 DEF Admit
<1>5. TradesTyped'
  BY <1>2, <1>3, <1>4 DEF TradesTyped
<1>6. ASSUME NEW n \in Ids
      PROVE  trades'[n].status = "closed" <=>
                 trades[n].status = "closed" \/ batch[n].status = "closed"
  <2>1. NoTrade.status # "closed"
    BY DEF NoTrade
  <2> QED
    BY <1>4, <2>1
<1>7. ClosedIsAnnounced'
  BY <1>2, <1>6 DEF Announced, ClosedIsAnnounced
<1>8. ClosedStays
  BY <1>4, <1>6 DEF ClosedStays
<1> QED
  BY <1>5, <1>7, <1>8 DEF Announced

\* The refresh adds an open row, or writes the numbers of a row as it stands.
LEMMA PollAnnounces ==
    ASSUME Announced, PollInserts \/ PollUpdates
    PROVE  Announced' /\ ClosedStays
<1>0. DOMAIN trades = Ids /\ \A n \in Ids : IsTrade(trades[n])
  BY DEF Announced, TradesTyped
<1>1. CASE PollInserts
  <2>1. PICK k, parts : /\ k = poll.item.first
                        /\ parts = poll.item.parts
    OBVIOUS
  <2>2. /\ trades' = IF trades[k] = NoTrade
                     THEN [trades EXCEPT ![k] = [status |-> "open",
                                                 parts |-> parts]]
                     ELSE trades
        /\ UNCHANGED announced
    BY <1>1, <2>1 DEF PollInserts
  <2>3. ASSUME NEW n \in Ids
        PROVE  \/ trades'[n] = trades[n]
               \/ /\ trades[n] = NoTrade
                  /\ trades'[n] = [status |-> "open", parts |-> parts]
    BY <1>0, <2>2
  <2>4. DOMAIN trades' = Ids
    BY <1>0, <2>2
  <2>5. \A n \in Ids : IsTrade(trades'[n])
    <3>1. IsTrade([status |-> "open", parts |-> parts])
      BY DEF IsTrade, Statuses
    <3> QED
      BY <1>0, <2>3, <3>1
  <2>6. \A n \in Ids : /\ trades'[n].status = "closed" <=> trades[n].status = "closed"
                       /\ trades[n].status = "closed" => trades'[n] = trades[n]
    BY <2>3 DEF NoTrade
  <2> QED
    BY <2>2, <2>4, <2>5, <2>6
    DEF Announced, TradesTyped, ClosedIsAnnounced, ClosedStays
<1>2. CASE PollUpdates
  <2>1. PICK k, parts : /\ k = poll.item.first
                        /\ parts = poll.item.parts
    OBVIOUS
  <2>2. /\ trades' = [trades EXCEPT ![k].parts = parts]
        /\ slips' = IF trades[k].status = "closed"
                    THEN slips \union {"overwritten"} ELSE slips
        /\ UNCHANGED announced
    BY <1>2, <2>1 DEF PollUpdates
  <2>3. ASSUME NEW n \in Ids
        PROVE  /\ IsTrade(trades'[n])
               /\ trades'[n].status = trades[n].status
               /\ n # k => trades'[n] = trades[n]
    <3>1. PICK status, held :
            /\ status \in Statuses
            /\ trades[n] = [status |-> status, parts |-> held]
      BY <1>0 DEF IsTrade
    <3>2. CASE n = k
      <4>1. trades'[n] = [status |-> status, parts |-> parts]
        BY <1>0, <2>2, <3>1, <3>2
      <4>2. IsTrade([status |-> status, parts |-> parts])
        BY <3>1 DEF IsTrade
      <4> QED
        BY <3>1, <3>2, <4>1, <4>2
    <3>3. CASE n # k
      BY <1>0, <2>2, <3>3
    <3> QED
      BY <1>0, <3>2, <3>3
  <2>4. DOMAIN trades' = Ids
    BY <1>0, <2>2
  <2> QED
    BY <2>2, <2>3, <2>4
    DEF Announced, TradesTyped, ClosedIsAnnounced, ClosedStays
<1> QED
  BY <1>1, <1>2

LEMMA RowsStep ==
    ASSUME Announced, [Next]_vars
    PROVE  Announced' /\ ClosedStays
<1>1. CASE UNCHANGED <<trades, announced>>
  BY <1>1 DEF Announced, TradesTyped, ClosedIsAnnounced, ClosedStays
<1>2. CASE StreamCommits \/ PassCommits
  BY <1>2, IngestAnnounces DEF StreamCommits, PassCommits
<1>3. CASE PollInserts \/ PollUpdates
  BY <1>3, PollAnnounces
<1>4. CASE \/ Execute \/ StreamBegins \/ StreamAborts
           \/ PassDownloads \/ PassRebuilds \/ PassFails \/ PassFailsLate
           \/ PassAborts \/ PollAsks \/ PollReads
  <2>1. UNCHANGED <<trades, announced>>
    BY <1>4 DEF Execute, StreamBegins, StreamAborts, PassDownloads,
                PassRebuilds, PassFails, PassFailsLate, PassAborts, PollAsks,
                PollReads, books
  <2> QED
    BY <1>1, <2>1
<1> QED
  BY <1>1, <1>2, <1>3, <1>4 DEF Next, vars, books

\* The engine has been told of the closed trades and of no others, however the
\* stream, the passes and the refresh of positions meet.
THEOREM ClosedTradesAreAnnounced == Spec => []ClosedIsAnnounced
<1>1. Announced => ClosedIsAnnounced
  BY DEF Announced
<1> QED
  BY AnnouncedInit, RowsStep, <1>1, PTL DEF Spec

\* A closed trade is not opened again, and only the refresh may write over its
\* result, whatever fills arrive and however often a pass is repeated.
THEOREM ClosedTradesStay == Spec => ClosedTradeStays
<1>1. Announced /\ [Next]_vars =>
        [\A n \in Ids : trades[n].status = "closed" =>
            /\ trades'[n].status = "closed"
            /\ trades'[n] = trades[n] \/ "overwritten" \in slips']_vars
  BY RowsStep DEF ClosedStays
<1>2. Announced /\ [Next]_vars => Announced'
  BY RowsStep
<1> QED
  BY AnnouncedInit, <1>1, <1>2, PTL DEF Spec, ClosedTradeStays

----------------------------------------------------------------------------
(* Induction over numbers *)

LEMMA LeastNumber ==
    ASSUME NEW T, T \subseteq Nat, T # {}
    PROVE  \E x \in T : \A y \in T : x <= y
<1> DEFINE R == OpToRel(<, Nat)
<1>1. \E x \in T : \A y \in T : ~ (<<y, x>> \in R)
  <2>1. IsWellFoundedOn(R, Nat)
    BY NatLessThanWellFounded
  <2> HIDE DEF R
  <2> QED
    BY <2>1, WFMin
<1>2. PICK x \in T : \A y \in T : ~ (<<y, x>> \in R)
  BY <1>1
<1>3. ASSUME NEW y \in T PROVE x <= y
  <2>1. ~ (y < x)
    BY <1>2 DEF OpToRel
  <2> QED
    BY <2>1
<1> QED
  BY <1>3

\* What holds of 0 and, up to a bound, of the successor of each number it
\* holds of, holds up to the bound.
LEMMA InductionTo ==
    ASSUME NEW S, NEW m \in Nat, 0 \in S, \A n \in 0..m : n < m /\ n \in S => n + 1 \in S
    PROVE  \A n \in 0..m : n \in S
<1> SUFFICES ASSUME NEW k \in 0..m, k \notin S PROVE FALSE
  OBVIOUS
<1>1. {n \in 0..m : n \notin S} \subseteq Nat /\ {n \in 0..m : n \notin S} # {}
  OBVIOUS
<1>2. PICK x \in {n \in 0..m : n \notin S} : \A y \in {n \in 0..m : n \notin S} : x <= y
  BY <1>1, LeastNumber
<1>3. x \in 0..m /\ x \notin S /\ x # 0
  BY <1>2
<1>4. x - 1 \in 0..m /\ x - 1 < m /\ (x - 1) + 1 = x /\ ~(x <= x - 1)
  BY <1>3
<1>5. x - 1 \in S
  BY <1>2, <1>4
<1> QED
  BY <1>3, <1>4, <1>5

----------------------------------------------------------------------------

NoBook == [done |-> {}, open |-> None]

\* Apply and aggregate for executions q.
Turn(q, book, n) ==
    LET p     == book.open
        after == p.net + q[n]
        left  == [first |-> n, net |-> q[n], parts |-> {n}]
    IN  IF p = None
        THEN [book EXCEPT !.open = left]
        ELSE IF CrossesZero(p.net, after)
        THEN [done |-> book.done \union {Closed(p, n)},
              open |-> [left EXCEPT !.net = after]]
        ELSE IF after = 0
        THEN [done |-> book.done \union {Closed(p, n)}, open |-> None]
        ELSE [book EXCEPT !.open = [p EXCEPT !.net = after,
                                             !.parts = @ \union {n}]]

IsWalk(w, q, F) ==
    w = [n \in 0..MaxFills |->
          IF n = 0 THEN NoBook
          ELSE IF n \in F THEN Turn(q, w[n - 1], n) ELSE w[n - 1]]

Walk(q, F) == CHOOSE w : IsWalk(w, q, F)

Agg(q, F) == Walk(q, F)[MaxFills]

LEMMA AggregateIs ==
    ASSUME NEW F
    PROVE  Aggregate(F) = Agg(exchange, F)
<1>1. \A book, n : Apply(book, n) = Turn(exchange, book, n)
  BY DEF Apply, Turn, Opened
<1> HIDE DEF Apply, Turn
<1> QED
  BY <1>1 DEF Aggregate, Agg, Walk, IsWalk, NoBook

LEMMA WalkExists ==
    ASSUME NEW q, NEW F
    PROVE  \E w : IsWalk(w, q, F)
<1> DEFINE Next1(b, n) == IF n \in F THEN Turn(q, b, n) ELSE b
           IsPart(w, m) == w = [n \in 0..m |-> IF n = 0 THEN NoBook ELSE Next1(w[n - 1], n)]
           Walked == {m \in Nat : \E w : IsPart(w, m)}
<1> HIDE DEF Next1
<1>1. 0 \in Walked
  <2> DEFINE w == [n \in 0..0 |-> NoBook]
  <2>1. IsPart(w, 0)
    OBVIOUS
  <2> HIDE DEF IsPart, w
  <2> QED
    BY <2>1
<1>2. ASSUME NEW m \in Walked PROVE m + 1 \in Walked
  <2>1. PICK w : IsPart(w, m)
    OBVIOUS
  <2> DEFINE h == [n \in 0..(m + 1) |-> IF n = 0 THEN NoBook ELSE Next1(w[n - 1], n)]
  <2>2. \A n \in 0..m : h[n] = w[n]
    BY <2>1
  <2>3. \A n \in 0..(m + 1) : n # 0 => n - 1 \in 0..m
    OBVIOUS
  <2>4. h = [n \in 0..(m + 1) |-> IF n = 0 THEN NoBook ELSE Next1(h[n - 1], n)]
    BY <2>2, <2>3
  <2> HIDE DEF h
  <2>5. \E f : IsPart(f, m + 1)
    BY <2>4
  <2> HIDE DEF IsPart
  <2> QED
    BY <2>5
<1>3. MaxFills \in Nat
  BY IntakeAssumption
<1>4. MaxFills \in Walked
  <2> HIDE DEF Walked
  <2> QED
    BY <1>1, <1>2, <1>3, InductionTo
<1>5. PICK w : IsPart(w, MaxFills)
  BY <1>4
<1> QED
  BY <1>5 DEF IsWalk, Next1

LEMMA WalkUnfolds ==
    ASSUME NEW q, NEW F
    PROVE  /\ Walk(q, F)[0] = NoBook
           /\ \A n \in 0..MaxFills : n < MaxFills =>
                Walk(q, F)[n + 1] = IF n + 1 \in F THEN Turn(q, Walk(q, F)[n], n + 1)
                                    ELSE Walk(q, F)[n]
<1> DEFINE w == Walk(q, F)
<1>1. IsWalk(w, q, F)
  BY WalkExists DEF Walk
<1> HIDE DEF w
<1>2. MaxFills \in Nat
  BY IntakeAssumption
<1>3. w[0] = NoBook
  BY <1>1, <1>2 DEF IsWalk
<1>4. ASSUME NEW n \in 0..MaxFills, n < MaxFills
      PROVE  w[n + 1] = IF n + 1 \in F THEN Turn(q, w[n], n + 1) ELSE w[n]
  <2>1. n + 1 \in 0..MaxFills /\ n + 1 # 0 /\ (n + 1) - 1 = n
    BY <1>2, <1>4
  <2> QED
    BY <1>1, <2>1 DEF IsWalk
<1> QED
  BY <1>3, <1>4 DEF w

\* What is walked up to a fill depends on the fills up to it only.
LEMMA SamePrefix ==
    ASSUME NEW q, NEW r, NEW F, NEW G, NEW m \in 0..MaxFills,
           \A n \in 1..m : /\ n \in F <=> n \in G
                           /\ n \in F => q[n] = r[n]
    PROVE  Walk(q, F)[m] = Walk(r, G)[m]
<1> DEFINE S == {n \in 0..m : Walk(q, F)[n] = Walk(r, G)[n]}
<1>1. m \in Nat /\ MaxFills \in Nat /\ m <= MaxFills
  BY IntakeAssumption
<1>2. 0 \in S
  BY <1>1, WalkUnfolds
<1>3. ASSUME NEW n \in 0..m, n < m, n \in S
      PROVE  n + 1 \in S
  <2>1. n \in 0..MaxFills /\ n < MaxFills /\ n + 1 \in 1..m /\ n + 1 \in 0..m
    BY <1>1, <1>3
  <2>2. Walk(q, F)[n] = Walk(r, G)[n]
    BY <1>3
  <2>3. n + 1 \in F => Turn(q, Walk(q, F)[n], n + 1) = Turn(r, Walk(r, G)[n], n + 1)
    BY <2>1, <2>2 DEF Turn
  <2> QED
    BY <2>1, <2>2, <2>3, WalkUnfolds
<1> HIDE DEF S
<1>4. m \in S
  <2>1. \A n \in 0..m : n \in S
    BY <1>1, <1>2, <1>3, InductionTo
  <2> QED
    BY <1>1, <2>1
<1> QED
  BY <1>4 DEF S
----------------------------------------------------------------------------
(* One fill *)

IsBook(b) ==
    \E done : \E open \in Positions \union {None} : b = [done |-> done, open |-> open]

LEMMA BookMade ==
    ASSUME NEW done, NEW open \in Positions \union {None}, NEW b,
           b = [done |-> done, open |-> open]
    PROVE  IsBook(b) /\ b.done = done /\ b.open = open
BY Zenon DEF IsBook

RoundTrip(first, last, parts) == [first |-> first, last |-> last, parts |-> parts]

\* A fill opens a position, is added to it, closes it, or closes it and opens
\* the next.
Opens(q, b, n, c) ==
    /\ b.open = None
    /\ c.done = b.done
    /\ c.open \in Positions /\ c.open.first = n
    /\ c.open.net = q[n] /\ c.open.parts = {n}

Adds(b, n, c) ==
    /\ b.open \in Positions
    /\ c.done = b.done
    /\ c.open \in Positions /\ c.open.first = b.open.first
    /\ c.open.net # 0 /\ c.open.parts = b.open.parts \union {n}

Closes(b, n, c) ==
    /\ b.open \in Positions
    /\ c.done = b.done \union {RoundTrip(b.open.first, n, b.open.parts \union {n})}
    /\ \/ c.open = None
       \/ /\ c.open \in Positions /\ c.open.first = n
          /\ c.open.net # 0 /\ c.open.parts = {n}

LEMMA FillDoes ==
    ASSUME NEW q, NEW n \in Nat, q[n] \in Int, NEW b, IsBook(b), NEW c, c = Turn(q, b, n)
    PROVE  /\ IsBook(c)
           /\ Opens(q, b, n, c) \/ Adds(b, n, c) \/ Closes(b, n, c)
<1>0. PICK done : \E open \in Positions \union {None} : b = [done |-> done, open |-> open]
  BY DEF IsBook
<1>1. PICK open \in Positions \union {None} : b = [done |-> done, open |-> open]
  BY <1>0
<1>2. b.open = open /\ b.done = done
  BY <1>1
<1>3. CASE open = None
  <2> DEFINE p == [first |-> n, net |-> q[n], parts |-> {n}]
  <2>1. c = [done |-> done, open |-> p]
    BY <1>1, <1>3 DEF Turn
  <2>2. p \in Positions /\ p.first = n /\ p.net = q[n] /\ p.parts = {n}
    BY DEF Positions
  <2> HIDE DEF p
  <2>3. c.done = done /\ c.open = p /\ IsBook(c)
    BY <2>1, <2>2, BookMade
  <2> QED
    BY <1>2, <1>3, <2>2, <2>3 DEF Opens
<1>4. CASE open # None
  <2>1. PICK first \in Nat, net \in Int, parts \in SUBSET Nat :
          open = [first |-> first, net |-> net, parts |-> parts]
    BY <1>4 DEF Positions
  <2> DEFINE after == net + q[n]
             closed == RoundTrip(first, n, parts \union {n})
             p == [first |-> n, net |-> after, parts |-> {n}]
             r == [first |-> first, net |-> after, parts |-> parts \union {n}]
  <2>2. open \in Positions /\ open.first = first /\ open.net = net /\ open.parts = parts
    BY <1>4, <2>1
  <2>3. Closed(open, n) = closed
    BY <2>2 DEF Closed, RoundTrip
  <2>4. /\ p \in Positions /\ p.first = n /\ p.net = after /\ p.parts = {n}
        /\ r \in Positions /\ r.first = first /\ r.net = after
        /\ r.parts = parts \union {n}
    BY DEF Positions
  <2>5. CASE CrossesZero(net, after)
    <3>1. c = [done |-> done \union {closed}, open |-> p]
      BY <1>1, <1>4, <2>2, <2>3, <2>5 DEF Turn
    <3>0. p \in Positions \union {None}
      BY <2>4
    <3>3. after # 0
      BY <2>5 DEF CrossesZero
    <3> HIDE DEF p, closed, after
    <3>2. c.done = done \union {closed} /\ c.open = p /\ IsBook(c)
      BY <3>0, <3>1, BookMade
    <3> QED
      BY <1>2, <2>2, <2>4, <3>2, <3>3 DEF closed, Closes
  <2>6. CASE ~CrossesZero(net, after) /\ after = 0
    <3>1. c = [done |-> done \union {closed}, open |-> None]
      BY <1>1, <1>4, <2>2, <2>3, <2>6 DEF Turn
    <3> HIDE DEF closed
    <3>2. c.done = done \union {closed} /\ c.open = None /\ IsBook(c)
      BY <3>1, BookMade
    <3> QED
      BY <1>2, <2>2, <3>2 DEF closed, Closes
  <2>7. CASE ~CrossesZero(net, after) /\ after # 0
    <3>1. c = [done |-> done, open |-> r]
      BY <1>1, <1>4, <2>1, <2>2, <2>7 DEF Turn
    <3>0. r \in Positions \union {None}
      BY <2>4
    <3> HIDE DEF r, after
    <3>2. c.done = done /\ c.open = r /\ IsBook(c)
      BY <3>0, <3>1, BookMade
    <3> QED
      BY <1>2, <2>2, <2>4, <2>7, <3>2 DEF Adds
  <2> QED
    BY <2>5, <2>6, <2>7
<1> QED
  BY <1>3, <1>4

\* What matters of this for the order of round trips.
LEMMA OneFill ==
    ASSUME NEW q, NEW n \in Nat, q[n] \in Int, NEW b, IsBook(b), NEW c, c = Turn(q, b, n)
    PROVE  /\ IsBook(c)
           /\ \/ /\ b.open = None
                 /\ c.done = b.done
                 /\ c.open \in Positions /\ c.open.first = n
              \/ /\ b.open \in Positions
                 /\ c.done = b.done
                 /\ c.open \in Positions /\ c.open.first = b.open.first
              \/ /\ b.open \in Positions
                 /\ c.done = b.done \union {RoundTrip(b.open.first, n, b.open.parts \union {n})}
                 /\ c.open = None \/ (c.open \in Positions /\ c.open.first = n)
<1>1. IsBook(c) /\ (Opens(q, b, n, c) \/ Adds(b, n, c) \/ Closes(b, n, c))
  BY FillDoes
<1>2. CASE Opens(q, b, n, c)
  BY <1>1, <1>2 DEF Opens
<1>3. CASE Adds(b, n, c)
  BY <1>1, <1>3 DEF Adds
<1>4. CASE Closes(b, n, c)
  BY <1>1, <1>4 DEF Closes
<1> QED
  BY <1>1, <1>2, <1>3, <1>4

\* What a fill does to the position, and what it closes, does not depend on
\* what was closed before.
LEMMA SameFill ==
    ASSUME NEW q, NEW n \in Nat, NEW b, IsBook(b), NEW c, IsBook(c), b.open = c.open,
           NEW done, b.done = done \union c.done
    PROVE  /\ Turn(q, b, n).open = Turn(q, c, n).open
           /\ Turn(q, b, n).done = done \union Turn(q, c, n).done
<1>0. c = [done |-> c.done, open |-> c.open]
  BY DEF IsBook
<1>1. PICK d, open : c = [done |-> d, open |-> open]
  BY <1>0
<1>2. b = [done |-> done \union d, open |-> open]
  BY <1>1 DEF IsBook
<1>3. CASE open = None
  BY <1>1, <1>2, <1>3 DEF Turn
<1>4. CASE open # None
  <2> DEFINE after == open.net + q[n]
             left == [[first |-> n, net |-> q[n], parts |-> {n}] EXCEPT !.net = after]
             p == [open EXCEPT !.net = after, !.parts = @ \union {n}]
  <2>1. CASE CrossesZero(open.net, after)
    <3>1. /\ Turn(q, c, n) = [done |-> d \union {Closed(open, n)}, open |-> left]
          /\ Turn(q, b, n) = [done |-> done \union d \union {Closed(open, n)}, open |-> left]
      BY <1>1, <1>2, <1>4, <2>1 DEF Turn
    <3> HIDE DEF left
    <3> QED
      BY <3>1
  <2>2. CASE ~CrossesZero(open.net, after) /\ after = 0
    <3>1. /\ Turn(q, c, n) = [done |-> d \union {Closed(open, n)}, open |-> None]
          /\ Turn(q, b, n) = [done |-> done \union d \union {Closed(open, n)}, open |-> None]
      BY <1>1, <1>2, <1>4, <2>2 DEF Turn
    <3> QED
      BY <3>1
  <2>3. CASE ~CrossesZero(open.net, after) /\ after # 0
    <3>1. /\ Turn(q, c, n) = [done |-> d, open |-> p]
          /\ Turn(q, b, n) = [done |-> done \union d, open |-> p]
      BY <1>1, <1>2, <1>4, <2>3 DEF Turn
    <3> HIDE DEF p
    <3> QED
      BY <3>1
  <2> QED
    BY <2>1, <2>2, <2>3
<1> QED
  BY <1>3, <1>4

----------------------------------------------------------------------------
(* The walk over a set of fills *)

\* Fills of the exchange q.
Known(q, F) == F \subseteq 1..MaxFills /\ \A n \in F : q[n] \in Int

\* Round trips follow one another: each begins where the one before it ended
\* or later, so that no two begin with one fill.
InOrder(F, b, n) ==
    /\ IsBook(b)
    /\ b.open \in Positions => b.open.first \in F /\ b.open.first <= n
    /\ \A d \in b.done : /\ d.first \in F /\ d.last \in F
                         /\ d.first < d.last /\ d.last <= n
                         /\ b.open \in Positions => d.last <= b.open.first
    /\ \A d, e \in b.done : d.first = e.first => d = e

LEMMA FillInOrder ==
    ASSUME NEW q, NEW F, Known(q, F), NEW n \in Nat, n + 1 \in F,
           NEW b, InOrder(F, b, n), NEW c, c = Turn(q, b, n + 1)
    PROVE  InOrder(F, c, n + 1)
<1>1. IsBook(b) /\ n + 1 \in Nat /\ q[n + 1] \in Int
  BY DEF InOrder, Known
<1>0. PICK m \in Nat : m = n + 1
  OBVIOUS
<1>2. /\ IsBook(c)
      /\ \/ /\ b.open = None
            /\ c.done = b.done
            /\ c.open \in Positions /\ c.open.first = n + 1
         \/ /\ b.open \in Positions
            /\ c.done = b.done
            /\ c.open \in Positions /\ c.open.first = b.open.first
         \/ /\ b.open \in Positions
            /\ c.done = b.done \union {RoundTrip(b.open.first, n + 1, b.open.parts \union {n + 1})}
            /\ c.open = None \/ (c.open \in Positions /\ c.open.first = n + 1)
  <2>1. q[m] \in Int /\ c = Turn(q, b, m) /\ IsBook(b)
    BY <1>0, <1>1
  <2>2. /\ IsBook(c)
        /\ \/ /\ b.open = None
              /\ c.done = b.done
              /\ c.open \in Positions /\ c.open.first = m
           \/ /\ b.open \in Positions
              /\ c.done = b.done
              /\ c.open \in Positions /\ c.open.first = b.open.first
           \/ /\ b.open \in Positions
              /\ c.done = b.done \union {RoundTrip(b.open.first, m, b.open.parts \union {m})}
              /\ c.open = None \/ (c.open \in Positions /\ c.open.first = m)
    BY <2>1, OneFill
  <2> QED
    BY <1>0, <2>2
<1>3. \A x \in F : x \in Nat
  <2>1. \A x \in 1..MaxFills : x \in Nat
    BY IntakeAssumption
  <2> QED
    BY <2>1 DEF Known
<1>4. b.open \in Positions => b.open.first \in F /\ b.open.first <= n
  BY DEF InOrder
<1>5. \A d \in b.done : /\ d.first \in F /\ d.last \in F
                        /\ d.first < d.last /\ d.last <= n /\ d.last <= n + 1
                        /\ b.open \in Positions => d.last <= b.open.first /\ d.first < b.open.first
  <2> TAKE d \in b.done
  <2>1. /\ d.first \in F /\ d.last \in F
        /\ d.first < d.last /\ d.last <= n
        /\ b.open \in Positions => d.last <= b.open.first
    BY DEF InOrder
  <2>2. d.first \in Nat /\ d.last \in Nat /\ (b.open \in Positions => b.open.first \in Nat)
    BY <1>3, <1>4, <2>1
  <2> QED
    BY <2>1, <2>2
<1>6. \A d, e \in b.done : d.first = e.first => d = e
  BY DEF InOrder
<1>7. CASE b.open = None /\ c.done = b.done /\ c.open \in Positions /\ c.open.first = n + 1
  <2>1. n + 1 <= n + 1
    OBVIOUS
  <2> QED
    BY <1>2, <1>5, <1>6, <1>7, <2>1 DEF InOrder
<1>8. CASE /\ b.open \in Positions /\ c.done = b.done
           /\ c.open \in Positions /\ c.open.first = b.open.first
  <2>1. b.open.first <= n + 1
    BY <1>3, <1>4, <1>8
  <2> QED
    BY <1>2, <1>4, <1>5, <1>6, <1>8, <2>1 DEF InOrder
<1>9. CASE /\ b.open \in Positions
           /\ c.done = b.done \union {RoundTrip(b.open.first, n + 1, b.open.parts \union {n + 1})}
           /\ c.open = None \/ (c.open \in Positions /\ c.open.first = n + 1)
  <2> DEFINE x == RoundTrip(b.open.first, n + 1, b.open.parts \union {n + 1})
  <2>1. x.first = b.open.first /\ x.last = n + 1
    BY DEF RoundTrip
  <2>2. c.done = b.done \union {x}
    BY <1>9
  <2> HIDE DEF x
  <2>3. x.first \in F /\ x.last \in F /\ x.first < x.last /\ x.last <= n + 1
    BY <1>3, <1>4, <1>9, <2>1
  <2>4. \A d \in b.done : d.first # x.first
    <3> TAKE d \in b.done
    <3>1. d.first < x.first /\ d.first \in Nat /\ x.first \in Nat
      BY <1>3, <1>5, <1>9, <2>1, <2>3
    <3> QED
      BY <3>1
  <2>5. \A d, e \in c.done : d.first = e.first => d = e
    BY <1>6, <2>2, <2>4
  <2>6. c.open \in Positions => c.open.first \in F /\ c.open.first <= n + 1
    <3>1. n + 1 <= n + 1 /\ None \notin Positions
      BY IntakeAssumption
    <3> QED
      BY <1>9, <3>1
  <2>7. \A d \in c.done : /\ d.first \in F /\ d.last \in F
                          /\ d.first < d.last /\ d.last <= n + 1
                          /\ c.open \in Positions => d.last <= c.open.first
    <3>1. c.open \in Positions => c.open.first = n + 1
      BY <1>9, IntakeAssumption
    <3> QED
      BY <1>5, <2>2, <2>3, <3>1
  <2> QED
    BY <1>2, <2>5, <2>6, <2>7 DEF InOrder
<1> QED
  BY <1>2, <1>7, <1>8, <1>9

LEMMA NothingInOrder == \A F : \A n \in 0..MaxFills : InOrder(F, NoBook, n)
<1>1. IsBook(NoBook)
  BY BookMade DEF NoBook
<1> QED
  BY <1>1, IntakeAssumption DEF InOrder, NoBook

LEMMA WalkInOrder ==
    ASSUME NEW q, NEW F, Known(q, F)
    PROVE  \A n \in 0..MaxFills : InOrder(F, Walk(q, F)[n], n)
<1> DEFINE S == {n \in 0..MaxFills : InOrder(F, Walk(q, F)[n], n)}
<1>1. MaxFills \in Nat
  BY IntakeAssumption
<1>2. 0 \in S
  BY <1>1, WalkUnfolds, NothingInOrder
<1>3. ASSUME NEW n \in 0..MaxFills, n < MaxFills, n \in S
      PROVE  n + 1 \in S
  <2>1. n \in Nat /\ n + 1 \in 0..MaxFills
    BY <1>1, <1>3
  <2>2. InOrder(F, Walk(q, F)[n], n)
    BY <1>3
  <2>3. CASE n + 1 \in F
    <3>1. Walk(q, F)[n + 1] = Turn(q, Walk(q, F)[n], n + 1)
      BY <1>3, <2>3, WalkUnfolds
    <3>2. InOrder(F, Walk(q, F)[n + 1], n + 1)
      BY <2>1, <2>2, <2>3, <3>1, FillInOrder
    <3> QED
      BY <2>1, <3>2
  <2>4. CASE n + 1 \notin F
    <3>1. Walk(q, F)[n + 1] = Walk(q, F)[n]
      BY <1>3, <2>4, WalkUnfolds
    <3>2. \A x \in F : x \in Nat /\ (x <= n => x <= n + 1)
      BY <1>1, <2>1 DEF Known
    <3>3. InOrder(F, Walk(q, F)[n], n + 1)
      BY <2>2, <3>2 DEF InOrder
    <3> QED
      BY <2>1, <3>1, <3>3
  <2> QED
    BY <2>3, <2>4
<1> HIDE DEF S
<1>4. \A n \in 0..MaxFills : n \in S
  BY <1>1, <1>2, <1>3, InductionTo
<1> QED
  BY <1>4 DEF S

LEMMA NothingWalked == \A q : \A n \in 0..MaxFills : Walk(q, {})[n] = NoBook
<1> SUFFICES ASSUME NEW q PROVE \A n \in 0..MaxFills : Walk(q, {})[n] = NoBook
  OBVIOUS
<1> DEFINE S == {n \in 0..MaxFills : Walk(q, {})[n] = NoBook}
<1>1. MaxFills \in Nat
  BY IntakeAssumption
<1>2. 0 \in S
  BY <1>1, WalkUnfolds
<1>3. ASSUME NEW n \in 0..MaxFills, n < MaxFills, n \in S
      PROVE  n + 1 \in S
  <2>1. n + 1 \in 0..MaxFills /\ n + 1 \notin {}
    BY <1>1, <1>3
  <2>2. Walk(q, {})[n + 1] = Walk(q, {})[n]
    BY <1>3, <2>1, WalkUnfolds
  <2> QED
    BY <1>3, <2>1, <2>2
<1> HIDE DEF S
<1>4. \A n \in 0..MaxFills : n \in S
  BY <1>1, <1>2, <1>3, InductionTo
<1> QED
  BY <1>4 DEF S

\* Where the position is flat the walk can begin anew: what follows does not
\* depend on what was before.
LEMMA WalkSplits ==
    ASSUME NEW q, NEW F, Known(q, F), NEW b \in 0..MaxFills, Walk(q, F)[b].open = None,
           NEW G, G = After(F, b)
    PROVE  \A n \in b..MaxFills :
              /\ Walk(q, F)[n].open = Walk(q, G)[n].open
              /\ Walk(q, F)[n].done = Walk(q, F)[b].done \union Walk(q, G)[n].done
<1> DEFINE f == Walk(q, F)
           g == Walk(q, G)
           old == f[b].done
           Fits(n) == f[n].open = g[n].open /\ f[n].done = old \union g[n].done
           S == {n \in 0..MaxFills : n >= b => Fits(n)}
<1>1. MaxFills \in Nat /\ b \in Nat /\ b <= MaxFills
  BY IntakeAssumption
<1>2. Known(q, G) /\ \A n \in Nat : n > b => (n \in G <=> n \in F)
  BY DEF Known, After
<1>3. g[b] = NoBook
  <2>1. \A n \in 1..b : (n \in G <=> n \in {}) /\ (n \in G => q[n] = q[n])
    <3>1. \A n \in 1..b : ~(n > b)
      BY <1>1
    <3> QED
      BY <3>1 DEF After
  <2>2. g[b] = Walk(q, {})[b]
    BY <2>1, SamePrefix
  <2> QED
    BY <2>2, NothingWalked
<1>4. Fits(b)
  BY <1>3 DEF NoBook
<1>5. \A n \in 0..MaxFills : IsBook(f[n]) /\ IsBook(g[n])
  BY <1>2, WalkInOrder DEF InOrder
<1>6. \A n \in 0..MaxFills : n < MaxFills =>
         /\ f[n + 1] = IF n + 1 \in F THEN Turn(q, f[n], n + 1) ELSE f[n]
         /\ g[n + 1] = IF n + 1 \in G THEN Turn(q, g[n], n + 1) ELSE g[n]
  BY WalkUnfolds
<1> HIDE DEF f, g, old
<1>7. 0 \in S
  <2>1. 0 >= b => b = 0
    BY <1>1
  <2> QED
    BY <1>1, <1>4, <2>1
<1>8. ASSUME NEW n \in 0..MaxFills, n < MaxFills, n \in S
      PROVE  n + 1 \in S
  <2>1. n + 1 \in 0..MaxFills /\ n + 1 \in Nat
    BY <1>1, <1>8
  <2>2. CASE n >= b
    <3>1. Fits(n) /\ n + 1 > b
      BY <1>1, <1>8, <2>2
    <3>2. CASE n + 1 \in F
      <4>1. f[n + 1] = Turn(q, f[n], n + 1) /\ g[n + 1] = Turn(q, g[n], n + 1)
        BY <1>2, <1>6, <1>8, <2>1, <3>1, <3>2
      <4>2. /\ Turn(q, f[n], n + 1).open = Turn(q, g[n], n + 1).open
            /\ Turn(q, f[n], n + 1).done = old \union Turn(q, g[n], n + 1).done
        <5>1. PICK m \in Nat : m = n + 1
          BY <2>1
        <5>2. /\ Turn(q, f[n], m).open = Turn(q, g[n], m).open
              /\ Turn(q, f[n], m).done = old \union Turn(q, g[n], m).done
          <6>1. PICK x, y : x = f[n] /\ y = g[n]
            OBVIOUS
          <6>2. IsBook(x) /\ IsBook(y) /\ x.open = y.open /\ x.done = old \union y.done
            BY <1>5, <3>1, <6>1
          <6> HIDE DEF old
          <6>3. /\ Turn(q, x, m).open = Turn(q, y, m).open
                /\ Turn(q, x, m).done = old \union Turn(q, y, m).done
            BY <6>2, SameFill
          <6> QED
            BY <6>1, <6>3
        <5> QED
          BY <5>1, <5>2
      <4> QED
        BY <2>1, <4>1, <4>2
    <3>3. CASE n + 1 \notin F
      <4>1. f[n + 1] = f[n] /\ g[n + 1] = g[n]
        BY <1>2, <1>6, <1>8, <2>1, <3>1, <3>3
      <4> QED
        BY <2>1, <3>1, <4>1
    <3> QED
      BY <3>2, <3>3
  <2>3. CASE ~(n >= b)
    <3>1. n + 1 >= b => n + 1 = b
      BY <1>1, <2>1, <2>3
    <3> QED
      BY <1>4, <2>1, <3>1
  <2> QED
    BY <2>2, <2>3
<1> HIDE DEF S
<1>9. \A n \in 0..MaxFills : n \in S
  BY <1>1, <1>7, <1>8, InductionTo
<1>10. ASSUME NEW n \in b..MaxFills PROVE Fits(n)
  <2>1. n \in 0..MaxFills /\ n >= b
    BY <1>1
  <2> QED
    BY <1>9, <2>1 DEF S
<1> QED
  BY <1>10 DEF f, g, old

\* Where a round trip ends the position is flat, but for a fill that turned
\* it over and with which the next one begins.
TurnedOver(b, d) ==
    \/ b.open \in Positions /\ b.open.first = d.last
    \/ \E e \in b.done : e.first = d.last

LEMMA FlatAfterRoundTrip ==
    ASSUME NEW q, NEW F, Known(q, F)
    PROVE  \A n \in 0..MaxFills : \A d \in Walk(q, F)[n].done :
              Walk(q, F)[d.last].open = None \/ TurnedOver(Walk(q, F)[n], d)
<1> DEFINE f == Walk(q, F)
           Good(n) == \A d \in f[n].done : f[d.last].open = None \/ TurnedOver(f[n], d)
           S == {n \in 0..MaxFills : Good(n)}
<1>1. MaxFills \in Nat
  BY IntakeAssumption
<1>2. \A n \in 0..MaxFills : InOrder(F, f[n], n)
  BY WalkInOrder
<1>3. /\ f[0] = NoBook
      /\ \A n \in 0..MaxFills : n < MaxFills =>
           f[n + 1] = IF n + 1 \in F THEN Turn(q, f[n], n + 1) ELSE f[n]
  BY WalkUnfolds
<1> HIDE DEF f
<1>4. 0 \in S
  BY <1>1, <1>3 DEF NoBook
<1>5. ASSUME NEW n \in 0..MaxFills, n < MaxFills, n \in S
      PROVE  n + 1 \in S
  <2>1. PICK m \in Nat : m = n + 1
    BY <1>1
  <2>2. m \in 0..MaxFills /\ Good(n)
    BY <1>1, <1>5, <2>1
  <2>3. CASE m \notin F
    <3>1. f[m] = f[n]
      BY <1>3, <1>5, <2>1, <2>3
    <3> QED
      BY <2>1, <2>2, <3>1
  <2>4. CASE m \in F
    <3>1. f[m] = Turn(q, f[n], m) /\ q[m] \in Int /\ IsBook(f[n])
      BY <1>2, <1>3, <1>5, <2>1, <2>4 DEF InOrder, Known
    <3> DEFINE b == f[n]
               c == f[m]
    <3>2. \/ /\ b.open = None
             /\ c.done = b.done
          \/ /\ b.open \in Positions
             /\ c.done = b.done
             /\ c.open \in Positions /\ c.open.first = b.open.first
          \/ /\ b.open \in Positions
             /\ c.done = b.done \union {RoundTrip(b.open.first, m, b.open.parts \union {m})}
             /\ c.open = None \/ (c.open \in Positions /\ c.open.first = m)
      BY <3>1, OneFill
    <3> HIDE DEF b, c
    <3>3. \A d \in b.done : f[d.last].open = None \/ TurnedOver(b, d)
      BY <2>2 DEF b
    <3>4. None \notin Positions
      BY IntakeAssumption
    <3>5. ASSUME NEW d \in c.done
          PROVE  f[d.last].open = None \/ TurnedOver(c, d)
      <4>1. CASE d \in b.done
        <5>1. CASE f[d.last].open = None
          BY <5>1
        <5>2. CASE b.open \in Positions /\ b.open.first = d.last
          <6>1. RoundTrip(b.open.first, m, b.open.parts \union {m}).first = b.open.first
            BY DEF RoundTrip
          <6> QED
            BY <3>2, <3>4, <5>2, <6>1 DEF TurnedOver
        <5>3. CASE \E e \in b.done : e.first = d.last
          BY <3>2, <5>3 DEF TurnedOver
        <5> QED
          BY <3>3, <4>1, <5>1, <5>2, <5>3 DEF TurnedOver
      <4>2. CASE d \notin b.done
        <5>1. d = RoundTrip(b.open.first, m, b.open.parts \union {m})
              /\ (c.open = None \/ (c.open \in Positions /\ c.open.first = m))
          BY <3>2, <4>2
        <5>2. d.last = m
          BY <5>1 DEF RoundTrip
        <5> QED
          BY <5>1, <5>2 DEF TurnedOver, c
      <4> QED
        BY <4>1, <4>2
    <3>6. Good(m)
      BY <3>5 DEF c
    <3> QED
      BY <2>1, <2>2, <3>6
  <2> QED
    BY <2>3, <2>4
<1> HIDE DEF S
<1>6. \A n \in 0..MaxFills : n \in S
  BY <1>1, <1>4, <1>5, InductionTo
<1> QED
  BY <1>6 DEF S, f

----------------------------------------------------------------------------
(* A rebuild *)

LEMMA HighestOf ==
    ASSUME NEW S, S \subseteq 0..MaxFills, NEW b \in 0..MaxFills
    PROVE  /\ Highest(S, b) \in S \union {b}
           /\ \A n \in S \union {b} : n <= Highest(S, b)
<1> DEFINE T == S \union {b}
           Below == {MaxFills - n : n \in T}
<1>1. MaxFills \in Nat /\ T \subseteq 0..MaxFills /\ b \in T
  BY IntakeAssumption
<1> HIDE DEF T
<1>2. \A n \in T : n \in Int /\ MaxFills - n \in Nat
  BY <1>1
<1>3. Below \subseteq Nat /\ Below # {}
  BY <1>1, <1>2
<1>4. PICK x \in Below : \A y \in Below : x <= y
  <2> HIDE DEF Below
  <2> QED
    BY <1>3, LeastNumber
<1>5. PICK m \in T : x = MaxFills - m
  OBVIOUS
<1>6. \A n \in T : n <= m
  <2> TAKE n \in T
  <2>1. MaxFills - m <= MaxFills - n
    BY <1>4, <1>5
  <2> QED
    BY <1>1, <1>2, <2>1
<1>7. Highest(S, b) \in T /\ \A n \in T : n <= Highest(S, b)
  BY <1>6 DEF Highest, T
<1> QED
  BY <1>7 DEF T

RebuildBy(q, known, fresh, st) ==
    LET border == Border(fresh, st)
        used   == After(known, border)
        book   == Agg(q, used)
    IN  IF used = {} THEN [state |-> st, done |-> {}]
        ELSE [state |->
                [border |-> Highest({d.last : d \in book.done}, border),
                 open |-> book.open],
              done |-> book.done]

LEMMA RebuildIs ==
    ASSUME NEW known, NEW fresh, NEW st
    PROVE  Rebuild(known, fresh, st) = RebuildBy(exchange, known, fresh, st)
<1>1. Aggregate(After(known, Border(fresh, st))) = Agg(exchange, After(known, Border(fresh, st)))
  BY AggregateIs
<1> QED
  BY <1>1 DEF Rebuild, RebuildBy

\* A border the next rebuild may begin at: the position is flat there, and no
\* round trip has ended since.
InPlace(q, F, border) ==
    /\ border \in 0..MaxFills
    /\ Walk(q, F)[border].open = None
    /\ Agg(q, After(F, border)).done = {}

\* No fill has turned the position over.
Straight(open, done) ==
    ~\E d \in done : \/ open # None /\ open.first = d.last
                     \/ \E e \in done : e.first = d.last

\* What a rebuild finds are the round trips that were not there before, and
\* its border is in place.
LEMMA RebuildFinds ==
    ASSUME NEW q, NEW F, NEW fresh, Known(q, F), Known(q, fresh),
           NEW st, InPlace(q, F, st.border), NEW K, K = F \union fresh,
           NEW out, out = RebuildBy(q, K, fresh, st), Straight(out.state.open, out.done)
    PROVE  /\ InPlace(q, K, out.state.border)
           /\ out.done \subseteq Agg(q, K).done
           /\ Agg(q, K).done \subseteq Agg(q, F).done \union out.done
           /\ ~(Border(fresh, st) < st.border) => Agg(q, F).done \subseteq Agg(q, K).done
<1> DEFINE border == Border(fresh, st)
           used == After(K, border)
           old == Walk(q, K)[border].done
           new == Agg(q, used).done
<1>1. MaxFills \in Nat /\ st.border \in 0..MaxFills /\ st.border \in Nat
  BY IntakeAssumption DEF InPlace
<1>2. Known(q, K) /\ Known(q, used)
  BY DEF Known, After
<1>3. \/ border = 0 /\ \E n \in fresh : n <= st.border
      \/ border = st.border /\ \A n \in fresh : ~(n <= st.border)
  BY DEF Border
<1>4. border \in 0..MaxFills /\ border \in Nat
  BY <1>1, <1>3
<1>5. border = st.border =>
         Walk(q, K)[border] = Walk(q, F)[border]
  <2> SUFFICES ASSUME border = st.border
               PROVE  Walk(q, K)[st.border] = Walk(q, F)[st.border]
    OBVIOUS
  <2>1. CASE st.border = 0
    BY <2>1, WalkUnfolds
  <2>2. CASE st.border # 0
    <3>1. \A n \in fresh : ~(n <= st.border)
      BY <1>3, <2>2
    <3>2. PICK b \in 0..MaxFills : b = st.border
      BY <1>1
    <3>3. \A n \in 1..b : (n \in K <=> n \in F) /\ (n \in K => q[n] = q[n])
      BY <1>1, <3>1, <3>2
    <3>4. Walk(q, K)[b] = Walk(q, F)[b]
      BY <3>3, SamePrefix
    <3> QED
      BY <3>2, <3>4
  <2> QED
    BY <2>1, <2>2
<1>6. Walk(q, K)[border].open = None
  <2>1. CASE border = 0
    <3>1. Walk(q, K)[0] = NoBook
      BY WalkUnfolds
    <3> QED
      BY <2>1, <3>1 DEF NoBook
  <2>2. CASE border = st.border
    BY <1>5, <2>2 DEF InPlace
  <2> QED
    BY <1>3, <2>1, <2>2
<1>7. \A n \in border..MaxFills :
         /\ Walk(q, K)[n].open = Walk(q, used)[n].open
         /\ Walk(q, K)[n].done = old \union Walk(q, used)[n].done
  <2>1. PICK b \in 0..MaxFills : b = border
    BY <1>4
  <2>2. PICK G : G = used
    OBVIOUS
  <2>3. G = After(K, b) /\ Walk(q, K)[b].open = None
    BY <1>6, <2>1, <2>2
  <2> HIDE DEF border, used
  <2>4. \A n \in b..MaxFills :
           /\ Walk(q, K)[n].open = Walk(q, G)[n].open
           /\ Walk(q, K)[n].done = Walk(q, K)[b].done \union Walk(q, G)[n].done
    <3>1. PICK L : L = K
      OBVIOUS
    <3>2. Known(q, L) /\ G = After(L, b) /\ Walk(q, L)[b].open = None
      BY <1>2, <2>3, <3>1
    <3>3. \A n \in b..MaxFills :
             /\ Walk(q, L)[n].open = Walk(q, G)[n].open
             /\ Walk(q, L)[n].done = Walk(q, L)[b].done \union Walk(q, G)[n].done
      BY ONLY <3>2, WalkSplits, b \in 0..MaxFills
    <3> QED
      BY <3>1, <3>3
  <2> QED
    BY <2>1, <2>2, <2>4
<1>8. Agg(q, K).done = old \union new
  <2>1. MaxFills \in border..MaxFills
    BY <1>1, <1>4
  <2> QED
    BY <1>7, <2>1 DEF Agg
<1>9. Agg(q, F).done = Walk(q, F)[st.border].done
  <2>1. MaxFills \in st.border..MaxFills
    BY <1>1
  <2>2. Agg(q, F).done = Walk(q, F)[st.border].done \union Agg(q, After(F, st.border)).done
    <3>1. PICK b \in 0..MaxFills : b = st.border
      BY <1>1
    <3>2. Walk(q, F)[b].open = None
      BY <3>1 DEF InPlace
    <3>3. Walk(q, F)[MaxFills].done
            = Walk(q, F)[b].done \union Walk(q, After(F, b))[MaxFills].done
      BY <2>1, <3>1, <3>2, WalkSplits
    <3> QED
      BY <3>1, <3>3 DEF Agg
  <2> QED
    BY <2>2 DEF InPlace
<1>10. border = 0 => old = {}
  <2>1. Walk(q, K)[0].done = {}
    BY WalkUnfolds DEF NoBook
  <2> QED
    BY <2>1
<1>11. border = st.border => old = Agg(q, F).done
  BY <1>5, <1>9
<1>12. new = out.done
  <2>1. used = {} => new = {}
    <3>1. Walk(q, {})[MaxFills] = NoBook
      BY <1>1, NothingWalked
    <3> QED
      BY <3>1 DEF Agg, NoBook
  <2> HIDE DEF border
  <2>2. CASE used = {}
    <3>1. out.done = {}
      BY <2>2 DEF RebuildBy, border
    <3> QED
      BY <2>1, <2>2, <3>1
  <2>3. CASE used # {}
    BY <2>3 DEF RebuildBy, border
  <2> QED
    BY <2>2, <2>3
<1>13. InPlace(q, K, out.state.border)
  <2>1. CASE used = {}
    <3>1. ~\E n \in fresh : n <= st.border /\ border = 0
      <4> SUFFICES ASSUME NEW n \in fresh, border = 0 PROVE FALSE
        OBVIOUS
      <4>1. n \in 1..MaxFills /\ n \in K
        BY DEF Known
      <4>2. n > 0
        BY <1>1, <4>1
      <4> QED
        BY <2>1, <4>1, <4>2 DEF After
    <3>2. border = st.border
      BY <1>3, <3>1
    <3>3. out.state = st
      BY <2>1 DEF RebuildBy
    <3>4. Agg(q, used).done = {}
      BY <1>12, <2>1 DEF RebuildBy
    <3> QED
      BY <1>1, <1>6, <3>2, <3>3, <3>4 DEF InPlace
  <2>2. CASE used # {}
    <3> DEFINE lasts == {d.last : d \in new}
               top == Highest(lasts, border)
               rest == After(K, top)
    <3>1. out.state.border = top /\ out.state.open = Agg(q, used).open
      BY <2>2 DEF RebuildBy
    <3>2. \A d \in new : d.last \in used /\ d.last \in 0..MaxFills /\ d.last > border
      <4>1. \A d \in new : d.last \in used
        BY <1>1, <1>2, WalkInOrder DEF InOrder, Agg
      <4>2. \A x \in used : x \in 0..MaxFills /\ x > border
        BY <1>1, <1>2 DEF Known, After
      <4> QED
        BY <4>1, <4>2
    <3>3. lasts \subseteq 0..MaxFills
      BY <3>2
    <3>4. top \in lasts \union {border} /\ \A n \in lasts \union {border} : n <= top
      <4> HIDE DEF lasts, border
      <4> QED
        BY <1>4, <3>3, HighestOf
    <3>5. top \in 0..MaxFills /\ top \in border..MaxFills
      <4> HIDE DEF lasts, top, border
      <4>1. top \in 0..MaxFills /\ border <= top
        BY <1>4, <3>3, <3>4
      <4> QED
        BY <1>1, <1>4, <4>1
    <3> HIDE DEF top
    <3>6. Walk(q, K)[top].open = None
      <4>1. CASE top = border
        BY <1>6, <4>1
      <4>2. CASE top # border
        <5>1. PICK d \in new : top = d.last
          BY <3>4, <4>2
        <5>2. Walk(q, used)[d.last].open = None \/ TurnedOver(Agg(q, used), d)
          BY <1>1, <1>2, FlatAfterRoundTrip DEF Agg
        <5>3. ~TurnedOver(Agg(q, used), d)
          <6>1. Straight(Agg(q, used).open, new)
            BY <1>12, <3>1
          <6> QED
            BY <6>1, IntakeAssumption DEF Straight, TurnedOver
        <5>4. Walk(q, used)[top].open = None
          BY <5>1, <5>2, <5>3
        <5> QED
          BY <1>7, <3>5, <5>4
      <4> QED
        BY <4>1, <4>2
    <3>7. Agg(q, rest).done = {}
      <4> SUFFICES ASSUME NEW d \in Agg(q, rest).done PROVE FALSE
        OBVIOUS
      <4>1. Known(q, rest)
        BY <1>2 DEF Known, After
      <4>2. d.last \in rest
        BY <1>1, <4>1, WalkInOrder DEF InOrder, Agg
      <4>3. d.last > top /\ d.last \in Nat
        BY <1>1, <4>1, <4>2 DEF After, Known
      <4>4. Agg(q, K).done = Walk(q, K)[top].done \union Agg(q, rest).done
        <5>1. MaxFills \in top..MaxFills
          BY <1>1, <3>5
        <5> QED
          BY <1>2, <3>5, <3>6, <5>1, WalkSplits DEF Agg
      <4>5. d \in old \/ d \in new
        BY <1>8, <4>4
      <4>6. d \in old => d.last <= border
        BY <1>2, <1>4, WalkInOrder DEF InOrder
      <4>7. border <= top /\ top \in Nat
        BY <3>4, <3>5
      <4>8. d \in new => d.last <= top
        BY <3>4
      <4> HIDE DEF old, new, border
      <4> QED
        BY <1>4, <4>3, <4>5, <4>6, <4>7, <4>8
    <3> QED
      BY <3>1, <3>5, <3>6, <3>7 DEF InPlace
  <2> QED
    BY <2>1, <2>2
<1> HIDE DEF border, old, new
<1>14. ~(border < st.border) => border = st.border
  BY <1>1, <1>3
<1>15. ~(Border(fresh, st) < st.border) => Agg(q, F).done \subseteq Agg(q, K).done
  BY <1>8, <1>11, <1>14 DEF border
<1> QED
  BY <1>3, <1>8, <1>10, <1>11, <1>12, <1>13, <1>15

----------------------------------------------------------------------------
(* The inductive invariant of the books *)

\* What a transaction that saves fills has built, from what it had read.
Saves(q, tx) ==
    \E F, fresh, st, live, clash :
        /\ F \subseteq 1..Len(q)
        /\ fresh \subseteq 1..Len(q)
        /\ tx = [phase |-> "built", fresh |-> fresh,
                 state |-> RebuildBy(q, F \union fresh, fresh, st).state,
                 done |-> RebuildBy(q, F \union fresh, fresh, st).done,
                 live |-> live, base |-> <<F, st>>,
                 late |-> Border(fresh, st) < st.border, clash |-> clash]

Downloaded(q, tx) ==
    \E window : window \subseteq 1..Len(q) /\ tx = [phase |-> "got", window |-> window]

IsTransaction(q, tx) == tx = Idle \/ Downloaded(q, tx) \/ Saves(q, tx)

FillsWereExecuted ==
    /\ exchange \in Seq(Quantities) /\ Len(exchange) <= MaxFills
    /\ fills \subseteq 1..Len(exchange)
    /\ wire \in Seq(Nat)
    /\ \A i \in 1..Len(wire) : wire[i] \in 1..Len(exchange)

Transactions == IsTransaction(exchange, order) /\ IsTransaction(exchange, pass)

RoundTrips == Agg(exchange, fills).done

\* As long as nothing went wrong that may lose a round trip.
BooksInOrder ==
    slips \cap {"flip", "overlap", "failed"} = {} =>
        /\ InPlace(exchange, fills, state.border)
        /\ \A d \in RoundTrips : trades[d.first].status = "closed"

TradesInOrder ==
    slips = {} =>
        /\ \A d \in RoundTrips : trades[d.first].status = "closed"
                                 /\ trades[d.first].parts = d.parts
        /\ \A n \in Ids : trades[n].status = "closed" => \E d \in RoundTrips : d.first = n

BInv ==
    /\ Announced
    /\ FillsWereExecuted
    /\ Transactions
    /\ BooksInOrder
    /\ TradesInOrder

LEMMA FillsAreKnown ==
    ASSUME NEW q \in Seq(Quantities), Len(q) <= MaxFills, NEW F, F \subseteq 1..Len(q)
    PROVE  Known(q, F) /\ F \subseteq Ids
<1>1. Len(q) \in Nat /\ MaxFills \in Nat /\ Quantities \subseteq Int
  BY IntakeAssumption
<1>2. 1..Len(q) \subseteq 1..MaxFills
  BY <1>1
<1>3. \A n \in 1..Len(q) : q[n] \in Int
  <2>1. \A n \in 1..Len(q) : q[n] \in Quantities
    OBVIOUS
  <2> QED
    BY <1>1, <2>1
<1> QED
  BY <1>2, <1>3 DEF Known, Ids

\* One more execution changes nothing about those before it.
LEMMA WalkOfMore ==
    ASSUME NEW q, NEW r, NEW F, \A n \in F : r[n] = q[n]
    PROVE  \A n \in 0..MaxFills : Walk(r, F)[n] = Walk(q, F)[n]
<1> SUFFICES ASSUME NEW m \in 0..MaxFills PROVE Walk(r, F)[m] = Walk(q, F)[m]
  OBVIOUS
<1>1. \A n \in 1..m : (n \in F <=> n \in F) /\ (n \in F => r[n] = q[n])
  OBVIOUS
<1> QED
  BY <1>1, SamePrefix

LEMMA RebuildOfMore ==
    ASSUME NEW q, NEW r, NEW K, \A n \in K : r[n] = q[n], NEW fresh, NEW st
    PROVE  RebuildBy(r, K, fresh, st) = RebuildBy(q, K, fresh, st)
<1>1. PICK G : G = After(K, Border(fresh, st))
  OBVIOUS
<1>2. (\A n \in G : r[n] = q[n]) /\ MaxFills \in 0..MaxFills
  BY <1>1, IntakeAssumption DEF After
<1>3. Agg(r, G) = Agg(q, G)
  BY <1>2, WalkOfMore DEF Agg
<1> QED
  BY <1>1, <1>3 DEF RebuildBy

LEMMA TransactionOfMore ==
    ASSUME NEW q, NEW r, 1..Len(q) \subseteq 1..Len(r),
           \A n \in 1..Len(q) : r[n] = q[n], NEW tx, IsTransaction(q, tx)
    PROVE  IsTransaction(r, tx)
<1>2. CASE Saves(q, tx)
  <2>1. PICK F, fresh, st, live, clash :
          /\ F \subseteq 1..Len(q)
          /\ fresh \subseteq 1..Len(q)
          /\ tx = [phase |-> "built", fresh |-> fresh,
                   state |-> RebuildBy(q, F \union fresh, fresh, st).state,
                   done |-> RebuildBy(q, F \union fresh, fresh, st).done,
                   live |-> live, base |-> <<F, st>>,
                   late |-> Border(fresh, st) < st.border, clash |-> clash]
    BY <1>2 DEF Saves
  <2>2. RebuildBy(r, F \union fresh, fresh, st) = RebuildBy(q, F \union fresh, fresh, st)
    <3>1. PICK K : K = F \union fresh
      OBVIOUS
    <3>2. \A n \in K : r[n] = q[n]
      BY <2>1, <3>1
    <3>3. RebuildBy(r, K, fresh, st) = RebuildBy(q, K, fresh, st)
      BY <3>2, RebuildOfMore
    <3> QED
      BY <3>1, <3>3
  <2>3. Saves(r, tx)
    BY <2>1, <2>2 DEF Saves
  <2> QED
    BY <2>3 DEF IsTransaction
<1>3. CASE Downloaded(q, tx)
  BY <1>3 DEF Downloaded, IsTransaction
<1>4. CASE tx = Idle
  BY <1>4 DEF IsTransaction
<1> QED
  BY <1>2, <1>3, <1>4 DEF IsTransaction

LEMMA BInvInit == Init => BInv
<1> SUFFICES ASSUME Init PROVE BInv
  OBVIOUS
<1>1. exchange \in Seq(Quantities) /\ Len(exchange) <= MaxFills
  <2>1. CASE exchange = <<>>
    BY <2>1, IntakeAssumption
  <2>2. ASSUME NEW x \in Quantities, exchange = <<x>>
        PROVE  exchange \in Seq(Quantities) /\ Len(exchange) = 1
    BY <2>2
  <2>3. MaxFills >= 1
    BY IntakeAssumption
  <2> QED
    BY <2>1, <2>2, <2>3 DEF Init
<1>2. /\ fills = {} /\ wire = <<>> /\ state.border = 0
      /\ order = Idle /\ pass = Idle
  BY DEF Init, NoStates
<1>3. FillsWereExecuted
  <2>1. wire \in Seq(Nat) /\ Len(wire) = 0
    BY <1>2
  <2>2. \A i \in 1..Len(wire) : wire[i] \in 1..Len(exchange)
    BY <2>1
  <2> QED
    BY <1>1, <1>2, <2>1, <2>2 DEF FillsWereExecuted
<1>4. Transactions
  BY <1>2 DEF Transactions, IsTransaction
<1>5. MaxFills \in 0..MaxFills /\ 0 \in 0..MaxFills
  BY IntakeAssumption
<1>6. RoundTrips = {}
  BY <1>2, <1>5, NothingWalked DEF RoundTrips, Agg, NoBook
<1>7. InPlace(exchange, fills, state.border)
  <2>1. After(fills, 0) = {}
    BY <1>2 DEF After
  <2>2. Agg(exchange, {}) = NoBook /\ Walk(exchange, fills)[0] = NoBook
    BY <1>2, <1>5, NothingWalked DEF Agg
  <2>3. InPlace(exchange, fills, 0)
    BY <1>5, <2>1, <2>2 DEF InPlace, NoBook
  <2> QED
    BY <1>2, <2>3
<1>8. Announced /\ \A n \in Ids : trades[n].status # "closed"
  BY AnnouncedInit DEF Init, NoTrade
<1> QED
  BY <1>3, <1>4, <1>6, <1>7, <1>8 DEF BInv, BooksInOrder, TradesInOrder

\* What a commit does to the rows: those that were closed stay, the round trips
\* it found are closed.
LEMMA IngestCloses ==
    ASSUME NEW done, NEW open, NEW live, Ingest(Batch(done, open, live)),
           \A d, e \in done : d.first = e.first => d = e
    PROVE  /\ \A n \in Ids : trades[n].status = "closed" => trades'[n] = trades[n]
           /\ \A d \in done : d.first \in Ids /\ trades[d.first].status # "closed" =>
                trades'[d.first] = [status |-> "closed", parts |-> d.parts]
           /\ \A n \in Ids : trades'[n].status = "closed" =>
                trades[n].status = "closed" \/ \E d \in done : d.first = n
<1>1. PICK batch : batch = Batch(done, open, live)
  OBVIOUS
<1>2. \A n \in Ids : trades'[n] = IF batch[n] = NoTrade THEN trades[n]
                                  ELSE Admit(trades[n], batch[n])
  BY <1>1 DEF Ingest
<1>3. \A n \in Ids : trades'[n] = IF batch[n] = NoTrade \/ trades[n].status = "closed"
                                  THEN trades[n] ELSE batch[n]
  BY <1>2 DEF Admit
<1>4. ASSUME NEW d \in done, d.first \in Ids
      PROVE  batch[d.first] = [status |-> "closed", parts |-> d.parts]
  <2>1. (CHOOSE e \in done : e.first = d.first) = d
    OBVIOUS
  <2>2. batch[d.first]
          = [status |-> "closed", parts |-> (CHOOSE e \in done : e.first = d.first).parts]
    BY <1>1, <1>4 DEF Batch
  <2> QED
    BY <2>1, <2>2
<1>5. ASSUME NEW n \in Ids, ~\E d \in done : d.first = n
      PROVE  batch[n].status # "closed"
  BY <1>1, <1>5 DEF Batch, NoTrade
<1>6. \A parts : [status |-> "closed", parts |-> parts] # NoTrade
  BY DEF NoTrade
<1> QED
  BY <1>3, <1>4, <1>5, <1>6

\* What is saved without a slip that may lose a round trip.
LEMMA SaveFinds ==
    ASSUME FillsWereExecuted, InPlace(exchange, fills, state.border),
           NEW tx, Saves(exchange, tx), Save(tx), UNCHANGED exchange,
           SlipsOf(tx) \cap {"flip", "overlap"} = {}
    PROVE  /\ InPlace(exchange', fills', state'.border)
           /\ tx.done \subseteq RoundTrips'
           /\ RoundTrips' \subseteq RoundTrips \union tx.done
           /\ "late" \notin SlipsOf(tx) => RoundTrips \subseteq RoundTrips'
<1>1. PICK F, fresh, st, live, clash :
        /\ F \subseteq 1..Len(exchange)
        /\ fresh \subseteq 1..Len(exchange)
        /\ tx = [phase |-> "built", fresh |-> fresh,
                 state |-> RebuildBy(exchange, F \union fresh, fresh, st).state,
                 done |-> RebuildBy(exchange, F \union fresh, fresh, st).done,
                 live |-> live, base |-> <<F, st>>,
                 late |-> Border(fresh, st) < st.border, clash |-> clash]
  BY DEF Saves
<1>2. PICK q, K, out : /\ q = exchange /\ K = F \union fresh
                       /\ out = RebuildBy(q, K, fresh, st)
  OBVIOUS
<1>3. /\ tx.fresh = fresh /\ tx.state = out.state /\ tx.done = out.done
      /\ tx.base = <<F, st>> /\ tx.late = (Border(fresh, st) < st.border)
  BY <1>1, <1>2
<1>4. F = fills /\ st = state
  <2>1. tx.base = <<fills, state>>
    BY DEF SlipsOf
  <2> QED
    BY <1>3, <2>1
<1>5. Straight(out.state.open, out.done)
  <2>1. ~\E d \in tx.done : \/ tx.state.open # None /\ tx.state.open.first = d.last
                            \/ \E e \in tx.done : e.first = d.last
    BY DEF SlipsOf
  <2> QED
    BY <1>3, <2>1 DEF Straight
<1>6. Known(q, F) /\ Known(q, fresh)
  BY <1>1, <1>2, FillsAreKnown DEF FillsWereExecuted
<1>7. InPlace(q, F, st.border)
  BY <1>2, <1>4
<1>8. /\ InPlace(q, K, out.state.border)
      /\ out.done \subseteq Agg(q, K).done
      /\ Agg(q, K).done \subseteq Agg(q, F).done \union out.done
      /\ ~(Border(fresh, st) < st.border) => Agg(q, F).done \subseteq Agg(q, K).done
  BY <1>2, <1>5, <1>6, <1>7, RebuildFinds
<1>9. fills' = K /\ state' = out.state /\ exchange' = q
  BY <1>2, <1>3, <1>4 DEF Save
<1>10. RoundTrips = Agg(q, F).done /\ RoundTrips' = Agg(q, K).done
  BY <1>2, <1>4, <1>9 DEF RoundTrips
<1>11. "late" \notin SlipsOf(tx) => ~(Border(fresh, st) < st.border)
  BY <1>3 DEF SlipsOf
<1> QED
  BY <1>3, <1>8, <1>9, <1>10, <1>11

LEMMA SaveExecuted ==
    ASSUME FillsWereExecuted, NEW tx, Saves(exchange, tx), Save(tx)
    PROVE  fills' \subseteq 1..Len(exchange)
<1>1. tx.fresh \subseteq 1..Len(exchange)
  BY DEF Saves
<1> QED
  BY <1>1 DEF Save, FillsWereExecuted

LEMMA TripsDiffer ==
    ASSUME NEW q \in Seq(Quantities), Len(q) <= MaxFills, NEW F, F \subseteq 1..Len(q)
    PROVE  /\ \A d \in Agg(q, F).done : d.first \in Ids
           /\ \A d, e \in Agg(q, F).done : d.first = e.first => d = e
<1>1. Known(q, F) /\ F \subseteq Ids
  BY FillsAreKnown
<1>2. InOrder(F, Agg(q, F), MaxFills)
  BY <1>1, WalkInOrder, IntakeAssumption DEF Agg
<1> QED
  BY <1>1, <1>2 DEF InOrder

\* Everything is saved and taken in at once.
LEMMA CommitKeepsBooks ==
    ASSUME BInv, FillsWereExecuted', NEW tx, Saves(exchange, tx), Save(tx),
           UNCHANGED exchange, slips' = slips \union SlipsOf(tx),
           NEW open, NEW live, Ingest(Batch(tx.done, open, live))
    PROVE  BooksInOrder' /\ TradesInOrder'
<1>1. FillsWereExecuted /\ BooksInOrder /\ TradesInOrder
  BY DEF BInv
<1>0. /\ \A d \in RoundTrips : d.first \in Ids
      /\ \A d \in RoundTrips' : d.first \in Ids
      /\ \A d, e \in RoundTrips' : d.first = e.first => d = e
  <2>1. PICK q, F : q = exchange' /\ F = fills'
    OBVIOUS
  <2>2. q \in Seq(Quantities) /\ Len(q) <= MaxFills /\ F \subseteq 1..Len(q)
    BY <2>1 DEF FillsWereExecuted
  <2>3. /\ \A d \in Agg(q, F).done : d.first \in Ids
        /\ \A d, e \in Agg(q, F).done : d.first = e.first => d = e
    BY <2>2, TripsDiffer
  <2>4. RoundTrips' = Agg(q, F).done
    BY <2>1 DEF RoundTrips
  <2>5. \A d \in RoundTrips : d.first \in Ids
    BY <1>1, TripsDiffer DEF FillsWereExecuted, RoundTrips
  <2> QED
    BY <2>3, <2>4, <2>5
<1>2. ASSUME slips' \cap {"flip", "overlap", "failed"} = {}
      PROVE  /\ InPlace(exchange', fills', state'.border)
             /\ tx.done \subseteq RoundTrips'
             /\ RoundTrips' \subseteq RoundTrips \union tx.done
             /\ "late" \notin SlipsOf(tx) => RoundTrips \subseteq RoundTrips'
             /\ \A d \in RoundTrips : trades[d.first].status = "closed"
             /\ \A d, e \in tx.done : d.first = e.first => d = e
  <2>1. SlipsOf(tx) \cap {"flip", "overlap"} = {}
    BY <1>2
  <2>2. /\ InPlace(exchange, fills, state.border)
        /\ \A d \in RoundTrips : trades[d.first].status = "closed"
    BY <1>1, <1>2 DEF BooksInOrder
  <2>3. /\ InPlace(exchange', fills', state'.border)
        /\ tx.done \subseteq RoundTrips'
        /\ RoundTrips' \subseteq RoundTrips \union tx.done
        /\ "late" \notin SlipsOf(tx) => RoundTrips \subseteq RoundTrips'
    BY <1>1, <2>1, <2>2, SaveFinds
  <2> QED
    BY <1>0, <2>2, <2>3
<1>3. ASSUME \A d, e \in tx.done : d.first = e.first => d = e
      PROVE  /\ \A n \in Ids : trades[n].status = "closed" => trades'[n] = trades[n]
             /\ \A d \in tx.done : d.first \in Ids /\ trades[d.first].status # "closed" =>
                  trades'[d.first] = [status |-> "closed", parts |-> d.parts]
             /\ \A n \in Ids : trades'[n].status = "closed" =>
                  trades[n].status = "closed" \/ \E d \in tx.done : d.first = n
  <2>1. PICK done : done = tx.done
    OBVIOUS
  <2>2. Ingest(Batch(done, open, live)) /\ \A d, e \in done : d.first = e.first => d = e
    BY <1>3, <2>1
  <2> QED
    BY <2>1, <2>2, IngestCloses
<1>4. BooksInOrder'
  <2> SUFFICES ASSUME slips' \cap {"flip", "overlap", "failed"} = {}
               PROVE  /\ InPlace(exchange', fills', state'.border)
                      /\ \A d \in RoundTrips' : trades'[d.first].status = "closed"
    BY DEF BooksInOrder
  <2>1. ASSUME NEW d \in RoundTrips'
        PROVE  trades'[d.first].status = "closed"
    <3>1. d.first \in Ids
      BY <1>0
    <3>2. CASE trades[d.first].status = "closed"
      BY <1>2, <1>3, <3>1, <3>2
    <3>3. CASE trades[d.first].status # "closed"
      <4>1. d \in tx.done
        BY <1>2, <3>3
      <4>2. trades'[d.first] = [status |-> "closed", parts |-> d.parts]
        BY <1>2, <1>3, <3>1, <3>3, <4>1
      <4> QED
        BY <4>2
    <3> QED
      BY <3>2, <3>3
  <2> QED
    BY <1>2, <2>1
<1>5. TradesInOrder'
  <2> SUFFICES ASSUME slips' = {}
               PROVE  /\ \A d \in RoundTrips' : trades'[d.first].status = "closed"
                                                /\ trades'[d.first].parts = d.parts
                      /\ \A n \in Ids : trades'[n].status = "closed" =>
                            \E d \in RoundTrips' : d.first = n
    BY DEF TradesInOrder
  <2>1. slips = {} /\ SlipsOf(tx) = {} /\ slips' \cap {"flip", "overlap", "failed"} = {}
    OBVIOUS
  <2>2. /\ \A d \in RoundTrips : trades[d.first].parts = d.parts
        /\ \A n \in Ids : trades[n].status = "closed" => \E d \in RoundTrips : d.first = n
    BY <1>1, <2>1 DEF TradesInOrder
  <2>3. RoundTrips \subseteq RoundTrips' /\ tx.done \subseteq RoundTrips'
    BY <1>2, <2>1
  <2>4. ASSUME NEW d \in RoundTrips'
        PROVE  trades'[d.first].status = "closed" /\ trades'[d.first].parts = d.parts
    <3>1. d.first \in Ids
      BY <1>0
    <3>2. CASE trades[d.first].status = "closed"
      <4>1. PICK e \in RoundTrips : e.first = d.first
        BY <2>2, <3>1, <3>2
      <4>2. e = d
        BY <1>0, <2>3, <4>1
      <4>3. trades'[d.first] = trades[d.first]
        BY <1>2, <1>3, <2>1, <3>1, <3>2
      <4> QED
        BY <2>2, <3>2, <4>1, <4>2, <4>3
    <3>3. CASE trades[d.first].status # "closed"
      <4>1. d \in tx.done
        BY <1>2, <2>1, <3>3
      <4>2. trades'[d.first] = [status |-> "closed", parts |-> d.parts]
        BY <1>2, <1>3, <2>1, <3>1, <3>3, <4>1
      <4> QED
        BY <4>2
    <3> QED
      BY <3>2, <3>3
  <2>5. ASSUME NEW n \in Ids, trades'[n].status = "closed"
        PROVE  \E d \in RoundTrips' : d.first = n
    BY <1>2, <1>3, <2>1, <2>2, <2>3, <2>5
  <2> QED
    BY <2>4, <2>5
<1> QED
  BY <1>4, <1>5

\* The pass failed at the positions: the fills are saved, the rows are not.
LEMMA LateFailureKeepsBooks ==
    ASSUME BInv, FillsWereExecuted', NEW tx, Saves(exchange, tx), Save(tx),
           UNCHANGED <<exchange, trades>>,
           slips' = slips \union SlipsOf(tx)
                          \union (IF tx.done # {} THEN {"failed"} ELSE {})
    PROVE  BooksInOrder' /\ TradesInOrder'
<1>1. FillsWereExecuted /\ BooksInOrder /\ TradesInOrder
  BY DEF BInv
<1>2. ASSUME slips' \cap {"flip", "overlap", "failed"} = {}
      PROVE  /\ InPlace(exchange', fills', state'.border)
             /\ RoundTrips' \subseteq RoundTrips
             /\ "late" \notin SlipsOf(tx) => RoundTrips \subseteq RoundTrips'
             /\ \A d \in RoundTrips : trades[d.first].status = "closed"
  <2>1. SlipsOf(tx) \cap {"flip", "overlap"} = {}
        /\ slips \cap {"flip", "overlap", "failed"} = {} /\ tx.done = {}
    BY <1>2
  <2>2. /\ InPlace(exchange, fills, state.border)
        /\ \A d \in RoundTrips : trades[d.first].status = "closed"
    BY <1>1, <2>1 DEF BooksInOrder
  <2>3. /\ InPlace(exchange', fills', state'.border)
        /\ RoundTrips' \subseteq RoundTrips \union tx.done
        /\ "late" \notin SlipsOf(tx) => RoundTrips \subseteq RoundTrips'
    BY <1>1, <2>1, <2>2, SaveFinds
  <2> QED
    BY <2>1, <2>2, <2>3
<1>3. BooksInOrder'
  BY <1>2 DEF BooksInOrder
<1>4. TradesInOrder'
  <2> SUFFICES ASSUME slips' = {}
               PROVE  /\ \A d \in RoundTrips' : trades[d.first].status = "closed"
                                                /\ trades[d.first].parts = d.parts
                      /\ \A n \in Ids : trades[n].status = "closed" =>
                            \E d \in RoundTrips' : d.first = n
    BY DEF TradesInOrder
  <2>1. slips = {} /\ SlipsOf(tx) = {} /\ slips' \cap {"flip", "overlap", "failed"} = {}
    OBVIOUS
  <2>2. RoundTrips' = RoundTrips
    BY <1>2, <2>1
  <2> QED
    BY <1>1, <2>1, <2>2 DEF TradesInOrder
<1> QED
  BY <1>3, <1>4

----------------------------------------------------------------------------
(* The steps *)

LEMMA QuietBooks ==
    ASSUME BInv, UNCHANGED <<exchange, fills, state, trades, slips>>
    PROVE  BooksInOrder' /\ TradesInOrder'
BY DEF BInv, BooksInOrder, TradesInOrder, RoundTrips

LEMMA ExecuteKeeps ==
    ASSUME BInv, Execute
    PROVE  FillsWereExecuted' /\ Transactions' /\ BooksInOrder' /\ TradesInOrder'
<1> DEFINE q == exchange
           r == exchange'
<1>1. /\ exchange \in Seq(Quantities) /\ Len(exchange) <= MaxFills
      /\ fills \subseteq 1..Len(exchange) /\ wire \in Seq(Nat)
      /\ \A i \in 1..Len(wire) : wire[i] \in 1..Len(exchange)
  BY DEF BInv, FillsWereExecuted
<1>2. PICK x \in Quantities : exchange' = Append(exchange, x)
  BY DEF Execute
<1>3. /\ Len(exchange) < MaxFills
      /\ wire' = wire \/ wire' = Append(wire, Len(exchange) + 1)
      /\ UNCHANGED <<fills, state, trades, order, pass, slips>>
  BY DEF Execute, Heard, books
<1>4. /\ r \in Seq(Quantities) /\ Len(r) = Len(q) + 1 /\ Len(q) \in Nat
      /\ \A n \in 1..Len(q) : r[n] = q[n]
  BY <1>1, <1>2
<1>5. 1..Len(q) \subseteq 1..Len(r) /\ Len(q) + 1 \in 1..Len(r) /\ Len(r) <= MaxFills
  BY <1>3, <1>4, IntakeAssumption
<1>6. FillsWereExecuted'
  <2>1. wire' \in Seq(Nat) /\ \A i \in 1..Len(wire') : wire'[i] \in 1..Len(r)
    <3>1. CASE wire' = wire
      BY <1>1, <1>5, <3>1
    <3>2. CASE wire' = Append(wire, Len(exchange) + 1)
      <4>1. Len(wire) \in Nat /\ Len(q) + 1 \in Nat
        BY <1>1, <1>4
      <4>2. /\ wire' \in Seq(Nat) /\ Len(wire') = Len(wire) + 1
            /\ \A i \in 1..Len(wire) : wire'[i] = wire[i]
            /\ wire'[Len(wire) + 1] = Len(q) + 1
        BY <1>1, <3>2, <4>1
      <4>3. \A i \in 1..Len(wire') : i \in 1..Len(wire) \/ i = Len(wire) + 1
        BY <4>1, <4>2
      <4>4. ASSUME NEW i \in 1..Len(wire') PROVE wire'[i] \in 1..Len(r)
        <5>1. CASE i \in 1..Len(wire)
          <6>1. wire'[i] \in 1..Len(q)
            BY <1>1, <4>2, <5>1
          <6> HIDE DEF q, r
          <6> QED
            BY <1>5, <6>1
        <5>2. CASE i = Len(wire) + 1
          <6>1. wire'[i] = Len(q) + 1
            BY <4>2, <5>2
          <6> HIDE DEF q, r
          <6> QED
            BY <1>5, <6>1
        <5> QED
          BY <4>3, <5>1, <5>2
      <4> QED
        BY <4>2, <4>4
    <3> QED
      BY <1>3, <3>1, <3>2
  <2> QED
    BY <1>1, <1>3, <1>4, <1>5, <2>1 DEF FillsWereExecuted
<1> HIDE DEF q, r
<1>7. Transactions'
  <2>1. IsTransaction(q, order) /\ IsTransaction(q, pass)
    BY DEF BInv, Transactions, q
  <2>2. IsTransaction(r, order) /\ IsTransaction(r, pass)
    BY <1>4, <1>5, <2>1, TransactionOfMore
  <2> QED
    BY <1>3, <2>2 DEF Transactions, r
<1>8. \A F : F \subseteq fills =>
         \A n \in 0..MaxFills : Walk(r, F)[n] = Walk(q, F)[n]
  <2> SUFFICES ASSUME NEW F, F \subseteq fills
               PROVE  \A n \in 0..MaxFills : Walk(r, F)[n] = Walk(q, F)[n]
    OBVIOUS
  <2>1. \A n \in F : r[n] = q[n]
    BY <1>1, <1>4 DEF q
  <2> QED
    BY <2>1, WalkOfMore
<1>9. MaxFills \in 0..MaxFills
  BY IntakeAssumption
<1>10. RoundTrips' = RoundTrips
  BY <1>3, <1>8, <1>9 DEF RoundTrips, Agg, q, r
<1>11. InPlace(q, fills, state.border) => InPlace(r, fills, state.border)
  <2>1. After(fills, state.border) \subseteq fills
    BY DEF After
  <2>2. Agg(r, After(fills, state.border)) = Agg(q, After(fills, state.border))
    BY <1>8, <1>9, <2>1 DEF Agg
  <2> QED
    BY <1>8, <2>2 DEF InPlace
<1>12. BooksInOrder' /\ TradesInOrder'
  BY <1>3, <1>10, <1>11 DEF BInv, BooksInOrder, TradesInOrder, q, r
<1> QED
  BY <1>6, <1>7, <1>12

LEMMA BuiltSaves ==
    ASSUME FillsWereExecuted, NEW window, window \subseteq 1..Len(exchange)
    PROVE  IsTransaction(exchange, Built(window))
<1> DEFINE fresh == Inserted(window)
           out == RebuildBy(exchange, fills \union fresh, fresh, state)
<1>1. fills \subseteq 1..Len(exchange) /\ fresh \subseteq 1..Len(exchange)
  BY DEF FillsWereExecuted, Inserted
<1>2. Rebuild(fills \union fresh, fresh, state) = out
  BY RebuildIs
<1>3. Built(window) = [phase |-> "built", fresh |-> fresh, state |-> out.state,
                       done |-> out.done, live |-> Live, base |-> <<fills, state>>,
                       late |-> Border(fresh, state) < state.border, clash |-> FALSE]
  BY <1>2 DEF Built
<1> HIDE DEF fresh
<1>4. Saves(exchange, Built(window))
  BY <1>1, <1>3 DEF Saves
<1> QED
  BY <1>4 DEF IsTransaction

LEMMA ClashIsNoted ==
    ASSUME NEW fresh, NEW st, NEW done, NEW live, NEW base, NEW late, NEW clash, NEW e,
           NEW tx, tx = [phase |-> "built", fresh |-> fresh, state |-> st, done |-> done,
                         live |-> live, base |-> base, late |-> late, clash |-> clash]
    PROVE  [tx EXCEPT !.clash = e]
             = [phase |-> "built", fresh |-> fresh, state |-> st, done |-> done,
                live |-> live, base |-> base, late |-> late, clash |-> e]
OBVIOUS

LEMMA ClashSaves ==
    ASSUME NEW q, NEW tx, IsTransaction(q, tx), tx.phase = "built"
    PROVE  IsTransaction(q, [tx EXCEPT !.clash = TRUE])
<1>1. Saves(q, tx)
  BY DEF IsTransaction, Downloaded, Idle
<1>2. PICK F, fresh, st, live, clash :
        /\ F \subseteq 1..Len(q)
        /\ fresh \subseteq 1..Len(q)
        /\ tx = [phase |-> "built", fresh |-> fresh,
                 state |-> RebuildBy(q, F \union fresh, fresh, st).state,
                 done |-> RebuildBy(q, F \union fresh, fresh, st).done,
                 live |-> live, base |-> <<F, st>>,
                 late |-> Border(fresh, st) < st.border, clash |-> clash]
  BY <1>1 DEF Saves
<1>3. PICK s, d, l : /\ s = RebuildBy(q, F \union fresh, fresh, st).state
                     /\ d = RebuildBy(q, F \union fresh, fresh, st).done
                     /\ l = (Border(fresh, st) < st.border)
  OBVIOUS
<1>4. tx = [phase |-> "built", fresh |-> fresh, state |-> s, done |-> d, live |-> live,
            base |-> <<F, st>>, late |-> l, clash |-> clash]
  BY <1>2, <1>3
<1>5. PICK e : e = TRUE
  OBVIOUS
<1>6. [tx EXCEPT !.clash = e]
        = [phase |-> "built", fresh |-> fresh, state |-> s, done |-> d, live |-> live,
           base |-> <<F, st>>, late |-> l, clash |-> e]
  BY <1>4, ClashIsNoted
<1>7. PICK t : t = [tx EXCEPT !.clash = e]
  OBVIOUS
<1>8. t = [phase |-> "built", fresh |-> fresh,
           state |-> RebuildBy(q, F \union fresh, fresh, st).state,
           done |-> RebuildBy(q, F \union fresh, fresh, st).done,
           live |-> live, base |-> <<F, st>>,
           late |-> Border(fresh, st) < st.border, clash |-> e]
  BY <1>3, <1>6, <1>7
<1>9. Saves(q, t)
  BY <1>2, <1>8 DEF Saves
<1>10. t = [tx EXCEPT !.clash = TRUE]
  BY <1>5, <1>7
<1> QED
  BY <1>9, <1>10 DEF IsTransaction

LEMMA StreamBeginsKeeps ==
    ASSUME BInv, StreamBegins
    PROVE  FillsWereExecuted' /\ Transactions' /\ BooksInOrder' /\ TradesInOrder'
<1>1. FillsWereExecuted /\ Transactions
  BY DEF BInv
<1>2. /\ wire # <<>> /\ wire' = Tail(wire)
      /\ order' = Idle \/ order' = Built({Head(wire)})
      /\ UNCHANGED <<exchange, fills, state, trades, slips, pass>>
  BY DEF StreamBegins, books
<1>3. /\ wire' \in Seq(Nat)
      /\ Head(wire) \in 1..Len(exchange)
      /\ \A i \in 1..Len(wire') : wire'[i] \in 1..Len(exchange)
  <2>1. wire \in Seq(Nat) /\ Len(wire) \in Nat \ {0}
    BY <1>1, <1>2 DEF FillsWereExecuted
  <2>2. Head(wire) = wire[1] /\ Len(wire') = Len(wire) - 1
        /\ \A i \in 1..Len(wire) - 1 : wire'[i] = wire[i + 1]
    BY <1>2, <2>1
  <2>3. \A i \in 1..Len(wire) - 1 : i + 1 \in 1..Len(wire)
    BY <2>1
  <2>4. 1 \in 1..Len(wire)
    BY <2>1
  <2> QED
    BY <1>1, <1>2, <2>1, <2>2, <2>3, <2>4 DEF FillsWereExecuted
<1>4. FillsWereExecuted'
  BY <1>1, <1>2, <1>3 DEF FillsWereExecuted
<1>5. IsTransaction(exchange, order')
  <2>1. PICK window : window = {Head(wire)}
    OBVIOUS
  <2>2. IsTransaction(exchange, Built(window))
    BY <1>1, <1>3, <2>1, BuiltSaves
  <2> QED
    BY <1>2, <2>1, <2>2 DEF IsTransaction
<1>6. Transactions'
  BY <1>1, <1>2, <1>5 DEF Transactions
<1> QED
  BY <1>2, <1>4, <1>6, QuietBooks

LEMMA SavesIsBuilt ==
    ASSUME NEW q, NEW tx, Saves(q, tx)
    PROVE  tx.phase = "built"
<1>1. PICK F, fresh, st, live, clash :
        tx = [phase |-> "built", fresh |-> fresh,
              state |-> RebuildBy(q, F \union fresh, fresh, st).state,
              done |-> RebuildBy(q, F \union fresh, fresh, st).done,
              live |-> live, base |-> <<F, st>>,
              late |-> Border(fresh, st) < st.border, clash |-> clash]
  BY DEF Saves
<1> QED
  BY <1>1

LEMMA PassBeginsKeeps ==
    ASSUME BInv, PassDownloads \/ PassRebuilds
    PROVE  FillsWereExecuted' /\ Transactions' /\ BooksInOrder' /\ TradesInOrder'
<1>1. FillsWereExecuted /\ Transactions
  BY DEF BInv
<1>2. UNCHANGED <<exchange, fills, state, trades, slips, wire, order>>
  BY DEF PassDownloads, PassRebuilds, books
<1>3. FillsWereExecuted'
  BY <1>1, <1>2 DEF FillsWereExecuted
<1>4. IsTransaction(exchange, pass')
  <2>1. CASE PassDownloads
    <3>1. UserTrades \subseteq 1..Len(exchange)
      BY IntakeAssumption DEF UserTrades, Ids
    <3> QED
      BY <2>1, <3>1 DEF PassDownloads, IsTransaction, Downloaded
  <2>2. CASE PassRebuilds
    <3>1. pass.phase = "got" /\ pass' = Built(pass.window)
      BY <2>2 DEF PassRebuilds
    <3>2. Downloaded(exchange, pass)
      <4>1. Idle.phase # "got" /\ (Saves(exchange, pass) => pass.phase = "built")
        BY SavesIsBuilt DEF Idle
      <4> QED
        BY <1>1, <3>1, <4>1 DEF Transactions, IsTransaction
    <3>3. pass.window \subseteq 1..Len(exchange)
      BY <3>2 DEF Downloaded
    <3>4. PICK window : window = pass.window
      OBVIOUS
    <3>5. IsTransaction(exchange, Built(window))
      BY <1>1, <3>3, <3>4, BuiltSaves
    <3> QED
      BY <3>1, <3>4, <3>5
  <2> QED
    BY <2>1, <2>2
<1>5. Transactions'
  BY <1>1, <1>2, <1>4 DEF Transactions
<1> QED
  BY <1>2, <1>3, <1>5, QuietBooks

\* A transaction ends without a trace.
LEMMA EndKeeps ==
    ASSUME BInv, StreamAborts \/ PassFails \/ PassAborts
    PROVE  FillsWereExecuted' /\ Transactions' /\ BooksInOrder' /\ TradesInOrder'
<1>1. FillsWereExecuted /\ Transactions
  BY DEF BInv
<1>2. /\ UNCHANGED <<exchange, fills, state, trades, slips, wire>>
      /\ order' = Idle \/ order' = order
      /\ pass' = Idle \/ pass' = pass
  BY DEF StreamAborts, PassFails, PassAborts, books
<1>3. FillsWereExecuted'
  BY <1>1, <1>2 DEF FillsWereExecuted
<1>4. Transactions'
  BY <1>1, <1>2 DEF Transactions, IsTransaction
<1> QED
  BY <1>2, <1>3, <1>4, QuietBooks

LEMMA BuiltIsSaves ==
    ASSUME NEW q, NEW tx, IsTransaction(q, tx), tx.phase = "built"
    PROVE  Saves(q, tx)
BY DEF IsTransaction, Downloaded, Idle

LEMMA CommitKeeps ==
    ASSUME BInv, StreamCommits \/ PassCommits
    PROVE  FillsWereExecuted' /\ Transactions' /\ BooksInOrder' /\ TradesInOrder'
<1>1. FillsWereExecuted /\ Transactions
  BY DEF BInv
<1>2. UNCHANGED <<exchange, wire>>
  BY DEF StreamCommits, PassCommits
<1>3. PICK tx, open, live :
        /\ IsTransaction(exchange, tx) /\ tx.phase = "built"
        /\ Save(tx) /\ Ingest(Batch(tx.done, open, live))
        /\ slips' = slips \union SlipsOf(tx)
  <2>1. CASE StreamCommits
    BY <1>1, <2>1 DEF StreamCommits, Transactions
  <2>2. CASE PassCommits
    BY <1>1, <2>2 DEF PassCommits, Transactions
  <2> QED
    BY <2>1, <2>2
<1>4. Saves(exchange, tx)
  BY <1>3, BuiltIsSaves
<1>5. FillsWereExecuted'
  <2>1. fills' \subseteq 1..Len(exchange)
    BY <1>1, <1>3, <1>4, SaveExecuted
  <2> QED
    BY <1>1, <1>2, <2>1 DEF FillsWereExecuted
<1>6. Transactions'
  BY <1>1, <1>2 DEF Transactions, IsTransaction, StreamCommits, PassCommits
<1>7. BooksInOrder' /\ TradesInOrder'
  BY <1>2, <1>3, <1>4, <1>5, CommitKeepsBooks
<1> QED
  BY <1>5, <1>6, <1>7

LEMMA LateFailureKeeps ==
    ASSUME BInv, PassFailsLate
    PROVE  FillsWereExecuted' /\ Transactions' /\ BooksInOrder' /\ TradesInOrder'
<1>1. FillsWereExecuted /\ Transactions
  BY DEF BInv
<1>2. /\ pass.phase = "built" /\ Save(pass) /\ pass' = Idle
      /\ slips' = slips \union SlipsOf(pass)
                        \union (IF pass.done # {} THEN {"failed"} ELSE {})
      /\ UNCHANGED <<exchange, wire, trades, order>>
  BY DEF PassFailsLate
<1>3. PICK tx : tx = pass
  OBVIOUS
<1>4. Saves(exchange, tx)
  BY <1>1, <1>2, <1>3, BuiltIsSaves DEF Transactions
<1>5. FillsWereExecuted'
  <2>1. fills' \subseteq 1..Len(exchange)
    BY <1>1, <1>2, <1>3, <1>4, SaveExecuted
  <2> QED
    BY <1>1, <1>2, <2>1 DEF FillsWereExecuted
<1>6. Transactions'
  BY <1>1, <1>2 DEF Transactions, IsTransaction
<1>7. BooksInOrder' /\ TradesInOrder'
  BY <1>2, <1>3, <1>4, <1>5, LateFailureKeepsBooks
<1> QED
  BY <1>5, <1>6, <1>7

\* The refresh opens a row, or writes the parts of one.
LEMMA PollKeeps ==
    ASSUME BInv, PollInserts \/ PollUpdates
    PROVE  FillsWereExecuted' /\ Transactions' /\ BooksInOrder' /\ TradesInOrder'
<1>1. FillsWereExecuted /\ Transactions /\ BooksInOrder /\ TradesInOrder
      /\ DOMAIN trades = Ids /\ \A n \in Ids : IsTrade(trades[n])
  BY DEF BInv, Announced, TradesTyped
<1>2. UNCHANGED <<exchange, fills, state, wire>>
  BY DEF PollInserts, PollUpdates
<1>3. FillsWereExecuted'
  BY <1>1, <1>2 DEF FillsWereExecuted
<1>4. \A d \in RoundTrips : d.first \in Ids
  BY <1>1, TripsDiffer DEF FillsWereExecuted, RoundTrips
<1>5. RoundTrips' = RoundTrips
  BY <1>2 DEF RoundTrips
<1>6. CASE PollInserts
  <2>1. PICK k, parts : k = poll.item.first /\ parts = poll.item.parts
    OBVIOUS
  <2>2. /\ trades' = IF trades[k] = NoTrade
                     THEN [trades EXCEPT ![k] = [status |-> "open", parts |-> parts]]
                     ELSE trades
        /\ order' = order \/ (order.phase = "built" /\ order' = [order EXCEPT !.clash = TRUE])
        /\ pass' = pass \/ (pass.phase = "built" /\ pass' = [pass EXCEPT !.clash = TRUE])
        /\ UNCHANGED slips
    BY <1>6, <2>1 DEF PollInserts
  <2>3. IsTransaction(exchange, order') /\ IsTransaction(exchange, pass')
    <3>1. \A tx : IsTransaction(exchange, tx) /\ tx.phase = "built" =>
             IsTransaction(exchange, [tx EXCEPT !.clash = TRUE])
      BY ClashSaves
    <3> QED
      BY <1>1, <2>2, <3>1 DEF Transactions
  <2>4. Transactions'
    BY <1>2, <2>3 DEF Transactions
  <2>5. ASSUME NEW n \in Ids
        PROVE  \/ trades'[n] = trades[n]
               \/ trades[n].status # "closed" /\ trades'[n].status # "closed"
    BY <1>1, <2>2 DEF NoTrade
  <2>6. BooksInOrder' /\ TradesInOrder'
    BY <1>1, <1>2, <1>4, <1>5, <2>2, <2>5 DEF BooksInOrder, TradesInOrder
  <2> QED
    BY <1>3, <2>4, <2>6
<1>7. CASE PollUpdates
  <2>1. PICK k, parts : k = poll.item.first /\ parts = poll.item.parts
    OBVIOUS
  <2>2. /\ trades' = [trades EXCEPT ![k].parts = parts]
        /\ slips' = IF trades[k].status = "closed"
                    THEN slips \union {"overwritten"} ELSE slips
        /\ UNCHANGED <<order, pass>>
    BY <1>7, <2>1 DEF PollUpdates
  <2>3. Transactions'
    BY <1>1, <1>2, <2>2 DEF Transactions
  <2>4. ASSUME NEW n \in Ids
        PROVE  /\ trades'[n].status = trades[n].status
               /\ n # k => trades'[n] = trades[n]
    <3>1. PICK status \in Statuses : \E p : trades[n] = [status |-> status, parts |-> p]
      BY <1>1 DEF IsTrade
    <3>2. PICK p : trades[n] = [status |-> status, parts |-> p]
      BY <3>1
    <3> QED
      BY <1>1, <2>2, <3>2
  <2>5. BooksInOrder'
    BY <1>1, <1>2, <1>4, <1>5, <2>2, <2>4 DEF BooksInOrder
  <2>6. TradesInOrder'
    <3> SUFFICES ASSUME slips' = {}
                 PROVE  /\ \A d \in RoundTrips : trades'[d.first].status = "closed"
                                                 /\ trades'[d.first].parts = d.parts
                        /\ \A n \in Ids : trades'[n].status = "closed" =>
                              \E d \in RoundTrips : d.first = n
      BY <1>5 DEF TradesInOrder
    <3>1. slips = {} /\ trades[k].status # "closed"
      BY <2>2
    <3>2. /\ \A d \in RoundTrips : trades[d.first].status = "closed"
                                   /\ trades[d.first].parts = d.parts
          /\ \A n \in Ids : trades[n].status = "closed" => \E d \in RoundTrips : d.first = n
      BY <1>1, <3>1 DEF TradesInOrder
    <3> QED
      BY <1>4, <2>4, <3>1, <3>2
  <2> QED
    BY <1>3, <2>3, <2>5, <2>6
<1> QED
  BY <1>6, <1>7

LEMMA BInvStep == BInv /\ [Next]_vars => BInv'
<1> SUFFICES ASSUME BInv, [Next]_vars PROVE BInv'
  OBVIOUS
<1>1. Announced'
  BY RowsStep DEF BInv
<1>2. SUFFICES FillsWereExecuted' /\ Transactions' /\ BooksInOrder' /\ TradesInOrder'
  BY <1>1 DEF BInv
<1>3. CASE PollAsks \/ PollReads \/ UNCHANGED vars
  <2>1. UNCHANGED <<exchange, fills, state, trades, slips, wire, order, pass>>
    BY <1>3 DEF PollAsks, PollReads, vars, books
  <2>2. FillsWereExecuted' /\ Transactions'
    BY <2>1 DEF BInv, FillsWereExecuted, Transactions
  <2> QED
    BY <2>1, <2>2, QuietBooks
<1> QED
  BY <1>3, ExecuteKeeps, StreamBeginsKeeps, PassBeginsKeeps, EndKeeps, CommitKeeps,
     LateFailureKeeps, PollKeeps DEF Next

\* The books are in order between transactions, and a transaction remembers
\* what it read: the border is a place where the position was flat and the open
\* position is what the fills behind the border come to, unless a slip occurred.
THEOREM BooksAreRight == Spec => []BInv
<1>1. Init => BInv
  BY BInvInit
<1> QED
  BY <1>1, BInvStep, PTL DEF Spec

\* _rebuild finds the place of every fill: as long as no fill turned the
\* position over, no two transactions worked on one position and no pass
\* failed between its halves, each round trip of the saved fills has its
\* closed trade, for any executions in any order of arrival.
THEOREM RoundTripsBecomeTrades == Spec => []RoundTripsAreTraded
<1>1. BInv => RoundTripsAreTraded
  BY AggregateIs DEF BInv, BooksInOrder, RoundTrips, RoundTripsAreTraded
<1> QED
  BY <1>1, BooksAreRight, PTL

\* If nothing went wrong at all, the closed trades are the round trips, fill by
\* fill: trades are a derivative of the fills.
THEOREM TradesAreRoundTrips == Spec => []TradesMatchFills
<1>1. BInv => TradesMatchFills
  <2> SUFFICES ASSUME BInv, slips = {}
               PROVE  {<<n, trades[n].parts>> : n \in {m \in Ids : trades[m].status = "closed"}}
                    = {<<d.first, d.parts>> : d \in RoundTrips}
    BY AggregateIs DEF RoundTrips, TradesMatchFills
  <2>1. /\ \A d \in RoundTrips : trades[d.first].status = "closed"
                                 /\ trades[d.first].parts = d.parts
        /\ \A n \in Ids : trades[n].status = "closed" => \E d \in RoundTrips : d.first = n
    BY DEF BInv, TradesInOrder
  <2>2. \A d \in RoundTrips : d.first \in Ids
    BY TripsDiffer DEF BInv, FillsWereExecuted, RoundTrips
  <2>3. ASSUME NEW d \in RoundTrips
        PROVE  \E n \in {m \in Ids : trades[m].status = "closed"} :
                  <<d.first, d.parts>> = <<n, trades[n].parts>>
    BY <2>1, <2>2
  <2>4. ASSUME NEW n \in {m \in Ids : trades[m].status = "closed"}
        PROVE  \E d \in RoundTrips : <<n, trades[n].parts>> = <<d.first, d.parts>>
    <3>1. PICK d \in RoundTrips : d.first = n
      BY <2>1
    <3> QED
      BY <2>1, <3>1
  <2> QED
    BY <2>3, <2>4
<1> QED
  BY <1>1, BooksAreRight, PTL
----------------------------------------------------------------------------
(* Types *)

\* What the walk holds open is not flat, began with one of its own fills and
\* holds nothing but fills.
IsOpen(p, F) ==
    /\ p \in Positions
    /\ p.net # 0
    /\ p.first \in p.parts
    /\ p.parts \subseteq F

HoldFirst(done) == \A d \in done : d.first \in d.parts

SoundBook(F, b) ==
    /\ IsBook(b)
    /\ b.open # None => IsOpen(b.open, F)
    /\ HoldFirst(b.done)

\* No fill is of nothing.
Moving(q, F) == F \subseteq 1..MaxFills /\ \A n \in F : q[n] \in Int \ {0}

LEMMA FillSound ==
    ASSUME NEW q, NEW F, Moving(q, F), NEW n \in F, NEW b, SoundBook(F, b),
           NEW c, c = Turn(q, b, n)
    PROVE  SoundBook(F, c)
<1>1. n \in Nat /\ q[n] \in Int /\ q[n] # 0
  BY IntakeAssumption DEF Moving
<1>2. /\ b.open # None => IsOpen(b.open, F)
      /\ HoldFirst(b.done)
      /\ IsBook(b)
  BY DEF SoundBook
<1>3. IsBook(c) /\ (Opens(q, b, n, c) \/ Adds(b, n, c) \/ Closes(b, n, c))
  BY <1>1, <1>2, FillDoes
<1>4. None \notin Positions
  BY IntakeAssumption
<1>5. c.open # None => IsOpen(c.open, F)
  BY <1>1, <1>2, <1>3, <1>4 DEF IsOpen, Opens, Adds, Closes
<1>6. HoldFirst(c.done)
  <2>1. ASSUME b.open \in Positions
        PROVE  LET d == RoundTrip(b.open.first, n, b.open.parts \union {n})
               IN  d.first \in d.parts
    BY <1>2, <1>4, <2>1 DEF IsOpen, RoundTrip
  <2> QED
    BY <1>2, <1>3, <2>1 DEF HoldFirst, Opens, Adds, Closes
<1> QED
  BY <1>3, <1>5, <1>6 DEF SoundBook

LEMMA WalkSound ==
    ASSUME NEW q, NEW F, Moving(q, F)
    PROVE  SoundBook(F, Agg(q, F))
<1> DEFINE S == {n \in 0..MaxFills : SoundBook(F, Walk(q, F)[n])}
<1>1. MaxFills \in Nat
  BY IntakeAssumption
<1>2. 0 \in S
  <2>1. IsBook(NoBook) /\ NoBook.open = None /\ NoBook.done = {}
    BY BookMade DEF NoBook
  <2>2. SoundBook(F, NoBook)
    BY <2>1 DEF SoundBook, HoldFirst
  <2> QED
    BY <1>1, <2>2, WalkUnfolds
<1>3. ASSUME NEW n \in 0..MaxFills, n < MaxFills, n \in S
      PROVE  n + 1 \in S
  <2>1. n + 1 \in 0..MaxFills
    BY <1>1, <1>3
  <2>2. SoundBook(F, Walk(q, F)[n])
    BY <1>3
  <2>3. CASE n + 1 \in F
    <3>1. Walk(q, F)[n + 1] = Turn(q, Walk(q, F)[n], n + 1)
      BY <1>3, <2>3, WalkUnfolds
    <3>2. SoundBook(F, Walk(q, F)[n + 1])
      BY <2>2, <2>3, <3>1, FillSound
    <3> QED
      BY <2>1, <3>2
  <2>4. CASE n + 1 \notin F
    <3>1. Walk(q, F)[n + 1] = Walk(q, F)[n]
      BY <1>3, <2>4, WalkUnfolds
    <3> QED
      BY <2>1, <2>2, <3>1
  <2> QED
    BY <2>3, <2>4
<1> HIDE DEF S
<1>4. MaxFills \in S
  BY <1>1, <1>2, <1>3, InductionTo
<1> QED
  BY <1>4 DEF S, Agg

\* What is saved of the aggregation: the border is one of the fills, and the
\* position that is open does not start before it.
SoundState(st, F) ==
    /\ st.border \in {0} \union F
    /\ st.open # None => IsOpen(st.open, F) /\ st.open.first >= st.border

LEMMA RebuildSound ==
    ASSUME NEW q, NEW K, Moving(q, K), NEW st, SoundState(st, K), NEW fresh,
           NEW out, out = RebuildBy(q, K, fresh, st)
    PROVE  SoundState(out.state, K) /\ HoldFirst(out.done)
<1> DEFINE border == Border(fresh, st)
           used == After(K, border)
           book == Agg(q, used)
           lasts == {d.last : d \in book.done}
<1>1. MaxFills \in Nat /\ K \subseteq 1..MaxFills
  BY IntakeAssumption DEF Moving
<1>2. border \in {0} \union K
  BY DEF Border, SoundState
<1>3. border \in 0..MaxFills
  <2> HIDE DEF border
  <2> QED
    BY <1>1, <1>2
<1>4. CASE used = {}
  <2>1. out = [state |-> st, done |-> {}]
    BY <1>4 DEF RebuildBy
  <2> QED
    BY <2>1 DEF HoldFirst
<1>5. CASE used # {}
  <2>1. used \subseteq K /\ \A n \in used : n > border
    BY DEF After
  <2>2. Moving(q, used) /\ Known(q, used)
    BY <2>1 DEF Moving, Known
  <2>3. SoundBook(used, book) /\ InOrder(used, book, MaxFills)
    BY <1>1, <2>2, WalkSound, WalkInOrder DEF Agg
  <2>4. PICK top : top = Highest(lasts, border)
    OBVIOUS
  <2>5. lasts \subseteq used
    BY <2>3 DEF InOrder
  <2>6. lasts \subseteq 0..MaxFills
    BY <1>1, <2>1, <2>5
  <2>7. top \in lasts \union {border}
    BY <1>3, <2>4, <2>6, HighestOf
  <2>8. out = [state |-> [border |-> top, open |-> book.open], done |-> book.done]
    BY <1>5, <2>4 DEF RebuildBy
  <2> HIDE DEF book, used, border
  <2>9. top \in {0} \union K
    BY <1>2, <2>1, <2>5, <2>7
  <2>10. ASSUME book.open # None
         PROVE  IsOpen(book.open, K) /\ book.open.first >= top
    <3>1. IsOpen(book.open, used)
      BY <2>3, <2>10 DEF SoundBook
    <3>2. book.open \in Positions /\ book.open.first \in used
      BY <3>1 DEF IsOpen
    <3>3. \A d \in book.done : d.last <= book.open.first
      BY <2>3, <3>2 DEF InOrder
    <3>4. book.open.first > border /\ book.open.first \in Int /\ border \in Int
      <4>1. \A n \in used : n > border /\ n \in Int
        BY <1>1, <2>1
      <4> QED
        BY <1>3, <3>2, <4>1
    <3>5. book.open.first >= top
      BY <2>7, <3>3, <3>4, <2>6
    <3> QED
      BY <2>1, <3>1, <3>5 DEF IsOpen
  <2> QED
    BY <2>3, <2>8, <2>9, <2>10 DEF SoundState, SoundBook
<1> QED
  BY <1>4, <1>5

LEMMA SoundOfMore ==
    ASSUME NEW st, NEW F, SoundState(st, F), NEW G, F \subseteq G
    PROVE  SoundState(st, G)
BY DEF SoundState, IsOpen

\* Only what was executed since the connection is taken in, and a transaction
\* will save a sound state.
SoundTransaction(tx, seen, saved) ==
    /\ tx.phase = "got" => tx.window \subseteq seen
    /\ tx.phase = "built" => /\ tx.fresh \subseteq seen
                             /\ SoundState(tx.state, saved \union tx.fresh)
                             /\ HoldFirst(tx.done)

\* The executions since the connection.
Seen == since + 1..Len(exchange)

\* A row that is there holds its own first fill.
RowsHoldFirst ==
    \A n \in Ids : trades[n].status # "none" => n \in trades[n].parts

WireSince == \A i \in 1..Len(wire) : wire[i] > since

Sound ==
    /\ since \in 0..1 /\ since <= Len(exchange)
    /\ fills \subseteq Seen
    /\ WireSince
    /\ SoundState(state, fills)
    /\ SoundTransaction(order, Seen, fills)
    /\ SoundTransaction(pass, Seen, fills)
    /\ poll.phase = "read" => poll.item.first \in poll.item.parts
    /\ RowsHoldFirst
    /\ failures \in 0..MaxFailures
    /\ slips \subseteq Slips

LEMMA SoundInit == Init => Sound
<1> SUFFICES ASSUME Init PROVE Sound
  OBVIOUS
<1>1. since \in 0..1 /\ since <= Len(exchange)
  <2>1. Len(exchange) \in 0..1
    <3>1. CASE exchange = <<>>
      BY <3>1
    <3>2. ASSUME NEW x \in Quantities, exchange = <<x>>
          PROVE  Len(exchange) = 1
      BY <3>2
    <3> QED
      BY <3>1, <3>2 DEF Init
  <2> QED
    BY <2>1 DEF Init
<1>2. Len(wire) = 0 /\ fills = {}
  BY DEF Init
<1>3. SoundState(state, fills)
  BY DEF Init, NoStates, SoundState
<1>4. /\ SoundTransaction(order, Seen, fills)
      /\ SoundTransaction(pass, Seen, fills)
      /\ poll.phase # "read"
  BY DEF Init, SoundTransaction, Idle
<1>5. RowsHoldFirst
  BY DEF Init, RowsHoldFirst, NoTrade
<1>6. WireSince
  BY <1>2 DEF WireSince
<1>7. failures \in 0..MaxFailures /\ slips \subseteq Slips
  BY IntakeAssumption DEF Init
<1> QED
  BY <1>1, <1>2, <1>3, <1>4, <1>5, <1>6, <1>7 DEF Sound

LEMMA FillsMove ==
    ASSUME FillsWereExecuted, NEW F, F \subseteq 1..Len(exchange)
    PROVE  Moving(exchange, F)
<1>1. /\ exchange \in Seq(Quantities) /\ Len(exchange) <= MaxFills
      /\ MaxFills \in Nat /\ Quantities \subseteq Int \ {0}
  BY IntakeAssumption DEF FillsWereExecuted
<1>2. Len(exchange) \in Nat /\ \A n \in 1..Len(exchange) : exchange[n] \in Quantities
  BY <1>1
<1>3. 1..Len(exchange) \subseteq 1..MaxFills
  BY <1>1, <1>2
<1> QED
  BY <1>1, <1>2, <1>3 DEF Moving

\* What a transaction builds from sound books is sound.
LEMMA BuiltSound ==
    ASSUME FillsWereExecuted, Sound, NEW window, window \subseteq Seen
    PROVE  SoundTransaction(Built(window), Seen, fills)
<1> DEFINE fresh == Inserted(window)
           out == RebuildBy(exchange, fills \union fresh, fresh, state)
<1>1. fresh \subseteq Seen
  BY DEF Inserted
<1>2. fills \union fresh \subseteq 1..Len(exchange)
  <2>1. Seen \subseteq 1..Len(exchange)
    <3>1. Len(exchange) \in Nat /\ since \in 0..1
      BY DEF FillsWereExecuted, Sound
    <3> QED
      BY <3>1 DEF Seen
  <2> QED
    BY <1>1, <2>1 DEF FillsWereExecuted
<1>3. Rebuild(fills \union fresh, fresh, state) = out
  BY RebuildIs
<1>4. Built(window) = [phase |-> "built", fresh |-> fresh, state |-> out.state,
                       done |-> out.done, live |-> Live, base |-> <<fills, state>>,
                       late |-> Border(fresh, state) < state.border, clash |-> FALSE]
  BY <1>3 DEF Built
<1>5. PICK known : known = fills \union fresh
  OBVIOUS
<1>6. Moving(exchange, known)
  BY <1>2, <1>5, FillsMove
<1>7. SoundState(state, known)
  BY <1>5, SoundOfMore DEF Sound
<1>8. SoundState(out.state, known) /\ HoldFirst(out.done)
  BY <1>5, <1>6, <1>7, RebuildSound
<1> HIDE DEF fresh, out
<1> QED
  BY <1>1, <1>4, <1>5, <1>8 DEF SoundTransaction

LEMMA TransactionSound ==
    ASSUME NEW tx, NEW seen, NEW saved, SoundTransaction(tx, seen, saved),
           NEW later, seen \subseteq later, NEW more, saved \subseteq more
    PROVE  SoundTransaction(tx, later, more)
<1>1. ASSUME tx.phase = "built"
      PROVE  SoundState(tx.state, more \union tx.fresh)
  <2>1. PICK F, G : F = saved \union tx.fresh /\ G = more \union tx.fresh
    OBVIOUS
  <2>2. SoundState(tx.state, F) /\ F \subseteq G
    BY <1>1, <2>1 DEF SoundTransaction
  <2> QED
    BY <2>1, <2>2, SoundOfMore
<1> QED
  BY <1>1 DEF SoundTransaction

\* A transaction that has ended.
LEMMA IdleSound == \A seen, saved : SoundTransaction(Idle, seen, saved)
BY DEF SoundTransaction, Idle

\* What is left of Sound when no books, fills or executions change.
LEMMA SoundWhenQuiet ==
    ASSUME Sound, UNCHANGED <<exchange, since, fills, state, trades>>,
           WireSince',
           SoundTransaction(order', Seen, fills), SoundTransaction(pass', Seen, fills),
           poll' = poll \/ (poll'.phase = "read" => poll'.item.first \in poll'.item.parts),
           failures' \in 0..MaxFailures, slips' = slips
    PROVE  Sound'
BY DEF Sound, Seen, SoundState, RowsHoldFirst

LEMMA ExecuteSound ==
    ASSUME BInv, Sound, Execute PROVE Sound'
<1>1. /\ exchange \in Seq(Quantities) /\ wire \in Seq(Nat) /\ since \in 0..1
      /\ Len(exchange) \in Nat
  BY DEF BInv, FillsWereExecuted, Sound
<1>2. PICK x \in Quantities : exchange' = Append(exchange, x)
  BY DEF Execute
<1>3. /\ wire' = wire \/ wire' = Append(wire, Len(exchange) + 1)
      /\ UNCHANGED <<since, fills, state, trades, order, pass, poll, failures, slips>>
  BY DEF Execute, Heard, books
<1>4. Len(exchange') = Len(exchange) + 1
  BY <1>1, <1>2
<1>5. Seen \subseteq Seen'
  BY <1>1, <1>3, <1>4 DEF Seen
<1>6. WireSince'
  <2>1. Len(exchange) + 1 > since
    BY <1>1 DEF Sound
  <2> QED
    BY <2>1, <1>1, <1>3 DEF WireSince, Sound
<1>7. SoundTransaction(order', Seen', fills') /\ SoundTransaction(pass', Seen', fills')
  BY <1>3, <1>5, TransactionSound DEF Sound
<1>8. since' \in 0..1 /\ since' <= Len(exchange')
  BY <1>1, <1>3, <1>4 DEF Sound
<1> QED
  BY <1>3, <1>5, <1>6, <1>7, <1>8 DEF Sound, SoundState, RowsHoldFirst

LEMMA StreamBeginsSound ==
    ASSUME BInv, Sound, StreamBegins PROVE Sound'
<1>1. FillsWereExecuted /\ wire \in Seq(Nat) /\ Len(exchange) \in Nat
      /\ \A i \in 1..Len(wire) : wire[i] \in 1..Len(exchange)
  BY DEF BInv, FillsWereExecuted
<1>2. /\ wire # <<>> /\ wire' = Tail(wire)
      /\ order' = Idle \/ order' = Built({Head(wire)})
      /\ UNCHANGED <<exchange, since, fills, state, trades, pass, poll, failures, slips>>
  BY DEF StreamBegins, books
<1>3. Len(wire) \in Nat \ {0} /\ Head(wire) = wire[1] /\ Len(wire') = Len(wire) - 1
      /\ \A i \in 1..Len(wire) - 1 : wire'[i] = wire[i + 1]
  BY <1>1, <1>2
<1>4. WireSince'
  <2>1. \A i \in 1..Len(wire) - 1 : i + 1 \in 1..Len(wire)
    BY <1>3
  <2> QED
    BY <1>2, <1>3, <2>1 DEF WireSince, Sound
<1>5. Head(wire) \in Seen
  <2>1. 1 \in 1..Len(wire)
    BY <1>3
  <2>2. Head(wire) \in 1..Len(exchange) /\ Head(wire) > since /\ since \in 0..1
    BY <1>1, <1>3, <2>1 DEF WireSince, Sound
  <2> QED
    BY <1>1, <2>2 DEF Seen
<1>6. SoundTransaction(order', Seen, fills)
  <2>1. PICK window : window = {Head(wire)}
    OBVIOUS
  <2>2. SoundTransaction(Built(window), Seen, fills)
    BY <1>1, <1>5, <2>1, BuiltSound
  <2> QED
    BY <1>2, <2>1, <2>2, IdleSound
<1> QED
  BY <1>2, <1>4, <1>6, SoundWhenQuiet DEF Sound

LEMMA PassBeginsSound ==
    ASSUME BInv, Sound, PassDownloads \/ PassRebuilds PROVE Sound'
<1>1. FillsWereExecuted /\ Len(exchange) \in Nat
  BY DEF BInv, FillsWereExecuted
<1>2. UNCHANGED <<exchange, since, wire, fills, state, trades, order, poll, failures, slips>>
  BY DEF PassDownloads, PassRebuilds, books
<1>3. SoundTransaction(pass', Seen, fills)
  <2>1. CASE PassDownloads
    <3>1. UserTrades \subseteq Seen
      <4>1. \A n \in UserTrades : n \in Nat /\ n <= Len(exchange) /\ n > since
        BY IntakeAssumption DEF UserTrades, Ids, InWindow
      <4> QED
        BY <1>1, <4>1 DEF Seen, Sound
    <3> QED
      BY <2>1, <3>1 DEF PassDownloads, SoundTransaction
  <2>2. CASE PassRebuilds
    <3>1. pass.window \subseteq Seen /\ pass' = Built(pass.window)
      BY <2>2 DEF PassRebuilds, Sound, SoundTransaction
    <3>2. PICK window : window = pass.window
      OBVIOUS
    <3>3. SoundTransaction(Built(window), Seen, fills)
      BY <1>1, <3>1, <3>2, BuiltSound
    <3> QED
      BY <3>1, <3>2, <3>3
  <2> QED
    BY <2>1, <2>2
<1>4. WireSince'
  BY <1>2 DEF WireSince, Sound
<1> QED
  BY <1>2, <1>3, <1>4, SoundWhenQuiet DEF Sound

LEMMA EndSound ==
    ASSUME Sound, StreamAborts \/ PassFails \/ PassAborts PROVE Sound'
<1>1. /\ UNCHANGED <<exchange, since, wire, fills, state, trades, poll, slips>>
      /\ order' = Idle \/ order' = order
      /\ pass' = Idle \/ pass' = pass
  BY DEF StreamAborts, PassFails, PassAborts, books
<1>2. failures' \in 0..MaxFailures
  BY IntakeAssumption DEF StreamAborts, PassFails, PassAborts, Sound
<1>3. SoundTransaction(order', Seen, fills) /\ SoundTransaction(pass', Seen, fills)
  BY <1>1, IdleSound DEF Sound
<1>4. WireSince'
  BY <1>1 DEF WireSince, Sound
<1> QED
  BY <1>1, <1>2, <1>3, <1>4, SoundWhenQuiet

\* A batch brings rows that hold their first fills.
LEMMA IngestHoldsFirst ==
    ASSUME RowsHoldFirst, NEW done, HoldFirst(done), NEW open, NEW live,
           live /\ open # None => open.first \in open.parts,
           Ingest(Batch(done, open, live))
    PROVE  RowsHoldFirst'
<1> SUFFICES ASSUME NEW n \in Ids, trades'[n].status # "none"
             PROVE  n \in trades'[n].parts
  BY DEF RowsHoldFirst
<1>1. PICK row : row = Batch(done, open, live)[n]
  OBVIOUS
<1>2. trades'[n] = trades[n] \/ (trades'[n] = row /\ row # NoTrade)
  BY <1>1 DEF Ingest, Admit
<1>3. CASE trades'[n] = trades[n]
  BY <1>3 DEF RowsHoldFirst
<1>4. CASE trades'[n] = row /\ row # NoTrade
  <2>1. CASE \E d \in done : d.first = n
    <3>1. PICK d \in done : d.first = n /\ d = CHOOSE e \in done : e.first = n
      BY <2>1
    <3>2. row = [status |-> "closed", parts |-> d.parts]
      BY <1>1, <2>1, <3>1 DEF Batch
    <3> QED
      BY <1>4, <3>1, <3>2 DEF HoldFirst
  <2>2. CASE ~\E d \in done : d.first = n
    <3>1. live /\ open # None /\ open.first = n
      BY <1>1, <1>4, <2>2 DEF Batch
    <3>2. row = [status |-> "open", parts |-> open.parts]
      BY <1>1, <2>2, <3>1 DEF Batch
    <3> QED
      BY <1>4, <3>1, <3>2
  <2> QED
    BY <2>1, <2>2
<1> QED
  BY <1>2, <1>3, <1>4

\* What a transaction commits.
LEMMA SaveSound ==
    ASSUME Sound, NEW tx, tx.phase = "built", SoundTransaction(tx, Seen, fills), Save(tx)
    PROVE  /\ fills' \subseteq Seen
           /\ fills \subseteq fills'
           /\ SoundState(state', fills')
           /\ HoldFirst(tx.done)
           /\ tx.state.open # None => tx.state.open.first \in tx.state.open.parts
<1>1. fills' = fills \union tx.fresh /\ state' = tx.state
  BY DEF Save
<1>2. tx.fresh \subseteq Seen /\ SoundState(tx.state, fills \union tx.fresh) /\ HoldFirst(tx.done)
  BY DEF SoundTransaction
<1> QED
  BY <1>1, <1>2 DEF Sound, SoundState, IsOpen

LEMMA CommitSound ==
    ASSUME Sound, StreamCommits \/ PassCommits \/ PassFailsLate PROVE Sound'
<1>1. UNCHANGED <<exchange, since, wire, poll>>
  BY DEF StreamCommits, PassCommits, PassFailsLate
<1>2. PICK tx, open, live :
        /\ tx.phase = "built" /\ SoundTransaction(tx, Seen, fills) /\ Save(tx)
        /\ live /\ open # None => open = tx.state.open
        /\ UNCHANGED trades \/ Ingest(Batch(tx.done, open, live))
        /\ slips' \subseteq slips \union SlipsOf(tx) \union {"failed"}
  <2>1. CASE StreamCommits
    BY <2>1 DEF StreamCommits, Sound
  <2>2. CASE PassCommits
    BY <2>2 DEF PassCommits, Sound
  <2>3. CASE PassFailsLate
    BY <2>3 DEF PassFailsLate, Sound
  <2> QED
    BY <2>1, <2>2, <2>3
<1>3. /\ order' = Idle \/ order' = order
      /\ pass' = Idle \/ pass' = pass
  BY DEF StreamCommits, PassCommits, PassFailsLate
<1>10. failures' \in 0..MaxFailures
  <2>1. \/ failures' = failures
        \/ failures < MaxFailures /\ failures' = failures + 1
    BY DEF StreamCommits, PassCommits, PassFailsLate
  <2> QED
    BY <2>1, IntakeAssumption DEF Sound
<1>4. /\ fills' \subseteq Seen /\ fills \subseteq fills' /\ SoundState(state', fills')
      /\ HoldFirst(tx.done)
      /\ tx.state.open # None => tx.state.open.first \in tx.state.open.parts
  BY <1>2, SaveSound
<1>5. RowsHoldFirst'
  <2>1. CASE UNCHANGED trades
    BY <2>1 DEF RowsHoldFirst, Sound
  <2>2. CASE Ingest(Batch(tx.done, open, live))
    BY <1>2, <1>4, <2>2, IngestHoldsFirst DEF Sound
  <2> QED
    BY <1>2, <2>1, <2>2
<1>6. slips' \subseteq Slips
  BY <1>2 DEF SlipsOf, Slips, Sound
<1>7. SoundTransaction(order', Seen, fills') /\ SoundTransaction(pass', Seen, fills')
  <2>1. SoundTransaction(order, Seen, fills') /\ SoundTransaction(pass, Seen, fills')
    BY <1>4, TransactionSound DEF Sound
  <2> QED
    BY <1>3, <2>1, IdleSound
<1>8. WireSince'
  BY <1>1 DEF WireSince, Sound
<1>9. Seen' = Seen
  BY <1>1 DEF Seen
<1> QED
  BY <1>1, <1>4, <1>5, <1>6, <1>7, <1>8, <1>9, <1>10 DEF Sound

LEMMA PollLooksSound ==
    ASSUME Sound, PollAsks \/ PollReads \/ UNCHANGED vars PROVE Sound'
<1>1. UNCHANGED <<exchange, since, wire, fills, state, trades, order, pass, failures, slips>>
  BY DEF PollAsks, PollReads, vars, books
<1>2. poll' = poll \/ (poll'.phase = "read" => poll'.item.first \in poll'.item.parts)
  <2>1. CASE PollReads
    <3>1. state.open # None => state.open.first \in state.open.parts
      BY DEF Sound, SoundState, IsOpen
    <3>2. Idle.phase # "read"
      BY DEF Idle
    <3> QED
      BY <2>1, <3>1, <3>2 DEF PollReads
  <2>2. CASE PollAsks
    BY <2>2 DEF PollAsks
  <2>3. CASE UNCHANGED vars
    BY <2>3 DEF vars
  <2> QED
    BY <2>1, <2>2, <2>3
<1>3. WireSince'
  BY <1>1 DEF WireSince, Sound
<1> QED
  BY <1>1, <1>2, <1>3, SoundWhenQuiet DEF Sound

\* The mark that an insert will fail leaves the rest of a transaction.
LEMMA ClashSound ==
    ASSUME NEW q, NEW tx, IsTransaction(q, tx), tx.phase = "built",
           NEW seen, NEW saved, SoundTransaction(tx, seen, saved)
    PROVE  SoundTransaction([tx EXCEPT !.clash = TRUE], seen, saved)
<1>1. Saves(q, tx)
  BY BuiltIsSaves
<1>2. PICK F, fresh, st, live, clash :
        tx = [phase |-> "built", fresh |-> fresh,
              state |-> RebuildBy(q, F \union fresh, fresh, st).state,
              done |-> RebuildBy(q, F \union fresh, fresh, st).done,
              live |-> live, base |-> <<F, st>>,
              late |-> Border(fresh, st) < st.border, clash |-> clash]
  BY <1>1 DEF Saves
<1>3. PICK s, d, b, l : /\ s = RebuildBy(q, F \union fresh, fresh, st).state
                        /\ d = RebuildBy(q, F \union fresh, fresh, st).done
                        /\ b = <<F, st>>
                        /\ l = (Border(fresh, st) < st.border)
  OBVIOUS
<1>4. tx = [phase |-> "built", fresh |-> fresh, state |-> s, done |-> d, live |-> live,
            base |-> b, late |-> l, clash |-> clash]
  BY <1>2, <1>3
<1>5. PICK e : e = TRUE
  OBVIOUS
<1>6. [tx EXCEPT !.clash = e]
        = [phase |-> "built", fresh |-> fresh, state |-> s, done |-> d, live |-> live,
           base |-> b, late |-> l, clash |-> e]
  BY <1>4, ClashIsNoted
<1> QED
  BY <1>4, <1>5, <1>6 DEF SoundTransaction

LEMMA PollWritesSound ==
    ASSUME BInv, Sound, PollInserts \/ PollUpdates PROVE Sound'
<1>1. /\ IsTransaction(exchange, order) /\ IsTransaction(exchange, pass)
      /\ DOMAIN trades = Ids /\ \A n \in Ids : IsTrade(trades[n])
  BY DEF BInv, Transactions, Announced, TradesTyped
<1>2. PICK k, parts : k = poll.item.first /\ parts = poll.item.parts
  OBVIOUS
<1>3. k \in parts /\ poll' = Idle
  BY <1>2 DEF PollInserts, PollUpdates, Sound
<1>4. UNCHANGED <<exchange, since, wire, fills, state, failures>>
  BY DEF PollInserts, PollUpdates
<1>5. RowsHoldFirst'
  <2> SUFFICES ASSUME NEW n \in Ids, trades'[n].status # "none"
               PROVE  n \in trades'[n].parts
    BY DEF RowsHoldFirst
  <2>1. trades[n].status # "none" => n \in trades[n].parts
    BY DEF Sound, RowsHoldFirst
  <2>2. CASE PollInserts
    <3>1. trades' = IF trades[k] = NoTrade
                    THEN [trades EXCEPT ![k] = [status |-> "open", parts |-> parts]]
                    ELSE trades
      BY <1>2, <2>2 DEF PollInserts
    <3> QED
      BY <1>1, <1>3, <2>1, <3>1
  <2>3. CASE PollUpdates
    <3>1. trades' = [trades EXCEPT ![k].parts = parts]
      BY <1>2, <2>3 DEF PollUpdates
    <3>2. PICK status \in Statuses : \E p : trades[n] = [status |-> status, parts |-> p]
      BY <1>1 DEF IsTrade
    <3>3. PICK p : trades[n] = [status |-> status, parts |-> p]
      BY <3>2
    <3>4. trades'[n] = IF n = k THEN [status |-> status, parts |-> parts] ELSE trades[n]
      BY <1>1, <3>1, <3>3
    <3> QED
      BY <1>3, <2>1, <3>4
  <2> QED
    BY <2>2, <2>3
<1>6. SoundTransaction(order', Seen, fills) /\ SoundTransaction(pass', Seen, fills)
  <2>1. /\ order' = order \/ (order.phase = "built" /\ order' = [order EXCEPT !.clash = TRUE])
        /\ pass' = pass \/ (pass.phase = "built" /\ pass' = [pass EXCEPT !.clash = TRUE])
    BY DEF PollInserts, PollUpdates
  <2>2. \A tx : /\ IsTransaction(exchange, tx) /\ tx.phase = "built"
                /\ SoundTransaction(tx, Seen, fills)
                => SoundTransaction([tx EXCEPT !.clash = TRUE], Seen, fills)
    BY ClashSound
  <2> QED
    BY <1>1, <2>1, <2>2 DEF Sound
<1>7. slips' \subseteq Slips
  BY DEF PollInserts, PollUpdates, Sound, Slips
<1>8. WireSince' /\ poll'.phase # "read"
  BY <1>3, <1>4 DEF WireSince, Sound, Idle
<1>9. Seen' = Seen /\ SoundState(state, fills)
  BY <1>4 DEF Seen, Sound
<1> QED
  BY <1>4, <1>5, <1>6, <1>7, <1>8, <1>9 DEF Sound

LEMMA SoundStep == BInv /\ Sound /\ [Next]_vars => Sound'
BY ExecuteSound, StreamBeginsSound, PassBeginsSound, EndSound, CommitSound,
   PollLooksSound, PollWritesSound DEF Next

\* What is stored has the shape the code gives it, through every overlap and
\* failure: no fill is from before the connection, the border is a saved fill,
\* an open position is not flat and begins behind it.
THEOREM TypeCorrect == Spec => []TypeOK
<1>1. BInv /\ Sound => TypeOK
  <2> SUFFICES ASSUME BInv, Sound PROVE TypeOK
    OBVIOUS
  <2>1. exchange \in Seq(Quantities) /\ Len(exchange) <= MaxFills
    BY DEF BInv, FillsWereExecuted
  <2>2. announced \subseteq Ids
    BY DEF BInv, Announced, ClosedIsAnnounced
  <2>3. \A n \in Ids : trades[n].status \in {"none", "open", "closed"}
    BY DEF BInv, Announced, TradesTyped, IsTrade, Statuses
  <2>4. \A n \in Ids : trades[n].status # "none" => n \in trades[n].parts
    BY DEF Sound, RowsHoldFirst
  <2>5. /\ state.border \in {0} \union fills
        /\ state.open # None => /\ state.open \in Positions
                                /\ state.open.net # 0
                                /\ state.open.first >= state.border
                                /\ state.open.parts \subseteq fills
    BY DEF Sound, SoundState, IsOpen
  <2> QED
    BY <2>1, <2>2, <2>3, <2>4, <2>5 DEF TypeOK, Sound, Seen
<1> QED
  BY <1>1, BooksAreRight, SoundInit, SoundStep, PTL DEF Spec

=============================================================================
