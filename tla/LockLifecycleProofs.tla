------------------------- MODULE LockLifecycleProofs -------------------------
(***************************************************************************)
(* Proofs about LockLifecycle for every set of rules and trades, every     *)
(* calendar of days and every choice of actions and unlock conditions,     *)
(* and that it implements LockPromise.                                     *)
(***************************************************************************)
EXTENDS LockRefinement, TLAPS

----------------------------------------------------------------------------
(* Identities and helpers *)

\* The keys of the incidents of a rule, a tag, a breach and a day without
\* admission are keys of incidents; only those of the first two start locks.
LEMMA Identities ==
    /\ LockIds \subseteq Ids
    /\ \A r \in Rules, ref \in Trades \union Probes : <<r, ref>> \in LockIds
    /\ \A t \in Trades : <<SR1, t>> \in LockIds
    /\ \A t \in Trades : <<SR2, t>> \in Ids \ LockIds
    /\ \A d \in Days : <<SR3, d>> \in Ids \ LockIds
    /\ \A i \in LockIds : i[1] \in LockRules
BY IdentityAssumption
   DEF Ids, LockIds, FiredIds, TagIds, BreachIds, AdmissionIds, LockRules

\* The timer of a lock is a moment, or it is not set.
LEMMA TimerTyped ==
    ASSUME NEW r \in LockRules, NEW d \in Days, now \in Moments
    PROVE  TimerOf(r, d) \in Moments \union {Never}
<1>1. CASE "timer" \in Requires[r] /\ Minutes[r] # Unset
  <2>1. Minutes[r] \in Nat
    BY <1>1, RuleAssumption
  <2>2. WindowEnd[d] \in 0..Horizon /\ Horizon \in Nat
    BY ClockAssumption DEF Moments
  <2>3. Earlier(now + Minutes[r], WindowEnd[d]) \in 0..Horizon
    BY <2>1, <2>2 DEF Earlier, Moments
  <2> QED
    BY <1>1, <2>3 DEF TimerOf, Moments
<1>2. CASE ~("timer" \in Requires[r] /\ Minutes[r] # Unset)
  BY <1>2 DEF TimerOf
<1> QED
  BY <1>1, <1>2

\* A lock that is looked at goes on, or ends as lifted or expired.
LEMMA EndingCases ==
    ASSUME NEW i, NEW l
    PROVE  Ending(i, l) \in {"active", "lifted", "expired"}
BY DEF Ending

\* settle writes well-formed rows.
LEMMA SettleTyped ==
    ASSUME NEW i \in LockIds, NEW l \in LockRow, NEW rows \in [Ids -> IncidentRow],
           now \in Moments, lock \in [LockIds -> LockRow],
           Settle(i, l, rows)
    PROVE  /\ lock' \in [LockIds -> LockRow]
           /\ incident' \in [Ids -> IncidentRow]
<1>1. SettledLock(i, l, rows[i].outcome) \in LockRow
  BY EndingCases DEF SettledLock, LockRow, LockStates
<1>2. SettledIncidents(i, l, rows) \in [Ids -> IncidentRow]
  <2>1. i \in Ids
    BY Identities
  <2>2. rows[i].outcome \in Outcomes
    BY <2>1 DEF IncidentRow
  <2> QED
    BY <2>2 DEF SettledIncidents, IncidentRow, Outcomes
<1> QED
  BY <1>1, <1>2 DEF Settle

\* Compliance writes well-formed rows.
LEMMA JudgedTyped ==
    ASSUME TypeOK, NEW i \in LockIds
    PROVE  JudgedIncidents(i) \in [Ids -> IncidentRow]
<1> DEFINE caught == OpenedBetween(lock[i])
           rows   == RecordBreach(i, caught, incident)
<1>1. i \in Ids /\ lock[i].day \in Days
  BY Identities DEF TypeOK, LockRow
<1>2. rows \in [Ids -> IncidentRow]
  BY <1>1 DEF TypeOK, RecordBreach, IncidentRow, Outcomes
<1>3. SR2Breaches(lock[i].day, caught, rows) \in [Ids -> IncidentRow]
  BY <1>1, <1>2 DEF SR2Breaches, IncidentRow, Outcomes
<1> QED
  BY <1>3 DEF JudgedIncidents

LEMMA RefreshTyped ==
    ASSUME TypeOK, NEW i \in LockIds, RefreshLock(i)
    PROVE  /\ lock' \in [LockIds -> LockRow]
           /\ incident' \in [Ids -> IncidentRow]
BY SettleTyped, JudgedTyped DEF RefreshLock, TypeOK

\* A firing writes well-formed rows.
LEMMA FiringTyped ==
    ASSUME TypeOK, NEW i \in LockIds, NEW d \in Days, OpenFromFiring(i, d)
    PROVE  /\ lock' \in [LockIds -> LockRow]
           /\ incident' \in [Ids -> IncidentRow]
<1>1. i \in Ids /\ i[1] \in LockRules
  BY Identities
<1>2. TimerOf(i[1], d) \in Moments \union {Never}
  BY <1>1, TimerTyped DEF TypeOK
<1>3. lock' \in [LockIds -> LockRow]
  <2>1. 0 \in Moments
    BY ClockAssumption DEF Moments
  <2> QED
    BY <1>2, <2>1 DEF OpenFromFiring, TypeOK, LockRow, LockStates
<1>4. ActiveLocks # {} =>
        (CHOOSE a \in LockIds : a \in ActiveLocks) \in LockIds
  BY DEF ActiveLocks
<1>5. incident' \in [Ids -> IncidentRow]
  BY <1>1, <1>4 DEF OpenFromFiring, TypeOK, IncidentRow, Outcomes
<1> QED
  BY <1>3, <1>5

LEMMA FactTyped ==
    ASSUME TypeOK, NEW i \in Ids, NEW d \in Days, NEW outcome \in Outcomes,
           OpenFact(i, d, outcome)
    PROVE  incident' \in [Ids -> IncidentRow]
BY DEF OpenFact, TypeOK, IncidentRow

LEMMA PassTyped ==
    ASSUME NEW days \in SUBSET Days, NEW probe \in Probes \union {None},
           StartPass(days, probe)
    PROVE  pass' \in PassRow
<1>1. DayOf[0] \in Days
  BY ClockAssumption DEF Days, Moments
<1> QED
  BY <1>1 DEF StartPass, IdlePass, PassRow, Phases

\* A trade belongs to a day of the calendar.
LEMMA DayTyped ==
    ASSUME TypeOK
    PROVE  /\ \A t \in Trades : Day(t) \in Days
           /\ DayOf[now] \in Days
BY DEF TypeOK, TradeRow, Day, Days

----------------------------------------------------------------------------
(* Type correctness *)

LEMMA InitTyped == Init => TypeOK
<1> SUFFICES ASSUME Init PROVE TypeOK
  OBVIOUS
<1>1. 0 \in Moments /\ DayOf[0] \in Days
  BY ClockAssumption DEF Moments, Days
<1> QED
  BY <1>1, Identities
     DEF Init, TypeOK, TradeRow, Stages, NoIncident, IncidentRow, Outcomes,
         NoLockRow, LockRow, LockStates, IdlePass, PassRow, Phases

LEMMA PassStepTyped ==
    ASSUME TypeOK, PassStep PROVE TypeOK'
<1> USE DEF TypeOK
<1>1. pass.day \in Days /\ pass.left \in SUBSET Days /\ pass.probe \in Probes \union {None}
  BY DEF PassRow
<1>2. ASSUME NEW r \in Rules, NEW ref \in Trades \union Probes, FireRule(r, ref)
      PROVE  TypeOK'
  <2>1. <<r, ref>> \in LockIds
    BY Identities
  <2> QED
    BY <1>1, <1>2, <2>1, FiringTyped DEF FireRule
<1>3. CASE EndFiring
  BY <1>3 DEF EndFiring, PassRow, Phases
<1>4. ASSUME NEW t \in Trades, TagInWindow(t)
      PROVE  TypeOK'
  <2>1. <<SR1, t>> \in LockIds
    BY Identities
  <2> QED
    BY <1>1, <1>4, <2>1, FiringTyped DEF TagInWindow
<1>5. ASSUME NEW t \in Trades, TagTooLate(t)
      PROVE  TypeOK'
  <2>1. <<SR1, t>> \in Ids
    BY Identities
  <2>2. (IF OpenedAfter(t) # {} THEN "breached" ELSE "kept") \in Outcomes
    BY DEF Outcomes
  <2> QED
    BY <1>1, <1>5, <2>1, <2>2, FactTyped DEF TagTooLate
<1>6. CASE EndTags
  BY <1>6 DEF EndTags, PassRow, Phases
<1>7. CASE CheckAdmission
  <2>1. <<SR3, pass.day>> \in Ids
    BY <1>1, Identities
  <2>2. incident' \in [Ids -> IncidentRow]
    BY <1>1, <1>7, <2>1, FactTyped DEF CheckAdmission, Outcomes
  <2> QED
    BY <1>7, <2>2 DEF CheckAdmission, PassRow, Phases
<1>8. CASE EndDay
  <2>1. pass' \in PassRow
    BY <1>1, <1>8, PassTyped DEF EndDay
  <2>2. lock' \in [LockIds -> LockRow] /\ incident' \in [Ids -> IncidentRow]
    BY <1>8, RefreshTyped DEF EndDay, ActiveLocks
  <2> QED
    BY <1>8, <2>1, <2>2 DEF EndDay
<1> QED
  BY <1>2, <1>3, <1>4, <1>5, <1>6, <1>7, <1>8 DEF PassStep

LEMMA PassStartTyped ==
    ASSUME TypeOK, PassStart PROVE TypeOK'
<1>1. /\ \A t \in Trades : Day(t) \in Days
      /\ DayOf[now] \in Days
  BY DayTyped
<1>2. ASSUME NEW opened \in SUBSET Trades, NEW done \in SUBSET Trades,
             NEW retagged \in SUBSET Trades, Sync(opened, done, retagged)
      PROVE  TypeOK'
  <2>1. pass' \in PassRow
    <3>1. Touched(done, retagged) \in SUBSET Days
      BY <1>1 DEF Touched
    <3> QED
      BY <1>2, <3>1, PassTyped DEF Sync
  <2>2. trade' \in [Trades -> TradeRow]
    <3>1. PICK c \in [done -> Moments], v \in [opened \union done -> BOOLEAN] :
            trade' = [t \in Trades |->
              IF t \in opened
              THEN [trade[t] EXCEPT !.stage = "open", !.violation = v[t]]
              ELSE IF t \in done
              THEN [trade[t] EXCEPT !.stage = "closed", !.closed = c[t],
                                    !.violation = v[t]]
              ELSE IF t \in retagged
              THEN [trade[t] EXCEPT !.violation = ~@]
              ELSE trade[t]]
      BY <1>2 DEF Sync
    <3>2. ASSUME NEW t \in Trades
          PROVE  /\ t \in opened =>
                      [trade[t] EXCEPT !.stage = "open", !.violation = v[t]] \in TradeRow
                 /\ t \in done =>
                      [trade[t] EXCEPT !.stage = "closed", !.closed = c[t],
                                       !.violation = v[t]] \in TradeRow
                 /\ [trade[t] EXCEPT !.violation = ~@] \in TradeRow
                 /\ trade[t] \in TradeRow
      BY DEF TypeOK, TradeRow, Stages
    <3> QED
      BY <3>1, <3>2
  <2> QED
    BY <1>2, <2>1, <2>2 DEF Sync, TypeOK
<1>3. ASSUME NEW t \in Trades, MarkTrade(t)
      PROVE  TypeOK'
  <2>1. pass' \in PassRow
    BY <1>1, <1>3, PassTyped DEF MarkTrade
  <2>2. trade' \in [Trades -> TradeRow]
    BY <1>3 DEF MarkTrade, TypeOK, TradeRow
  <2> QED
    BY <1>3, <2>1, <2>2 DEF MarkTrade, TypeOK
<1>4. ASSUME NEW p \in Probes, NEW opened \in SUBSET Trades, RefreshPositions(p, opened)
      PROVE  TypeOK'
  <2>1. pass' \in PassRow
    BY <1>1, <1>4, PassTyped DEF RefreshPositions
  <2>2. trade' \in [Trades -> TradeRow]
    BY <1>4 DEF RefreshPositions, TypeOK, TradeRow, Stages
  <2> QED
    BY <1>4, <2>1, <2>2 DEF RefreshPositions, TypeOK
<1>5. ASSUME NEW t \in Trades, OnMarkingChanged(t)
      PROVE  TypeOK'
  BY <1>1, <1>5, PassTyped DEF OnMarkingChanged, TypeOK
<1> QED
  BY <1>2, <1>3, <1>4, <1>5 DEF PassStart

LEMMA RequestTyped ==
    ASSUME TypeOK, Request PROVE TypeOK'
<1> SUFFICES ASSUME NEW i \in LockIds,
                    \/ TodayRead(i) \/ ActiveLockRead(i) \/ SubmitReview(i)
                    \/ RequestBuddy(i) \/ ConfirmByBuddy(i)
             PROVE  TypeOK'
  BY DEF Request
<1> USE DEF TypeOK
<1>1. CASE TodayRead(i)
  BY <1>1, RefreshTyped DEF TodayRead
<1>2. CASE ActiveLockRead(i)
  BY <1>2, SettleTyped DEF ActiveLockRead
<1>3. CASE SubmitReview(i)
  <2>1. [lock[i] EXCEPT !.review = TRUE] \in LockRow
    BY DEF LockRow
  <2> QED
    BY <1>3, <2>1, SettleTyped DEF SubmitReview
<1>4. CASE RequestBuddy(i)
  BY <1>4 DEF RequestBuddy, LockRow
<1>5. CASE ConfirmByBuddy(i)
  <2>1. [lock[i] EXCEPT !.buddy = TRUE] \in LockRow
    BY DEF LockRow
  <2> QED
    BY <1>5, <2>1, SettleTyped DEF ConfirmByBuddy
<1> QED
  BY <1>1, <1>2, <1>3, <1>4, <1>5

LEMMA WorldTyped ==
    ASSUME TypeOK, World PROVE TypeOK'
<1> USE DEF TypeOK
<1>1. CASE Tick
  BY <1>1, ClockAssumption DEF Tick, Moments
<1>2. ASSUME NEW t \in Trades, OpenOnExchange(t) PROVE TypeOK'
  BY <1>2 DEF OpenOnExchange, TradeRow, Stages
<1>3. CASE PassCheck
  BY <1>3, DayTyped DEF PassCheck
<1>4. CASE ToggleShadow
  BY <1>4 DEF ToggleShadow
<1>5. ASSUME NEW trades \in SUBSET Trades, RemarkAll(trades) PROVE TypeOK'
  <2>1. trade' \in [Trades -> TradeRow]
    BY <1>5 DEF RemarkAll, Remark, TradeRow
  <2> QED
    BY <1>5, <2>1 DEF RemarkAll, Remark
<1> QED
  BY <1>1, <1>2, <1>3, <1>4, <1>5 DEF World

\* Every step of passes, batches, requests and the world keeps the rows well
\* formed.
LEMMA StepTyped ==
    ASSUME TypeOK, [Next]_vars PROVE TypeOK'
<1>1. CASE UNCHANGED vars
  BY <1>1 DEF vars, TypeOK
<1> QED
  BY <1>1, PassStepTyped, PassStartTyped, RequestTyped, WorldTyped DEF Next

\* The rows of trades, incidents and locks, the clock and the pass under way
\* have their types in every reachable state.
THEOREM TypeCorrect == Spec => []TypeOK
<1>1. Init => TypeOK
  BY InitTyped
<1>2. TypeOK /\ [Next]_vars => TypeOK'
  BY StepTyped
<1> QED
  BY <1>1, <1>2, PTL DEF Spec

----------------------------------------------------------------------------
(* What a step may do to incidents and locks *)

\* Rows after compliance with lock i: SR-2 facts are new, the lock's own
\* incident may have been broken, nothing else changed.
JudgedFrom(i, rows) ==
    /\ rows \in [Ids -> IncidentRow]
    /\ \A j \in Ids :
         \/ rows[j] = incident[j]
         \/ /\ j \notin LockIds
            /\ incident[j].outcome = "none"
            /\ rows[j].outcome = "breached"
            /\ rows[j].cover = None
         \/ /\ j = i
            /\ incident[i].outcome = "open"
            /\ rows[i] = [incident[i] EXCEPT !.outcome = "breached"]

\* A lock row that is being settled: what its handler wrote to it is a review
\* or a confirmation.
WrittenFrom(i, l) ==
    /\ l \in LockRow
    /\ l = [lock[i] EXCEPT !.review = l.review, !.buddy = l.buddy]

\* A tag or a day without admission, never a breach of SR-2.
StatesFact(i) ==
    /\ i \notin BreachIds
    /\ ~Recorded(i)
    /\ \E d \in Days, outcome \in {"kept", "breached"} : OpenFact(i, d, outcome)
    /\ UNCHANGED lock

Asks(i) ==
    /\ lock' = [lock EXCEPT ![i].asked = now]
    /\ UNCHANGED incident

Effect ==
    \/ UNCHANGED <<incident, lock>>
    \/ \E i \in LockIds, d \in Days : d = pass.day /\ OpenFromFiring(i, d)
    \/ \E i \in Ids : StatesFact(i)
    \/ \E i \in ActiveLocks : Asks(i)
    \/ \E i \in ActiveLocks, l \in LockRow, rows \in [Ids -> IncidentRow] :
         /\ WrittenFrom(i, l)
         /\ JudgedFrom(i, rows)
         /\ rows \in {incident, JudgedIncidents(i)}
         /\ Settle(i, l, rows)

LEMMA JudgedIsJudged ==
    ASSUME TypeOK, NEW i \in LockIds
    PROVE  JudgedFrom(i, JudgedIncidents(i))
<1> DEFINE caught == OpenedBetween(lock[i])
           rows   == RecordBreach(i, caught, incident)
<1>1. i \in Ids /\ incident \in [Ids -> IncidentRow]
  BY Identities DEF TypeOK
<1>2. ASSUME NEW j \in Ids
      PROVE  \/ rows[j] = incident[j]
             \/ /\ j = i
                /\ incident[i].outcome = "open"
                /\ rows[i] = [incident[i] EXCEPT !.outcome = "breached"]
  BY <1>1 DEF RecordBreach
<1>3. \A t \in caught : <<SR2, t>> \in Ids \ LockIds
  BY Identities DEF OpenedBetween, Known
<1>4. JudgedIncidents(i) \in [Ids -> IncidentRow]
  BY JudgedTyped
<1>5. ASSUME NEW j \in Ids
      PROVE  \/ JudgedIncidents(i)[j] = rows[j]
             \/ /\ j \notin LockIds
                /\ rows[j].outcome = "none"
                /\ JudgedIncidents(i)[j] = [outcome |-> "breached",
                                            day |-> lock[i].day, cover |-> None]
  BY <1>3 DEF JudgedIncidents, SR2Breaches
<1>6. ASSUME NEW j \in Ids, j \notin LockIds
      PROVE  rows[j] = incident[j]
  BY <1>2, <1>6
<1> QED
  BY <1>2, <1>4, <1>5, <1>6 DEF JudgedFrom

LEMMA RefreshEffect ==
    ASSUME TypeOK, NEW i \in ActiveLocks, RefreshLock(i)
    PROVE  Effect
<1>1. i \in LockIds /\ lock[i] \in LockRow
  BY DEF ActiveLocks, TypeOK
<1>2. WrittenFrom(i, lock[i])
  BY <1>1 DEF WrittenFrom, LockRow
<1>3. JudgedFrom(i, JudgedIncidents(i)) /\ JudgedIncidents(i) \in [Ids -> IncidentRow]
  BY <1>1, JudgedIsJudged, JudgedTyped
<1> QED
  BY <1>1, <1>2, <1>3 DEF Effect, RefreshLock

LEMMA SettleEffect ==
    ASSUME TypeOK, NEW i \in ActiveLocks, NEW l, WrittenFrom(i, l),
           Settle(i, l, incident)
    PROVE  Effect
<1>1. incident \in [Ids -> IncidentRow] /\ l \in LockRow
  BY DEF TypeOK, WrittenFrom
<1>2. JudgedFrom(i, incident)
  BY <1>1 DEF JudgedFrom
<1> QED
  BY <1>1, <1>2 DEF Effect

\* Every step is one of five: it leaves incidents and locks alone, a rule
\* fires, a fact is stated, the contact is asked, or an active lock is judged
\* and settled.
LEMMA StepEffect ==
    ASSUME TypeOK, [Next]_vars PROVE Effect
<1>1. CASE UNCHANGED vars
  BY <1>1 DEF vars, Effect
<1>2. CASE PassStep
  <2>1. pass.day \in Days
    BY DEF TypeOK, PassRow
  <2>2. ASSUME NEW r \in Rules, NEW ref \in Trades \union Probes, FireRule(r, ref)
        PROVE  Effect
    BY <2>1, <2>2, Identities DEF FireRule, Effect
  <2>3. ASSUME NEW t \in Trades, TagInWindow(t)
        PROVE  Effect
    BY <2>1, <2>3, Identities DEF TagInWindow, Effect
  <2>4. ASSUME NEW t \in Trades, TagTooLate(t)
        PROVE  Effect
    <3>1. <<SR1, t>> \in Ids
      BY Identities
    <3>2. StatesFact(<<SR1, t>>)
      BY <2>1, <2>4, IdentityAssumption
         DEF TagTooLate, StatesFact, BreachIds, LockRules
    <3> QED
      BY <3>1, <3>2 DEF Effect
  <2>5. CASE CheckAdmission
    <3>1. <<SR3, pass.day>> \in Ids
      BY <2>1, Identities
    <3>2. UNCHANGED <<incident, lock>> \/ StatesFact(<<SR3, pass.day>>)
      BY <2>1, <2>5, IdentityAssumption DEF CheckAdmission, StatesFact, BreachIds
    <3> QED
      BY <3>1, <3>2 DEF Effect
  <2>6. CASE EndDay
    BY <2>6, RefreshEffect DEF EndDay, Effect
  <2>7. CASE EndFiring \/ EndTags
    BY <2>7 DEF EndFiring, EndTags, Effect
  <2> QED
    BY <1>2, <2>2, <2>3, <2>4, <2>5, <2>6, <2>7 DEF PassStep
<1>3. CASE PassStart
  BY <1>3 DEF PassStart, Sync, MarkTrade, RefreshPositions, OnMarkingChanged, Effect
<1>4. CASE Request
  <2> SUFFICES ASSUME NEW i \in LockIds,
                      \/ TodayRead(i) \/ ActiveLockRead(i) \/ SubmitReview(i)
                      \/ RequestBuddy(i) \/ ConfirmByBuddy(i)
               PROVE  Effect
    BY <1>4 DEF Request
  <2>1. lock[i] \in LockRow
    BY DEF TypeOK
  <2>2. CASE TodayRead(i)
    BY <2>2, RefreshEffect DEF TodayRead
  <2>3. CASE ActiveLockRead(i)
    <3>1. WrittenFrom(i, lock[i])
      BY <2>1 DEF WrittenFrom, LockRow
    <3> QED
      BY <2>3, <3>1, SettleEffect DEF ActiveLockRead
  <2>4. CASE SubmitReview(i)
    <3>1. WrittenFrom(i, [lock[i] EXCEPT !.review = TRUE])
      BY <2>1 DEF WrittenFrom, LockRow
    <3> QED
      BY <2>4, <3>1, SettleEffect DEF SubmitReview
  <2>5. CASE RequestBuddy(i)
    BY <2>5 DEF RequestBuddy, Effect, Asks
  <2>6. CASE ConfirmByBuddy(i)
    <3>1. WrittenFrom(i, [lock[i] EXCEPT !.buddy = TRUE])
      BY <2>1 DEF WrittenFrom, LockRow
    <3> QED
      BY <2>6, <3>1, SettleEffect DEF ConfirmByBuddy
  <2> QED
    BY <2>2, <2>3, <2>4, <2>5, <2>6
<1>5. CASE World
  BY <1>5 DEF World, Tick, OpenOnExchange, PassCheck, ToggleShadow, RemarkAll, Effect
<1> QED
  BY <1>1, <1>2, <1>3, <1>4, <1>5 DEF Next

----------------------------------------------------------------------------
(* The inductive invariant *)

\* An incident that waits for a lock has no lock of its own; it is open as
\* long as the lock runs, and has the lock's verdict from its end on.
CoverHolds(j) ==
    LET i == incident[j].cover
    IN  i # None =>
          /\ incident[j].outcome # "none"
          /\ lock[i].state # "none"
          /\ j \in LockIds => lock[j].state = "none"
          /\ lock[i].state = "active" => incident[j].outcome = "open"
          /\ lock[i].state \in Ended /\ incident[j].day = lock[i].day =>
                 incident[j].outcome = incident[i].outcome

Covered == \A j \in Ids : CoverHolds(j)

\* One lock at most is active, lock and incident tell one verdict, and the
\* incidents in between wait for a lock that exists.
IInv == TypeOK /\ OneActiveLock /\ VerdictsAgree /\ Covered

LEMMA InitSafe == Init => IInv
<1> SUFFICES ASSUME Init PROVE IInv
  OBVIOUS
<1>1. TypeOK
  BY InitTyped
<1>2. \A i \in LockIds : lock[i].state = "none"
  BY DEF Init, NoLockRow
<1>3. \A j \in Ids : incident[j].cover = None
  BY DEF Init, NoIncident
<1> QED
  BY <1>1, <1>2, <1>3
     DEF IInv, OneActiveLock, ActiveLocks, VerdictsAgree, Covered, CoverHolds

\* An incident that is not recorded has no lock, and nothing to wait for.
LEMMA Fresh ==
    ASSUME IInv, NEW i \in Ids, ~Recorded(i)
    PROVE  /\ incident[i].outcome = "none"
           /\ incident[i].cover = None
           /\ i \in LockIds => lock[i].state = "none"
<1>1. incident[i].outcome = "none"
  BY DEF Recorded
<1>2. i \in LockIds => lock[i].state \in LockStates
  BY DEF IInv, TypeOK, LockRow
<1> QED
  BY <1>1, <1>2 DEF IInv, Covered, CoverHolds, VerdictsAgree, LockStates

\* What settling the active lock i of row l does to rows and to the lock.
LEMMA SettleResult ==
    ASSUME IInv, NEW i \in ActiveLocks, NEW l \in LockRow,
           NEW rows \in [Ids -> IncidentRow],
           WrittenFrom(i, l), JudgedFrom(i, rows), Settle(i, l, rows)
    PROVE  /\ i \in LockIds /\ i \in Ids
           /\ l.state = "active" /\ l.day = lock[i].day
           /\ incident[i].outcome \in {"open", "breached"}
           /\ incident[i].cover = None
           /\ rows[i].outcome \in {"open", "breached"}
           /\ rows[i].cover = None
           /\ incident[i].outcome = "breached" => rows[i].outcome = "breached"
           /\ lock' = [lock EXCEPT ![i] = lock'[i]]
           /\ lock'[i].day = lock[i].day
           /\ ~Settles(i, l) => lock'[i] = l /\ incident' = rows
           /\ Settles(i, l) =>
                /\ rows[i].outcome = "open" =>
                     /\ lock'[i].state \in {"lifted", "expired"}
                     /\ incident'[i] = [rows[i] EXCEPT !.outcome = "kept"]
                /\ rows[i].outcome = "breached" =>
                     /\ lock'[i].state = "breached"
                     /\ incident'[i] = rows[i]
                /\ \A j \in Ids :
                     incident'[j] = IF Waits(j, i, l, rows)
                                    THEN [rows[j] EXCEPT !.outcome = incident'[i].outcome]
                                    ELSE rows[j]
<1>1. i \in LockIds /\ i \in Ids /\ lock[i].state = "active" /\ lock[i] \in LockRow
  BY Identities DEF ActiveLocks, IInv, TypeOK
<1>2. l.state = "active" /\ l.day = lock[i].day
  BY <1>1 DEF WrittenFrom, LockRow
<1>3. incident[i].outcome \in {"open", "breached"} /\ incident[i].cover = None
  BY <1>1 DEF IInv, VerdictsAgree, Covered, CoverHolds
<1>4. /\ rows[i].outcome \in {"open", "breached"}
      /\ rows[i].cover = None
      /\ incident[i].outcome = "breached" => rows[i].outcome = "breached"
      /\ rows[i] \in IncidentRow
  BY <1>1, <1>3 DEF JudgedFrom, IInv, TypeOK, IncidentRow
<1>5. /\ lock' = [lock EXCEPT ![i] = SettledLock(i, l, rows[i].outcome)]
      /\ incident' = SettledIncidents(i, l, rows)
  BY DEF Settle
<1>6. lock'[i] = SettledLock(i, l, rows[i].outcome) /\ lock' = [lock EXCEPT ![i] = lock'[i]]
  BY <1>1, <1>5 DEF IInv, TypeOK
<1>7. CASE ~Settles(i, l)
  <2>1. lock'[i] = l /\ incident' = rows
    BY <1>5, <1>6, <1>7 DEF SettledLock, SettledIncidents
  <2> QED
    BY <1>1, <1>2, <1>3, <1>4, <1>6, <1>7, <2>1
<1>8. CASE Settles(i, l)
  <2>1. Ending(i, l) \in {"lifted", "expired"}
    BY <1>8, EndingCases DEF Settles
  <2>2. lock'[i] = [l EXCEPT !.state = IF rows[i].outcome = "breached"
                                       THEN "breached" ELSE Ending(i, l),
                             !.ended = now]
    BY <1>6, <1>8 DEF SettledLock
  <2>3. /\ lock'[i].day = lock[i].day
        /\ rows[i].outcome = "open" => lock'[i].state \in {"lifted", "expired"}
        /\ rows[i].outcome = "breached" => lock'[i].state = "breached"
    BY <1>2, <2>1, <2>2 DEF LockRow
  <2> DEFINE verdict == IF rows[i].outcome = "open" THEN "kept" ELSE rows[i].outcome
  <2>4. incident' = [j \in Ids |-> IF Waits(j, i, l, rows)
                                   THEN [rows[j] EXCEPT !.outcome = verdict]
                                   ELSE rows[j]]
    BY <1>5, <1>8 DEF SettledIncidents
  <2>5. rows[i].outcome = "open" => Waits(i, i, l, rows)
    BY DEF Waits
  <2>6. rows[i].outcome = "breached" => ~Waits(i, i, l, rows)
    BY DEF Waits
  <2>7. /\ rows[i].outcome = "open" => incident'[i] = [rows[i] EXCEPT !.outcome = "kept"]
        /\ rows[i].outcome = "breached" => incident'[i] = rows[i]
    BY <1>1, <2>4, <2>5, <2>6
  <2>8. incident'[i].outcome = verdict
    BY <1>4, <2>7 DEF IncidentRow
  <2> HIDE DEF verdict
  <2>9. \A j \in Ids :
          incident'[j] = IF Waits(j, i, l, rows)
                         THEN [rows[j] EXCEPT !.outcome = incident'[i].outcome]
                         ELSE rows[j]
    BY <2>4, <2>8
  <2> QED
    BY <1>1, <1>2, <1>3, <1>4, <1>6, <1>8, <2>3, <2>7, <2>9
<1> QED
  BY <1>7, <1>8

----------------------------------------------------------------------------
(* Each effect preserves the invariant *)

\* A rule fires on something new: its incident starts a lock if none runs.
LEMMA FiringSafe ==
    ASSUME IInv, TypeOK', NEW i \in LockIds, NEW d \in Days, OpenFromFiring(i, d)
    PROVE  IInv'
<1>1. i \in Ids /\ ~Recorded(i)
  BY Identities DEF OpenFromFiring
<1>2. incident[i].outcome = "none" /\ incident[i].cover = None /\ lock[i].state = "none"
  BY <1>1, Fresh
<1>3. /\ \A j \in Ids \ {i} : incident'[j] = incident[j]
      /\ \A j \in LockIds \ {i} : lock'[j] = lock[j]
  BY DEF OpenFromFiring, IInv, TypeOK
<1>4. CASE Starts(i)
  <2>1. ActiveLocks = {}
    BY <1>4 DEF Starts
  <2>2. lock'[i].state = "active" /\ lock'[i].day = d
    BY <1>4 DEF OpenFromFiring, IInv, TypeOK
  <2>3. /\ incident'[i].outcome = "open"
        /\ incident'[i].cover = None
    BY <1>1, <1>4, <2>1 DEF OpenFromFiring, IInv, TypeOK
  <2>4. OneActiveLock'
    BY <1>3, <2>1 DEF OneActiveLock, ActiveLocks
  <2>5. VerdictsAgree'
    BY <1>3, <2>2, <2>3, Identities DEF IInv, VerdictsAgree
  <2>6. Covered'
    <3> SUFFICES ASSUME NEW j \in Ids, incident'[j].cover # None
                 PROVE  CoverHolds(j)'
      BY DEF Covered, CoverHolds
    <3>1. j # i /\ incident'[j] = incident[j]
      BY <1>3, <2>3
    <3>2. incident[j].cover \in LockIds
      BY <3>1 DEF IInv, TypeOK, IncidentRow
    <3>3. lock[incident[j].cover].state # "none"
      BY <3>1 DEF IInv, Covered, CoverHolds
    <3>4. incident[j].cover # i
      BY <1>2, <3>3
    <3>5. /\ lock'[incident[j].cover] = lock[incident[j].cover]
          /\ incident'[incident[j].cover] = incident[incident[j].cover]
      BY <1>3, <3>2, <3>4, Identities
    <3> QED
      BY <1>3, <3>1, <3>5 DEF IInv, Covered, CoverHolds
  <2> QED
    BY <2>4, <2>5, <2>6 DEF IInv
<1>5. CASE ~Starts(i)
  <2>1. lock' = lock
    BY <1>5 DEF OpenFromFiring
  <2>2. /\ incident'[i].outcome \in {"open", "kept"}
        /\ incident'[i].cover # None => /\ incident'[i].cover \in ActiveLocks
                                        /\ incident'[i].outcome = "open"
    BY <1>1, <1>5 DEF OpenFromFiring, IInv, TypeOK, ActiveLocks
  <2>3. OneActiveLock'
    BY <2>1 DEF IInv, OneActiveLock, ActiveLocks
  <2>4. VerdictsAgree'
    BY <1>2, <1>3, <2>1, Identities DEF IInv, VerdictsAgree
  <2>5. Covered'
    <3> SUFFICES ASSUME NEW j \in Ids, incident'[j].cover # None
                 PROVE  CoverHolds(j)'
      BY DEF Covered, CoverHolds
    <3>1. CASE j = i
      <4>1. lock[incident'[i].cover].state = "active"
        BY <2>2, <3>1 DEF ActiveLocks
      <4> QED
        BY <1>2, <2>1, <2>2, <3>1, <4>1 DEF Ended, CoverHolds
    <3>2. CASE j # i
      <4>1. incident'[j] = incident[j] /\ incident[j].cover \in LockIds
        BY <1>3, <3>2 DEF IInv, TypeOK, IncidentRow
      <4>2. incident[j].cover # i
        BY <1>2, <4>1 DEF IInv, Covered, CoverHolds
      <4>3. incident'[incident[j].cover] = incident[incident[j].cover]
        BY <1>3, <4>1, <4>2, Identities
      <4> QED
        BY <2>1, <4>1, <4>3 DEF IInv, Covered, CoverHolds
    <3> QED
      BY <3>1, <3>2
  <2> QED
    BY <2>3, <2>4, <2>5 DEF IInv
<1> QED
  BY <1>4, <1>5

\* A fact has a verdict and no lock.
LEMMA FactSafe ==
    ASSUME IInv, TypeOK', NEW i \in Ids, StatesFact(i)
    PROVE  IInv'
<1>1. /\ incident[i].outcome = "none"
      /\ i \in LockIds => lock[i].state = "none"
  BY Fresh DEF StatesFact
<1>2. /\ lock' = lock
      /\ \A j \in Ids \ {i} : incident'[j] = incident[j]
      /\ incident'[i].cover = None
  BY DEF StatesFact, OpenFact, IInv, TypeOK
<1>3. OneActiveLock'
  BY <1>2 DEF IInv, OneActiveLock, ActiveLocks
<1>4. VerdictsAgree'
  BY <1>1, <1>2, Identities DEF IInv, VerdictsAgree
<1>5. Covered'
  <2> SUFFICES ASSUME NEW j \in Ids, incident'[j].cover # None
               PROVE  CoverHolds(j)'
    BY DEF Covered, CoverHolds
  <2>1. j # i /\ incident'[j] = incident[j] /\ incident[j].cover \in LockIds
    BY <1>2 DEF IInv, TypeOK, IncidentRow
  <2>2. incident[j].cover # i
    BY <1>1, <2>1 DEF IInv, Covered, CoverHolds
  <2>3. incident'[incident[j].cover] = incident[incident[j].cover]
    BY <1>2, <2>1, <2>2, Identities
  <2> QED
    BY <1>2, <2>1, <2>3 DEF IInv, Covered, CoverHolds
<1> QED
  BY <1>3, <1>4, <1>5 DEF IInv

\* Asking the trusted contact changes no state and no verdict.
LEMMA AskSafe ==
    ASSUME IInv, TypeOK', NEW i \in ActiveLocks, Asks(i)
    PROVE  IInv'
<1>1. /\ incident' = incident
      /\ \A j \in LockIds : lock'[j].state = lock[j].state /\ lock'[j].day = lock[j].day
  BY DEF Asks, ActiveLocks, IInv, TypeOK, LockRow
<1>2. OneActiveLock' /\ VerdictsAgree'
  BY <1>1 DEF IInv, OneActiveLock, ActiveLocks, VerdictsAgree
<1>3. Covered'
  <2>1. \A j \in Ids : incident[j].cover \in LockIds \union {None}
    BY DEF IInv, TypeOK, IncidentRow
  <2> QED
    BY <1>1, <2>1 DEF IInv, Covered, CoverHolds
<1> QED
  BY <1>2, <1>3 DEF IInv

\* Compliance and settlement of the active lock.
LEMMA SettleSafe ==
    ASSUME IInv, TypeOK', NEW i \in ActiveLocks, NEW l \in LockRow,
           NEW rows \in [Ids -> IncidentRow],
           WrittenFrom(i, l), JudgedFrom(i, rows), Settle(i, l, rows)
    PROVE  IInv'
<1>1. /\ i \in LockIds /\ i \in Ids
      /\ l.state = "active" /\ l.day = lock[i].day
      /\ incident[i].cover = None
      /\ rows[i].outcome \in {"open", "breached"} /\ rows[i].cover = None
      /\ lock' = [lock EXCEPT ![i] = lock'[i]] /\ lock'[i].day = lock[i].day
      /\ ~Settles(i, l) => lock'[i] = l /\ incident' = rows
  BY SettleResult
<1>2. \A j \in LockIds \ {i} : lock'[j] = lock[j] /\ lock[j].state # "active"
  BY <1>1 DEF IInv, OneActiveLock, ActiveLocks, TypeOK
<1>3. \A j \in LockIds \ {i} : rows[j] = incident[j]
  BY Identities DEF JudgedFrom
<1>4. \A j \in Ids : rows[j].cover # None => j # i /\ rows[j] = incident[j]
  BY <1>1 DEF JudgedFrom
<1>5. \A j \in Ids : incident[j].cover \in LockIds \union {None}
  BY DEF IInv, TypeOK, IncidentRow
<1>6. lock[i].state = "active"
  BY DEF ActiveLocks
<1>7. OneActiveLock'
  BY <1>2 DEF OneActiveLock, ActiveLocks
<1>8. CASE ~Settles(i, l)
  <2>1. lock'[i].state = "active" /\ incident' = rows
    BY <1>1, <1>8
  <2>2. VerdictsAgree'
    BY <1>1, <1>2, <1>3, <2>1 DEF IInv, VerdictsAgree
  <2>3. Covered'
    <3> SUFFICES ASSUME NEW j \in Ids, incident'[j].cover # None
                 PROVE  CoverHolds(j)'
      BY DEF Covered, CoverHolds
    <3>1. j # i /\ incident'[j] = incident[j] /\ incident[j].cover \in LockIds
      BY <1>4, <1>5, <2>1
    <3>2. CASE incident[j].cover = i
      BY <1>2, <1>6, <2>1, <3>1, <3>2 DEF IInv, Covered, CoverHolds, Ended
    <3>3. CASE incident[j].cover # i
      BY <1>2, <1>3, <2>1, <3>1, <3>3 DEF IInv, Covered, CoverHolds
    <3> QED
      BY <3>2, <3>3
  <2> QED
    BY <1>7, <2>2, <2>3 DEF IInv
<1>9. CASE Settles(i, l)
  <2>1. /\ rows[i].outcome = "open" =>
             /\ lock'[i].state \in {"lifted", "expired"}
             /\ incident'[i] = [rows[i] EXCEPT !.outcome = "kept"]
        /\ rows[i].outcome = "breached" =>
             /\ lock'[i].state = "breached"
             /\ incident'[i] = rows[i]
        /\ \A j \in Ids :
             incident'[j] = IF Waits(j, i, l, rows)
                            THEN [rows[j] EXCEPT !.outcome = incident'[i].outcome]
                            ELSE rows[j]
    BY <1>9, SettleResult
  <2>2. /\ incident'[i].outcome \in {"kept", "breached"}
        /\ lock'[i].state = "breached" => incident'[i].outcome = "breached"
        /\ lock'[i].state \in {"lifted", "expired"} => incident'[i].outcome = "kept"
        /\ lock'[i].state \in Ended
    BY <1>1, <2>1 DEF IncidentRow, Ended
  <2>3. \A j \in LockIds \ {i} : lock[j].state # "none" => incident'[j] = incident[j]
    <3> SUFFICES ASSUME NEW j \in LockIds \ {i}, lock[j].state # "none"
                 PROVE  incident'[j] = incident[j]
      OBVIOUS
    <3>1. lock[j].state \in {"lifted", "expired", "breached"}
      BY <1>2 DEF IInv, TypeOK, LockRow, LockStates
    <3>2. incident[j].outcome # "open"
      BY <3>1 DEF IInv, VerdictsAgree
    <3>3. ~Waits(j, i, l, rows)
      BY <1>3, <3>2 DEF Waits
    <3> QED
      BY <1>3, <2>1, <3>3, Identities
  <2>4. VerdictsAgree'
    BY <1>2, <2>2, <2>3 DEF IInv, VerdictsAgree, Ended
  <2>5. Covered'
    <3> SUFFICES ASSUME NEW j \in Ids, incident'[j].cover # None
                 PROVE  CoverHolds(j)'
      BY DEF Covered, CoverHolds
    <3>1. /\ incident'[j].cover = rows[j].cover
          /\ incident'[j].day = rows[j].day
      BY <2>1 DEF IncidentRow
    <3>2. j # i /\ rows[j] = incident[j] /\ incident[j].cover \in LockIds
      BY <1>4, <1>5, <3>1
    <3>3. j \in LockIds => lock'[j].state = "none"
      BY <1>2, <3>1, <3>2 DEF IInv, Covered, CoverHolds
    <3>4. CASE incident[j].cover = i
      <4>1. incident[j].outcome = "open"
        BY <1>6, <3>1, <3>2, <3>4 DEF IInv, Covered, CoverHolds
      <4>2. incident'[j].day = lock'[i].day => Waits(j, i, l, rows)
        BY <1>1, <3>1, <3>2, <3>4, <4>1 DEF Waits
      <4>3. incident'[j].day = lock'[i].day => incident'[j].outcome = incident'[i].outcome
        BY <2>1, <3>2, <4>2 DEF IncidentRow
      <4>4. incident'[j].outcome # "none"
        BY <2>1, <2>2, <3>2, <4>1 DEF IncidentRow
      <4> QED
        BY <2>2, <3>1, <3>2, <3>3, <3>4, <4>3, <4>4 DEF CoverHolds, Ended
    <3>5. CASE incident[j].cover # i
      <4>1. incident'[j] = incident[j]
        BY <2>1, <3>2, <3>5 DEF Waits
      <4>2. lock[incident[j].cover].state # "none"
        BY <3>1, <3>2, <4>1 DEF IInv, Covered, CoverHolds
      <4>3. incident'[incident[j].cover] = incident[incident[j].cover]
        BY <2>3, <3>2, <3>5, <4>2
      <4> QED
        BY <1>2, <3>2, <3>3, <3>5, <4>1, <4>3 DEF IInv, Covered, CoverHolds
    <3> QED
      BY <3>4, <3>5
  <2> QED
    BY <1>7, <2>4, <2>5 DEF IInv
<1> QED
  BY <1>8, <1>9

LEMMA StepSafe ==
    ASSUME IInv, [Next]_vars PROVE IInv'
<1>1. TypeOK' /\ Effect
  BY StepTyped, StepEffect DEF IInv
<1>2. CASE UNCHANGED <<incident, lock>>
  BY <1>1, <1>2
     DEF IInv, OneActiveLock, ActiveLocks, VerdictsAgree, Covered, CoverHolds
<1> QED
  BY <1>1, <1>2, FiringSafe, FactSafe, AskSafe, SettleSafe DEF Effect

LEMMA Safe == Spec => []IInv
<1> QED
  BY InitSafe, StepSafe, PTL DEF Spec

\* At most one lock is active, whichever passes, batches and requests ran.
THEOREM OneLockAtATime == Spec => []OneActiveLock
<1>1. IInv => OneActiveLock
  BY DEF IInv
<1> QED
  BY <1>1, Safe, PTL

\* Lock and incident never tell two different verdicts.
THEOREM OneVerdict == Spec => []VerdictsAgree
<1>1. IInv => VerdictsAgree
  BY DEF IInv
<1> QED
  BY <1>1, Safe, PTL

\* An incident that waited for a lock of its day has the lock's verdict.
THEOREM SharedVerdict == Spec => []CoveredSharesVerdict
<1>1. IInv => CoveredSharesVerdict
  BY IdentityAssumption DEF IInv, Covered, CoverHolds, CoveredSharesVerdict
<1> QED
  BY <1>1, Safe, PTL

----------------------------------------------------------------------------
(* What a step may never do *)

\* What a verdict and an ended lock keep in a step.
Frozen ==
    /\ \A i \in Ids : incident[i].outcome \in {"kept", "breached"} =>
                          incident'[i] = incident[i]
    /\ \A i \in LockIds : lock[i].state \in Ended => lock'[i] = lock[i]

LEMMA SettleFreezes ==
    ASSUME IInv, NEW i \in ActiveLocks, NEW l \in LockRow,
           NEW rows \in [Ids -> IncidentRow],
           WrittenFrom(i, l), JudgedFrom(i, rows), Settle(i, l, rows)
    PROVE  Frozen
<1>1. lock' = [lock EXCEPT ![i] = lock'[i]] /\ lock[i].state \notin Ended
  BY SettleResult DEF ActiveLocks, Ended
<1>2. \A j \in Ids : incident[j].outcome \in {"kept", "breached"} =>
                         rows[j] = incident[j]
  BY DEF JudgedFrom
<1>3. ASSUME NEW j \in Ids, rows[j].outcome \in {"kept", "breached"}
      PROVE  incident'[j] = rows[j]
  <2>1. ~Waits(j, i, l, rows)
    BY <1>3 DEF Waits
  <2> QED
    BY <2>1 DEF Settle, SettledIncidents
<1> QED
  BY <1>1, <1>2, <1>3 DEF Frozen, IInv, TypeOK

LEMMA StepFreezes ==
    ASSUME IInv, [Next]_vars PROVE Frozen
<1>1. Effect
  BY StepEffect DEF IInv
<1>2. CASE UNCHANGED <<incident, lock>>
  BY <1>2 DEF Frozen
<1>3. ASSUME NEW i \in LockIds, NEW d \in Days, OpenFromFiring(i, d)
      PROVE  Frozen
  <2>1. i \in Ids /\ ~Recorded(i)
    BY <1>3, Identities DEF OpenFromFiring
  <2>2. incident[i].outcome = "none" /\ lock[i].state = "none"
    BY <2>1, Fresh
  <2>3. /\ \A j \in Ids \ {i} : incident'[j] = incident[j]
        /\ \A j \in LockIds \ {i} : lock'[j] = lock[j]
    BY <1>3 DEF OpenFromFiring, IInv, TypeOK
  <2> QED
    BY <2>2, <2>3 DEF Frozen, Ended
<1>4. ASSUME NEW i \in Ids, StatesFact(i)
      PROVE  Frozen
  <2>1. incident[i].outcome = "none"
    BY <1>4, Fresh DEF StatesFact
  <2>2. lock' = lock /\ \A j \in Ids \ {i} : incident'[j] = incident[j]
    BY <1>4 DEF StatesFact, OpenFact, IInv, TypeOK
  <2> QED
    BY <2>1, <2>2 DEF Frozen
<1>5. ASSUME NEW i \in ActiveLocks, Asks(i)
      PROVE  Frozen
  BY <1>5 DEF Asks, ActiveLocks, Frozen, Ended, IInv, TypeOK
<1> QED
  BY <1>1, <1>2, <1>3, <1>4, <1>5, SettleFreezes DEF Effect

\* No pass, batch or request rewrites a verdict or reopens an ended lock.
THEOREM FrozenHistory == Spec => HistoryIsFrozen
<1>1. ASSUME IInv, [Next]_vars
      PROVE  [/\ \A i \in Ids : incident[i].outcome \in {"kept", "breached"} =>
                                    incident'[i] = incident[i]
              /\ \A i \in LockIds : lock[i].state \in Ended =>
                                        lock'[i] = lock[i]]_vars
  BY <1>1, StepFreezes DEF Frozen
<1> QED
  BY <1>1, Safe, PTL DEF Spec, HistoryIsFrozen

----------------------------------------------------------------------------
(* A lock is lifted on its conditions *)

\* The conditions of i held when its lock was lifted.
LiftHolds(i) ==
    lock[i].state = "lifted" =>
        /\ lock[i].ended < WindowEnd[lock[i].day]
        /\ Requires[i[1]] # {}
        /\ "timer" \in Requires[i[1]] => lock[i].timer <= lock[i].ended
        /\ "review" \in Requires[i[1]] => lock[i].review
        /\ "buddy" \in Requires[i[1]] => lock[i].buddy

LEMMA StepLifts ==
    ASSUME IInv, LiftedWhenSatisfied, [Next]_vars PROVE LiftedWhenSatisfied'
<1>1. Effect
  BY StepEffect DEF IInv
<1> SUFFICES ASSUME NEW k \in LockIds PROVE LiftHolds(k)'
  BY DEF LiftedWhenSatisfied, LiftHolds
<1>2. LiftHolds(k)
  BY DEF LiftedWhenSatisfied, LiftHolds
<1>3. CASE lock'[k] = lock[k]
  BY <1>2, <1>3 DEF LiftHolds
<1>4. ASSUME NEW i \in LockIds, NEW d \in Days, OpenFromFiring(i, d)
      PROVE  LiftHolds(k)'
  <2>1. lock'[k] = lock[k] \/ lock'[k].state = "active"
    BY <1>4 DEF OpenFromFiring, IInv, TypeOK
  <2> QED
    BY <1>3, <2>1 DEF LiftHolds
<1>5. ASSUME NEW i \in ActiveLocks, Asks(i)
      PROVE  LiftHolds(k)'
  <2>1. lock'[k] = lock[k] \/ lock'[k].state = "active"
    BY <1>5 DEF Asks, ActiveLocks, IInv, TypeOK, LockRow
  <2> QED
    BY <1>3, <2>1 DEF LiftHolds
<1>6. ASSUME NEW i \in ActiveLocks, NEW l \in LockRow,
             NEW rows \in [Ids -> IncidentRow],
             WrittenFrom(i, l), JudgedFrom(i, rows), Settle(i, l, rows)
      PROVE  LiftHolds(k)'
  <2>1. i \in LockIds /\ lock[i].state = "active" /\ l.state = "active"
    BY <1>6, SettleResult DEF ActiveLocks
  <2>2. lock' = [lock EXCEPT ![i] = SettledLock(i, l, rows[i].outcome)]
    BY <1>6 DEF Settle
  <2>3. CASE k # i
    BY <1>3, <2>2, <2>3 DEF IInv, TypeOK
  <2>4. CASE k = i /\ ~Settles(i, l)
    BY <2>1, <2>2, <2>4 DEF SettledLock, LiftHolds, IInv, TypeOK
  <2>5. CASE k = i /\ Settles(i, l)
    <3>1. lock'[i] = [l EXCEPT !.state = IF rows[i].outcome = "breached"
                                         THEN "breached" ELSE Ending(i, l),
                               !.ended = now]
      BY <2>2, <2>5 DEF SettledLock, IInv, TypeOK
    <3>2. lock'[i].state = "lifted" => Ending(i, l) = "lifted"
      BY <3>1 DEF LockRow
    <3>3. /\ lock'[i].ended = now
          /\ lock'[i].day = l.day /\ lock'[i].timer = l.timer
          /\ lock'[i].review = l.review /\ lock'[i].buddy = l.buddy
      BY <3>1 DEF LockRow
    <3>4. Ending(i, l) = "lifted" => CanLift(i, l) /\ ~(now >= WindowEnd[l.day])
      BY DEF Ending
    <3>5. CASE lock'[i].state = "lifted"
      <4>1. CanLift(i, l) /\ now < WindowEnd[l.day]
        BY <3>2, <3>4, <3>5, ClockAssumption DEF IInv, TypeOK, LockRow, Moments
      <4> QED
        BY <2>5, <3>3, <4>1 DEF LiftHolds, CanLift, Satisfied
    <3> QED
      BY <2>5, <3>5 DEF LiftHolds
  <2> QED
    BY <2>3, <2>4, <2>5
<1> QED
  BY <1>1, <1>3, <1>4, <1>5, <1>6 DEF Effect, StatesFact

\* A lock lifted before its day ended met every one of its conditions.
THEOREM LiftOnConditions == Spec => []LiftedWhenSatisfied
<1>1. Init => LiftedWhenSatisfied
  BY DEF Init, NoLockRow, LiftedWhenSatisfied
<1> QED
  BY <1>1, StepLifts, Safe, PTL DEF Spec
----------------------------------------------------------------------------
(* LockLifecycle implements LockPromise: the initial state maps to the     *)
(* initial state, and each of the five effects of a step maps to a step of *)
(* the promise or to a stutter.                                            *)

\* A step of the promise, or a stutter.
Kept == [Abstract!PromiseNext]_<<Holder, Verdict>>

LEMMA HolderIsActive ==
    ASSUME IInv, IInv'
    PROVE  /\ \A i \in LockIds : lock[i].state = "active" => Holder = i
           /\ (\A i \in LockIds : lock[i].state # "active") => Holder = None
           /\ \A i \in LockIds : lock'[i].state = "active" => Holder' = i
           /\ (\A i \in LockIds : lock'[i].state # "active") => Holder' = None
<1>1. \A i, j \in LockIds :
        /\ lock[i].state = "active" /\ lock[j].state = "active" => i = j
        /\ lock'[i].state = "active" /\ lock'[j].state = "active" => i = j
  BY DEF IInv, OneActiveLock, ActiveLocks
<1> QED
  BY <1>1 DEF Holder, ActiveLocks

\* What the lock rows and the incidents of their rules keep, the promise keeps.
LEMMA Stutters ==
    ASSUME IInv, IInv',
           \A i \in LockIds :
             /\ lock'[i].state = lock[i].state
             /\ lock[i].state # "none" => incident'[i].outcome = incident[i].outcome
    PROVE  Kept
<1>1. Verdict' = Verdict
  BY DEF Verdict
<1>2. Holder' = Holder
  <2>1. CASE \E i \in LockIds : lock[i].state = "active"
    BY <2>1, HolderIsActive
  <2>2. CASE \A i \in LockIds : lock[i].state # "active"
    BY <2>2, HolderIsActive
  <2> QED
    BY <2>1, <2>2
<1> QED
  BY <1>1, <1>2 DEF Kept

\* A rule that fires starts a lock, or leaves the promise as it is.
LEMMA FiringKept ==
    ASSUME IInv, IInv', NEW i \in LockIds, NEW d \in Days, OpenFromFiring(i, d)
    PROVE  Kept
<1>1. i \in Ids /\ ~Recorded(i)
  BY Identities DEF OpenFromFiring
<1>2. incident[i].outcome = "none" /\ lock[i].state = "none"
  BY <1>1, Fresh
<1>3. \A j \in LockIds \ {i} : incident'[j] = incident[j] /\ lock'[j] = lock[j]
  BY Identities DEF OpenFromFiring, IInv, TypeOK
<1>4. CASE Starts(i)
  <2>1. \A j \in LockIds : lock[j].state # "active"
    BY <1>4 DEF Starts, ActiveLocks
  <2>2. lock'[i].state = "active" /\ incident'[i].outcome = "open"
    BY <1>1, <1>4, <2>1 DEF OpenFromFiring, ActiveLocks, IInv, TypeOK
  <2>3. Holder = None /\ Holder' = i
    BY <2>1, <2>2, HolderIsActive
  <2>4. Verdict[i] = "none" /\ Verdict' = [Verdict EXCEPT ![i] = "open"]
    BY <1>2, <1>3, <2>2 DEF Verdict
  <2> QED
    BY <2>3, <2>4 DEF Kept, Abstract!PromiseNext, Abstract!Start
<1>5. CASE ~Starts(i)
  <2>1. lock' = lock
    BY <1>5 DEF OpenFromFiring
  <2> QED
    BY <1>2, <1>3, <2>1, Stutters
<1> QED
  BY <1>4, <1>5

\* Facts and requests to the trusted contact are invisible in the promise.
LEMMA FactKept ==
    ASSUME IInv, IInv', NEW i \in Ids, StatesFact(i)
    PROVE  Kept
<1>1. i \in LockIds => lock[i].state = "none"
  BY Fresh DEF StatesFact
<1>2. lock' = lock /\ \A j \in LockIds \ {i} : incident'[j] = incident[j]
  BY Identities DEF StatesFact, OpenFact, IInv, TypeOK
<1> QED
  BY <1>1, <1>2, Stutters

LEMMA AskKept ==
    ASSUME IInv, IInv', NEW i \in ActiveLocks, Asks(i)
    PROVE  Kept
<1>1. incident' = incident /\ \A j \in LockIds : lock'[j].state = lock[j].state
  BY DEF Asks, ActiveLocks, IInv, TypeOK, LockRow
<1> QED
  BY <1>1, Stutters

\* Judging the active lock breaks it at most once; settling it releases it.
LEMMA SettleKept ==
    ASSUME IInv, IInv', NEW i \in ActiveLocks, NEW l \in LockRow,
           NEW rows \in [Ids -> IncidentRow],
           WrittenFrom(i, l), JudgedFrom(i, rows), Settle(i, l, rows)
    PROVE  Kept
<1>1. /\ i \in LockIds /\ i \in Ids /\ l.state = "active"
      /\ incident[i].outcome \in {"open", "breached"}
      /\ rows[i].outcome \in {"open", "breached"}
      /\ incident[i].outcome = "breached" => rows[i].outcome = "breached"
      /\ lock' = [lock EXCEPT ![i] = lock'[i]]
      /\ ~Settles(i, l) => lock'[i] = l /\ incident' = rows
  <2>1. i \in LockIds /\ i \in Ids /\ l.state = "active"
    BY SettleResult
  <2>2. /\ incident[i].outcome \in {"open", "breached"}
        /\ rows[i].outcome \in {"open", "breached"}
    BY SettleResult
  <2>3. incident[i].outcome = "breached" => rows[i].outcome = "breached"
    BY <2>1 DEF JudgedFrom
  <2>4. lock' = [lock EXCEPT ![i] = lock'[i]]
    BY SettleResult
  <2>5. ~Settles(i, l) => lock'[i] = l /\ incident' = rows
    BY SettleResult
  <2> QED
    BY <2>1, <2>2, <2>3, <2>4, <2>5
<1>2. lock[i].state = "active" /\ Holder = i /\ Verdict[i] = incident[i].outcome
  BY <1>1, HolderIsActive DEF ActiveLocks, Verdict
<1>3. \A j \in LockIds \ {i} : lock'[j] = lock[j] /\ lock[j].state # "active"
  BY <1>1 DEF IInv, OneActiveLock, ActiveLocks, TypeOK
<1>4. \A j \in LockIds \ {i} : rows[j] = incident[j]
  BY Identities DEF JudgedFrom
<1>5. CASE ~Settles(i, l)
  <2>1. lock'[i].state = "active" /\ incident' = rows
    BY <1>1, <1>5
  <2>2. CASE incident[i].outcome = rows[i].outcome
    BY <1>1, <1>2, <1>3, <1>4, <2>1, <2>2, Stutters
  <2>3. CASE incident[i].outcome # rows[i].outcome
    <3>1. incident[i].outcome = "open" /\ rows[i].outcome = "breached"
      BY <1>1, <2>3
    <3>2. Holder' = i
      BY <1>1, <2>1, HolderIsActive
    <3>3. Verdict' = [Verdict EXCEPT ![i] = "breached"]
      BY <1>3, <1>4, <2>1, <3>1 DEF Verdict
    <3> QED
      BY <1>1, <1>2, <3>1, <3>2, <3>3
         DEF Kept, Abstract!PromiseNext, Abstract!Break
  <2> QED
    BY <2>2, <2>3
<1>6. CASE Settles(i, l)
  <2>1. /\ rows[i].outcome = "open" =>
             /\ lock'[i].state \in {"lifted", "expired"}
             /\ incident'[i] = [rows[i] EXCEPT !.outcome = "kept"]
        /\ rows[i].outcome = "breached" =>
             /\ lock'[i].state = "breached"
             /\ incident'[i] = rows[i]
    BY <1>6, SettleResult
  <2>2. /\ lock'[i].state \notin {"none", "active"}
        /\ incident'[i].outcome = IF rows[i].outcome = "breached"
                                  THEN "breached" ELSE "kept"
    BY <1>1, <2>1 DEF IncidentRow
  <2>3. Frozen
    BY SettleFreezes
  <2>4. \A j \in LockIds \ {i} :
          lock[j].state # "none" => incident'[j] = incident[j]
    <3> SUFFICES ASSUME NEW j \in LockIds \ {i}, lock[j].state # "none"
                 PROVE  incident'[j] = incident[j]
      OBVIOUS
    <3>1. lock[j].state \in {"lifted", "expired", "breached"}
      BY <1>3 DEF IInv, TypeOK, LockRow, LockStates
    <3>2. incident[j].outcome \in {"kept", "breached"}
      BY <3>1 DEF IInv, VerdictsAgree
    <3> QED
      BY <2>3, <3>2, Identities DEF Frozen
  <2>5. Holder' = None
    BY <1>3, <2>2, HolderIsActive
  <2>6. Verdict' = [Verdict EXCEPT ![i] = IF rows[i].outcome = "breached"
                                          THEN "breached" ELSE "kept"]
    BY <1>3, <2>2, <2>4 DEF Verdict
  <2> DEFINE breach == rows[i].outcome = "breached"
  <2>7. breach \in BOOLEAN
    OBVIOUS
  <2>8. Verdict[i] = "breached" => breach
    BY <1>1, <1>2
  <2>9. Verdict' = [Verdict EXCEPT ![i] = IF Verdict[i] = "breached" \/ breach
                                          THEN "breached" ELSE "kept"]
    BY <2>6, <2>8
  <2>10. Abstract!Release(breach)
    BY <1>1, <1>2, <2>5, <2>9 DEF Abstract!Release
  <2> QED
    BY <2>7, <2>10 DEF Kept, Abstract!PromiseNext
<1> QED
  BY <1>5, <1>6

LEMMA StepKept ==
    ASSUME IInv, [Next]_vars PROVE Kept
<1>1. IInv' /\ Effect
  BY StepSafe, StepEffect DEF IInv
<1>2. CASE UNCHANGED <<incident, lock>>
  BY <1>1, <1>2, Stutters
<1> QED
  BY <1>1, <1>2, FiringKept, FactKept, AskKept, SettleKept DEF Effect

LEMMA InitKept == Init => Abstract!PromiseInit
<1> SUFFICES ASSUME Init PROVE Abstract!PromiseInit
  OBVIOUS
<1>1. \A i \in LockIds : lock[i].state = "none"
  BY DEF Init, NoLockRow
<1> QED
  BY <1>1 DEF Abstract!PromiseInit, Holder, Verdict, ActiveLocks

\* The engine's passes, the requests and the batches keep the promise that
\* LockPromise makes: one lock at a time, each held once, one lasting verdict.
THEOREM PromiseKept == Spec => KeepsPromise
<1>1. IInv /\ [Next]_vars => Kept
  BY StepKept
<1> QED
  BY <1>1, InitKept, Safe, PTL DEF Spec, Kept, KeepsPromise, Abstract!Promise
----------------------------------------------------------------------------
(* Trades, days and passes *)

\* No trade lies in the future, no pass takes a day that has not begun, and
\* the day of a lock is not later than the moment it started.
TradesInTime == \A t \in Trades : trade[t].stage # "none" => trade[t].at <= now
PassInTime   == \A d \in pass.left \union {pass.day} : d <= DayOf[now]
LocksInTime  == \A i \in LockIds :
                    lock[i].state # "none" => lock[i].day <= DayOf[lock[i].started]

Timely == TradesInTime /\ PassInTime /\ LocksInTime

\* Days follow each other as moments do.
LEMMA DaysInOrder ==
    ASSUME NEW m \in Moments, NEW n \in Moments, m <= n
    PROVE  DayOf[m] \in Int /\ DayOf[n] \in Int /\ DayOf[m] <= DayOf[n]
BY ClockAssumption

\* A trade that exists keeps its moment, and is never forgotten.
TradeKept(t) ==
    /\ trade'[t].at = trade[t].at
    /\ trade[t].stage = "none" <=> trade'[t].stage = "none"

\* The exchange opens a trade, or every trade keeps its moment.
TradeMoves ==
    \/ \A t \in Trades : TradeKept(t)
    \/ /\ now' = now /\ pass' = pass
       /\ \E u \in Trades :
            /\ trade[u].stage = "none" /\ trade'[u].at = now
            /\ \A t \in Trades \ {u} : TradeKept(t)

LEMMA SyncKeeps ==
    ASSUME TypeOK, NEW opened \in SUBSET Trades, NEW done \in SUBSET Trades,
           NEW retagged \in SUBSET Trades, Sync(opened, done, retagged),
           NEW t \in Trades
    PROVE  /\ TradeKept(t)
           /\ t \notin done \union retagged =>
                /\ trade'[t].stage = "closed" => trade[t].stage = "closed"
                /\ trade[t].stage = "closed" => trade'[t] = trade[t]
<1>1. PICK c \in [done -> Moments], v \in [opened \union done -> BOOLEAN] :
        trade' = [u \in Trades |->
          IF u \in opened
          THEN [trade[u] EXCEPT !.stage = "open", !.violation = v[u]]
          ELSE IF u \in done
          THEN [trade[u] EXCEPT !.stage = "closed", !.closed = c[u],
                                !.violation = v[u]]
          ELSE IF u \in retagged
          THEN [trade[u] EXCEPT !.violation = ~@]
          ELSE trade[u]]
  BY DEF Sync
<1>2. trade[t] \in TradeRow
  BY DEF TypeOK
<1>3. /\ t \in opened => trade[t].stage = "unseen"
      /\ t \in done => trade[t].stage \in {"unseen", "open"}
      /\ t \in retagged => trade[t].stage = "closed"
  BY DEF Sync, Closed
<1> QED
  BY <1>1, <1>2, <1>3 DEF TradeKept, TradeRow

LEMMA StepMovesTrades ==
    ASSUME TypeOK, [Next]_vars PROVE TradeMoves
<1>1. CASE trade' = trade
  BY <1>1 DEF TradeMoves, TradeKept
<1>2. ASSUME NEW opened \in SUBSET Trades, NEW done \in SUBSET Trades,
             NEW retagged \in SUBSET Trades, Sync(opened, done, retagged)
      PROVE  TradeMoves
  BY <1>2, SyncKeeps DEF TradeMoves
<1>3. ASSUME NEW u \in Trades, MarkTrade(u)
      PROVE  TradeMoves
  <2>1. \A t \in Trades : TradeKept(t)
    BY <1>3 DEF MarkTrade, TradeKept, TypeOK, TradeRow
  <2> QED
    BY <2>1 DEF TradeMoves
<1>4. ASSUME NEW p \in Probes, NEW opened \in SUBSET Trades, RefreshPositions(p, opened)
      PROVE  TradeMoves
  <2>1. \A t \in Trades : TradeKept(t)
    BY <1>4 DEF RefreshPositions, TradeKept, TypeOK, TradeRow
  <2> QED
    BY <2>1 DEF TradeMoves
<1>5. ASSUME NEW u \in Trades, OpenOnExchange(u)
      PROVE  TradeMoves
  <2>1. trade[u].stage = "none" /\ trade'[u].at = now
    BY <1>5 DEF OpenOnExchange, TypeOK, TradeRow
  <2>2. \A t \in Trades \ {u} : TradeKept(t)
    BY <1>5 DEF OpenOnExchange, TradeKept, TypeOK
  <2> QED
    BY <1>5, <2>1, <2>2 DEF OpenOnExchange, TradeMoves
<1>9. ASSUME NEW trades \in SUBSET Trades, RemarkAll(trades)
      PROVE  TradeMoves
  <2>1. \A t \in Trades : TradeKept(t)
    BY <1>9 DEF RemarkAll, Remark, TradeKept, TypeOK, TradeRow
  <2> QED
    BY <2>1 DEF TradeMoves
<1>6. CASE PassStep \/ Request
  BY <1>1, <1>6
     DEF PassStep, FireRule, EndFiring, TagInWindow, TagTooLate, EndTags,
         CheckAdmission, EndDay, Request, TodayRead, ActiveLockRead,
         SubmitReview, RequestBuddy, ConfirmByBuddy
<1>7. CASE World
  BY <1>1, <1>5, <1>7, <1>9 DEF World, Tick, PassCheck, ToggleShadow
<1>8. CASE PassStart
  BY <1>1, <1>2, <1>3, <1>4, <1>8 DEF PassStart, OnMarkingChanged
<1> QED
  BY <1>1, <1>6, <1>7, <1>8 DEF Next, vars

\* The clock ticks, or stands; a tick writes nothing else.
LEMMA ClockMoves ==
    ASSUME TypeOK, [Next]_vars
    PROVE  /\ now' \in Moments /\ now <= now'
           /\ UNCHANGED <<incident, lock>> \/ UNCHANGED <<now, trade>>
<1>1. now \in Moments /\ now \in Nat
  BY ClockAssumption DEF TypeOK, Moments
<1>2. CASE Tick
  BY <1>1, <1>2, StepTyped DEF Tick, TypeOK
<1>3. CASE now' = now
  <2>1. UNCHANGED <<incident, lock>> \/ UNCHANGED trade
    BY DEF Next, vars, PassStep, FireRule, EndFiring, TagInWindow, TagTooLate,
           EndTags, CheckAdmission, EndDay, Request, TodayRead, ActiveLockRead,
           SubmitReview, RequestBuddy, ConfirmByBuddy, PassStart, Sync,
           MarkTrade, RefreshPositions, OnMarkingChanged, World, Tick,
           OpenOnExchange, PassCheck, ToggleShadow, RemarkAll
  <2> QED
    BY <1>1, <1>3, <2>1
<1>4. Tick \/ now' = now
  BY DEF Next, vars, PassStep, FireRule, EndFiring, TagInWindow, TagTooLate,
         EndTags, CheckAdmission, EndDay, Request, TodayRead, ActiveLockRead,
         SubmitReview, RequestBuddy, ConfirmByBuddy, PassStart, Sync,
         MarkTrade, RefreshPositions, OnMarkingChanged, World,
         OpenOnExchange, PassCheck, ToggleShadow, RemarkAll
<1> QED
  BY <1>2, <1>3, <1>4

\* A pass takes the days it was given, in ascending order; without days it is
\* no pass.
LEMMA PassDays ==
    ASSUME NEW days \in SUBSET Days, NEW probe, StartPass(days, probe)
    PROVE  /\ pass'.left \union {pass'.day} \subseteq days \union {DayOf[0]}
           /\ days \subseteq pass'.left \union {pass'.day}
           /\ days # {} => pass'.phase = "fire"
           /\ days = {} => pass' = IdlePass
BY DEF StartPass, IdlePass

LEMMA PassStaysInTime ==
    ASSUME TypeOK, TradesInTime, PassInTime, [Next]_vars PROVE PassInTime'
<1>1. /\ now \in Moments /\ now' \in Moments /\ now <= now'
      /\ DayOf[now] \in Int /\ DayOf[now'] \in Int /\ DayOf[now] <= DayOf[now']
  BY ClockMoves, DaysInOrder DEF TypeOK
<1>2. 0 \in Moments /\ DayOf[0] \in Int /\ DayOf[0] <= DayOf[now]
  BY <1>1, ClockAssumption DEF Moments
<1>3. \A d \in Days : d \in Int
  BY ClockAssumption DEF Days
<1>4. pass.day \in Days /\ pass.left \subseteq Days
  BY DEF TypeOK, PassRow
<1>5. ASSUME pass'.left \union {pass'.day} \subseteq pass.left \union {pass.day, DayOf[0]}
      PROVE  PassInTime'
  <2> SUFFICES ASSUME NEW d \in pass'.left \union {pass'.day}
               PROVE  d <= DayOf[now']
    BY DEF PassInTime
  <2>1. d \in Int /\ d <= DayOf[now]
    BY <1>2, <1>3, <1>4, <1>5 DEF PassInTime
  <2> QED
    BY <1>1, <2>1
<1>6. ASSUME NEW days \in SUBSET Days, NEW probe, StartPass(days, probe),
             \A d \in days : d <= DayOf[now]
      PROVE  PassInTime'
  <2> SUFFICES ASSUME NEW d \in pass'.left \union {pass'.day}
               PROVE  d <= DayOf[now']
    BY DEF PassInTime
  <2>1. d \in days \union {DayOf[0]}
    BY <1>6, PassDays
  <2>2. d \in Int /\ d <= DayOf[now]
    BY <1>2, <1>3, <1>6, <2>1
  <2> QED
    BY <1>1, <2>2
<1>7. \A t \in Trades : Day(t) \in Days /\ DayOf[now] \in Days
  BY DayTyped
<1>8. ASSUME NEW t \in Trades, trade[t].stage # "none"
      PROVE  Day(t) <= DayOf[now]
  <2>1. trade[t].at \in Moments /\ trade[t].at <= now
    BY <1>8 DEF TypeOK, TradeRow, TradesInTime
  <2> QED
    BY <1>1, <2>1, DaysInOrder DEF Day
<1>9. CASE pass' = pass
  BY <1>5, <1>9
<1>10. CASE EndFiring \/ EndTags \/ CheckAdmission
  BY <1>5, <1>10 DEF EndFiring, EndTags, CheckAdmission, TypeOK, PassRow
<1>11. CASE EndDay
  <2>1. StartPass(pass.left, None)
    BY <1>11 DEF EndDay
  <2>2. pass'.left \union {pass'.day} \subseteq pass.left \union {DayOf[0]}
    BY <1>4, <2>1, PassDays
  <2> QED
    BY <1>5, <2>2
<1>12. ASSUME NEW opened \in SUBSET Trades, NEW done \in SUBSET Trades,
              NEW retagged \in SUBSET Trades, Sync(opened, done, retagged)
       PROVE  PassInTime'
  <2>1. \A t \in done \union retagged : trade[t].stage # "none"
    BY <1>12 DEF Sync, Closed
  <2>2. /\ Touched(done, retagged) \in SUBSET Days
        /\ \A d \in Touched(done, retagged) : d <= DayOf[now]
    BY <1>7, <1>8, <2>1 DEF Touched
  <2>3. StartPass(Touched(done, retagged), None)
    BY <1>12 DEF Sync
  <2> QED
    BY <1>6, <2>2, <2>3
<1>13. ASSUME NEW t \in Trades, MarkTrade(t) \/ OnMarkingChanged(t)
       PROVE  PassInTime'
  <2>1. StartPass({Day(t)}, None) /\ trade[t].stage # "none"
    BY <1>13 DEF MarkTrade, OnMarkingChanged, Known
  <2> QED
    BY <1>6, <1>7, <1>8, <2>1
<1>14. ASSUME NEW p \in Probes, NEW opened \in SUBSET Trades, RefreshPositions(p, opened)
       PROVE  PassInTime'
  <2>1. StartPass({DayOf[now]}, p) /\ DayOf[now] \in Days
    BY <1>14, DayTyped DEF RefreshPositions
  <2> QED
    BY <1>1, <1>6, <2>1
<1>15. CASE PassStep
  BY <1>9, <1>10, <1>11, <1>15 DEF PassStep, FireRule, TagInWindow, TagTooLate
<1>16. CASE PassStart
  BY <1>12, <1>13, <1>14, <1>16 DEF PassStart
<1>17. CASE Request \/ World
  BY <1>9, <1>17
     DEF Request, TodayRead, ActiveLockRead, SubmitReview, RequestBuddy,
         ConfirmByBuddy, World, Tick, OpenOnExchange, PassCheck, ToggleShadow,
         RemarkAll
<1> QED
  BY <1>9, <1>15, <1>16, <1>17 DEF Next, vars

\* Where a lock lies in time is written when it starts, and kept.
LocksKeepTime ==
    \A i \in LockIds :
        \/ /\ lock'[i].started = lock[i].started
           /\ lock'[i].day = lock[i].day
           /\ lock[i].state = "none" <=> lock'[i].state = "none"
        \/ /\ lock[i].state = "none" /\ incident'[i].outcome = "open"
           /\ lock'[i].started = now /\ lock'[i].day = pass.day

LEMMA StepKeepsTime ==
    ASSUME IInv, [Next]_vars PROVE LocksKeepTime
<1>1. Effect /\ TypeOK
  BY StepEffect DEF IInv
<1> SUFFICES ASSUME NEW k \in LockIds
             PROVE  \/ /\ lock'[k].started = lock[k].started
                       /\ lock'[k].day = lock[k].day
                       /\ lock[k].state = "none" <=> lock'[k].state = "none"
                    \/ /\ lock[k].state = "none" /\ incident'[k].outcome = "open"
                       /\ lock'[k].started = now /\ lock'[k].day = pass.day
  BY DEF LocksKeepTime
<1>2. CASE lock'[k] = lock[k]
  BY <1>2
<1>3. ASSUME NEW i \in LockIds, OpenFromFiring(i, pass.day), lock'[k] # lock[k]
      PROVE  /\ lock[k].state = "none" /\ incident'[k].outcome = "open"
             /\ lock'[k].started = now /\ lock'[k].day = pass.day
  <2>1. k = i /\ Starts(i) /\ ~Recorded(i) /\ i \in Ids
    BY <1>1, <1>3, Identities DEF OpenFromFiring, TypeOK
  <2>2. lock[i].state = "none"
    BY <2>1, Fresh
  <2> QED
    BY <1>1, <1>3, <2>1, <2>2 DEF OpenFromFiring, TypeOK
<1>4. ASSUME NEW i \in ActiveLocks, Asks(i)
      PROVE  /\ lock'[k].started = lock[k].started
             /\ lock'[k].day = lock[k].day
             /\ lock[k].state = "none" <=> lock'[k].state = "none"
  BY <1>1, <1>4 DEF Asks, ActiveLocks, TypeOK, LockRow
<1>5. ASSUME NEW i \in ActiveLocks, NEW l \in LockRow,
             NEW rows \in [Ids -> IncidentRow],
             WrittenFrom(i, l), JudgedFrom(i, rows), Settle(i, l, rows),
             lock'[k] # lock[k]
      PROVE  /\ lock'[k].started = lock[k].started
             /\ lock'[k].day = lock[k].day
             /\ lock[k].state = "none" <=> lock'[k].state = "none"
  <2>1. /\ i \in LockIds /\ lock[i] \in LockRow /\ lock[i].state = "active"
        /\ lock' = [lock EXCEPT ![i] = SettledLock(i, l, rows[i].outcome)]
    BY <1>1, <1>5 DEF ActiveLocks, TypeOK, Settle
  <2>2. k = i /\ lock'[i] = SettledLock(i, l, rows[i].outcome)
    BY <1>1, <1>5, <2>1 DEF TypeOK
  <2>3. l.started = lock[i].started /\ l.day = lock[i].day /\ l.state = "active"
    BY <1>5, <2>1 DEF WrittenFrom, LockRow
  <2>4. /\ lock'[i].started = l.started /\ lock'[i].day = l.day
        /\ lock'[i].state # "none"
    <3>1. Ending(i, l) # "none"
      BY EndingCases
    <3> QED
      BY <2>2, <2>3, <3>1 DEF SettledLock, LockRow
  <2> QED
    BY <2>1, <2>2, <2>3, <2>4
<1> QED
  BY <1>1, <1>2, <1>3, <1>4, <1>5 DEF Effect, StatesFact

LEMMA StepTimely ==
    ASSUME IInv, Timely, [Next]_vars PROVE Timely'
<1>1. TypeOK /\ TypeOK' /\ now \in Moments /\ now' \in Moments /\ now <= now'
  BY StepTyped, ClockMoves DEF IInv, TypeOK
<1>2. PassInTime'
  BY <1>1, PassStaysInTime DEF Timely
<1>3. TradesInTime'
  <2> SUFFICES ASSUME NEW t \in Trades, trade'[t].stage # "none"
               PROVE  trade'[t].at <= now'
    BY DEF TradesInTime
  <2>1. trade[t].at \in Moments /\ trade'[t].at \in Moments
    BY <1>1 DEF TypeOK, TradeRow
  <2>2. TradeKept(t) \/ trade'[t].at = now
    BY <1>1, StepMovesTrades DEF TradeMoves
  <2>3. CASE TradeKept(t)
    <3>1. trade[t].at <= now /\ trade'[t].at = trade[t].at
      BY <2>3 DEF Timely, TradesInTime, TradeKept
    <3> QED
      BY <1>1, <2>1, <3>1, ClockAssumption DEF Moments
  <2>4. CASE trade'[t].at = now
    BY <1>1, <2>4
  <2> QED
    BY <2>2, <2>3, <2>4
<1>4. LocksInTime'
  <2> SUFFICES ASSUME NEW i \in LockIds, lock'[i].state # "none"
               PROVE  lock'[i].day <= DayOf[lock'[i].started]
    BY DEF LocksInTime
  <2>1. pass.day <= DayOf[now]
    BY DEF Timely, PassInTime
  <2> QED
    BY <2>1, StepKeepsTime DEF LocksKeepTime, Timely, LocksInTime
<1> QED
  BY <1>2, <1>3, <1>4 DEF Timely

\* A trade that compliance catches under a lock belongs to the lock's day.
LEMMA CaughtOnTheDay ==
    ASSUME IInv, Timely, NEW i \in ActiveLocks, NEW t \in OpenedBetween(lock[i])
    PROVE  /\ t \in Trades /\ trade[t].stage # "none"
           /\ Day(t) = lock[i].day
           /\ lock[i].started <= trade[t].at
           /\ trade[t].at <= WindowEnd[lock[i].day]
<1>1. /\ i \in LockIds /\ lock[i].state # "none"
      /\ lock[i].day \in Days /\ lock[i].started \in Moments
  BY DEF ActiveLocks, IInv, TypeOK, LockRow
<1>2. /\ t \in Trades /\ trade[t].stage # "none" /\ trade[t].at \in Moments
      /\ lock[i].started <= trade[t].at
      /\ trade[t].at <= Earlier(now, WindowEnd[lock[i].day])
  BY DEF OpenedBetween, Known, IInv, TypeOK, TradeRow
<1>3. WindowEnd[lock[i].day] \in Moments /\ DayOf[WindowEnd[lock[i].day]] = lock[i].day
  BY <1>1, ClockAssumption
<1>4. trade[t].at <= WindowEnd[lock[i].day]
  BY <1>2, <1>3, ClockAssumption DEF Earlier, Moments, IInv, TypeOK
<1>5. lock[i].day <= DayOf[lock[i].started]
  BY <1>1 DEF Timely, LocksInTime
<1>6. /\ DayOf[lock[i].started] <= Day(t) /\ Day(t) <= lock[i].day
      /\ DayOf[lock[i].started] \in Int /\ Day(t) \in Int /\ lock[i].day \in Int
  BY <1>1, <1>2, <1>3, <1>4, DaysInOrder DEF Day
<1> QED
  BY <1>2, <1>4, <1>5, <1>6

----------------------------------------------------------------------------
(* A breach is counted *)

\* An SR-2 row says that its trade broke a lock, on the trade's own day.
BreachRow(t) ==
    Recorded(<<SR2, t>>) =>
        /\ incident[<<SR2, t>>].outcome = "breached"
        /\ incident[<<SR2, t>>].day = Day(t)
        /\ trade[t].stage # "none"

BreachRows == \A t \in Trades : BreachRow(t)

\* The trade t has an SR-2 row on the day of lock i and was opened under it.
CountedBy(i, t) ==
    /\ incident[<<SR2, t>>].outcome = "breached"
    /\ incident[<<SR2, t>>].day = lock[i].day
    /\ lock[i].started <= trade[t].at
    /\ trade[t].at <= WindowEnd[lock[i].day]

Counted(i) ==
    incident[i].outcome = "breached" /\ lock[i].state # "none" =>
        \E t \in Trades : CountedBy(i, t)

\* What compliance leaves in the rows of SR-2, and that it breaks its lock's
\* incident for caught trades alone.
LEMMA JudgedBreaches ==
    ASSUME IInv, NEW i \in ActiveLocks
    PROVE  /\ \A t \in Trades :
                \/ JudgedIncidents(i)[<<SR2, t>>] = incident[<<SR2, t>>]
                \/ /\ t \in OpenedBetween(lock[i])
                   /\ JudgedIncidents(i)[<<SR2, t>>].outcome = "breached"
                   /\ JudgedIncidents(i)[<<SR2, t>>].day = lock[i].day
           /\ \A t \in OpenedBetween(lock[i]) :
                JudgedIncidents(i)[<<SR2, t>>].outcome # "none"
           /\ JudgedIncidents(i)[i].outcome = "breached" =>
                incident[i].outcome = "breached" \/ OpenedBetween(lock[i]) # {}
<1> DEFINE caught == OpenedBetween(lock[i])
           rows   == RecordBreach(i, caught, incident)
<1>1. i \in LockIds /\ i \in Ids /\ incident \in [Ids -> IncidentRow]
  BY Identities DEF ActiveLocks, IInv, TypeOK
<1>2. \A t \in Trades : <<SR2, t>> \in Ids /\ <<SR2, t>> # i
  BY <1>1, Identities
<1>3. \A t \in Trades : rows[<<SR2, t>>] = incident[<<SR2, t>>]
  BY <1>1, <1>2 DEF RecordBreach
<1>4. caught = {} => rows = incident
  BY DEF RecordBreach
<1>5. JudgedIncidents(i) =
        [j \in Ids |-> IF j \in {SR2} \X caught /\ rows[j].outcome = "none"
                       THEN [outcome |-> "breached", day |-> lock[i].day, cover |-> None]
                       ELSE rows[j]]
  BY DEF JudgedIncidents, SR2Breaches
<1>6. caught \subseteq Trades
  BY DEF OpenedBetween, Known
<1>7. i \notin {SR2} \X caught
  BY <1>2, <1>6
<1> HIDE DEF caught, rows
<1>8. JudgedIncidents(i)[i] = rows[i]
  BY <1>1, <1>5, <1>7
<1>9. ASSUME NEW t \in Trades
      PROVE  /\ \/ JudgedIncidents(i)[<<SR2, t>>] = incident[<<SR2, t>>]
                \/ /\ t \in caught
                   /\ JudgedIncidents(i)[<<SR2, t>>].outcome = "breached"
                   /\ JudgedIncidents(i)[<<SR2, t>>].day = lock[i].day
             /\ t \in caught => JudgedIncidents(i)[<<SR2, t>>].outcome # "none"
  BY <1>2, <1>3, <1>5
<1>10. JudgedIncidents(i)[i].outcome = "breached" =>
          incident[i].outcome = "breached" \/ caught # {}
  BY <1>4, <1>8
<1> QED
  BY <1>6, <1>9, <1>10 DEF caught

\* A row of SR-2, once written, stays as it is.
LEMMA BreachRowKept ==
    ASSUME IInv, BreachRows, [Next]_vars, NEW t \in Trades, Recorded(<<SR2, t>>)
    PROVE  /\ incident'[<<SR2, t>>] = incident[<<SR2, t>>]
           /\ trade'[t].at = trade[t].at
           /\ trade'[t].stage # "none"
<1>1. <<SR2, t>> \in Ids /\ incident[<<SR2, t>>].outcome = "breached"
  BY Identities DEF BreachRows, BreachRow
<1>2. trade[t].stage # "none"
  BY DEF BreachRows, BreachRow
<1>3. TradeKept(t)
  BY <1>2, StepMovesTrades DEF TradeMoves, IInv
<1> QED
  BY <1>1, <1>2, <1>3, StepFreezes DEF Frozen, TradeKept

\* What a step may do to a row of SR-2.
LEMMA NewBreach ==
    ASSUME IInv, Timely, BreachRows, [Next]_vars, NEW t \in Trades,
           ~Recorded(<<SR2, t>>), Recorded(<<SR2, t>>)'
    PROVE  /\ incident'[<<SR2, t>>].outcome = "breached"
           /\ incident'[<<SR2, t>>].day = Day(t)
           /\ trade[t].stage # "none" /\ trade' = trade
<1>1. Effect /\ TypeOK
  BY StepEffect DEF IInv
<1>2. <<SR2, t>> \in Ids \ LockIds /\ <<SR2, t>> \in BreachIds
  BY Identities DEF BreachIds
<1>3. incident[<<SR2, t>>].outcome = "none" /\ incident'[<<SR2, t>>].outcome # "none"
  BY DEF Recorded
<1>4. ~UNCHANGED <<incident, lock>> /\ trade' = trade
  BY <1>3, ClockMoves, <1>1
<1>5. ASSUME NEW i \in LockIds, NEW d \in Days, OpenFromFiring(i, d)
      PROVE  FALSE
  BY <1>1, <1>2, <1>3, <1>5 DEF OpenFromFiring, TypeOK
<1>6. ASSUME NEW i \in Ids, StatesFact(i)
      PROVE  FALSE
  BY <1>1, <1>2, <1>3, <1>6 DEF StatesFact, OpenFact, TypeOK
<1>7. ASSUME NEW i \in ActiveLocks, Asks(i)
      PROVE  FALSE
  BY <1>3, <1>7 DEF Asks
<1>8. ASSUME NEW i \in ActiveLocks, NEW l \in LockRow,
             NEW rows \in [Ids -> IncidentRow],
             rows \in {incident, JudgedIncidents(i)}, Settle(i, l, rows)
      PROVE  /\ incident'[<<SR2, t>>].outcome = "breached"
             /\ incident'[<<SR2, t>>].day = Day(t)
             /\ trade[t].stage # "none"
  <2>1. rows[<<SR2, t>>].outcome # "open" => incident'[<<SR2, t>>] = rows[<<SR2, t>>]
    BY <1>2, <1>8 DEF Settle, SettledIncidents, Waits
  <2>2. rows = JudgedIncidents(i)
    BY <1>3, <1>8, <2>1
  <2>3. \/ rows[<<SR2, t>>] = incident[<<SR2, t>>]
        \/ /\ t \in OpenedBetween(lock[i])
           /\ rows[<<SR2, t>>].outcome = "breached"
           /\ rows[<<SR2, t>>].day = lock[i].day
    BY <2>2, JudgedBreaches
  <2>4. /\ t \in OpenedBetween(lock[i])
        /\ rows[<<SR2, t>>].outcome = "breached"
        /\ rows[<<SR2, t>>].day = lock[i].day
    BY <1>3, <2>1, <2>3
  <2> QED
    BY <2>1, <2>4, CaughtOnTheDay
<1> QED
  BY <1>1, <1>4, <1>5, <1>6, <1>7, <1>8 DEF Effect

LEMMA StepBreachRows ==
    ASSUME IInv, Timely, BreachRows, [Next]_vars PROVE BreachRows'
<1> SUFFICES ASSUME NEW t \in Trades, Recorded(<<SR2, t>>)'
             PROVE  /\ incident'[<<SR2, t>>].outcome = "breached"
                    /\ incident'[<<SR2, t>>].day = Day(t)'
                    /\ trade'[t].stage # "none"
  BY DEF BreachRows, BreachRow
<1>1. CASE Recorded(<<SR2, t>>)
  BY <1>1, BreachRowKept DEF BreachRows, BreachRow, Day
<1>2. CASE ~Recorded(<<SR2, t>>)
  BY <1>2, NewBreach DEF Day
<1> QED
  BY <1>1, <1>2

\* What counts for a lock goes on counting for it.
LEMMA StillCounted ==
    ASSUME IInv, BreachRows, [Next]_vars, NEW i \in LockIds, NEW t \in Trades,
           CountedBy(i, t), lock[i].state # "none"
    PROVE  CountedBy(i, t)'
<1>1. Recorded(<<SR2, t>>)
  BY DEF CountedBy, Recorded
<1>2. lock'[i].started = lock[i].started /\ lock'[i].day = lock[i].day
  BY StepKeepsTime DEF LocksKeepTime
<1> QED
  BY <1>1, <1>2, BreachRowKept DEF CountedBy

\* An incident with a lock becomes breached only by compliance with that lock.
LEMMA BreachOfLock ==
    ASSUME IInv, [Next]_vars, NEW k \in LockIds,
           incident[k].outcome # "breached", incident'[k].outcome = "breached",
           lock'[k].state # "none"
    PROVE  /\ k \in ActiveLocks
           /\ OpenedBetween(lock[k]) # {}
           /\ \A t \in OpenedBetween(lock[k]) : incident'[<<SR2, t>>].outcome # "none"
           /\ trade' = trade
<1>1. Effect /\ TypeOK
  BY StepEffect DEF IInv
<1>2. k \in Ids /\ trade' = trade
  BY Identities, ClockMoves, <1>1
<1>3. ASSUME NEW i \in LockIds, NEW d \in Days, OpenFromFiring(i, d)
      PROVE  FALSE
  BY <1>1, <1>2, <1>3 DEF OpenFromFiring, TypeOK
<1>4. ASSUME NEW i \in Ids, StatesFact(i)
      PROVE  FALSE
  <2>1. k = i /\ lock' = lock
    BY <1>1, <1>2, <1>4 DEF StatesFact, OpenFact, TypeOK
  <2> QED
    BY <1>4, <2>1, Fresh DEF StatesFact
<1>5. ASSUME NEW i \in ActiveLocks, Asks(i)
      PROVE  FALSE
  BY <1>5 DEF Asks
<1>6. ASSUME NEW i \in ActiveLocks, NEW l \in LockRow,
             NEW rows \in [Ids -> IncidentRow],
             WrittenFrom(i, l), JudgedFrom(i, rows),
             rows \in {incident, JudgedIncidents(i)}, Settle(i, l, rows)
      PROVE  /\ k \in ActiveLocks
             /\ OpenedBetween(lock[k]) # {}
             /\ \A t \in OpenedBetween(lock[k]) : incident'[<<SR2, t>>].outcome # "none"
  <2>1. \A j \in Ids : rows[j].outcome # "open" => incident'[j] = rows[j]
    BY <1>6 DEF Settle, SettledIncidents, Waits
  <2>2. k = i
    <3>1. SUFFICES ASSUME k # i PROVE FALSE
      OBVIOUS
    <3>2. rows[k] = incident[k] /\ lock'[k] = lock[k]
      BY <1>1, <1>2, <1>6, <3>1 DEF JudgedFrom, Settle, TypeOK
    <3>3. incident[k].outcome = "open"
      BY <1>2, <2>1, <3>2
    <3>4. lock[k].state = "active"
      BY <3>2, <3>3 DEF IInv, VerdictsAgree, TypeOK, LockRow, LockStates
    <3> QED
      BY <3>1, <3>4 DEF IInv, OneActiveLock, ActiveLocks
  <2>3. rows[i].outcome = "breached"
    <3>1. rows[i].outcome \in {"open", "breached"}
      BY <1>6, SettleResult
    <3>2. rows[i].outcome = "open" => incident'[i].outcome # "breached"
      <4>1. ~Settles(i, l) => incident' = rows
        BY <1>6 DEF Settle, SettledIncidents
      <4>2. Settles(i, l) /\ rows[i].outcome = "open" =>
              incident'[i] = [rows[i] EXCEPT !.outcome = "kept"]
        BY <1>6, SettleResult
      <4>3. rows[i] \in IncidentRow
        BY <1>2, <2>2
      <4> QED
        BY <4>1, <4>2, <4>3 DEF IncidentRow
    <3> QED
      BY <2>2, <3>1, <3>2
  <2>4. rows = JudgedIncidents(i)
    BY <1>6, <2>2, <2>3
  <2>5. OpenedBetween(lock[i]) # {}
    BY <2>2, <2>3, <2>4, JudgedBreaches
  <2>6. ASSUME NEW t \in OpenedBetween(lock[i])
        PROVE  incident'[<<SR2, t>>].outcome # "none"
    <3>1. <<SR2, t>> \in Ids /\ rows[<<SR2, t>>].outcome # "none"
      BY <2>4, JudgedBreaches, Identities DEF OpenedBetween, Known
    <3>2. incident'[<<SR2, t>>] = rows[<<SR2, t>>] \/ incident'[<<SR2, t>>].outcome # "none"
      <4>1. rows[i].outcome # "open"
        BY <2>3
      <4>2. rows[<<SR2, t>>] \in IncidentRow
        BY <3>1
      <4> QED
        BY <1>6, <2>3, <3>1, <4>1, <4>2 DEF Settle, SettledIncidents, IncidentRow
    <3> QED
      BY <3>1, <3>2
  <2> QED
    BY <2>2, <2>5, <2>6
<1>7. ~UNCHANGED <<incident, lock>>
  OBVIOUS
<1> QED
  BY <1>1, <1>2, <1>3, <1>4, <1>5, <1>6, <1>7 DEF Effect

LEMMA StepCounts ==
    ASSUME IInv, Timely, BreachRows, BreachIsCounted, [Next]_vars
    PROVE  BreachIsCounted'
<1>1. \A i \in LockIds : Counted(i)
  BY DEF BreachIsCounted, Counted, CountedBy
<1> SUFFICES ASSUME NEW i \in LockIds, incident'[i].outcome = "breached",
                    lock'[i].state # "none"
             PROVE  \E t \in Trades : CountedBy(i, t)'
  BY DEF BreachIsCounted, CountedBy
<1>2. CASE incident[i].outcome = "breached"
  <2>1. lock[i].state # "none"
    BY <1>2, StepKeepsTime DEF LocksKeepTime
  <2>2. PICK t \in Trades : CountedBy(i, t)
    BY <1>1, <1>2, <2>1 DEF Counted
  <2> QED
    BY <2>1, <2>2, StillCounted
<1>3. CASE incident[i].outcome # "breached"
  <2>1. /\ i \in ActiveLocks
        /\ OpenedBetween(lock[i]) # {}
        /\ \A t \in OpenedBetween(lock[i]) : incident'[<<SR2, t>>].outcome # "none"
        /\ trade' = trade
    BY <1>3, BreachOfLock
  <2>2. PICK t \in OpenedBetween(lock[i]) : TRUE
    BY <2>1
  <2>3. /\ t \in Trades
        /\ Day(t) = lock[i].day
        /\ lock[i].started <= trade[t].at
        /\ trade[t].at <= WindowEnd[lock[i].day]
    BY <2>1, <2>2, CaughtOnTheDay
  <2>4. /\ incident'[<<SR2, t>>].outcome = "breached"
        /\ incident'[<<SR2, t>>].day = Day(t)
    <3>1. BreachRow(t)'
      BY <2>3, StepBreachRows DEF BreachRows
    <3> QED
      BY <2>1, <2>2, <3>1 DEF BreachRow, Recorded, Day
  <2>5. lock'[i].started = lock[i].started /\ lock'[i].day = lock[i].day
    BY <2>1, StepKeepsTime DEF LocksKeepTime, ActiveLocks
  <2> QED
    BY <2>1, <2>3, <2>4, <2>5 DEF CountedBy
<1> QED
  BY <1>2, <1>3

LEMMA InitCounts == Init => Timely /\ BreachRows /\ BreachIsCounted
<1> SUFFICES ASSUME Init PROVE Timely /\ BreachRows /\ BreachIsCounted
  OBVIOUS
<1>1. 0 \in Moments /\ DayOf[0] \in Int /\ now = 0
  BY ClockAssumption DEF Moments, Init
<1>2. Timely
  BY <1>1 DEF Init, IdlePass, NoLockRow, Timely, TradesInTime, PassInTime, LocksInTime
<1>3. BreachRows
  BY Identities DEF Init, NoIncident, BreachRows, BreachRow, Recorded
<1>4. BreachIsCounted
  BY DEF Init, NoLockRow, BreachIsCounted
<1> QED
  BY <1>2, <1>3, <1>4

\* A lock that was broken left an SR-2 incident on its own day, for a trade
\* opened while it ran: the streak never misses a breach.
THEOREM BreachesCount == Spec => []BreachIsCounted
<1>1. Init => IInv /\ Timely /\ BreachRows /\ BreachIsCounted
  BY InitSafe, InitCounts
<1>2. IInv /\ Timely /\ BreachRows /\ BreachIsCounted /\ [Next]_vars =>
        IInv' /\ Timely' /\ BreachRows' /\ BreachIsCounted'
  BY StepSafe, StepTimely, StepBreachRows, StepCounts
<1> QED
  BY <1>1, <1>2, PTL DEF Spec

----------------------------------------------------------------------------
(* Tags are recorded *)

\* A pass over the day of the trade is to come, or is not beyond the tags yet.
PassAwaits(t) ==
    /\ ~Idle
    /\ \/ Day(t) \in pass.left
       \/ Day(t) = pass.day /\ pass.phase \in {"fire", "sr1"}

\* While a tag waits for its incident, such a pass or the marking event does.
TagAwaited(t) ==
    t \in Closed /\ trade[t].violation /\ ~Recorded(<<SR1, t>>) =>
        t \in remarked \/ PassAwaits(t)

TagsAwaited == \A t \in Trades : TagAwaited(t)

\* An incident that is recorded stays recorded.
LEMMA RecordedKept ==
    ASSUME IInv, [Next]_vars, NEW j \in Ids, Recorded(j)
    PROVE  Recorded(j)'
<1>1. Effect /\ TypeOK
  BY StepEffect DEF IInv
<1>2. CASE incident[j].outcome \in {"kept", "breached"}
  BY <1>2, StepFreezes DEF Frozen, Recorded
<1>3. CASE incident[j].outcome = "open"
  <2>1. ASSUME NEW i \in LockIds, NEW d \in Days, OpenFromFiring(i, d)
        PROVE  Recorded(j)'
    BY <1>1, <2>1 DEF OpenFromFiring, TypeOK, Recorded
  <2>2. ASSUME NEW i \in Ids, StatesFact(i)
        PROVE  Recorded(j)'
    BY <1>1, <2>2 DEF StatesFact, OpenFact, TypeOK, Recorded
  <2>3. ASSUME NEW i \in ActiveLocks, Asks(i)
        PROVE  Recorded(j)'
    BY <2>3 DEF Asks, Recorded
  <2>4. ASSUME NEW i \in ActiveLocks, NEW l \in LockRow,
               NEW rows \in [Ids -> IncidentRow],
               JudgedFrom(i, rows), Settle(i, l, rows)
        PROVE  Recorded(j)'
    <3>1. i \in Ids /\ rows[j] \in IncidentRow
      BY Identities DEF ActiveLocks
    <3>2. rows[j].outcome # "none"
      <4>1. incident[j] \in IncidentRow
        BY <1>1 DEF TypeOK
      <4> QED
        BY <1>3, <2>4, <4>1 DEF JudgedFrom, IncidentRow
    <3>3. rows[i].outcome # "none"
      <4>1. incident[i].outcome \in {"open", "breached"} /\ incident[i] \in IncidentRow
        BY <1>1, <3>1 DEF IInv, VerdictsAgree, ActiveLocks, TypeOK
      <4> QED
        BY <2>4, <3>1, <4>1 DEF JudgedFrom, IncidentRow
    <3> QED
      BY <2>4, <3>1, <3>2, <3>3
         DEF Settle, SettledIncidents, IncidentRow, Recorded
  <2>5. CASE UNCHANGED <<incident, lock>>
    BY <2>5 DEF Recorded
  <2> QED
    BY <1>1, <2>1, <2>2, <2>3, <2>4, <2>5 DEF Effect
<1> QED
  BY <1>1, <1>2, <1>3 DEF TypeOK, IncidentRow, Outcomes, Recorded

\* A step of a pass leaves no tag of its day behind.
LEMMA PassStepAwaits ==
    ASSUME IInv, TagsAwaited, PassStep PROVE TagsAwaited'
<1>1. TypeOK /\ trade' = trade /\ remarked' = remarked
  BY DEF IInv, PassStep, FireRule, EndFiring, TagInWindow, TagTooLate,
         EndTags, CheckAdmission, EndDay
<1> SUFFICES ASSUME NEW t \in Trades, t \in Closed', trade'[t].violation,
                    ~Recorded(<<SR1, t>>)', t \notin remarked'
             PROVE  PassAwaits(t)'
  BY DEF TagsAwaited, TagAwaited
<1>2. Day(t)' = Day(t) /\ t \in Closed /\ trade[t].violation
  BY <1>1 DEF Day, Closed
<1>3. ~Recorded(<<SR1, t>>)
  <2>1. <<SR1, t>> \in Ids /\ [Next]_vars
    BY Identities DEF Next
  <2> QED
    BY <2>1, RecordedKept
<1>4. /\ ~Idle
      /\ \/ Day(t) \in pass.left
         \/ Day(t) = pass.day /\ pass.phase \in {"fire", "sr1"}
  BY <1>1, <1>2, <1>3 DEF TagsAwaited, TagAwaited, PassAwaits
<1> SUFFICES /\ ~Idle'
             /\ \/ Day(t)' \in pass'.left
                \/ Day(t)' = pass'.day /\ pass'.phase \in {"fire", "sr1"}
  BY DEF PassAwaits
<1>5. CASE pass' = pass
  BY <1>2, <1>4, <1>5 DEF Idle
<1>6. CASE EndFiring
  BY <1>2, <1>4, <1>6 DEF EndFiring, Idle, IInv, TypeOK, PassRow
<1>7. CASE EndTags
  <2>1. Day(t) # pass.day
    BY <1>2, <1>3, <1>7 DEF EndTags, ViolationsOf
  <2> QED
    BY <1>2, <1>4, <1>7, <2>1 DEF EndTags, Idle, IInv, TypeOK, PassRow
<1>8. CASE CheckAdmission
  BY <1>2, <1>4, <1>8 DEF CheckAdmission, Idle, IInv, TypeOK, PassRow
<1>9. CASE EndDay
  <2>1. Day(t) \in pass.left /\ StartPass(pass.left, None)
    BY <1>4, <1>9 DEF EndDay
  <2>2. pass.left \in SUBSET Days
    BY <1>1 DEF TypeOK, PassRow
  <2>3. pass'.phase = "fire" /\ pass.left \subseteq pass'.left \union {pass'.day}
    BY <2>1, <2>2, PassDays
  <2> QED
    BY <1>2, <2>1, <2>3 DEF Idle
<1> QED
  BY <1>5, <1>6, <1>7, <1>8, <1>9 DEF PassStep, FireRule, TagInWindow, TagTooLate

\* A batch or a mark that makes a tag count starts a pass over its day, and so
\* does the marking event that a tag without an incident waits for.
LEMMA PassStartAwaits ==
    ASSUME IInv, TagsAwaited, PassStart PROVE TagsAwaited'
<1>1. TypeOK /\ Idle /\ incident' = incident
  BY DEF IInv, PassStart, Sync, MarkTrade, RefreshPositions, OnMarkingChanged
<1> SUFFICES ASSUME NEW t \in Trades, t \in Closed', trade'[t].violation,
                    ~Recorded(<<SR1, t>>)', t \notin remarked'
             PROVE  PassAwaits(t)'
  BY DEF TagsAwaited, TagAwaited
<1>2. trade[t].stage = "closed" /\ trade[t].violation => t \in remarked
  BY <1>1 DEF TagsAwaited, TagAwaited, PassAwaits, Closed, Recorded
<1>3. \A u \in Trades : Day(u) \in Days
  BY <1>1, DayTyped
<1>4. ASSUME NEW days \in SUBSET Days, NEW probe, StartPass(days, probe), Day(t)' \in days
      PROVE  PassAwaits(t)'
  <2>1. pass'.phase = "fire" /\ days \subseteq pass'.left \union {pass'.day}
    BY <1>4, PassDays
  <2> QED
    BY <1>4, <2>1 DEF Idle, PassAwaits
<1>5. ASSUME NEW opened \in SUBSET Trades, NEW done \in SUBSET Trades,
             NEW retagged \in SUBSET Trades, Sync(opened, done, retagged)
      PROVE  PassAwaits(t)'
  <2>1. /\ TradeKept(t)
        /\ t \notin done \union retagged =>
             /\ trade'[t].stage = "closed" => trade[t].stage = "closed"
             /\ trade[t].stage = "closed" => trade'[t] = trade[t]
    BY <1>1, <1>5, SyncKeeps
  <2>2. t \in done \union retagged
    <3>1. t \notin remarked
      BY <1>5 DEF Sync
    <3> QED
      BY <1>2, <2>1, <3>1 DEF Closed
  <2>3. Day(t)' = Day(t) /\ Touched(done, retagged) \in SUBSET Days
    BY <1>3, <2>1 DEF TradeKept, Day, Touched
  <2>4. StartPass(Touched(done, retagged), None)
    BY <1>5 DEF Sync
  <2> QED
    BY <1>4, <2>2, <2>3, <2>4 DEF Touched
<1>6. ASSUME NEW u \in Trades, MarkTrade(u)
      PROVE  FALSE
  <2>1. trade' = [trade EXCEPT ![u].violation = ~@] /\ remarked' = remarked \union {u}
    BY <1>6 DEF MarkTrade
  <2>2. t # u /\ t \notin remarked
    BY <2>1
  <2> QED
    BY <1>1, <1>2, <2>1, <2>2 DEF Closed, TypeOK
<1>7. ASSUME NEW p \in Probes, NEW opened \in SUBSET Trades, RefreshPositions(p, opened)
      PROVE  FALSE
  BY <1>1, <1>2, <1>7 DEF RefreshPositions, Closed, TypeOK, TradeRow
<1>8. ASSUME NEW u \in Trades, OnMarkingChanged(u)
      PROVE  PassAwaits(t)'
  <2>1. trade' = trade /\ remarked \subseteq remarked' \union {u} /\ StartPass({Day(u)}, None)
    BY <1>8 DEF OnMarkingChanged
  <2>2. t \in remarked /\ Day(t)' = Day(t)
    BY <1>2, <2>1 DEF Closed, Day
  <2>3. t = u
    BY <2>1, <2>2
  <2> QED
    BY <1>3, <1>4, <2>1, <2>2, <2>3
<1> QED
  BY <1>5, <1>6, <1>7, <1>8 DEF PassStart

\* Requests and the clock leave trades and passes alone; marks that the tag
\* dictionary changes come with their events.
LEMMA StepAwaits ==
    ASSUME IInv, TagsAwaited, [Next]_vars PROVE TagsAwaited'
<1>1. CASE Request \/ World \/ UNCHANGED vars
  <2>1. /\ pass' = pass /\ remarked \subseteq remarked'
        /\ \A t \in Trades :
              t \in Closed' => \/ t \in remarked'
                               \/ t \in Closed /\ trade'[t] = trade[t]
    <3>1. CASE trade' = trade /\ pass' = pass /\ remarked' = remarked
      BY <3>1 DEF Closed
    <3>2. ASSUME NEW u \in Trades, OpenOnExchange(u)
          PROVE  /\ pass' = pass /\ remarked' = remarked
                 /\ \A t \in Trades : t \in Closed' => t \in Closed /\ trade'[t] = trade[t]
      BY <3>2 DEF OpenOnExchange, Closed, IInv, TypeOK, TradeRow
    <3>3. ASSUME NEW trades \in SUBSET Trades, RemarkAll(trades)
          PROVE  /\ pass' = pass /\ remarked' = remarked \union trades
                 /\ \A t \in Trades \ trades :
                       t \in Closed' => t \in Closed /\ trade'[t] = trade[t]
      BY <3>3 DEF RemarkAll, Remark, Closed, IInv, TypeOK
    <3> QED
      BY <1>1, <3>1, <3>2, <3>3
         DEF Request, TodayRead, ActiveLockRead, SubmitReview, RequestBuddy,
             ConfirmByBuddy, World, Tick, PassCheck, ToggleShadow, vars
  <2>2. \A t \in Trades : Recorded(<<SR1, t>>) => Recorded(<<SR1, t>>)'
    BY Identities, RecordedKept
  <2> QED
    BY <2>1, <2>2 DEF TagsAwaited, TagAwaited, PassAwaits, Idle, Day
<1> QED
  BY <1>1, PassStepAwaits, PassStartAwaits DEF Next

\* Between transactions no tag of a closed trade is left without its SR-1
\* incident, but while the event of its marking is still to be handled: the
\* live trigger, the retro check and the marking by the tag dictionary leave
\* no gap between them.
THEOREM TagsRecorded == Spec => []TagsAreRecorded
<1>1. Init => IInv /\ TagsAwaited
  BY InitSafe DEF Init, TagsAwaited, TagAwaited, Closed
<1>2. IInv /\ TagsAwaited /\ [Next]_vars => IInv' /\ TagsAwaited'
  BY StepSafe, StepAwaits
<1>3. TagsAwaited => TagsAreRecorded
  BY DEF TagsAwaited, TagAwaited, PassAwaits, TagsAreRecorded, Closed
<1> QED
  BY <1>1, <1>2, <1>3, PTL DEF Spec
=============================================================================
