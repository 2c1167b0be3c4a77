--------------------------- MODULE LockLifecycle ---------------------------
(***************************************************************************)
(* Incidents and locks of one trader: the rule engine's pass over a        *)
(* trading day (app/engine.py, app/system_rules.py, app/retro.py) and the  *)
(* lock screen's requests (modules/incidents).                             *)
(*                                                                         *)
(* One row of incidents.incidents is identified by the rule and what made  *)
(* it fire, which is what the unique indexes of the tables allow once: a   *)
(* trade, a position refresh (Probes) or a day.  A lock is identified by   *)
(* the incident that started it.  The journal row a pass writes before an  *)
(* incident is in the same transaction, so the incident stands for both.   *)
(*                                                                         *)
(* A pass runs in one transaction: while it runs (pass.phase # "idle") no  *)
(* other action is enabled and the clock stands still.                     *)
(***************************************************************************)
EXTENDS Integers

CONSTANTS
    Rules,          \* the trader's own rules
    Trades,         \* trades of the exchange account
    Probes,         \* minutes in which a position refresh makes a rule fire
    SR1, SR2, SR3,  \* system triggers: tag, trade under lock, no admission
    None,           \* no lock, no probe
    Horizon,        \* bound: the last moment of the clock
    DayOf,          \* moment -> trading day (trader's timezone and cutoff)
    WindowEnd,      \* trading day -> its last second
    LockAction,     \* rules whose action "lock" is enabled
    Requires,       \* rule -> unlock conditions that are switched on
    Minutes,        \* rule -> minutes of its timer, Unset when not given
    Unset,
    Cooldown,       \* pause between two requests to the trusted contact
    ShadowModes     \* values the observation mode takes

Moments == 0..Horizon
Days    == {DayOf[m] : m \in Moments}

\* A moment later than the clock can reach: a timer that was never set.
Never == Horizon + 1

LockRules == Rules \union {SR1}

FiredIds     == Rules \X (Trades \union Probes)
TagIds       == {SR1} \X Trades
BreachIds    == {SR2} \X Trades
AdmissionIds == {SR3} \X Days
LockIds      == FiredIds \union TagIds
Ids          == LockIds \union BreachIds \union AdmissionIds

ASSUME ClockAssumption ==
    /\ Horizon \in Nat
    /\ DayOf \in [Moments -> Int]
    /\ \A m, n \in Moments : m <= n => DayOf[m] <= DayOf[n]
    /\ WindowEnd \in [Days -> Moments]
    /\ \A d \in Days : DayOf[WindowEnd[d]] = d

ASSUME RuleAssumption ==
    /\ LockAction \subseteq LockRules
    /\ Requires \in [LockRules -> SUBSET {"timer", "review", "buddy"}]
    /\ Unset \notin Nat
    /\ Minutes \in [LockRules -> Nat \union {Unset}]
    /\ Cooldown \in Nat
    /\ ShadowModes \subseteq BOOLEAN

ASSUME IdentityAssumption ==
    /\ SR1 \notin Rules /\ SR2 \notin LockRules /\ SR3 \notin LockRules
    /\ SR2 # SR3
    /\ Trades \intersect Probes = {}
    /\ None \notin LockIds /\ None \notin Probes

VARIABLES
    now,        \* the clock
    shadow,     \* observation mode: incidents are written, locks are not
    admitted,   \* days whose pre-market check let the trader in
    trade,      \* Trades -> what the exchange and the service know of it
    remarked,   \* trades with an event of a new marking that the bus
                \* consumer has not handled, one it gave up included
    incident,   \* Ids -> row of incidents.incidents
    lock,       \* LockIds -> row of incidents.locks with its review rows
    pass        \* the transaction of the engine that is under way: its phase,
                \* its day and the days left

vars == <<now, shadow, admitted, trade, remarked, incident, lock, pass>>

----------------------------------------------------------------------------
(* Rows *)

Outcomes   == {"none", "open", "kept", "breached"}
LockStates == {"none", "active", "lifted", "expired", "breached"}
Ended      == {"lifted", "expired", "breached"}
Stages     == {"none", "unseen", "open", "closed"}
Phases     == {"idle", "fire", "sr1", "sr3", "refresh"}

TradeRow    == [stage : Stages, at : Moments, closed : Moments,
                violation : BOOLEAN]
IncidentRow == [outcome : Outcomes, day : Days,
                cover : LockIds \union {None}]
LockRow     == [state : LockStates, day : Days, started : Moments,
                timer : Moments \union {Never}, ended : Moments,
                review : BOOLEAN, buddy : BOOLEAN,
                asked : Moments \union {Never}]
PassRow     == [phase : Phases, day : Days, left : SUBSET Days,
                probe : Probes \union {None}]

TypeOK ==
    /\ now \in Moments
    /\ shadow \in ShadowModes
    /\ admitted \subseteq Days
    /\ trade \in [Trades -> TradeRow]
    /\ remarked \subseteq Trades
    /\ incident \in [Ids -> IncidentRow]
    /\ lock \in [LockIds -> LockRow]
    /\ pass \in PassRow

NoIncident == [outcome |-> "none", day |-> DayOf[0], cover |-> None]
NoLockRow  == [state |-> "none", day |-> DayOf[0], started |-> 0,
               timer |-> Never, ended |-> 0, review |-> FALSE,
               buddy |-> FALSE, asked |-> Never]
IdlePass   == [phase |-> "idle", day |-> DayOf[0], left |-> {}, probe |-> None]

Init ==
    /\ now = 0
    /\ shadow \in ShadowModes
    /\ admitted = {}
    /\ trade = [t \in Trades |-> [stage |-> "none", at |-> 0, closed |-> 0,
                                  violation |-> FALSE]]
    /\ remarked = {}
    /\ incident = [i \in Ids |-> NoIncident]
    /\ lock = [i \in LockIds |-> NoLockRow]
    /\ pass = IdlePass

----------------------------------------------------------------------------
(* Queries of the repositories *)

Earlier(a, b) == IF a <= b THEN a ELSE b

Day(t) == DayOf[trade[t].at]
Known  == {t \in Trades : trade[t].stage \in {"open", "closed"}}
Closed == {t \in Trades : trade[t].stage = "closed"}

ActiveLocks == {i \in LockIds : lock[i].state = "active"}

\* Trades opened between the lock's start and the earlier of now and the end
\* of its window, both ends included.
OpenedBetween(l) ==
    {t \in Known : /\ l.started <= trade[t].at
                   /\ trade[t].at <= Earlier(now, WindowEnd[l.day])}

\* Closed trades of the day marked as a violation.
ViolationsOf(d) == {t \in Closed : Day(t) = d /\ trade[t].violation}

\* Trades of the same trading day opened strictly later than t was closed.
OpenedAfter(t) ==
    {u \in Known : Day(u) = Day(t) /\ trade[u].at > trade[t].closed}

\* Mutant: only an incident that is still open counts as a repetition.
RecordedOpen(i) == incident[i].outcome = "open"

Recorded(i) == incident[i].outcome # "none"

Idle == pass.phase = "idle"

\* The touched days are taken in ascending order.  A pass over no days is no
\* pass: the transaction just commits.
StartPass(days, probe) ==
    IF days = {} THEN pass' = IdlePass
    ELSE \E d \in days :
           /\ \A e \in days : d <= e
           /\ pass' = [phase |-> "fire", day |-> d, left |-> days \ {d},
                       probe |-> probe]

----------------------------------------------------------------------------
(* The end of a lock *)

Satisfied(i, l, condition) ==
    CASE condition = "timer"  -> now >= l.timer
      [] condition = "review" -> l.review
      [] condition = "buddy"  -> l.buddy

\* Mutant: one condition of several is enough.
CanLiftOnAny(i, l) == \E c \in Requires[i[1]] : Satisfied(i, l, c)

\* With no condition switched on a lock cannot be lifted by hand.
CanLift(i, l) ==
    /\ Requires[i[1]] # {}
    /\ \A c \in Requires[i[1]] : Satisfied(i, l, c)

\* Mutant: the day boundary does not end a lock.
EndingByConditions(i, l) == IF CanLift(i, l) THEN "lifted" ELSE "active"

\* The day boundary is looked at before the conditions.
Ending(i, l) ==
    IF now >= WindowEnd[l.day] THEN "expired"
    ELSE IF CanLift(i, l) THEN "lifted"
    ELSE "active"

Settles(i, l) == Ending(i, l) # "active"

\* Mutant: the lock takes its state from the reason it ended alone.
SettledByReason(i, l, outcome) ==
    IF Settles(i, l) THEN [l EXCEPT !.state = Ending(i, l), !.ended = now]
    ELSE l

\* A breached incident makes a breached lock, whatever ended it.
SettledLock(i, l, outcome) ==
    IF Settles(i, l)
    THEN [l EXCEPT !.state = IF outcome = "breached" THEN "breached"
                             ELSE Ending(i, l),
                   !.ended = now]
    ELSE l

\* Mutant: only the lock's own incident is closed with it.
WaitsAlone(j, i, l, rows) == rows[j].outcome = "open" /\ j = i

\* An incident that waits for the lock i: its own, or one of the lock's day
\* that was recorded while i was running.
Waits(j, i, l, rows) ==
    /\ rows[j].outcome = "open"
    /\ j = i \/ (rows[j].cover = i /\ rows[j].day = l.day)

\* Mutant: the incidents take the state of the lock for their outcome.
SettledWithState(i, l, rows) ==
    [j \in Ids |->
        IF Settles(i, l) /\ Waits(j, i, l, rows)
        THEN [rows[j] EXCEPT !.outcome = SettledLock(i, l, rows[i].outcome).state]
        ELSE rows[j]]

SettledIncidents(i, l, rows) ==
    IF Settles(i, l)
    THEN LET verdict == IF rows[i].outcome = "open" THEN "kept"
                        ELSE rows[i].outcome
         IN  [j \in Ids |-> IF Waits(j, i, l, rows)
                            THEN [rows[j] EXCEPT !.outcome = verdict]
                            ELSE rows[j]]
    ELSE rows

\* Mutant: the lock ends, its incidents stay as they were.
SettleLockAlone(i, l, rows) ==
    /\ lock' = [lock EXCEPT ![i] = SettledLock(i, l, rows[i].outcome)]
    /\ incident' = rows

\* settle: l is the lock row with what the handler has just written to it,
\* rows are the incidents with what it has just written to them.
Settle(i, l, rows) ==
    /\ lock' = [lock EXCEPT ![i] = SettledLock(i, l, rows[i].outcome)]
    /\ incident' = SettledIncidents(i, l, rows)

\* Trades opened under the lock break its incident; the lock goes on.
RecordBreach(i, caught, rows) ==
    IF caught # {} /\ rows[i].outcome = "open"
    THEN [rows EXCEPT ![i].outcome = "breached"]
    ELSE rows

\* Mutant: a breach leaves no SR-2 facts for the streak to count.
NoBreaches(day, caught, rows) == rows

\* One SR-2 fact for each of the trades, whatever became of the incident.
SR2Breaches(day, caught, rows) ==
    [j \in Ids |-> IF j \in {SR2} \X caught /\ rows[j].outcome = "none"
                   THEN [outcome |-> "breached", day |-> day, cover |-> None]
                   ELSE rows[j]]

JudgedIncidents(i) ==
    LET caught == OpenedBetween(lock[i])
    IN  SR2Breaches(lock[i].day, caught, RecordBreach(i, caught, incident))

RefreshLock(i) == Settle(i, lock[i], JudgedIncidents(i))

----------------------------------------------------------------------------
(* The start of a lock *)

\* Mutant: nobody asks whether a lock is running.
StartsAnyway(i) == i[1] \in LockAction /\ ~shadow

Starts(i) == i[1] \in LockAction /\ ~shadow /\ ActiveLocks = {}

\* timer_until: the day boundary overrides the timer.
TimerOf(r, d) ==
    IF "timer" \in Requires[r] /\ Minutes[r] # Unset
    THEN Earlier(now + Minutes[r], WindowEnd[d])
    ELSE Never

\* An incident without a lock of its own is closed at once, unless some lock
\* is running; it is covered by that lock if it asked for a lock itself.
OpenFromFiring(i, d) ==
    /\ ~Recorded(i)
    /\ incident' = [incident EXCEPT ![i] =
         [outcome |-> IF Starts(i) \/ ActiveLocks # {} THEN "open" ELSE "kept",
          day     |-> d,
          cover   |-> IF i[1] \in LockAction /\ ~shadow /\ ActiveLocks # {}
                      THEN CHOOSE a \in LockIds : a \in ActiveLocks
                      ELSE None]]
    /\ lock' = IF Starts(i)
               THEN [lock EXCEPT ![i] =
                      [state |-> "active", day |-> d, started |-> now,
                       timer |-> TimerOf(i[1], d), ended |-> 0,
                       review |-> FALSE, buddy |-> FALSE, asked |-> Never]]
               ELSE lock

\* A fact has its outcome from the start: there is nothing left to keep.
OpenFact(i, d, outcome) ==
    incident' = [incident EXCEPT ![i] =
        [outcome |-> outcome, day |-> d, cover |-> None]]

----------------------------------------------------------------------------
(* The pass of the engine over a day *)

\* A rule fires on a closed trade of the day or on the position refresh that
\* started this pass.  Whether its condition became true is left open, and so
\* is when it was first evaluated: a rule may be switched on between passes.
FireRule(r, ref) ==
    /\ pass.phase = "fire"
    /\ \/ ref \in Closed /\ Day(ref) = pass.day
       \/ ref = pass.probe
    /\ OpenFromFiring(<<r, ref>>, pass.day)
    /\ UNCHANGED <<now, shadow, admitted, trade, remarked, pass>>

EndFiring ==
    /\ pass.phase = "fire"
    /\ pass' = [pass EXCEPT !.phase = "sr1"]
    /\ UNCHANGED <<now, shadow, admitted, trade, remarked, incident, lock>>

\* SR-1 while the window of the day is open: a lock until its end.
TagInWindow(t) ==
    /\ pass.phase = "sr1"
    /\ now < WindowEnd[pass.day]
    /\ t \in ViolationsOf(pass.day)
    /\ OpenFromFiring(<<SR1, t>>, pass.day)
    /\ UNCHANGED <<now, shadow, admitted, trade, remarked, pass>>

\* SR-1 after the window: no lock, a verdict on what the trader did next.
TagTooLate(t) ==
    /\ pass.phase = "sr1"
    /\ now >= WindowEnd[pass.day]
    /\ t \in ViolationsOf(pass.day)
    /\ ~Recorded(<<SR1, t>>)
    /\ OpenFact(<<SR1, t>>, pass.day,
                IF OpenedAfter(t) # {} THEN "breached" ELSE "kept")
    /\ UNCHANGED <<now, shadow, admitted, trade, remarked, lock, pass>>

EndTags ==
    /\ pass.phase = "sr1"
    /\ \A t \in ViolationsOf(pass.day) : Recorded(<<SR1, t>>)
    /\ pass' = [pass EXCEPT !.phase = "sr3"]
    /\ UNCHANGED <<now, shadow, admitted, trade, remarked, incident, lock>>

\* SR-3: trades on a day whose check was not passed, or not taken.
CheckAdmission ==
    /\ pass.phase = "sr3"
    /\ IF /\ \E t \in Known : Day(t) = pass.day
          /\ pass.day \notin admitted
          /\ ~Recorded(<<SR3, pass.day>>)
       THEN OpenFact(<<SR3, pass.day>>, pass.day, "breached")
       ELSE UNCHANGED incident
    /\ pass' = [pass EXCEPT !.phase = "refresh"]
    /\ UNCHANGED <<now, shadow, admitted, trade, remarked, lock>>

\* Compliance closes the day's pass; the next touched day follows.
EndDay ==
    /\ pass.phase = "refresh"
    /\ IF ActiveLocks = {}
       THEN UNCHANGED <<incident, lock>>
       ELSE \E i \in ActiveLocks : RefreshLock(i)
    /\ StartPass(pass.left, None)
    /\ UNCHANGED <<now, shadow, admitted, trade, remarked>>

PassStep ==
    \/ \E r \in Rules, ref \in Trades \union Probes : FireRule(r, ref)
    \/ EndFiring
    \/ \E t \in Trades : TagInWindow(t)
    \/ \E t \in Trades : TagTooLate(t)
    \/ EndTags
    \/ CheckAdmission
    \/ EndDay

----------------------------------------------------------------------------
(* What starts a pass *)

\* A trade that closed, or a closed one whose tags changed, touches its day;
\* an open trade touches none.
Touched(done, retagged) == {Day(t) : t \in done \union retagged}

\* One batch of a reconciliation or of the stream, in one transaction with
\* the passes over the days it touched.  A new trade takes its mark from its
\* tags, a closing one keeps the mark it has.  No event tells of tags that
\* the trade has had before: its key is taken.
Sync(opened, done, retagged) ==
    /\ Idle
    /\ opened \subseteq {t \in Trades : trade[t].stage = "unseen"}
    /\ done \subseteq {t \in Trades : trade[t].stage \in {"unseen", "open"}}
    /\ retagged \subseteq Closed
    /\ opened \intersect done = {}
    /\ opened \union done \union retagged # {}
    /\ \E c \in [done -> Moments], v \in [opened \union done -> BOOLEAN] :
         /\ \A t \in done :
              /\ trade[t].at <= c[t] /\ c[t] <= now
              /\ trade[t].stage = "open" => v[t] = trade[t].violation
         /\ trade' = [t \in Trades |->
              IF t \in opened
              THEN [trade[t] EXCEPT !.stage = "open", !.violation = v[t]]
              ELSE IF t \in done
              THEN [trade[t] EXCEPT !.stage = "closed", !.closed = c[t],
                                    !.violation = v[t]]
              ELSE IF t \in retagged
              THEN [trade[t] EXCEPT !.violation = ~@]
              ELSE trade[t]]
    /\ \E told \in SUBSET retagged : remarked' = remarked \union told
    /\ StartPass(Touched(done, retagged), None)
    /\ UNCHANGED <<now, shadow, admitted, incident, lock>>

\* The trader's own mark.  A violation that already has an incident of its
\* day cannot be taken back.
MarkTrade(t) ==
    /\ Idle
    /\ t \in Known
    /\ trade[t].violation =>
         ~ \E i \in Ids : /\ i[2] = t /\ Recorded(i)
                          /\ incident[i].day = Day(t)
    /\ trade' = [trade EXCEPT ![t].violation = ~@]
    /\ remarked' = remarked \union {t}
    /\ StartPass({Day(t)}, None)
    /\ UNCHANGED <<now, shadow, admitted, incident, lock>>

\* Mutant: the new marks are announced to nobody.
RemarkSilently(trades) ==
    /\ trade' = [t \in Trades |->
         IF t \in trades THEN [trade[t] EXCEPT !.violation = ~@] ELSE trade[t]]
    /\ UNCHANGED remarked

\* What remark_all changes: the marks, and an event for each of them.
Remark(trades) ==
    /\ trade' = [t \in Trades |->
         IF t \in trades THEN [trade[t] EXCEPT !.violation = ~@] ELSE trade[t]]
    /\ remarked' = remarked \union trades

\* The tag dictionary changed: the bus consumer marks the trades anew, also
\* closed ones and those with an incident, and commits without a pass.
RemarkAll(trades) ==
    /\ Idle
    /\ trades # {} /\ trades \subseteq Known
    /\ Remark(trades)
    /\ UNCHANGED <<now, shadow, admitted, incident, lock, pass>>

\* Every position refresh is a pass over today with a trigger of its own; it
\* also takes in the trades it finds open.
RefreshPositions(p, opened) ==
    /\ Idle
    /\ \A r \in Rules : ~Recorded(<<r, p>>)
    /\ opened \subseteq {t \in Trades : trade[t].stage = "unseen"}
    /\ trade' = [t \in Trades |->
         IF t \in opened THEN [trade[t] EXCEPT !.stage = "open"] ELSE trade[t]]
    /\ StartPass({DayOf[now]}, p)
    /\ UNCHANGED <<now, shadow, admitted, remarked, incident, lock>>

\* The bus consumer passes over the day of a marking event.  The event may
\* come again, or be one of several of the trade.
OnMarkingChanged(t) ==
    /\ Idle
    /\ t \in Known /\ t \in remarked
    /\ remarked' \in {remarked, remarked \ {t}}
    /\ StartPass({Day(t)}, None)
    /\ UNCHANGED <<now, shadow, admitted, trade, incident, lock>>

----------------------------------------------------------------------------
(* Requests *)

\* GET /today: compliance and settlement.
TodayRead(i) ==
    /\ Idle
    /\ i \in ActiveLocks
    /\ RefreshLock(i)
    /\ UNCHANGED <<now, shadow, admitted, trade, remarked, pass>>

\* GET /locks/active: settlement alone.
ActiveLockRead(i) ==
    /\ Idle
    /\ i \in ActiveLocks
    /\ Settle(i, lock[i], incident)
    /\ UNCHANGED <<now, shadow, admitted, trade, remarked, pass>>

SubmitReview(i) ==
    /\ Idle
    /\ i \in ActiveLocks
    /\ ~lock[i].review
    /\ Settle(i, [lock[i] EXCEPT !.review = TRUE], incident)
    /\ UNCHANGED <<now, shadow, admitted, trade, remarked, pass>>

RequestBuddy(i) ==
    /\ Idle
    /\ i \in ActiveLocks
    /\ "buddy" \in Requires[i[1]]
    /\ ~lock[i].buddy
    /\ lock[i].asked # Never => now - lock[i].asked >= Cooldown
    /\ lock' = [lock EXCEPT ![i].asked = now]
    /\ UNCHANGED <<now, shadow, admitted, trade, remarked, incident, pass>>

\* The contact presses the button of a request, perhaps not for the first
\* time: the confirmation is written once, settlement runs each time.
ConfirmByBuddy(i) ==
    /\ Idle
    /\ i \in ActiveLocks
    /\ lock[i].asked # Never
    /\ Settle(i, [lock[i] EXCEPT !.buddy = TRUE], incident)
    /\ UNCHANGED <<now, shadow, admitted, trade, remarked, pass>>

----------------------------------------------------------------------------
(* The world *)

Tick ==
    /\ Idle
    /\ now < Horizon
    /\ now' = now + 1
    /\ UNCHANGED <<shadow, admitted, trade, remarked, incident, lock, pass>>

\* The exchange opens a trade; the service does not know yet.
OpenOnExchange(t) ==
    /\ Idle
    /\ trade[t].stage = "none"
    /\ trade' = [trade EXCEPT ![t].stage = "unseen", ![t].at = now]
    /\ UNCHANGED <<now, shadow, admitted, remarked, incident, lock, pass>>

PassCheck ==
    /\ Idle
    /\ DayOf[now] \notin admitted
    /\ admitted' = admitted \union {DayOf[now]}
    /\ UNCHANGED <<now, shadow, trade, remarked, incident, lock, pass>>

ToggleShadow ==
    /\ Idle
    /\ shadow' \in ShadowModes \ {shadow}
    /\ UNCHANGED <<now, admitted, trade, remarked, incident, lock, pass>>

Request ==
    \E i \in LockIds :
        \/ TodayRead(i)
        \/ ActiveLockRead(i)
        \/ SubmitReview(i)
        \/ RequestBuddy(i)
        \/ ConfirmByBuddy(i)

PassStart ==
    \/ \E opened, done, retagged \in SUBSET Trades :
           Sync(opened, done, retagged)
    \/ \E t \in Trades : MarkTrade(t)
    \/ \E p \in Probes, opened \in SUBSET Trades : RefreshPositions(p, opened)
    \/ \E t \in Trades : OnMarkingChanged(t)

World ==
    \/ Tick
    \/ \E t \in Trades : OpenOnExchange(t)
    \/ PassCheck
    \/ ToggleShadow
    \/ \E trades \in SUBSET Trades : RemarkAll(trades)

Next == PassStep \/ PassStart \/ Request \/ World

Spec == Init /\ [][Next]_vars

(***************************************************************************)
(* Fairness.  Time passes; a transaction that has begun goes on to its     *)
(* end; the Today screen, which reads GET /today once a minute, is open.   *)
(* Nothing else is owed: a trader need not write a review, an exchange     *)
(* need not trade.                                                         *)
(***************************************************************************)
FairSpec ==
    /\ Spec
    /\ SF_vars(Tick)
    /\ WF_vars(PassStep)
    /\ WF_vars(\E i \in LockIds : TodayRead(i))

----------------------------------------------------------------------------
(* Properties *)

\* At most one lock of the trader is active, so GET /locks/active and
\* active_lock (which demands one row or none) can answer.
OneActiveLock == \A i, j \in ActiveLocks : i = j

\* The verdict is told twice, on the lock and on its incident, and by
\* different functions (record_breach, _finish): they never disagree.
VerdictsAgree ==
    \A i \in LockIds :
        /\ lock[i].state = "active" => incident[i].outcome \in {"open", "breached"}
        /\ lock[i].state = "breached" => incident[i].outcome = "breached"
        /\ lock[i].state \in {"lifted", "expired"} => incident[i].outcome = "kept"

\* A lock lifted before its day ended had conditions to meet and met every
\* one of them (can_lift), at the moment it was lifted.
LiftedWhenSatisfied ==
    \A i \in LockIds :
        lock[i].state = "lifted" =>
            /\ lock[i].ended < WindowEnd[lock[i].day]
            /\ Requires[i[1]] # {}
            /\ "timer" \in Requires[i[1]] => lock[i].timer <= lock[i].ended
            /\ "review" \in Requires[i[1]] => lock[i].review
            /\ "buddy" \in Requires[i[1]] => lock[i].buddy

\* The streak counts SR-2 incidents of a day, not breached locks: a breached
\* lock always left one on its own day, for a trade opened while it ran.
BreachIsCounted ==
    \A i \in LockIds :
        incident[i].outcome = "breached" /\ lock[i].state # "none" =>
            \E t \in Trades :
                /\ incident[<<SR2, t>>].outcome = "breached"
                /\ incident[<<SR2, t>>].day = lock[i].day
                /\ lock[i].started <= trade[t].at
                /\ trade[t].at <= WindowEnd[lock[i].day]

\* An incident that waited for a lock of the same day has that lock's verdict
\* once the lock ended (_close_covered).
CoveredSharesVerdict ==
    \A i \in LockIds, j \in Ids :
        /\ incident[j].cover = i
        /\ incident[j].day = lock[i].day
        /\ lock[i].state \in Ended
        => incident[j].outcome = incident[i].outcome

\* Between transactions a closed trade marked as a violation has its SR-1
\* incident, recorded live or by the retro check, or the event that will have
\* its day passed over is still to be handled: neither the day boundary nor a
\* marking by another transaction (remark_all) leaves a gap.
TagsAreRecorded ==
    Idle => \A t \in Closed :
                trade[t].violation => Recorded(<<SR1, t>>) \/ t \in remarked

\* History is not rewritten: an outcome, once given, and a lock, once ended,
\* stay as they are, whatever pass, request or batch comes later.
HistoryIsFrozen ==
    [][/\ \A i \in Ids : incident[i].outcome \in {"kept", "breached"} =>
                              incident'[i] = incident[i]
       /\ \A i \in LockIds : lock[i].state \in Ended => lock'[i] = lock[i]]_vars

\* Every lock ends: with its conditions or with its day.
LockEnds == \A i \in LockIds : lock[i].state = "active" ~> lock[i].state \in Ended
=============================================================================
