---------------------------- MODULE LockSessions ----------------------------
(***************************************************************************)
(* The same lock code as LockLifecycle, one SQL statement at a time: the   *)
(* scheduler, the bus consumers and the requests each work in a session of *)
(* their own under READ COMMITTED, and nothing in the code keeps two of    *)
(* them from working on one lock.  What holds then rests on the database:  *)
(* row locks, the index one_active_lock and the triggers that freeze an    *)
(* outcome and a lock once they are decided (migration 0009).              *)
(*                                                                         *)
(* One trading day; a lock asks for a review; one trade may be found open  *)
(* under the lock.  A lock and its incident are named by the pass that     *)
(* inserts them.  A row is its committed value and, while some session     *)
(* owns it, the value that session has written and not yet committed.      *)
(***************************************************************************)
EXTENDS Naturals, FiniteSets

CONSTANTS
    Passes,     \* sessions running engine.run_day
    Firing,     \* passes in which a rule that wants a lock fires
    Seeing,     \* passes that find a trade opened under the lock
    Reviews,    \* POST /locks/{id}/review
    Readers,    \* GET /locks/active
    None

Sessions == Passes \union Reviews \union Readers

ASSUME SessionAssumption ==
    /\ Firing \subseteq Passes
    /\ Seeing \subseteq Passes
    /\ Passes \intersect Reviews = {}
    /\ Passes \intersect Readers = {}
    /\ Reviews \intersect Readers = {}
    /\ None \notin Sessions

VARIABLES
    lockRow,    \* Passes -> row of locks
    incident,   \* Passes -> row of incidents, with the lock that covers it
    review,     \* Passes -> row of lock_reviews
    breach,     \* the SR-2 incident of the trade and the lock it names
    over,       \* the window of the day is over
    session     \* Sessions -> where it is and what it has read

vars == <<lockRow, incident, review, breach, over, session>>

LockStates == {"none", "active", "lifted", "expired", "breached"}
Outcomes   == {"none", "open", "kept", "breached"}
Ended      == {"lifted", "expired", "breached"}
Places == {"begin", "fire", "cover", "insert", "find", "judge", "breach",
           "count", "write", "settle", "closeLock", "closeIncident",
           "closeCovered", "commit", "done", "failed"}

Owner == Sessions \union {None}
Row(S) == [val : S, new : S, owner : Owner]

TypeOK ==
    /\ lockRow \in [Passes -> Row(LockStates)]
    /\ incident \in [Passes -> [val : Outcomes, new : Outcomes, owner : Owner,
                                cover : Passes \union {None}]]
    /\ review \in [Passes -> Row(BOOLEAN)]
    /\ breach \in [val : BOOLEAN, new : BOOLEAN, owner : Owner,
                   lock : Passes \union {None}]
    /\ over \in BOOLEAN
    /\ session \in [Sessions -> [at : Places, lock : Passes \union {None},
                                 late : BOOLEAN, outcome : Outcomes,
                                 end : LockStates]]

Init ==
    /\ lockRow = [p \in Passes |-> [val |-> "none", new |-> "none", owner |-> None]]
    /\ incident = [p \in Passes |-> [val |-> "none", new |-> "none",
                                     owner |-> None, cover |-> None]]
    /\ review = [p \in Passes |-> [val |-> FALSE, new |-> FALSE, owner |-> None]]
    /\ breach = [val |-> FALSE, new |-> FALSE, owner |-> None, lock |-> None]
    /\ over = FALSE
    /\ session = [s \in Sessions |-> [at |-> "begin", lock |-> None, late |-> FALSE,
                                      outcome |-> "none", end |-> "none"]]

----------------------------------------------------------------------------
(* The database *)

\* What a statement of s reads: its own write, else the committed value.
Seen(row, s) == IF row.owner = s THEN row.new ELSE row.val

Free(row, s) == row.owner \in {None, s}

Written(row, s, value) == [row EXCEPT !.new = value, !.owner = s]

\* Mutant: migration 0009 without its triggers.
FreezesNothing(row, s, undecided, value) == FALSE

\* The triggers: a decided outcome, or a lock that has ended, does not change.
Freezes(row, s, undecided, value) ==
    Seen(row, s) # undecided /\ Seen(row, s) # value

Go(s, place) == session' = [session EXCEPT ![s].at = place]

RunningFor(s) == {p \in Passes : Seen(lockRow[p], s) = "active"}

Committed(row, s) == IF row.owner = s THEN [row EXCEPT !.val = row.new, !.owner = None]
                     ELSE row
RolledBack(row, s) == IF row.owner = s THEN [row EXCEPT !.new = row.val, !.owner = None]
                      ELSE row

\* The transaction of s is undone: an error, or a victim of a deadlock.
Fail(s) ==
    /\ lockRow' = [p \in Passes |-> RolledBack(lockRow[p], s)]
    /\ incident' = [p \in Passes |-> RolledBack(incident[p], s)]
    /\ review' = [p \in Passes |-> RolledBack(review[p], s)]
    /\ breach' = RolledBack(breach, s)
    /\ Go(s, "failed")
    /\ UNCHANGED over

Commit(s) ==
    /\ session[s].at = "commit"
    /\ lockRow' = [p \in Passes |-> Committed(lockRow[p], s)]
    /\ incident' = [p \in Passes |-> Committed(incident[p], s)]
    /\ review' = [p \in Passes |-> Committed(review[p], s)]
    /\ breach' = Committed(breach, s)
    /\ Go(s, "done")
    /\ UNCHANGED over

----------------------------------------------------------------------------
(* The start of a lock: open_from_firing, _start_lock *)

\* The handler takes its own now once, at its start.
Begin(s) ==
    /\ session[s].at = "begin"
    /\ session' = [session EXCEPT ![s].at = IF s \in Firing THEN "fire" ELSE "find",
                                  ![s].late = over]
    /\ UNCHANGED <<lockRow, incident, review, breach, over>>

\* active_lock, before the incident is written.
LookForRunning(s) ==
    /\ session[s].at = "fire"
    /\ IF RunningFor(s) = {} THEN Go(s, "insert")
       ELSE \E p \in RunningFor(s) :
              session' = [session EXCEPT ![s].at = "cover", ![s].lock = p]
    /\ UNCHANGED <<lockRow, incident, review, breach, over>>

InsertCovered(s) ==
    /\ session[s].at = "cover"
    /\ incident' = [incident EXCEPT ![s] =
         [val |-> "none", new |-> "open", owner |-> s, cover |-> session[s].lock]]
    /\ Go(s, "find")
    /\ UNCHANGED <<lockRow, review, breach, over>>

\* The rows the index one_active_lock holds, or may come to hold.
Contended == {p \in Passes : "active" \in {lockRow[p].val, lockRow[p].new}}

\* Mutant: no index one_active_lock, only the check made before.
InsertLockUnindexed(s) ==
    /\ session[s].at = "insert"
    /\ incident' = [incident EXCEPT ![s] =
         [val |-> "none", new |-> "open", owner |-> s, cover |-> None]]
    /\ lockRow' = [lockRow EXCEPT ![s] = Written(@, s, "active")]
    /\ Go(s, "find")
    /\ UNCHANGED <<review, breach, over>>

\* The index waits for a session that has an active lock in its hands, and
\* then lets the insert through or fails it.
InsertLock(s) ==
    /\ session[s].at = "insert"
    /\ \A p \in Contended : lockRow[p].owner = None
    /\ IF \E p \in Passes : lockRow[p].val = "active"
       THEN Fail(s)
       ELSE /\ incident' = [incident EXCEPT ![s] =
                 [val |-> "none", new |-> "open", owner |-> s, cover |-> None]]
            /\ lockRow' = [lockRow EXCEPT ![s] = Written(@, s, "active")]
            /\ Go(s, "find")
            /\ UNCHANGED <<review, breach, over>>

----------------------------------------------------------------------------
(* Compliance and settlement: refresh_lock, record_breach, settle, _finish *)

\* A request that finds no active lock, or a review already written, answers
\* and changes nothing.
Subjects(s) == {p \in RunningFor(s) : s \in Reviews => ~Seen(review[p], s)}

Find(s) ==
    /\ session[s].at = "find"
    /\ IF Subjects(s) = {} THEN Go(s, "commit")
       ELSE \E p \in Subjects(s) :
              session' = [session EXCEPT
                  ![s].lock = p,
                  ![s].at = CASE s \in Passes  -> "judge"
                              [] s \in Reviews -> "write"
                              [] s \in Readers -> "settle"]
    /\ UNCHANGED <<lockRow, incident, review, breach, over>>

Judge(s) ==
    /\ session[s].at = "judge"
    /\ Go(s, IF s \notin Seeing THEN "settle"
             ELSE IF Seen(incident[session[s].lock], s) = "open" THEN "breach"
             ELSE "count")
    /\ UNCHANGED <<lockRow, incident, review, breach, over>>

RecordBreach(s) ==
    LET p == session[s].lock
    IN  /\ session[s].at = "breach"
        /\ Free(incident[p], s)
        /\ IF Freezes(incident[p], s, "open", "breached") THEN Fail(s)
           ELSE /\ incident' = [incident EXCEPT ![p] = Written(@, s, "breached")]
                /\ Go(s, "count")
                /\ UNCHANGED <<lockRow, review, breach, over>>

\* SR-2: the journal's unique key lets one session claim the trade.
CountBreach(s) ==
    /\ session[s].at = "count"
    /\ Free(breach, s)
    /\ breach' = IF Seen(breach, s) THEN breach
                 ELSE [val |-> FALSE, new |-> TRUE, owner |-> s,
                       lock |-> session[s].lock]
    /\ Go(s, "settle")
    /\ UNCHANGED <<lockRow, incident, review, over>>

WriteReview(s) ==
    LET p == session[s].lock
    IN  /\ session[s].at = "write"
        /\ Free(review[p], s)
        /\ IF Seen(review[p], s) THEN Fail(s)
           ELSE /\ review' = [review EXCEPT ![p] = Written(@, s, TRUE)]
                /\ Go(s, "settle")
                /\ UNCHANGED <<lockRow, incident, breach, over>>

\* Mutant: the settlement looks at the review before it was flushed.
SettleUnflushed(s) ==
    LET p == session[s].lock
        outcome == Seen(incident[p], s)
    IN  /\ session[s].at = "settle"
        /\ IF session[s].late \/ review[p].val
           THEN session' = [session EXCEPT
                  ![s].at = "closeLock",
                  ![s].outcome = outcome,
                  ![s].end = IF outcome = "breached" THEN "breached"
                             ELSE IF session[s].late THEN "expired" ELSE "lifted"]
           ELSE Go(s, "commit")
        /\ UNCHANGED <<lockRow, incident, review, breach, over>>

\* settle trusts the lock row it was given; what it reads anew is the review
\* and the incident.
Settle(s) ==
    LET p == session[s].lock
        outcome == Seen(incident[p], s)
    IN  /\ session[s].at = "settle"
        /\ IF session[s].late \/ Seen(review[p], s)
           THEN session' = [session EXCEPT
                  ![s].at = "closeLock",
                  ![s].outcome = outcome,
                  ![s].end = IF outcome = "breached" THEN "breached"
                             ELSE IF session[s].late THEN "expired" ELSE "lifted"]
           ELSE Go(s, "commit")
        /\ UNCHANGED <<lockRow, incident, review, breach, over>>

CloseLock(s) ==
    LET p == session[s].lock
        value == session[s].end
    IN  /\ session[s].at = "closeLock"
        /\ Free(lockRow[p], s)
        /\ IF Freezes(lockRow[p], s, "active", value) THEN Fail(s)
           ELSE /\ lockRow' = [lockRow EXCEPT ![p] = Written(@, s, value)]
                /\ Go(s, IF session[s].outcome = "open" THEN "closeIncident"
                         ELSE "closeCovered")
                /\ UNCHANGED <<incident, review, breach, over>>

CloseIncident(s) ==
    LET p == session[s].lock
    IN  /\ session[s].at = "closeIncident"
        /\ Free(incident[p], s)
        /\ IF Freezes(incident[p], s, "open", "kept") THEN Fail(s)
           ELSE /\ incident' = [incident EXCEPT ![p] = Written(@, s, "kept")]
                /\ session' = [session EXCEPT ![s].at = "closeCovered",
                                              ![s].outcome = "kept"]
                /\ UNCHANGED <<lockRow, review, breach, over>>

CoveredFor(s) == {q \in Passes : /\ incident[q].cover = session[s].lock
                                 /\ Seen(incident[q], s) = "open"}

CloseCovered(s) ==
    /\ session[s].at = "closeCovered"
    /\ \A q \in CoveredFor(s) : Free(incident[q], s)
    /\ incident' = [q \in Passes |->
         IF q \in CoveredFor(s) THEN Written(incident[q], s, session[s].outcome)
         ELSE incident[q]]
    /\ Go(s, "commit")
    /\ UNCHANGED <<lockRow, review, breach, over>>

----------------------------------------------------------------------------
(* Deadlocks *)

\* The sessions that own a row the next statement of s writes.
Blockers(s) ==
    LET p == session[s].lock
    IN  CASE session[s].at \in {"breach", "closeIncident"} -> {incident[p].owner}
          [] session[s].at = "closeLock" -> {lockRow[p].owner}
          [] session[s].at = "count" -> {breach.owner}
          [] session[s].at = "write" -> {review[p].owner}
          [] session[s].at = "insert" ->
               {lockRow[q].owner : q \in Contended}
          [] session[s].at = "closeCovered" ->
               {incident[q].owner : q \in CoveredFor(s)}
          [] OTHER -> {}

WaitsFor(s, u) == u \in Blockers(s) \ {s, None}

\* The database looks for sessions that wait for each other and fails one.
ResolveDeadlock(s) ==
    /\ \E u, v \in Sessions : /\ WaitsFor(s, u)
                              /\ WaitsFor(u, s) \/ (WaitsFor(u, v) /\ WaitsFor(v, s))
    /\ Fail(s)

EndOfDay ==
    /\ ~over
    /\ over' = TRUE
    /\ UNCHANGED <<lockRow, incident, review, breach, session>>

Progress(s) ==
    \/ LookForRunning(s) \/ InsertCovered(s) \/ InsertLock(s)
    \/ Find(s) \/ Judge(s) \/ RecordBreach(s) \/ CountBreach(s)
    \/ WriteReview(s) \/ Settle(s)
    \/ CloseLock(s) \/ CloseIncident(s) \/ CloseCovered(s)
    \/ Commit(s)
    \/ ResolveDeadlock(s)

Next == EndOfDay \/ \E s \in Sessions : Begin(s) \/ Progress(s)

Spec == Init /\ [][Next]_vars

----------------------------------------------------------------------------
(* Properties *)

\* Whatever sessions meet, committed state has at most one active lock.
OneActiveLock ==
    \A p, q \in Passes :
        lockRow[p].val = "active" /\ lockRow[q].val = "active" => p = q

\* In committed state a lock and its incident tell one verdict, although they
\* are written by different statements of sessions that do not see each other.
VerdictsAgree ==
    \A p \in Passes :
        /\ lockRow[p].val = "active" => incident[p].val \in {"open", "breached"}
        /\ lockRow[p].val = "breached" => incident[p].val = "breached"
        /\ lockRow[p].val \in {"lifted", "expired"} => incident[p].val = "kept"

\* A review that was taken has ended its lock, and no lock is lifted without
\* one, although the review, the lock and the verdict are rows of their own,
\* and a pass or a reader may settle the same lock meanwhile.
ReviewEndsItsLock ==
    \A p \in Passes :
        /\ review[p].val => lockRow[p].val \in Ended
        /\ lockRow[p].val = "lifted" => review[p].val

=============================================================================
