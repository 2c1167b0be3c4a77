------------------------------- MODULE Outbox -------------------------------
(***************************************************************************)
(* The event bus (platform/bus.py): writers publish into events.outbox in  *)
(* their own transactions, one consumer (a name with one cursor) is run by *)
(* several processes at once.                                              *)
(*                                                                         *)
(* An id is taken from the sequence when the row is inserted and becomes   *)
(* visible when the writer commits, so ids may appear out of order.  The   *)
(* handler works in a session of its own: what it did stays, whatever      *)
(* becomes of the transaction that holds the cursor.                       *)
(***************************************************************************)
EXTENDS Integers, FiniteSets

CONSTANTS
    Writers,        \* transactions, each publishing one event
    Keys, KeyOf,    \* dedup key of a writer's event
    Wanted,         \* writers whose event has a type the consumer takes
    Workers,        \* processes running the consumer
    Batch,          \* BATCH: rows taken in one step
    LastId,         \* bound: ids the sequence may hand out
    MaxCrashes      \* bound: crashes of a worker

EventIds == 1..LastId

ASSUME OutboxAssumption ==
    /\ IsFiniteSet(Writers)
    /\ KeyOf \in [Writers -> Keys]
    /\ Wanted \subseteq Writers
    /\ Batch \in Nat \ {0}
    /\ LastId \in Nat
    /\ MaxCrashes \in Nat

VARIABLES
    seq,        \* last id the sequence handed out
    writer,     \* Writers -> transaction: its state and the id of its row
    cursor,     \* events.cursors.last_id
    handled,    \* Writers -> times the handler committed its effect
    dead,       \* Writers -> rows in events.dead_letters
    worker,     \* Workers -> the step under way
    crashes

vars == <<seq, writer, cursor, handled, dead, worker, crashes>>

\* id 0: no row, because nothing was published yet or the key was taken.
WriterRow == [state : {"idle", "open", "committed", "aborted"},
              id : 0..LastId]

\* last is the id up to which the worker went, upto the end of its batch;
\* failed are the ids it will leave in dead_letters.
WorkerRow == [phase : {"idle", "locked", "handling"}, last : 0..LastId,
              rows : SUBSET EventIds, failed : SUBSET EventIds]

Idle == [phase |-> "idle", last |-> 0, rows |-> {}, failed |-> {}]

TypeOK ==
    /\ seq \in 0..LastId
    /\ writer \in [Writers -> WriterRow]
    /\ cursor \in 0..LastId
    /\ handled \in [Writers -> Nat]
    /\ dead \in [Writers -> Nat]
    /\ worker \in [Workers -> WorkerRow]
    /\ crashes \in 0..MaxCrashes

Init ==
    /\ seq = 0
    /\ writer = [t \in Writers |-> [state |-> "idle", id |-> 0]]
    /\ cursor = 0
    /\ handled = [t \in Writers |-> 0]
    /\ dead = [t \in Writers |-> 0]
    /\ worker = [w \in Workers |-> Idle]
    /\ crashes = 0

----------------------------------------------------------------------------
(* Writers *)

HasRow(t)  == writer[t].id # 0 /\ writer[t].state \in {"open", "committed"}
Visible(t) == writer[t].id # 0 /\ writer[t].state = "committed"
VisibleIds == {writer[t].id : t \in {u \in Writers : Visible(u)}}

\* Mutant: the dedup key is not unique.
PublishAgain(t) ==
    /\ writer[t].state = "idle"
    /\ seq < LastId
    /\ seq' = seq + 1
    /\ writer' = [writer EXCEPT ![t] = [state |-> "open", id |-> seq + 1]]
    /\ UNCHANGED <<cursor, handled, dead, worker, crashes>>

\* INSERT ... ON CONFLICT (dedup_key) DO NOTHING.  The id is burnt in either
\* case.  A row of the same key in an open transaction makes the insert wait.
Publish(t) ==
    /\ writer[t].state = "idle"
    /\ seq < LastId
    /\ seq' = seq + 1
    /\ \A u \in Writers : KeyOf[u] = KeyOf[t] /\ HasRow(u) => Visible(u)
    /\ writer' = [writer EXCEPT ![t] =
         [state |-> "open",
          id |-> IF \E u \in Writers : KeyOf[u] = KeyOf[t] /\ Visible(u)
                 THEN 0 ELSE seq + 1]]
    /\ UNCHANGED <<cursor, handled, dead, worker, crashes>>

EndWriter(t, state) ==
    /\ writer[t].state = "open"
    /\ writer' = [writer EXCEPT ![t].state = state]
    /\ UNCHANGED <<seq, cursor, handled, dead, worker, crashes>>

CommitWriter(t) == EndWriter(t, "committed")
AbortWriter(t)  == EndWriter(t, "aborted")

----------------------------------------------------------------------------
(* One step of the consumer *)

\* Mutant: the cursor is read without FOR UPDATE.
LockCursorShared(w) ==
    /\ worker[w].phase = "idle"
    /\ worker' = [worker EXCEPT ![w] =
         [phase |-> "locked", last |-> cursor, rows |-> {}, failed |-> {}]]
    /\ UNCHANGED <<seq, writer, cursor, handled, dead, crashes>>

\* SELECT last_id ... FOR UPDATE SKIP LOCKED: a process that finds the cursor
\* taken goes home.
LockCursor(w) ==
    /\ worker[w].phase = "idle"
    /\ \A v \in Workers : worker[v].phase = "idle"
    /\ worker' = [worker EXCEPT ![w] =
         [phase |-> "locked", last |-> cursor, rows |-> {}, failed |-> {}]]
    /\ UNCHANGED <<seq, writer, cursor, handled, dead, crashes>>

\* The first Batch visible rows above the cursor.
Unread(last) == {i \in VisibleIds : i > last}
BatchOf(last) ==
    {i \in Unread(last) : Cardinality({j \in Unread(last) : j < i}) < Batch}

ReadRows(w) ==
    /\ worker[w].phase = "locked"
    /\ worker' = [worker EXCEPT ![w].phase = "handling",
                                ![w].rows = BatchOf(worker[w].last)]
    /\ UNCHANGED <<seq, writer, cursor, handled, dead, crashes>>

\* The next row of the batch.  A row of another type is passed over; a
\* handler either commits its effect or fails into dead_letters.
IsNext(w, t) ==
    /\ worker[w].phase = "handling"
    /\ writer[t].id \in worker[w].rows
    /\ \A i \in worker[w].rows : writer[t].id <= i

Advance(w, t, failed) ==
    worker' = [worker EXCEPT ![w].last = writer[t].id,
                             ![w].rows = @ \ {writer[t].id},
                             ![w].failed = @ \union failed]

Handle(w, t) ==
    /\ IsNext(w, t)
    /\ t \in Wanted
    /\ handled' = [handled EXCEPT ![t] = @ + 1]
    /\ Advance(w, t, {})
    /\ UNCHANGED <<seq, writer, cursor, dead, crashes>>

\* Mutant: a failed row is skipped and written nowhere.
FailSilently(w, t) ==
    /\ IsNext(w, t)
    /\ t \in Wanted
    /\ Advance(w, t, {})
    /\ UNCHANGED <<seq, writer, cursor, handled, dead, crashes>>

\* Mutant: a failed row ends the step, to be tried again.
FailAndRetry(w, t) ==
    /\ IsNext(w, t)
    /\ t \in Wanted
    /\ worker' = [worker EXCEPT ![w] = Idle]
    /\ UNCHANGED <<seq, writer, cursor, handled, dead, crashes>>

Fail(w, t) ==
    /\ IsNext(w, t)
    /\ t \in Wanted
    /\ Advance(w, t, {writer[t].id})
    /\ UNCHANGED <<seq, writer, cursor, handled, dead, crashes>>

PassOver(w, t) ==
    /\ IsNext(w, t)
    /\ t \notin Wanted
    /\ Advance(w, t, {})
    /\ UNCHANGED <<seq, writer, cursor, handled, dead, crashes>>

\* UPDATE cursors and COMMIT: cursor and dead letters appear together.
CommitStep(w) ==
    /\ worker[w].phase = "handling"
    /\ worker[w].rows = {}
    /\ cursor' = worker[w].last
    /\ dead' = [t \in Writers |->
         IF writer[t].id \in worker[w].failed THEN dead[t] + 1 ELSE dead[t]]
    /\ worker' = [worker EXCEPT ![w] = Idle]
    /\ UNCHANGED <<seq, writer, handled, crashes>>

\* The process dies, or its database session does: the cursor is released
\* where it was and its dead letters are gone; the handlers' effects stay.
Crash(w) ==
    /\ crashes < MaxCrashes
    /\ worker[w].phase # "idle"
    /\ crashes' = crashes + 1
    /\ worker' = [worker EXCEPT ![w] = Idle]
    /\ UNCHANGED <<seq, writer, cursor, handled, dead>>

WorkerStep(w) ==
    \/ LockCursor(w)
    \/ ReadRows(w)
    \/ \E t \in Writers : Handle(w, t) \/ Fail(w, t) \/ PassOver(w, t)
    \/ CommitStep(w)

Next ==
    \/ \E t \in Writers : Publish(t) \/ CommitWriter(t) \/ AbortWriter(t)
    \/ \E w \in Workers : WorkerStep(w) \/ Crash(w)

Spec == Init /\ [][Next]_vars

(***************************************************************************)
(* Writers that commit in the order of their ids.  Nothing in the code     *)
(* makes them: the condition names what delivery rests on.                 *)
(***************************************************************************)
CommitsInOrder ==
    \A t, u \in Writers :
        /\ writer[t].state = "open" /\ writer'[t].state = "committed"
        /\ writer[u].state = "open" /\ writer[u].id # 0
        => writer[t].id <= writer[u].id

OrderedSpec == Init /\ [][Next /\ CommitsInOrder]_vars

\* The loop of Consumer.run goes on in some process, also after an exception.
FairOrderedSpec == OrderedSpec /\ WF_vars(\E w \in Workers : WorkerStep(w))

----------------------------------------------------------------------------
(* Properties *)

Settled(t) == handled[t] > 0 \/ dead[t] > 0

\* bus.py: "доставка «хотя бы один раз»" -- an event the consumer takes
\* is not left behind by the cursor without having been handled or set aside.
\* The code keeps this only while writers commit in the order of their ids.
AtLeastOnce ==
    \A t \in Wanted : Visible(t) /\ writer[t].id <= cursor => Settled(t)

\* Two processes do not repeat each other's work: an event is handled more
\* than once only if a step crashed between the handler and the cursor.
RepeatsNeedCrashes == \A t \in Writers : handled[t] <= 1 + crashes

\* A dedup key is published once, however its writers interleave.
OneEventPerKey ==
    \A t, u \in Writers :
        Visible(t) /\ Visible(u) /\ KeyOf[t] = KeyOf[u] => t = u

\* Every event the consumer takes is dealt with in the end.
Delivered == \A t \in Wanted : Visible(t) ~> Settled(t)
=============================================================================
