---------------------------- MODULE OutboxProofs -----------------------------
(***************************************************************************)
(* What the event bus guarantees for any number of writers, keys, workers, *)
(* crashes and any size of the batch.                                      *)
(***************************************************************************)
EXTENDS Outbox, FiniteSetTheorems, TLAPS

Busy(w) == worker[w].phase # "idle"

\* Ids are drawn once, from a sequence that only grows.
IdsDrawn ==
    /\ \A t \in Writers : writer[t].id <= seq
    /\ \A t \in Writers : writer[t].state = "idle" => writer[t].id = 0
    /\ \A t, u \in Writers :
           writer[t].id # 0 /\ writer[t].id = writer[u].id => t = u

\* One worker holds the cursor; it has not passed the rows it is still to
\* handle, and they are visible.
CursorHeld ==
    /\ \A v, w \in Workers : Busy(v) /\ Busy(w) => v = w
    /\ \A w \in Workers :
         /\ Busy(w) => cursor <= worker[w].last
         /\ worker[w].phase # "handling" => worker[w].rows = {}
         /\ worker[w].rows \subseteq VisibleIds
         /\ \A i \in worker[w].rows : worker[w].last < i

TypeInv == TypeOK /\ IdsDrawn /\ CursorHeld

LEMMA TypeInit == Init => TypeInv
  BY OutboxAssumption
  DEF Init, TypeInv, TypeOK, WriterRow, WorkerRow, Idle, EventIds, IdsDrawn,
      CursorHeld, Busy

\* A row that is visible stays visible under its id.
LEMMA VisibleStays ==
    ASSUME TypeInv,
           NEW t \in Writers, writer'[t] = writer[t]
    PROVE  Visible(t)' <=> Visible(t)
  BY DEF Visible

LEMMA SameWriters ==
    ASSUME UNCHANGED writer
    PROVE  VisibleIds' = VisibleIds
  BY DEF VisibleIds, Visible

LEMMA PublishTypes ==
    ASSUME TypeInv, NEW t \in Writers, Publish(t)
    PROVE  TypeInv'
<1>1. /\ writer \in [Writers -> WriterRow] /\ seq \in 0..LastId /\ LastId \in Nat
      /\ writer[t].state = "idle" /\ seq < LastId /\ seq' = seq + 1
      /\ UNCHANGED <<cursor, handled, dead, worker, crashes>>
  BY OutboxAssumption DEF TypeInv, TypeOK, Publish
<1>2. PICK id \in {0, seq + 1} :
        writer' = [writer EXCEPT ![t] = [state |-> "open", id |-> id]]
  BY DEF Publish
<1>3. [state |-> "open", id |-> id] \in WriterRow
  BY <1>1 DEF WriterRow
<1>4. /\ writer'[t].id = id /\ writer'[t].state = "open"
      /\ \A u \in Writers : u # t => writer'[u] = writer[u]
  BY <1>1, <1>2
<1>5. TypeOK'
  BY <1>1, <1>2, <1>3 DEF TypeInv, TypeOK
<1>6. IdsDrawn'
  <2>1. \A u \in Writers : writer[u].id \in 0..seq
    BY <1>1 DEF TypeInv, IdsDrawn, WriterRow
  <2> QED
    BY <1>1, <1>4, <2>1 DEF TypeInv, IdsDrawn
<1>7. VisibleIds \subseteq VisibleIds'
  <2>1. \A u \in Writers : Visible(u) => u # t
    BY <1>1 DEF Visible
  <2> QED
    BY <1>4, <2>1 DEF VisibleIds, Visible
<1>8. CursorHeld'
  BY <1>1, <1>7 DEF TypeInv, CursorHeld, Busy
<1> QED
  BY <1>5, <1>6, <1>8 DEF TypeInv

LEMMA EndTypes ==
    ASSUME TypeInv, NEW t \in Writers, CommitWriter(t) \/ AbortWriter(t)
    PROVE  TypeInv'
<1>1. PICK state \in {"committed", "aborted"} :
        writer' = [writer EXCEPT ![t].state = state]
  BY DEF CommitWriter, AbortWriter, EndWriter
<1>2. /\ writer \in [Writers -> WriterRow]
      /\ writer[t].state = "open"
      /\ UNCHANGED <<seq, cursor, handled, dead, worker, crashes>>
  BY DEF TypeInv, TypeOK, CommitWriter, AbortWriter, EndWriter
<1>3. /\ writer' \in [Writers -> WriterRow]
      /\ writer'[t].state = state
      /\ \A u \in Writers : writer'[u].id = writer[u].id
      /\ \A u \in Writers : u # t => writer'[u] = writer[u]
  BY <1>1, <1>2 DEF WriterRow
<1>4. VisibleIds \subseteq VisibleIds'
  <2>1. \A u \in Writers : Visible(u) => u # t
    BY <1>2 DEF Visible
  <2> QED
    BY <1>3, <2>1 DEF VisibleIds, Visible
<1>5. TypeOK' /\ IdsDrawn'
  BY <1>2, <1>3 DEF TypeInv, TypeOK, IdsDrawn
<1>6. CursorHeld'
  BY <1>2, <1>4 DEF TypeInv, CursorHeld, Busy
<1> QED
  BY <1>5, <1>6 DEF TypeInv

\* The next row of a batch is beyond the place the worker has come to.
LEMMA NextRow ==
    ASSUME TypeInv, NEW w \in Workers, NEW t \in Writers, IsNext(w, t)
    PROVE  /\ writer[t].id \in EventIds
           /\ writer[t].id > worker[w].last
           /\ cursor <= worker[w].last
           /\ worker[w] \in WorkerRow
           /\ worker[w].last \in Nat /\ cursor \in Nat
           /\ Visible(t)
<1>1. /\ worker[w] \in WorkerRow /\ worker[w].phase = "handling"
      /\ writer[t].id \in worker[w].rows
      /\ worker[w].rows \subseteq VisibleIds
  BY DEF IsNext, TypeInv, TypeOK, CursorHeld
<1>2. PICK u \in Writers : Visible(u) /\ writer[u].id = writer[t].id
  BY <1>1 DEF VisibleIds
<1>3. u = t
  BY <1>2 DEF TypeInv, IdsDrawn, Visible
<1> QED
  BY <1>1, <1>2, <1>3 DEF TypeInv, TypeOK, CursorHeld, Busy, WorkerRow, EventIds

LEMMA AdvanceTypes ==
    ASSUME TypeInv, NEW w \in Workers, NEW t \in Writers, IsNext(w, t),
           NEW failed, failed \subseteq {writer[t].id}, Advance(w, t, failed),
           UNCHANGED <<seq, writer, cursor, crashes>>,
           handled' \in [Writers -> Nat], dead' \in [Writers -> Nat]
    PROVE  TypeInv'
<1>1. /\ writer[t].id \in EventIds /\ writer[t].id > worker[w].last
      /\ cursor <= worker[w].last /\ worker[w] \in WorkerRow
      /\ worker[w].last \in Nat /\ cursor \in Nat
      /\ worker \in [Workers -> WorkerRow]
  BY NextRow DEF TypeInv, TypeOK
<1>2. worker[w].phase = "handling" /\ \A i \in worker[w].rows : writer[t].id <= i
  BY DEF IsNext
<1>3. /\ writer[t].id \in 0..LastId
      /\ worker[w].rows \ {writer[t].id} \in SUBSET EventIds
      /\ worker[w].failed \union failed \in SUBSET EventIds
  BY <1>1 DEF WorkerRow, EventIds
<1>4. /\ worker' \in [Workers -> WorkerRow]
      /\ worker'[w].phase = worker[w].phase
      /\ worker'[w].last = writer[t].id
      /\ worker'[w].rows = worker[w].rows \ {writer[t].id}
      /\ \A v \in Workers : v # w => worker'[v] = worker[v]
  BY <1>1, <1>3 DEF Advance, WorkerRow
<1>5. \A v \in Workers : Busy(v)' <=> Busy(v)
  BY <1>4 DEF Busy
<1>6. \A i \in worker'[w].rows : worker'[w].last < i
  <2>1. ASSUME NEW i \in worker[w].rows, i # writer[t].id
        PROVE  writer[t].id < i
    <3>1. i \in Nat /\ writer[t].id \in Nat
      BY <1>1 DEF WorkerRow, EventIds
    <3> QED
      BY <1>2, <2>1, <3>1
  <2> QED
    BY <1>4, <2>1
<1>7. cursor <= writer[t].id
  BY <1>1 DEF EventIds
<1>8. CursorHeld'
  <2>1. /\ \A v \in Workers : v # w =>
            /\ Busy(v) => cursor <= worker[v].last
            /\ worker[v].phase # "handling" => worker[v].rows = {}
            /\ worker[v].rows \subseteq VisibleIds
            /\ \A i \in worker[v].rows : worker[v].last < i
        /\ worker[w].rows \subseteq VisibleIds
        /\ \A u, v \in Workers : Busy(u) /\ Busy(v) => u = v
    BY DEF TypeInv, CursorHeld
  <2> QED
    BY <1>2, <1>4, <1>5, <1>6, <1>7, <2>1, SameWriters DEF CursorHeld
<1>9. TypeOK' /\ IdsDrawn'
  BY <1>4 DEF TypeInv, TypeOK, IdsDrawn
<1> QED
  BY <1>8, <1>9 DEF TypeInv

LEMMA BatchIsUnread ==
    ASSUME NEW last \in Nat
    PROVE  BatchOf(last) \subseteq VisibleIds /\ \A i \in BatchOf(last) : last < i
  BY DEF BatchOf, Unread

LEMMA WorkerTypes ==
    ASSUME TypeInv, NEW w \in Workers, WorkerStep(w) \/ Crash(w)
    PROVE  TypeInv'
<1>0. /\ worker \in [Workers -> WorkerRow] /\ cursor \in 0..LastId
      /\ LastId \in Nat
      /\ handled \in [Writers -> Nat] /\ dead \in [Writers -> Nat]
      /\ worker[w].last \in 0..LastId
      /\ VisibleIds \subseteq EventIds
  <2>1. VisibleIds \subseteq EventIds
    BY OutboxAssumption
    DEF TypeInv, TypeOK, VisibleIds, Visible, WriterRow, EventIds
  <2> QED
    BY <2>1, OutboxAssumption DEF TypeInv, TypeOK, WorkerRow
<1>1. CASE LockCursor(w)
  <2>1. /\ worker' = [worker EXCEPT ![w] = [phase |-> "locked", last |-> cursor,
                                            rows |-> {}, failed |-> {}]]
        /\ \A v \in Workers : worker[v].phase = "idle"
        /\ UNCHANGED <<seq, writer, cursor, handled, dead, crashes>>
    BY <1>1 DEF LockCursor
  <2>2. worker' \in [Workers -> WorkerRow]
    BY <1>0, <2>1 DEF WorkerRow
  <2>3. CursorHeld'
    BY <1>0, <2>1, SameWriters DEF TypeInv, CursorHeld, Busy
  <2> QED
    BY <2>1, <2>2, <2>3 DEF TypeInv, TypeOK, IdsDrawn
<1>2. CASE ReadRows(w)
  <2>1. PICK batch : batch = BatchOf(worker[w].last)
    OBVIOUS
  <2>2. /\ worker' = [worker EXCEPT ![w].phase = "handling", ![w].rows = batch]
        /\ worker[w].phase = "locked"
        /\ UNCHANGED <<seq, writer, cursor, handled, dead, crashes>>
    BY <1>2, <2>1 DEF ReadRows
  <2>3. /\ batch \subseteq VisibleIds /\ batch \subseteq EventIds
        /\ \A i \in batch : worker[w].last < i
    BY <1>0, <2>1, BatchIsUnread
  <2>4. /\ worker' \in [Workers -> WorkerRow]
        /\ worker'[w].phase = "handling" /\ worker'[w].rows = batch
        /\ worker'[w].last = worker[w].last
        /\ \A v \in Workers : v # w => worker'[v] = worker[v]
    BY <1>0, <2>2, <2>3 DEF WorkerRow
  <2>5. CursorHeld'
    BY <2>2, <2>3, <2>4, SameWriters DEF TypeInv, CursorHeld, Busy
  <2> QED
    BY <2>2, <2>4, <2>5 DEF TypeInv, TypeOK, IdsDrawn
<1>3. ASSUME NEW t \in Writers, Handle(w, t) \/ Fail(w, t) \/ PassOver(w, t)
      PROVE  TypeInv'
  <2>1. /\ IsNext(w, t)
        /\ UNCHANGED <<seq, writer, cursor, dead, crashes>>
        /\ handled' \in [Writers -> Nat]
    BY <1>0, <1>3 DEF Handle, Fail, PassOver
  <2>2. PICK failed \in SUBSET {writer[t].id} : Advance(w, t, failed)
    BY <1>3 DEF Handle, Fail, PassOver
  <2> QED
    BY <1>0, <2>1, <2>2, AdvanceTypes
<1>4. CASE CommitStep(w)
  <2>1. /\ worker' = [worker EXCEPT ![w] = Idle]
        /\ cursor' = worker[w].last
        /\ dead' = [t \in Writers |-> IF writer[t].id \in worker[w].failed
                                      THEN dead[t] + 1 ELSE dead[t]]
        /\ worker[w].phase = "handling"
        /\ UNCHANGED <<seq, writer, handled, crashes>>
    BY <1>4 DEF CommitStep
  <2>2. worker' \in [Workers -> WorkerRow] /\ dead' \in [Writers -> Nat]
    BY <1>0, <2>1 DEF WorkerRow, Idle
  <2>3. /\ worker'[w] = Idle
        /\ \A v \in Workers : v # w => worker'[v] = worker[v] /\ ~Busy(v)
    BY <1>0, <2>1 DEF TypeInv, CursorHeld, Busy
  <2>4. CursorHeld'
    BY <2>1, <2>3, SameWriters DEF TypeInv, CursorHeld, Busy, Idle
  <2> QED
    BY <1>0, <2>1, <2>2, <2>4 DEF TypeInv, TypeOK, IdsDrawn
<1>5. CASE Crash(w)
  <2>1. /\ worker' = [worker EXCEPT ![w] = Idle]
        /\ crashes < MaxCrashes /\ crashes' = crashes + 1
        /\ UNCHANGED <<seq, writer, cursor, handled, dead>>
    BY <1>5 DEF Crash
  <2>2. worker' \in [Workers -> WorkerRow]
    BY <1>0, <2>1 DEF WorkerRow, Idle
  <2>3. /\ worker'[w] = Idle
        /\ \A v \in Workers : v # w => worker'[v] = worker[v]
    BY <1>0, <2>1
  <2>4. CursorHeld'
    BY <2>1, <2>3, SameWriters DEF TypeInv, CursorHeld, Busy, Idle
  <2> QED
    BY <2>1, <2>2, <2>4, OutboxAssumption DEF TypeInv, TypeOK, IdsDrawn
<1> QED
  BY <1>1, <1>2, <1>3, <1>4, <1>5 DEF WorkerStep

LEMMA TypeStep == TypeInv /\ [Next]_vars => TypeInv'
<1> SUFFICES ASSUME TypeInv, [Next]_vars PROVE TypeInv'
  OBVIOUS
<1>1. CASE UNCHANGED vars
  BY <1>1, SameWriters DEF vars, TypeInv, TypeOK, IdsDrawn, CursorHeld, Busy
<1> QED
  BY <1>1, PublishTypes, EndTypes, WorkerTypes DEF Next

LEMMA Typed == Spec => []TypeInv
  BY TypeInit, TypeStep, PTL DEF Spec

\* The sequence, the rows, the cursor and the workers keep their types.
THEOREM TypeCorrect == Spec => []TypeOK
<1>1. TypeInv => TypeOK
  BY DEF TypeInv
<1> QED
  BY Typed, <1>1, PTL

----------------------------------------------------------------------------
(* One event for a key *)

\* The unique index holds for open rows too: the second insert waits.
OneRowPerKey ==
    \A t, u \in Writers :
        HasRow(t) /\ HasRow(u) /\ KeyOf[t] = KeyOf[u] => t = u

LEMMA KeyStep ==
    ASSUME TypeInv, OneRowPerKey, [Next]_vars
    PROVE  OneRowPerKey'
<1>0. writer \in [Writers -> WriterRow]
  BY DEF TypeInv, TypeOK
<1>1. CASE UNCHANGED writer
  BY <1>1 DEF OneRowPerKey, HasRow
<1>2. ASSUME NEW t \in Writers, Publish(t)
      PROVE  OneRowPerKey'
  <2>1. /\ \A u \in Writers : u # t => writer'[u] = writer[u]
        /\ \A u \in Writers : KeyOf[u] = KeyOf[t] /\ HasRow(u) => Visible(u)
        /\ (\E u \in Writers : KeyOf[u] = KeyOf[t] /\ Visible(u))
               => writer'[t].id = 0
    BY <1>0, <1>2 DEF Publish
  <2>2. ASSUME HasRow(t)', NEW u \in Writers, u # t, HasRow(u)'
        PROVE  KeyOf[u] # KeyOf[t]
    BY <2>1, <2>2 DEF HasRow
  <2>3. \A u \in Writers : u # t => (HasRow(u)' <=> HasRow(u))
    BY <2>1 DEF HasRow
  <2> QED
    BY <2>2, <2>3 DEF OneRowPerKey
<1>3. ASSUME NEW t \in Writers, CommitWriter(t) \/ AbortWriter(t)
      PROVE  OneRowPerKey'
  <2>1. \A u \in Writers : HasRow(u)' => HasRow(u)
    <3>1. PICK state \in {"committed", "aborted"} :
            writer[t].state = "open" /\ writer' = [writer EXCEPT ![t].state = state]
      BY <1>3 DEF CommitWriter, AbortWriter, EndWriter
    <3> QED
      BY <1>0, <3>1 DEF HasRow, WriterRow
  <2> QED
    BY <2>1 DEF OneRowPerKey
<1>4. ASSUME NEW w \in Workers, WorkerStep(w) \/ Crash(w)
      PROVE  UNCHANGED writer
  BY <1>4 DEF WorkerStep, LockCursor, ReadRows, Handle, Fail, PassOver,
              CommitStep, Crash
<1> QED
  BY <1>1, <1>2, <1>3, <1>4 DEF Next, vars

\* A dedup key is published once, for any number of writers.
THEOREM KeysArePublishedOnce == Spec => []OneEventPerKey
<1>1. Init => OneRowPerKey
  BY DEF Init, OneRowPerKey, HasRow
<1>2. TypeInv /\ OneRowPerKey /\ [Next]_vars => OneRowPerKey'
  BY KeyStep
<1>3. OneRowPerKey => OneEventPerKey
  BY DEF OneRowPerKey, OneEventPerKey, HasRow, Visible
<1> QED
  BY Typed, <1>1, <1>2, <1>3, PTL DEF Spec

----------------------------------------------------------------------------
(* Repeats *)

\* The cursor, or the worker that holds it, has gone past the row.
Passed(t) ==
    /\ writer[t].id # 0
    /\ \/ writer[t].id <= cursor
       \/ \E w \in Workers : Busy(w) /\ writer[t].id <= worker[w].last

\* A row nobody is past was handled only by workers that crashed.
Repeats ==
    \A t \in Writers :
        /\ handled[t] <= 1 + crashes
        /\ ~Passed(t) => handled[t] <= crashes

\* What is past stays past unless a worker crashes: the steps that handle
\* nothing.
LEMMA NothingHandled ==
    ASSUME TypeInv, Repeats, UNCHANGED <<handled, crashes>>,
           \A t \in Writers : Passed(t) => Passed(t)'
    PROVE  Repeats'
  BY DEF Repeats

LEMMA RepeatsStep ==
    ASSUME TypeInv, Repeats, [Next]_vars
    PROVE  Repeats'
<1>0. /\ writer \in [Writers -> WriterRow] /\ worker \in [Workers -> WorkerRow]
      /\ handled \in [Writers -> Nat] /\ crashes \in Nat /\ cursor \in Nat
      /\ \A u, v \in Workers : Busy(u) /\ Busy(v) => u = v
  BY OutboxAssumption DEF TypeInv, TypeOK, CursorHeld
<1>1. CASE UNCHANGED <<writer, cursor, worker, handled, crashes>>
  BY <1>1 DEF Repeats, Passed, Busy
<1>2. ASSUME NEW t \in Writers, Publish(t) \/ CommitWriter(t) \/ AbortWriter(t)
      PROVE  Repeats'
  <2>1. /\ UNCHANGED <<cursor, worker, handled, crashes>>
        /\ \A u \in Writers : writer[u].id # 0 => writer'[u].id = writer[u].id
    <3>1. CASE Publish(t)
      BY <1>0, <3>1 DEF Publish, TypeInv, IdsDrawn
    <3>2. CASE CommitWriter(t) \/ AbortWriter(t)
      BY <1>0, <3>2 DEF CommitWriter, AbortWriter, EndWriter, WriterRow
    <3> QED
      BY <1>2, <3>1, <3>2
  <2> QED
    BY <2>1, NothingHandled DEF Passed, Busy
<1>3. ASSUME NEW w \in Workers, LockCursor(w) \/ ReadRows(w) \/ CommitStep(w)
      PROVE  Repeats'
  <2>1. UNCHANGED <<writer, handled, crashes>>
    BY <1>3 DEF LockCursor, ReadRows, CommitStep
  <2>2. CASE LockCursor(w)
    <3>1. \A v \in Workers : ~Busy(v)
      BY <2>2 DEF LockCursor, Busy
    <3>2. UNCHANGED cursor
      BY <2>2 DEF LockCursor
    <3> QED
      BY <2>1, <3>1, <3>2, NothingHandled DEF Passed
  <2>3. CASE ReadRows(w)
    <3>1. /\ \A v \in Workers : Busy(v) => Busy(v)'
          /\ \A v \in Workers : worker'[v].last = worker[v].last
          /\ UNCHANGED cursor
      <4>1. PICK batch :
              worker' = [worker EXCEPT ![w].phase = "handling", ![w].rows = batch]
        BY <2>3 DEF ReadRows
      <4> QED
        BY <1>0, <2>3, <4>1 DEF ReadRows, Busy, WorkerRow
    <3> QED
      BY <2>1, <3>1, NothingHandled DEF Passed
  <2>4. CASE CommitStep(w)
    <3>1. /\ Busy(w) /\ cursor' = worker[w].last
          /\ \A v \in Workers : Busy(v) => v = w
      BY <1>0, <2>4 DEF CommitStep, Busy
    <3>2. cursor <= cursor'
      BY <3>1 DEF TypeInv, CursorHeld
    <3>3. ASSUME NEW t \in Writers, Passed(t)
          PROVE  writer[t].id # 0 /\ writer[t].id <= cursor'
      <4>1. writer[t].id \in Nat /\ cursor' \in Nat
        BY <1>0, <3>1 DEF WriterRow, WorkerRow
      <4> QED
        BY <1>0, <3>1, <3>2, <3>3, <4>1 DEF Passed
    <3> QED
      BY <2>1, <3>3, NothingHandled DEF Passed
  <2> QED
    BY <1>3, <2>2, <2>3, <2>4
<1>4. ASSUME NEW w \in Workers, NEW t \in Writers,
             Handle(w, t) \/ Fail(w, t) \/ PassOver(w, t)
      PROVE  Repeats'
  <2>1. /\ IsNext(w, t) /\ Busy(w)
        /\ UNCHANGED <<writer, cursor, crashes>>
        /\ handled' = handled \/ handled' = [handled EXCEPT ![t] = @ + 1]
    BY <1>4 DEF Handle, Fail, PassOver, IsNext, Busy
  <2>2. /\ writer[t].id \in EventIds /\ writer[t].id > worker[w].last
        /\ cursor <= worker[w].last
        /\ worker[w].last \in Nat
    BY <2>1, NextRow
  <2>3. /\ worker'[w].last = writer[t].id
        /\ \A v \in Workers : Busy(v)' <=> Busy(v)
        /\ \A v \in Workers : v # w => worker'[v] = worker[v]
    BY <1>0, <1>4 DEF Handle, Fail, PassOver, Advance, Busy, WorkerRow
  <2>4. ~Passed(t)
    <3>1. \A v \in Workers : Busy(v) => v = w
      BY <1>0, <2>1
    <3> QED
      BY <1>0, <2>2, <3>1 DEF Passed, EventIds
  <2>5. handled[t] <= crashes
    BY <2>4 DEF Repeats
  <2>6. Passed(t)'
    BY <2>1, <2>2, <2>3 DEF Passed, EventIds
  <2>7. ASSUME NEW u \in Writers, Passed(u) PROVE Passed(u)'
    <3>1. worker[w].last <= worker'[w].last /\ worker'[w].last \in Nat
      BY <2>2, <2>3 DEF EventIds
    <3>2. writer[u].id \in Nat
      BY <1>0 DEF WriterRow
    <3> QED
      BY <1>0, <2>1, <2>2, <2>3, <2>7, <3>1, <3>2 DEF Passed
  <2>8. handled'[t] <= 1 + crashes /\ \A u \in Writers : u # t => handled'[u] = handled[u]
    BY <1>0, <2>1, <2>5 DEF Repeats
  <2> QED
    BY <2>1, <2>6, <2>7, <2>8 DEF Repeats
<1>5. ASSUME NEW w \in Workers, Crash(w)
      PROVE  Repeats'
  <2>1. crashes' = crashes + 1 /\ handled' = handled
    BY <1>5 DEF Crash
  <2> QED
    BY <1>0, <2>1 DEF Repeats
<1> QED
  BY <1>1, <1>2, <1>3, <1>4, <1>5 DEF Next, WorkerStep, vars

\* Whatever workers share the cursor, an event is handled at most once more
\* than workers have crashed.
THEOREM RepeatsAreCrashes == Spec => []RepeatsNeedCrashes
<1>1. Init => Repeats
  BY DEF Init, Repeats
<1>2. TypeInv /\ Repeats /\ [Next]_vars => Repeats'
  BY RepeatsStep
<1>3. Repeats => RepeatsNeedCrashes
  BY DEF Repeats, RepeatsNeedCrashes
<1> QED
  BY Typed, <1>1, <1>2, <1>3, PTL DEF Spec

----------------------------------------------------------------------------
(* Delivery, while writers commit in the order of their ids *)

HasOpenRow(t) == writer[t].state = "open" /\ writer[t].id # 0

\* Every open row is above everything visible, above the cursor and above
\* the place a worker has come to.
OpenRowsAreAhead ==
    /\ \A t, u \in Writers :
           Visible(t) /\ HasOpenRow(u) => writer[t].id < writer[u].id
    /\ \A u \in Writers : HasOpenRow(u) => cursor < writer[u].id
    /\ \A u \in Writers, w \in Workers :
           HasOpenRow(u) /\ Busy(w) => worker[w].last < writer[u].id
    /\ cursor <= seq
    /\ \A w \in Workers : Busy(w) => worker[w].last <= seq

\* The rows of a batch come before everything else that is unread.
BatchIsFirst ==
    \A w \in Workers, t \in Writers :
        /\ worker[w].phase = "handling"
        /\ Visible(t)
        /\ worker[w].last < writer[t].id
        /\ writer[t].id \notin worker[w].rows
        => \A i \in worker[w].rows : i < writer[t].id

\* What a worker is past is dealt with, or among the rows it will set aside.
PassedIsDealtWith ==
    \A w \in Workers, t \in Wanted :
        Busy(w) /\ Visible(t) /\ writer[t].id <= worker[w].last =>
            Settled(t) \/ writer[t].id \in worker[w].failed

Delivery ==
    OpenRowsAreAhead /\ BatchIsFirst /\ PassedIsDealtWith /\ AtLeastOnce

\* The batch is cut from the front of what is unread.
LEMMA BatchIsCutInFront ==
    ASSUME NEW last \in Nat, VisibleIds \subseteq EventIds,
           NEW i \in VisibleIds, i > last, i \notin BatchOf(last),
           NEW j \in BatchOf(last)
    PROVE  j < i
<1>1. i \in Unread(last) /\ j \in Unread(last) /\ i \in Nat /\ j \in Nat
  BY DEF BatchOf, Unread, EventIds
<1>2. SUFFICES ASSUME i <= j PROVE FALSE
  BY <1>1
<1>3. PICK before : before = {k \in Unread(last) : k < i}
  OBVIOUS
<1>4. PICK ahead : ahead = {k \in Unread(last) : k < j}
  OBVIOUS
<1>5. Cardinality(ahead) < Batch /\ ~(Cardinality(before) < Batch)
  BY <1>1, <1>3, <1>4 DEF BatchOf
<1>6. IsFiniteSet(EventIds)
  BY FS_Interval, OutboxAssumption DEF EventIds
<1>7. ahead \subseteq EventIds /\ before \subseteq ahead
  <2>1. Unread(last) \subseteq EventIds
    BY DEF Unread
  <2>2. ASSUME NEW k \in before PROVE k \in ahead
    <3>1. k \in Unread(last) /\ k < i
      BY <1>3
    <3>2. k \in Nat
      BY <2>1, <3>1 DEF EventIds
    <3>3. k < j
      BY <1>1, <1>2, <3>1, <3>2
    <3> QED
      BY <1>4, <3>1, <3>3
  <2>3. ahead \subseteq EventIds
    BY <1>4, <2>1
  <2> QED
    BY <2>2, <2>3
<1>8. IsFiniteSet(ahead)
  BY <1>6, <1>7, FS_Subset
<1>9. Cardinality(before) <= Cardinality(ahead)
  BY <1>7, <1>8, FS_Subset
<1>10. Cardinality(before) \in Nat /\ Cardinality(ahead) \in Nat
  BY <1>7, <1>8, FS_Subset, FS_CardinalityType
<1> QED
  BY <1>5, <1>9, <1>10, OutboxAssumption

LEMMA RowsAreNumbered ==
    ASSUME TypeInv
    PROVE  /\ VisibleIds \subseteq EventIds
           /\ \A t \in Writers : writer[t].id \in Nat /\ writer[t].id <= seq
           /\ \A t \in Writers : Visible(t) => writer[t].id \in VisibleIds
           /\ \A w \in Workers : worker[w].last \in Nat
           /\ seq \in Nat /\ cursor \in Nat
           /\ Wanted \subseteq Writers
  BY OutboxAssumption
  DEF TypeInv, TypeOK, IdsDrawn, VisibleIds, Visible, WriterRow, WorkerRow, EventIds

\* A new row is above everything that was drawn before.
LEMMA PublishDelivers ==
    ASSUME TypeInv, Delivery, NEW t \in Writers, Publish(t)
    PROVE  Delivery'
<1>1. /\ writer \in [Writers -> WriterRow] /\ seq' = seq + 1
      /\ writer[t].state = "idle"
      /\ UNCHANGED <<cursor, handled, dead, worker, crashes>>
  BY DEF TypeInv, TypeOK, Publish
<1>2. /\ writer'[t].state = "open" /\ writer'[t].id \in {0, seq + 1}
      /\ \A u \in Writers : u # t => writer'[u] = writer[u]
  BY <1>1 DEF Publish
<1>3. /\ \A u \in Writers : Visible(u)' <=> Visible(u)
      /\ \A u \in Writers : Visible(u) => u # t
      /\ \A u \in Writers : HasOpenRow(u)' =>
             \/ HasOpenRow(u) /\ u # t
             \/ u = t /\ writer'[u].id = seq + 1
  BY <1>1, <1>2 DEF Visible, HasOpenRow
<1>4. OpenRowsAreAhead'
  BY <1>1, <1>2, <1>3, RowsAreNumbered DEF Delivery, OpenRowsAreAhead, Busy
<1>5. BatchIsFirst' /\ PassedIsDealtWith' /\ AtLeastOnce'
  BY <1>1, <1>2, <1>3, RowsAreNumbered
  DEF Delivery, BatchIsFirst, PassedIsDealtWith, AtLeastOnce, Settled, Busy
<1> QED
  BY <1>4, <1>5 DEF Delivery

\* A row that becomes visible is above what is visible, so nobody is past it.
LEMMA CommitDelivers ==
    ASSUME TypeInv, Delivery, NEW t \in Writers, CommitWriter(t), CommitsInOrder
    PROVE  Delivery'
<1>1. /\ writer \in [Writers -> WriterRow]
      /\ writer[t].state = "open"
      /\ writer' = [writer EXCEPT ![t].state = "committed"]
      /\ UNCHANGED <<seq, cursor, handled, dead, worker, crashes>>
  BY DEF TypeInv, TypeOK, CommitWriter, EndWriter
<1>2. /\ writer'[t].state = "committed"
      /\ \A u \in Writers : writer'[u].id = writer[u].id
      /\ \A u \in Writers : u # t => writer'[u] = writer[u]
  BY <1>1 DEF WriterRow
<1>3. /\ \A u \in Writers : Visible(u)' =>
             \/ Visible(u)
             \/ u = t /\ HasOpenRow(t)
      /\ \A u \in Writers : HasOpenRow(u)' => HasOpenRow(u) /\ u # t
  BY <1>1, <1>2 DEF Visible, HasOpenRow
<1>4. ASSUME NEW u \in Writers, HasOpenRow(u), u # t, HasOpenRow(t)
      PROVE  writer[t].id < writer[u].id
  <2>1. writer[t].id <= writer[u].id
    BY <1>1, <1>2, <1>4 DEF CommitsInOrder, HasOpenRow
  <2>2. writer[t].id # writer[u].id
    BY <1>4 DEF TypeInv, IdsDrawn, HasOpenRow
  <2> QED
    BY <2>1, <2>2, RowsAreNumbered
<1>5. OpenRowsAreAhead'
  BY <1>1, <1>2, <1>3, <1>4 DEF Delivery, OpenRowsAreAhead, Busy
<1>6. BatchIsFirst'
  <2>1. ASSUME NEW w \in Workers, HasOpenRow(t), NEW i \in worker[w].rows
        PROVE  i < writer[t].id
    <3>1. PICK u \in Writers : Visible(u) /\ writer[u].id = i
      BY <2>1 DEF TypeInv, CursorHeld, VisibleIds
    <3> QED
      BY <2>1, <3>1 DEF Delivery, OpenRowsAreAhead
  <2> QED
    BY <1>1, <1>2, <1>3, <2>1 DEF Delivery, BatchIsFirst
<1>7. PassedIsDealtWith' /\ AtLeastOnce'
  BY <1>1, <1>2, <1>3, RowsAreNumbered
  DEF Delivery, OpenRowsAreAhead, PassedIsDealtWith, AtLeastOnce, Settled, Busy
<1> QED
  BY <1>5, <1>6, <1>7 DEF Delivery

LEMMA AbortDelivers ==
    ASSUME TypeInv, Delivery, NEW t \in Writers, AbortWriter(t)
    PROVE  Delivery'
<1>1. /\ writer \in [Writers -> WriterRow]
      /\ writer[t].state = "open"
      /\ writer' = [writer EXCEPT ![t].state = "aborted"]
      /\ UNCHANGED <<seq, cursor, handled, dead, worker, crashes>>
  BY DEF TypeInv, TypeOK, AbortWriter, EndWriter
<1>2. /\ \A u \in Writers : writer'[u].id = writer[u].id
      /\ \A u \in Writers : Visible(u)' => Visible(u)
      /\ \A u \in Writers : HasOpenRow(u)' => HasOpenRow(u)
  BY <1>1 DEF WriterRow, Visible, HasOpenRow
<1> QED
  BY <1>1, <1>2, RowsAreNumbered
  DEF Delivery, OpenRowsAreAhead, BatchIsFirst, PassedIsDealtWith, AtLeastOnce,
      Settled, Busy

\* A worker that takes a batch, handles a row of it or dies.
LEMMA HandlingDelivers ==
    ASSUME TypeInv, Delivery, NEW w \in Workers, NEW t \in Writers,
           Handle(w, t) \/ Fail(w, t) \/ PassOver(w, t)
    PROVE  Delivery'
<1>0. /\ worker \in [Workers -> WorkerRow] /\ handled \in [Writers -> Nat]
      /\ \A u, v \in Workers : Busy(u) /\ Busy(v) => u = v
  BY DEF TypeInv, TypeOK, CursorHeld
<1>1. /\ IsNext(w, t) /\ Busy(w) /\ worker[w].phase = "handling"
      /\ writer[t].id \in worker[w].rows
      /\ \A i \in worker[w].rows : writer[t].id <= i
      /\ UNCHANGED <<seq, writer, cursor, dead, crashes>>
  BY DEF Handle, Fail, PassOver, IsNext, Busy
<1>2. /\ writer[t].id > worker[w].last
      /\ Visible(t)
      /\ \A i \in worker[w].rows : i \in Nat
  BY <1>0, <1>1, NextRow DEF WorkerRow, EventIds
<1>3. PICK failed \in SUBSET {writer[t].id} :
        /\ Advance(w, t, failed)
        /\ t \in Wanted => handled'[t] > 0 \/ writer[t].id \in failed
        /\ \A u \in Writers : handled[u] > 0 => handled'[u] > 0
  BY <1>0 DEF Handle, Fail, PassOver
<1>4. /\ worker'[w].last = writer[t].id
      /\ worker'[w].phase = "handling"
      /\ worker'[w].rows = worker[w].rows \ {writer[t].id}
      /\ worker'[w].failed = worker[w].failed \union failed
      /\ \A v \in Workers : v # w => worker'[v] = worker[v]
  BY <1>0, <1>1, <1>3 DEF Advance, WorkerRow
<1>5. \A v \in Workers : (Busy(v)' <=> Busy(v)) /\ (Busy(v) => v = w)
  BY <1>0, <1>1, <1>4 DEF Busy
<1>6. /\ \A u \in Writers : Visible(u)' <=> Visible(u)
      /\ \A u \in Writers : HasOpenRow(u)' <=> HasOpenRow(u)
      /\ \A u \in Writers : Settled(u) => Settled(u)'
  BY <1>0, <1>1, <1>3 DEF Visible, HasOpenRow, Settled, TypeInv, TypeOK
<1>7. OpenRowsAreAhead'
  BY <1>1, <1>2, <1>4, <1>5, <1>6, RowsAreNumbered DEF Delivery, OpenRowsAreAhead
<1>8. BatchIsFirst'
  <2>1. ASSUME NEW u \in Writers, Visible(u), writer[t].id < writer[u].id,
               writer[u].id \notin worker'[w].rows,
               NEW i \in worker'[w].rows
        PROVE  i < writer[u].id
    <3>1. worker[w].last < writer[u].id /\ writer[u].id \notin worker[w].rows
      BY <1>2, <1>4, <2>1, RowsAreNumbered
    <3> QED
      BY <1>1, <1>4, <2>1, <3>1 DEF Delivery, BatchIsFirst
  <2>2. \A v \in Workers : v # w => worker'[v].phase # "handling"
    BY <1>4, <1>5 DEF Busy
  <2> QED
    BY <1>1, <1>4, <1>6, <2>1, <2>2 DEF BatchIsFirst
<1>9. PassedIsDealtWith'
  <2>1. ASSUME NEW u \in Wanted, Visible(u), writer[u].id <= writer[t].id
        PROVE  Settled(u)' \/ writer[u].id \in worker'[w].failed
    <3>1. u \in Writers
      BY <2>1, RowsAreNumbered
    <3>2. CASE writer[u].id <= worker[w].last
      BY <1>1, <1>4, <1>6, <2>1, <3>1, <3>2 DEF Delivery, PassedIsDealtWith
    <3>3. CASE ~(writer[u].id <= worker[w].last)
      <4>1. writer[u].id \in worker[w].rows
        <5>1. SUFFICES ASSUME writer[u].id \notin worker[w].rows PROVE FALSE
          OBVIOUS
        <5>2. worker[w].last < writer[u].id
          BY <3>1, <3>3, RowsAreNumbered
        <5>3. writer[t].id < writer[u].id
          BY <1>1, <2>1, <3>1, <5>1, <5>2 DEF Delivery, BatchIsFirst
        <5> QED
          BY <2>1, <3>1, <5>3, RowsAreNumbered
      <4>2. writer[u].id = writer[t].id
        BY <1>1, <2>1, <3>1, <4>1, RowsAreNumbered
      <4>3. u = t
        BY <2>1, <3>1, <4>2 DEF TypeInv, IdsDrawn, Visible
      <4> QED
        BY <1>3, <1>4, <2>1, <4>3 DEF Settled
    <3> QED
      BY <3>2, <3>3
  <2> QED
    BY <1>1, <1>4, <1>5, <1>6, <2>1, RowsAreNumbered DEF PassedIsDealtWith
<1>10. AtLeastOnce'
  BY <1>1, <1>6, RowsAreNumbered DEF Delivery, AtLeastOnce
<1> QED
  BY <1>7, <1>8, <1>9, <1>10 DEF Delivery

LEMMA CursorDelivers ==
    ASSUME TypeInv, Delivery, NEW w \in Workers,
           LockCursor(w) \/ ReadRows(w) \/ CommitStep(w) \/ Crash(w)
    PROVE  Delivery'
<1>0. /\ worker \in [Workers -> WorkerRow] /\ dead \in [Writers -> Nat]
      /\ \A u, v \in Workers : Busy(u) /\ Busy(v) => u = v
      /\ UNCHANGED <<seq, writer, handled>>
  BY DEF TypeInv, TypeOK, CursorHeld, LockCursor, ReadRows, CommitStep, Crash
<1>1. /\ \A u \in Writers : Visible(u)' <=> Visible(u)
      /\ \A u \in Writers : HasOpenRow(u)' <=> HasOpenRow(u)
  BY <1>0 DEF Visible, HasOpenRow
<1>2. CASE LockCursor(w)
  <2>1. /\ \A v \in Workers : ~Busy(v)
        /\ worker'[w].last = cursor /\ worker'[w].phase = "locked"
        /\ \A v \in Workers : v # w => worker'[v] = worker[v]
        /\ UNCHANGED <<cursor, dead>>
    BY <1>0, <1>2 DEF LockCursor, Busy
  <2>2. \A v \in Workers : Busy(v)' => v = w
    BY <2>1 DEF Busy
  <2>3. \A v \in Workers : worker'[v].phase # "handling"
    BY <2>1 DEF Busy
  <2>4. OpenRowsAreAhead'
    BY <1>0, <1>1, <2>1, <2>2 DEF Delivery, OpenRowsAreAhead
  <2>5. PassedIsDealtWith' /\ AtLeastOnce'
    BY <1>0, <1>1, <2>1, <2>2, RowsAreNumbered
    DEF Delivery, PassedIsDealtWith, AtLeastOnce, Settled
  <2> QED
    BY <2>3, <2>4, <2>5 DEF Delivery, BatchIsFirst
<1>3. CASE ReadRows(w)
  <2>1. PICK batch : batch = BatchOf(worker[w].last)
    OBVIOUS
  <2>2. /\ worker[w].phase = "locked"
        /\ worker' = [worker EXCEPT ![w].phase = "handling", ![w].rows = batch]
        /\ UNCHANGED <<cursor, dead>>
    BY <1>3, <2>1 DEF ReadRows
  <2>3. /\ worker'[w].last = worker[w].last
        /\ worker'[w].failed = worker[w].failed
        /\ worker'[w].phase = "handling" /\ worker'[w].rows = batch
        /\ \A v \in Workers : v # w => worker'[v] = worker[v]
    BY <1>0, <2>2 DEF WorkerRow
  <2>4. \A v \in Workers : Busy(v)' <=> Busy(v)
    BY <2>2, <2>3 DEF Busy
  <2>5. OpenRowsAreAhead' /\ PassedIsDealtWith' /\ AtLeastOnce'
    BY <1>0, <1>1, <2>2, <2>3, <2>4, RowsAreNumbered
    DEF Delivery, OpenRowsAreAhead, PassedIsDealtWith, AtLeastOnce, Settled
  <2>6. BatchIsFirst'
    <3>1. ASSUME NEW u \in Writers, Visible(u), worker[w].last < writer[u].id,
                 writer[u].id \notin batch, NEW i \in batch
          PROVE  i < writer[u].id
      BY <2>1, <3>1, BatchIsCutInFront, RowsAreNumbered
    <3>2. \A v \in Workers : v # w => worker'[v].phase # "handling"
      BY <1>0, <2>2, <2>3 DEF Busy
    <3> QED
      BY <1>0, <1>1, <2>3, <3>1, <3>2 DEF BatchIsFirst
  <2> QED
    BY <2>5, <2>6 DEF Delivery
<1>4. CASE CommitStep(w)
  <2>1. /\ Busy(w) /\ cursor' = worker[w].last
        /\ worker'[w] = Idle
        /\ \A v \in Workers : v # w => worker'[v] = worker[v] /\ ~Busy(v)
        /\ \A t \in Writers :
               /\ dead[t] > 0 => dead'[t] > 0
               /\ writer[t].id \in worker[w].failed => dead'[t] > 0
    BY <1>0, <1>4 DEF CommitStep, Busy
  <2>2. \A v \in Workers : ~Busy(v)' /\ worker'[v].phase # "handling"
    BY <2>1 DEF Busy, Idle
  <2>3. OpenRowsAreAhead'
    BY <1>0, <1>1, <2>1, <2>2 DEF Delivery, OpenRowsAreAhead
  <2>4. AtLeastOnce'
    BY <1>0, <1>1, <2>1, RowsAreNumbered
    DEF Delivery, PassedIsDealtWith, AtLeastOnce, Settled
  <2> QED
    BY <2>2, <2>3, <2>4 DEF Delivery, BatchIsFirst, PassedIsDealtWith
<1>5. CASE Crash(w)
  <2>1. /\ worker'[w] = Idle
        /\ \A v \in Workers : v # w => worker'[v] = worker[v]
        /\ UNCHANGED <<cursor, dead>>
    BY <1>0, <1>5 DEF Crash
  <2>2. \A v \in Workers : /\ Busy(v)' => v # w /\ Busy(v)
                           /\ worker'[v].phase = "handling" => v # w
    BY <2>1 DEF Busy, Idle
  <2>3. OpenRowsAreAhead'
    BY <1>0, <1>1, <2>1, <2>2 DEF Delivery, OpenRowsAreAhead
  <2>4. BatchIsFirst'
    BY <1>0, <1>1, <2>1, <2>2 DEF Delivery, BatchIsFirst
  <2>5. PassedIsDealtWith' /\ AtLeastOnce'
    BY <1>0, <1>1, <2>1, <2>2, RowsAreNumbered
    DEF Delivery, PassedIsDealtWith, AtLeastOnce, Settled
  <2> QED
    BY <2>3, <2>4, <2>5 DEF Delivery
<1> QED
  BY <1>2, <1>3, <1>4, <1>5

LEMMA DeliveryStep ==
    ASSUME TypeInv, Delivery, [Next /\ CommitsInOrder]_vars
    PROVE  Delivery'
<1>1. CASE UNCHANGED vars
  BY <1>1 DEF vars, Delivery, OpenRowsAreAhead, BatchIsFirst, PassedIsDealtWith,
              AtLeastOnce, Visible, HasOpenRow, Busy, Settled
<1> QED
  BY <1>1, PublishDelivers, CommitDelivers, AbortDelivers, HandlingDelivers,
     CursorDelivers
  DEF Next, WorkerStep

\* While writers commit in the order of their ids, the cursor leaves no event
\* behind that was neither handled nor set aside, whatever crashes.
THEOREM OrderedIsDelivered == OrderedSpec => []AtLeastOnce
<1>1. Init => TypeInv /\ Delivery
  <2>1. Init => Delivery
    BY OutboxAssumption
    DEF Init, Delivery, OpenRowsAreAhead, BatchIsFirst, PassedIsDealtWith,
        AtLeastOnce, Visible, HasOpenRow, Busy, Idle
  <2> QED
    BY <2>1, TypeInit
<1>2. TypeInv /\ Delivery /\ [Next /\ CommitsInOrder]_vars
        => TypeInv' /\ Delivery'
  BY TypeStep, DeliveryStep
<1>3. Delivery => AtLeastOnce
  BY DEF Delivery
<1> QED
  BY <1>1, <1>2, <1>3, PTL DEF OrderedSpec
=============================================================================
