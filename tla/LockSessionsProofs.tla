------------------------- MODULE LockSessionsProofs --------------------------
(***************************************************************************)
(* What the lock tables keep for any number of passes, reviews and readers *)
(* that work under READ COMMITTED.                                         *)
(*                                                                         *)
(* The argument is about what one session sees.  A session that writes the *)
(* rows of a lock sees them agree, but between its two writes of a close;  *)
(* the others see what is committed.  What is decided does not change, so  *)
(* a commit puts in place a pair that agrees.                              *)
(***************************************************************************)
EXTENDS LockSessions, TLAPS

SessionRow == [at : Places, lock : Passes \union {None}, late : BOOLEAN,
               outcome : Outcomes, end : LockStates]

IncidentRow == [val : Outcomes, new : Outcomes, owner : Owner,
                cover : Passes \union {None}]

RowsTyped ==
    /\ over \in BOOLEAN
    /\ session \in [Sessions -> SessionRow]
    /\ lockRow \in [Passes -> Row(LockStates)]
    /\ incident \in [Passes -> IncidentRow]

\* A row without an owner holds what is committed; what is committed and
\* decided is not written over; a lock that is not yet committed is in the
\* hands of its own pass, with its incident; a covered incident has no lock.
RowInOrder(p) ==
    /\ lockRow[p].owner = None => lockRow[p].new = lockRow[p].val
    /\ incident[p].owner = None => incident[p].new = incident[p].val
    /\ lockRow[p].val \in Ended => lockRow[p].new = lockRow[p].val
    /\ lockRow[p].val = "active" => lockRow[p].new # "none"
    /\ incident[p].val \in {"kept", "breached"} => incident[p].new = incident[p].val
    /\ incident[p].val = "open" => incident[p].new # "none"
    /\ lockRow[p].val = "none" /\ lockRow[p].new # "none" =>
         lockRow[p].owner = p /\ incident[p].owner = p /\ incident[p].val = "none"
    /\ incident[p].cover # None => lockRow[p].val = "none" /\ lockRow[p].new = "none"

\* Nothing is there before the pass inserts it.
NotInserted(p) ==
    /\ lockRow[p] = [val |-> "none", new |-> "none", owner |-> None]
    /\ incident[p].val = "none" /\ incident[p].owner = None
    /\ incident[p].cover = None

Unborn(p) == session[p].at \in {"begin", "fire", "cover", "insert"} => NotInserted(p)

Agree(state, outcome) ==
    /\ state = "active" => outcome \in {"open", "breached"}
    /\ state = "breached" => outcome = "breached"
    /\ state \in {"lifted", "expired"} => outcome = "kept"

HalfClosed(s, p) == session[s].at = "closeIncident" /\ session[s].lock = p

\* What a session sees of a lock and its incident.
View(s, p) ==
    /\ HalfClosed(s, p) =>
         lockRow[p].owner = s /\ lockRow[p].new \in {"lifted", "expired"}
    /\ ~HalfClosed(s, p) => Agree(Seen(lockRow[p], s), Seen(incident[p], s))

\* What a session has read is still what it sees.
Knows(s) ==
    /\ session[s].at \in {"fire", "cover", "insert"} => s \in Passes
    /\ session[s].at = "cover" => session[s].lock \in Passes
    /\ session[s].at \in {"judge", "breach", "count", "write", "settle",
                          "closeLock", "closeIncident", "closeCovered"} =>
         /\ session[s].lock \in Passes
         /\ Seen(lockRow[session[s].lock], s) # "none"
         /\ Seen(incident[session[s].lock], s) # "none"
    /\ session[s].at = "closeLock" =>
         /\ session[s].end \in Ended
         /\ session[s].outcome # "none"
         /\ session[s].end = "breached" <=> session[s].outcome = "breached"
         /\ session[s].outcome \in {"kept", "breached"} =>
              Seen(incident[session[s].lock], s) = session[s].outcome
    /\ session[s].at = "closeCovered" => session[s].outcome \in {"kept", "breached"}

OneContended == \A p, q \in Contended : p = q

Consistent ==
    /\ RowsTyped
    /\ \A p \in Passes : RowInOrder(p) /\ Unborn(p)
    /\ \A s \in Sessions : Knows(s) /\ \A p \in Passes : View(s, p)
    /\ OneContended
    /\ VerdictsAgree

----------------------------------------------------------------------------
(* A step of one session *)

\* s writes only rows nobody else has in hand, and nothing committed.
WritesOwn(s) ==
    /\ \A u \in Sessions : u # s => session'[u] = session[u]
    /\ \A p \in Passes :
         /\ \/ lockRow'[p] = lockRow[p]
            \/ /\ Free(lockRow[p], s)
               /\ lockRow'[p].owner = s
               /\ lockRow'[p].val = lockRow[p].val
         /\ \/ incident'[p] = incident[p]
            \/ /\ Free(incident[p], s)
               /\ incident'[p].owner = s
               /\ incident'[p].val = incident[p].val

\* The other sessions, and what is committed, do not notice.
LEMMA OthersUndisturbed ==
    ASSUME Consistent, NEW s \in Sessions, WritesOwn(s)
    PROVE  /\ \A u \in Sessions : u # s => Knows(u)' /\ \A p \in Passes : View(u, p)'
           /\ VerdictsAgree'
<1>1. None \notin Sessions
  BY SessionAssumption
<1>2. \A p \in Passes : /\ lockRow'[p].val = lockRow[p].val
                        /\ incident'[p].val = incident[p].val
  BY DEF WritesOwn
<1>3. VerdictsAgree'
  BY <1>2 DEF Consistent, VerdictsAgree
<1>4. ASSUME NEW u \in Sessions, u # s, NEW p \in Passes
      PROVE  /\ Seen(lockRow'[p], u) = Seen(lockRow[p], u)
             /\ Seen(incident'[p], u) = Seen(incident[p], u)
             /\ lockRow[p].owner = u => lockRow'[p] = lockRow[p]
  BY <1>1, <1>4 DEF WritesOwn, Free, Seen
<1>5. ASSUME NEW u \in Sessions, u # s
      PROVE  Knows(u)' /\ \A p \in Passes : View(u, p)'
  <2>1. session'[u] = session[u] /\ Knows(u) /\ \A p \in Passes : View(u, p)
    BY <1>5 DEF WritesOwn, Consistent
  <2>2. Knows(u)'
    <3>1. ASSUME session[u].lock \in Passes
          PROVE  /\ Seen(lockRow'[session[u].lock], u) = Seen(lockRow[session[u].lock], u)
                 /\ Seen(incident'[session[u].lock], u) = Seen(incident[session[u].lock], u)
      BY <1>4, <1>5, <3>1
    <3> QED
      BY <2>1, <3>1 DEF Knows
  <2>3. ASSUME NEW p \in Passes PROVE View(u, p)'
    BY <1>4, <1>5, <2>1 DEF View, HalfClosed
  <2> QED
    BY <2>2, <2>3
<1> QED
  BY <1>3, <1>5

\* A step that moves s and writes no lock and no incident.
LEMMA NoRowWritten ==
    ASSUME Consistent, NEW s \in Sessions, UNCHANGED <<lockRow, incident, over>>,
           session' \in [Sessions -> SessionRow],
           \A u \in Sessions : u # s => session'[u] = session[u],
           session[s].at # "closeIncident", session'[s].at # "closeIncident",
           session'[s].at \in {"begin", "fire", "cover", "insert"} =>
               session[s].at \in {"begin", "fire", "cover", "insert"},
           Knows(s)'
    PROVE  Consistent'
<1>1. WritesOwn(s)
  BY DEF WritesOwn
<1>2. \A p \in Passes : RowInOrder(p)' /\ Unborn(p)'
  <2>1. ASSUME NEW p \in Passes PROVE RowInOrder(p)'
    BY DEF Consistent, RowInOrder
  <2>2. ASSUME NEW p \in Passes PROVE Unborn(p)'
    BY DEF Consistent, Unborn, NotInserted, Sessions
  <2> QED
    BY <2>1, <2>2
<1>3. \A p \in Passes : View(s, p)'
  BY DEF Consistent, View, HalfClosed
<1>4. OneContended'
  BY DEF Consistent, OneContended, Contended
<1>5. RowsTyped'
  BY DEF Consistent, RowsTyped
<1> QED
  BY <1>1, <1>2, <1>3, <1>4, <1>5, OthersUndisturbed DEF Consistent

LEMMA GoMoves ==
    ASSUME RowsTyped, NEW s \in Sessions, NEW place \in Places, Go(s, place)
    PROVE  /\ session' \in [Sessions -> SessionRow]
           /\ session'[s].at = place
           /\ session'[s].lock = session[s].lock
           /\ session'[s].end = session[s].end
           /\ session'[s].outcome = session[s].outcome
           /\ \A u \in Sessions : u # s => session'[u] = session[u]
  BY DEF RowsTyped, SessionRow, Go

----------------------------------------------------------------------------
(* The steps that write no lock and no incident *)

LEMMA SessionTyped ==
    ASSUME Consistent, NEW s \in Sessions
    PROVE  /\ RowsTyped /\ Knows(s)
           /\ session \in [Sessions -> SessionRow]
           /\ session[s] \in SessionRow
  BY DEF Consistent, RowsTyped

LEMMA BeginIsConsistent ==
    ASSUME Consistent, NEW s \in Sessions, Begin(s)
    PROVE  Consistent'
<1>1. PICK place \in {"fire", "find"} :
        /\ session' = [session EXCEPT ![s].at = place, ![s].late = over]
        /\ place = "fire" => s \in Passes
  BY SessionAssumption DEF Begin
<1>2. over \in BOOLEAN
  BY DEF Consistent, RowsTyped
<1>3. /\ session' \in [Sessions -> SessionRow]
      /\ session'[s].at = place
      /\ \A u \in Sessions : u # s => session'[u] = session[u]
  BY <1>1, <1>2, SessionTyped DEF SessionRow, Places
<1>4. Knows(s)'
  BY <1>1, <1>3 DEF Knows
<1> QED
  BY <1>1, <1>3, <1>4, NoRowWritten DEF Begin

LEMMA LookForRunningIsConsistent ==
    ASSUME Consistent, NEW s \in Sessions, LookForRunning(s)
    PROVE  Consistent'
<1>1. s \in Passes
  BY SessionTyped DEF LookForRunning, Knows
<1>2. CASE RunningFor(s) = {}
  <2>1. Go(s, "insert") /\ "insert" \in Places
    BY <1>2 DEF LookForRunning, Places
  <2>2. Knows(s)'
    BY <1>1, <2>1, SessionTyped, GoMoves DEF Knows
  <2> QED
    BY <2>1, <2>2, SessionTyped, GoMoves, NoRowWritten DEF LookForRunning
<1>3. CASE RunningFor(s) # {}
  <2>1. PICK p \in Passes :
          session' = [session EXCEPT ![s].at = "cover", ![s].lock = p]
    BY <1>3 DEF LookForRunning, RunningFor
  <2>2. /\ session' \in [Sessions -> SessionRow]
        /\ session'[s].at = "cover" /\ session'[s].lock = p
        /\ \A u \in Sessions : u # s => session'[u] = session[u]
    BY <2>1, SessionTyped DEF SessionRow, Places
  <2>3. Knows(s)'
    BY <1>1, <2>2 DEF Knows
  <2> QED
    BY <2>2, <2>3, NoRowWritten DEF LookForRunning
<1> QED
  BY <1>2, <1>3

LEMMA FindIsConsistent ==
    ASSUME Consistent, NEW s \in Sessions, Find(s)
    PROVE  Consistent'
<1>1. CASE Subjects(s) = {}
  <2>1. Go(s, "commit") /\ "commit" \in Places
    BY <1>1 DEF Find, Places
  <2>2. Knows(s)'
    BY <2>1, SessionTyped, GoMoves DEF Knows
  <2> QED
    BY <2>1, <2>2, SessionTyped, GoMoves, NoRowWritten DEF Find
<1>2. CASE Subjects(s) # {}
  <2>1. PICK p \in Passes, place \in {"judge", "write", "settle"} :
          /\ Seen(lockRow[p], s) = "active"
          /\ session' = [session EXCEPT ![s].lock = p, ![s].at = place]
    BY <1>2 DEF Find, Subjects, RunningFor, Sessions
  <2>2. /\ session' \in [Sessions -> SessionRow]
        /\ session'[s].at = place /\ session'[s].lock = p
        /\ \A u \in Sessions : u # s => session'[u] = session[u]
    BY <2>1, SessionTyped DEF SessionRow, Places
  <2>3. Seen(incident[p], s) # "none"
    <3>1. View(s, p) /\ ~HalfClosed(s, p)
      BY DEF Consistent, Find, HalfClosed
    <3> QED
      BY <2>1, <3>1 DEF View, Agree
  <2>4. Knows(s)'
    BY <2>1, <2>2, <2>3 DEF Knows, Find, Seen
  <2> QED
    BY <2>2, <2>4, NoRowWritten DEF Find
<1> QED
  BY <1>1, <1>2

LEMMA JudgeIsConsistent ==
    ASSUME Consistent, NEW s \in Sessions, Judge(s)
    PROVE  Consistent'
<1>1. PICK place \in {"settle", "breach", "count"} : Go(s, place)
  BY DEF Judge
<1>2. place \in Places
  BY DEF Places
<1>3. Knows(s)'
  BY <1>1, <1>2, SessionTyped, GoMoves DEF Knows, Judge, Seen
<1> QED
  BY <1>1, <1>2, <1>3, SessionTyped, GoMoves, NoRowWritten DEF Judge

LEMMA CountBreachIsConsistent ==
    ASSUME Consistent, NEW s \in Sessions, CountBreach(s)
    PROVE  Consistent'
<1>1. Go(s, "settle") /\ "settle" \in Places
  BY DEF CountBreach, Places
<1>2. Knows(s)'
  BY <1>1, SessionTyped, GoMoves DEF Knows, CountBreach, Seen
<1> QED
  BY <1>1, <1>2, SessionTyped, GoMoves, NoRowWritten DEF CountBreach

LEMMA SettleIsConsistent ==
    ASSUME Consistent, NEW s \in Sessions, Settle(s)
    PROVE  Consistent'
<1> DEFINE p == session[s].lock
           outcome == Seen(incident[p], s)
<1>1. /\ session[s].at = "settle" /\ p \in Passes
      /\ outcome # "none" /\ Seen(lockRow[p], s) # "none"
  BY SessionTyped DEF Settle, Knows
<1>2. outcome \in Outcomes
  BY <1>1 DEF Consistent, RowsTyped, IncidentRow, Seen
<1>3. CASE Go(s, "commit")
  <2>1. "commit" \in Places
    BY DEF Places
  <2>2. Knows(s)'
    BY <1>3, <2>1, SessionTyped, GoMoves DEF Knows
  <2> QED
    BY <1>1, <1>3, <2>1, <2>2, SessionTyped, GoMoves, NoRowWritten DEF Settle
<1>4. CASE ~Go(s, "commit")
  <2>1. PICK end \in Ended :
          /\ session' = [session EXCEPT ![s].at = "closeLock",
                                        ![s].outcome = outcome, ![s].end = end]
          /\ end = "breached" <=> outcome = "breached"
    BY <1>4 DEF Settle, Ended
  <2>2. /\ session' \in [Sessions -> SessionRow]
        /\ session'[s].at = "closeLock" /\ session'[s].lock = p
        /\ session'[s].outcome = outcome /\ session'[s].end = end
        /\ \A u \in Sessions : u # s => session'[u] = session[u]
    BY <1>2, <2>1, SessionTyped DEF SessionRow, Places, Ended, LockStates
  <2>3. outcome \in {"kept", "breached"} => Seen(incident'[p], s) = outcome
    BY <1>1 DEF Settle
  <2>4. /\ Seen(lockRow'[p], s) # "none" /\ Seen(incident'[p], s) # "none"
        /\ p \in Passes
    BY <1>1 DEF Settle
  <2>5. Knows(s)'
    BY <1>1, <2>1, <2>2, <2>3, <2>4 DEF Knows
  <2> QED
    BY <1>1, <2>2, <2>5, NoRowWritten DEF Settle
<1> QED
  BY <1>3, <1>4

----------------------------------------------------------------------------
(* The end of a transaction *)

\* What is committed stays; the rows in hand are what they were.
LEMMA FailIsConsistent ==
    ASSUME Consistent, NEW s \in Sessions, Fail(s)
    PROVE  Consistent'
<1>1. Go(s, "failed") /\ "failed" \in Places /\ UNCHANGED over
  BY DEF Fail, Places
<1>2. /\ session' \in [Sessions -> SessionRow]
      /\ session'[s].at = "failed"
      /\ \A u \in Sessions : u # s => session'[u] = session[u]
  BY <1>1, SessionTyped, GoMoves
<1>3. None \notin Sessions
  BY SessionAssumption
<1>4. /\ lockRow \in [Passes -> Row(LockStates)]
      /\ incident \in [Passes -> IncidentRow]
      /\ VerdictsAgree /\ OneContended
      /\ \A p \in Passes : RowInOrder(p) /\ Unborn(p)
      /\ \A u \in Sessions : Knows(u) /\ \A p \in Passes : View(u, p)
  BY DEF Consistent, RowsTyped
<1>5. /\ lockRow' \in [Passes -> Row(LockStates)]
      /\ incident' \in [Passes -> IncidentRow]
  BY <1>4 DEF Fail, RolledBack, Row, IncidentRow, Owner
<1>6. ASSUME NEW p \in Passes
      PROVE  /\ lockRow'[p] = RolledBack(lockRow[p], s)
             /\ incident'[p] = RolledBack(incident[p], s)
             /\ lockRow[p] \in Row(LockStates)
             /\ incident[p] \in IncidentRow
  BY <1>4 DEF Fail
<1>7. ASSUME NEW p \in Passes
      PROVE  /\ lockRow'[p].val = lockRow[p].val
             /\ incident'[p].val = incident[p].val
             /\ incident'[p].cover = incident[p].cover
             /\ lockRow[p].owner # s => lockRow'[p] = lockRow[p]
             /\ incident[p].owner # s => incident'[p] = incident[p]
             /\ lockRow[p].owner = s => /\ lockRow'[p].new = lockRow[p].val
                                        /\ lockRow'[p].owner = None
             /\ incident[p].owner = s => /\ incident'[p].new = incident[p].val
                                         /\ incident'[p].owner = None
  BY <1>6 DEF RolledBack, Row, IncidentRow
<1>8. ASSUME NEW p \in Passes PROVE RowInOrder(p)' /\ Unborn(p)'
  <2>1. RowInOrder(p)'
    BY <1>3, <1>4, <1>7 DEF RowInOrder, Ended
  <2>2. Unborn(p)'
    BY <1>2, <1>3, <1>4, <1>7 DEF Unborn, NotInserted, Sessions
  <2> QED
    BY <2>1, <2>2
<1>9. VerdictsAgree'
  BY <1>4, <1>7 DEF VerdictsAgree
<1>10. ASSUME NEW p \in Passes PROVE View(s, p)'
  <2>1. Agree(lockRow[p].val, incident[p].val)
    BY <1>4 DEF VerdictsAgree, Agree
  <2>2. /\ Seen(lockRow'[p], s) = lockRow[p].val
        /\ Seen(incident'[p], s) = incident[p].val
    BY <1>3, <1>7 DEF Seen
  <2> QED
    BY <1>2, <2>1, <2>2 DEF View, HalfClosed
<1>11. Knows(s)'
  BY <1>2 DEF Knows
<1>12. ASSUME NEW u \in Sessions, u # s
       PROVE  Knows(u)' /\ \A p \in Passes : View(u, p)'
  <2>1. \A p \in Passes : /\ Seen(lockRow'[p], u) = Seen(lockRow[p], u)
                          /\ Seen(incident'[p], u) = Seen(incident[p], u)
                          /\ lockRow[p].owner = u => lockRow'[p] = lockRow[p]
    BY <1>3, <1>7, <1>12 DEF Seen
  <2>2. session'[u] = session[u] /\ Knows(u) /\ \A p \in Passes : View(u, p)
    BY <1>2, <1>4, <1>12
  <2>3. Knows(u)'
    BY <2>1, <2>2 DEF Knows
  <2>4. ASSUME NEW p \in Passes PROVE View(u, p)'
    BY <2>1, <2>2 DEF View, HalfClosed
  <2> QED
    BY <2>3, <2>4
<1>13. OneContended'
  <2>1. Contended' \subseteq Contended
    BY <1>7 DEF Contended
  <2> QED
    BY <1>4, <2>1 DEF OneContended
<1>14. RowsTyped'
  BY <1>1, <1>2, <1>5 DEF Consistent, RowsTyped
<1> QED
  BY <1>8, <1>9, <1>10, <1>11, <1>12, <1>13, <1>14 DEF Consistent

\* What s has written is what it saw, so the pair it leaves agrees; a session
\* that has one of the two rows in hand cannot have decided otherwise.
LEMMA CommitIsConsistent ==
    ASSUME Consistent, NEW s \in Sessions, Commit(s)
    PROVE  Consistent'
<1>1. Go(s, "done") /\ "done" \in Places /\ UNCHANGED over /\ session[s].at = "commit"
  BY DEF Commit, Places
<1>2. /\ session' \in [Sessions -> SessionRow]
      /\ session'[s].at = "done"
      /\ \A u \in Sessions : u # s => session'[u] = session[u]
  BY <1>1, SessionTyped, GoMoves
<1>3. None \notin Sessions
  BY SessionAssumption
<1>4. /\ lockRow \in [Passes -> Row(LockStates)]
      /\ incident \in [Passes -> IncidentRow]
      /\ VerdictsAgree /\ OneContended
      /\ \A p \in Passes : RowInOrder(p) /\ Unborn(p)
      /\ \A u \in Sessions : Knows(u) /\ \A p \in Passes : View(u, p)
  BY DEF Consistent, RowsTyped
<1>5. /\ lockRow' \in [Passes -> Row(LockStates)]
      /\ incident' \in [Passes -> IncidentRow]
  BY <1>4 DEF Commit, Committed, Row, IncidentRow, Owner
<1>6. ASSUME NEW p \in Passes
      PROVE  /\ lockRow'[p] = Committed(lockRow[p], s)
             /\ incident'[p] = Committed(incident[p], s)
             /\ lockRow[p] \in Row(LockStates)
             /\ incident[p] \in IncidentRow
  BY <1>4 DEF Commit
<1>7. ASSUME NEW p \in Passes
      PROVE  /\ lockRow'[p].val = Seen(lockRow[p], s)
             /\ incident'[p].val = Seen(incident[p], s)
             /\ lockRow'[p].new = lockRow[p].new
             /\ incident'[p].new = incident[p].new
             /\ incident'[p].cover = incident[p].cover
             /\ lockRow[p].owner # s => lockRow'[p] = lockRow[p]
             /\ incident[p].owner # s => incident'[p] = incident[p]
             /\ lockRow[p].owner = s => lockRow'[p].owner = None
             /\ incident[p].owner = s => incident'[p].owner = None
  BY <1>6 DEF Committed, Row, IncidentRow, Seen
<1>8. ASSUME NEW p \in Passes PROVE RowInOrder(p)' /\ Unborn(p)'
  <2>1. RowInOrder(p)'
    BY <1>3, <1>4, <1>7 DEF RowInOrder, Ended, Seen
  <2>2. Unborn(p)'
    BY <1>2, <1>3, <1>4, <1>7 DEF Unborn, NotInserted, Sessions
  <2> QED
    BY <2>1, <2>2
<1>9. ASSUME NEW p \in Passes
      PROVE  Agree(Seen(lockRow[p], s), Seen(incident[p], s))
  BY <1>1, <1>4 DEF View, HalfClosed
<1>10. VerdictsAgree'
  BY <1>7, <1>9 DEF VerdictsAgree, Agree
<1>11. ASSUME NEW p \in Passes PROVE View(s, p)'
  <2>1. /\ Seen(lockRow'[p], s) = Seen(lockRow[p], s)
        /\ Seen(incident'[p], s) = Seen(incident[p], s)
    BY <1>3, <1>7 DEF Seen
  <2> QED
    BY <1>2, <1>9, <2>1 DEF View, HalfClosed
<1>12. Knows(s)'
  BY <1>2 DEF Knows
<1>13. ASSUME NEW u \in Sessions, u # s
       PROVE  Knows(u)' /\ \A p \in Passes : View(u, p)'
  <2>1. session'[u] = session[u] /\ Knows(u) /\ \A p \in Passes : View(u, p)
    BY <1>2, <1>4, <1>13
  <2>2. ASSUME NEW p \in Passes
        PROVE  /\ Seen(lockRow[p], u) # "none" => Seen(lockRow'[p], u) # "none"
               /\ Seen(incident[p], u) # "none" => Seen(incident'[p], u) # "none"
               /\ Seen(incident[p], u) \in {"kept", "breached"} =>
                    Seen(incident'[p], u) = Seen(incident[p], u)
    <3>1. /\ RowInOrder(p)
          /\ lockRow[p].val \in LockStates /\ incident[p].val \in Outcomes
      BY <1>4, <1>6 DEF Row, IncidentRow
    <3>2. /\ Seen(lockRow'[p], u) = IF lockRow[p].owner = u THEN lockRow[p].new
                                     ELSE Seen(lockRow[p], s)
          /\ Seen(incident'[p], u) = IF incident[p].owner = u THEN incident[p].new
                                      ELSE Seen(incident[p], s)
      BY <1>3, <1>7, <1>13 DEF Seen
    <3> QED
      BY <3>1, <3>2 DEF RowInOrder, Seen, LockStates, Outcomes, Ended
  <2>3. Knows(u)'
    BY <2>1, <2>2 DEF Knows
  <2>4. ASSUME NEW p \in Passes PROVE View(u, p)'
    <3>1. CASE HalfClosed(u, p)
      BY <1>7, <1>13, <2>1, <3>1 DEF View, HalfClosed
    <3>2. CASE ~HalfClosed(u, p)
      <4>1. /\ Agree(Seen(lockRow[p], u), Seen(incident[p], u))
            /\ Agree(Seen(lockRow[p], s), Seen(incident[p], s))
            /\ RowInOrder(p)
        BY <1>4, <1>9, <2>1, <3>2 DEF View
      <4>2. /\ Seen(lockRow'[p], u) = IF lockRow[p].owner = u THEN lockRow[p].new
                                       ELSE Seen(lockRow[p], s)
            /\ Seen(incident'[p], u) = IF incident[p].owner = u THEN incident[p].new
                                        ELSE Seen(incident[p], s)
        BY <1>3, <1>7, <1>13 DEF Seen
      <4>3. lockRow[p].val \in LockStates
        BY <1>6 DEF Row
      <4>4. Agree(Seen(lockRow'[p], u), Seen(incident'[p], u))
        <5>1. CASE lockRow[p].owner = u /\ incident[p].owner = u
          BY <4>1, <4>2, <5>1 DEF Seen
        <5>2. CASE lockRow[p].owner = u /\ incident[p].owner # u
          BY <1>13, <4>1, <4>2, <4>3, <5>2 DEF Seen, Agree, RowInOrder, LockStates, Ended
        <5>3. CASE lockRow[p].owner # u /\ incident[p].owner = u
          BY <1>13, <4>1, <4>2, <4>3, <5>3 DEF Seen, Agree, RowInOrder, LockStates, Ended
        <5>4. CASE lockRow[p].owner # u /\ incident[p].owner # u
          BY <4>1, <4>2, <5>4
        <5> QED
          BY <5>1, <5>2, <5>3, <5>4
      <4> QED
        BY <2>1, <3>2, <4>4 DEF View, HalfClosed
    <3> QED
      BY <3>1, <3>2
  <2> QED
    BY <2>3, <2>4
<1>14. OneContended'
  <2>1. Contended' \subseteq Contended
    BY <1>7 DEF Contended, Seen
  <2> QED
    BY <1>4, <2>1 DEF OneContended
<1>15. RowsTyped'
  BY <1>1, <1>2, <1>5 DEF Consistent, RowsTyped
<1> QED
  BY <1>8, <1>10, <1>11, <1>12, <1>13, <1>14, <1>15 DEF Consistent

----------------------------------------------------------------------------
(* The steps that write *)

LEMMA WriteReviewIsConsistent ==
    ASSUME Consistent, NEW s \in Sessions, WriteReview(s)
    PROVE  Consistent'
<1>1. CASE Fail(s)
  BY <1>1, FailIsConsistent
<1>2. CASE ~Fail(s)
  <2>1. Go(s, "settle") /\ "settle" \in Places
    BY <1>2 DEF WriteReview, Places
  <2>2. UNCHANGED <<lockRow, incident, over>>
    BY <1>2 DEF WriteReview
  <2>3. Knows(s)'
    BY <2>1, <2>2, SessionTyped, GoMoves DEF Knows, WriteReview, Seen
  <2> QED
    BY <2>1, <2>2, <2>3, SessionTyped, GoMoves, NoRowWritten DEF WriteReview
<1> QED
  BY <1>1, <1>2

\* The incidents of a set get an outcome, each one undecided or decided so.
LEMMA IncidentsWritten ==
    ASSUME Consistent, NEW s \in Sessions, NEW Q \in SUBSET Passes,
           NEW value \in {"kept", "breached"},
           UNCHANGED <<lockRow, over>>,
           incident' = [q \in Passes |-> IF q \in Q THEN Written(incident[q], s, value)
                                         ELSE incident[q]],
           \A q \in Q : /\ Free(incident[q], s)
                        /\ Seen(incident[q], s) \in {"open", value}
                        /\ Agree(Seen(lockRow[q], s), value),
           \A q \in Passes \ Q : ~HalfClosed(s, q),
           session' \in [Sessions -> SessionRow],
           \A u \in Sessions : u # s => session'[u] = session[u],
           session'[s].at \notin {"begin", "fire", "cover", "insert", "closeIncident"},
           Knows(s)'
    PROVE  Consistent'
<1>1. /\ lockRow \in [Passes -> Row(LockStates)]
      /\ incident \in [Passes -> IncidentRow]
      /\ OneContended
      /\ \A p \in Passes : RowInOrder(p) /\ Unborn(p) /\ View(s, p)
      /\ None \notin Sessions
  BY SessionAssumption DEF Consistent, RowsTyped
<1>2. ASSUME NEW q \in Passes
      PROVE  /\ incident[q] \in IncidentRow
             /\ incident'[q].val = incident[q].val
             /\ incident'[q].cover = incident[q].cover
             /\ q \notin Q => incident'[q] = incident[q]
             /\ q \in Q => incident'[q].new = value /\ incident'[q].owner = s
  BY <1>1 DEF Written, IncidentRow
<1>3. incident' \in [Passes -> IncidentRow]
  <2>1. ASSUME NEW q \in Passes
        PROVE  (IF q \in Q THEN Written(incident[q], s, value)
                ELSE incident[q]) \in IncidentRow
    BY <1>1, <1>2 DEF Written, IncidentRow, Owner, Outcomes
  <2> QED
    BY <2>1
<1>4. WritesOwn(s)
  BY <1>2 DEF WritesOwn
<1>5. ASSUME NEW q \in Passes PROVE RowInOrder(q)' /\ Unborn(q)' /\ View(s, q)'
  <2>1. CASE q \notin Q
    <3>1. incident'[q] = incident[q] /\ RowInOrder(q) /\ Unborn(q) /\ View(s, q)
      BY <1>1, <1>2, <2>1
    <3>2. RowInOrder(q)'
      BY <3>1 DEF RowInOrder
    <3>3. Unborn(q)'
      BY <3>1 DEF Unborn, NotInserted, Sessions
    <3>4. View(s, q)'
      BY <2>1, <3>1 DEF View, HalfClosed
    <3> QED
      BY <3>2, <3>3, <3>4
  <2>2. CASE q \in Q
    <3>1. /\ incident'[q].val = incident[q].val
          /\ incident'[q].cover = incident[q].cover
          /\ incident'[q].new = value /\ incident'[q].owner = s
          /\ Free(incident[q], s) /\ Seen(incident[q], s) \in {"open", value}
          /\ Agree(Seen(lockRow[q], s), value)
          /\ RowInOrder(q) /\ Unborn(q)
      BY <1>1, <1>2, <2>2
    <3>2. RowInOrder(q)'
      BY <1>1, <3>1 DEF RowInOrder, Free, Seen
    <3>3. ~NotInserted(q)
      BY <1>1, <3>1 DEF NotInserted, Seen
    <3>4. Unborn(q)'
      BY <3>1, <3>3 DEF Unborn, Sessions
    <3>5. View(s, q)'
      BY <3>1 DEF View, HalfClosed, Seen
    <3> QED
      BY <3>2, <3>4, <3>5
  <2> QED
    BY <2>1, <2>2
<1>6. OneContended'
  BY <1>1 DEF OneContended, Contended
<1>7. RowsTyped'
  BY <1>3 DEF Consistent, RowsTyped
<1> QED
  BY <1>4, <1>5, <1>6, <1>7, OthersUndisturbed DEF Consistent

LEMMA RecordBreachIsConsistent ==
    ASSUME Consistent, NEW s \in Sessions, RecordBreach(s)
    PROVE  Consistent'
<1> DEFINE p == session[s].lock
<1>1. CASE Fail(s)
  BY <1>1, FailIsConsistent
<1>2. CASE ~Fail(s)
  <2>1. Go(s, "count") /\ "count" \in Places
    BY <1>2 DEF RecordBreach, Places
  <2>2. /\ UNCHANGED <<lockRow, over>>
        /\ incident' = [incident EXCEPT ![p] = Written(@, s, "breached")]
        /\ Free(incident[p], s)
        /\ Seen(incident[p], s) \in {"open", "breached"}
        /\ session[s].at = "breach"
    BY <1>2 DEF RecordBreach, Freezes
  <2>3. /\ p \in Passes /\ Seen(lockRow[p], s) # "none"
        /\ incident \in [Passes -> IncidentRow]
        /\ View(s, p)
    BY <2>2, SessionTyped DEF Consistent, RowsTyped, Knows
  <2>4. incident' = [q \in Passes |-> IF q \in {p} THEN Written(incident[q], s, "breached")
                                      ELSE incident[q]]
    BY <2>2, <2>3
  <2>5. Agree(Seen(lockRow[p], s), "breached")
    BY <2>2, <2>3 DEF View, HalfClosed, Agree
  <2>6. /\ session' \in [Sessions -> SessionRow]
        /\ session'[s].at = "count" /\ session'[s].lock = p
        /\ \A u \in Sessions : u # s => session'[u] = session[u]
    BY <2>1, SessionTyped, GoMoves
  <2>7. incident'[p].new = "breached" /\ incident'[p].owner = s
    BY <2>2, <2>3 DEF Written, IncidentRow
  <2>8. Knows(s)'
    BY <2>2, <2>3, <2>6, <2>7 DEF Knows, Seen
  <2>9. \A q \in Passes \ {p} : ~HalfClosed(s, q)
    BY DEF HalfClosed
  <2> QED
    BY <2>2, <2>3, <2>4, <2>5, <2>6, <2>8, <2>9, IncidentsWritten
<1> QED
  BY <1>1, <1>2

LEMMA CloseIncidentIsConsistent ==
    ASSUME Consistent, NEW s \in Sessions, CloseIncident(s)
    PROVE  Consistent'
<1> DEFINE p == session[s].lock
<1>1. CASE Fail(s)
  BY <1>1, FailIsConsistent
<1>2. CASE ~Fail(s)
  <2>1. /\ UNCHANGED <<lockRow, over>>
        /\ incident' = [incident EXCEPT ![p] = Written(@, s, "kept")]
        /\ Free(incident[p], s)
        /\ Seen(incident[p], s) \in {"open", "kept"}
        /\ session[s].at = "closeIncident"
        /\ session' = [session EXCEPT ![s].at = "closeCovered", ![s].outcome = "kept"]
    BY <1>2 DEF CloseIncident, Freezes
  <2>2. /\ p \in Passes /\ Seen(lockRow[p], s) # "none"
        /\ incident \in [Passes -> IncidentRow]
        /\ View(s, p)
    BY <2>1, SessionTyped DEF Consistent, RowsTyped, Knows
  <2>3. incident' = [q \in Passes |-> IF q \in {p} THEN Written(incident[q], s, "kept")
                                      ELSE incident[q]]
    BY <2>1, <2>2
  <2>4. Agree(Seen(lockRow[p], s), "kept")
    BY <2>1, <2>2 DEF View, HalfClosed, Agree, Seen
  <2>5. /\ session' \in [Sessions -> SessionRow]
        /\ session'[s].at = "closeCovered" /\ session'[s].lock = p
        /\ session'[s].outcome = "kept"
        /\ \A u \in Sessions : u # s => session'[u] = session[u]
    BY <2>1, SessionTyped DEF SessionRow, Places, Outcomes
  <2>6. incident'[p].new = "kept" /\ incident'[p].owner = s
    BY <2>1, <2>2 DEF Written, IncidentRow
  <2>7. Knows(s)'
    BY <2>1, <2>2, <2>5, <2>6 DEF Knows, Seen
  <2>8. \A q \in Passes \ {p} : ~HalfClosed(s, q)
    BY DEF HalfClosed
  <2> QED
    BY <2>1, <2>2, <2>3, <2>4, <2>5, <2>7, <2>8, IncidentsWritten
<1> QED
  BY <1>1, <1>2

LEMMA CloseCoveredIsConsistent ==
    ASSUME Consistent, NEW s \in Sessions, CloseCovered(s)
    PROVE  Consistent'
<1> DEFINE value == session[s].outcome
<1>1. /\ session[s].at = "closeCovered" /\ session[s].lock \in Passes
      /\ value \in {"kept", "breached"}
  BY SessionTyped DEF CloseCovered, Knows
<1>2. /\ UNCHANGED <<lockRow, over>>
      /\ incident' = [q \in Passes |-> IF q \in CoveredFor(s)
                                        THEN Written(incident[q], s, value)
                                        ELSE incident[q]]
      /\ Go(s, "commit") /\ "commit" \in Places
  BY DEF CloseCovered, Places
<1>3. /\ session' \in [Sessions -> SessionRow]
      /\ session'[s].at = "commit"
      /\ \A u \in Sessions : u # s => session'[u] = session[u]
  BY <1>2, SessionTyped, GoMoves
<1>4. Knows(s)'
  BY <1>3 DEF Knows
<1>5. ASSUME NEW q \in CoveredFor(s)
      PROVE  /\ Free(incident[q], s) /\ Seen(incident[q], s) \in {"open", value}
             /\ Agree(Seen(lockRow[q], s), value)
  <2>1. /\ Free(incident[q], s) /\ Seen(incident[q], s) = "open"
        /\ q \in Passes /\ incident[q].cover # None
    BY <1>1, SessionAssumption DEF CloseCovered, CoveredFor, Sessions
  <2>2. lockRow[q].val = "none" /\ lockRow[q].new = "none"
    BY <2>1 DEF Consistent, RowInOrder
  <2> QED
    BY <2>1, <2>2 DEF Agree, Seen
<1>6. CoveredFor(s) \in SUBSET Passes
  BY DEF CoveredFor
<1>7. \A q \in Passes \ CoveredFor(s) : ~HalfClosed(s, q)
  BY <1>1 DEF HalfClosed
<1> QED
  BY <1>1, <1>2, <1>3, <1>4, <1>5, <1>6, <1>7, IncidentsWritten

LEMMA CloseLockIsConsistent ==
    ASSUME Consistent, NEW s \in Sessions, CloseLock(s)
    PROVE  Consistent'
<1> DEFINE p == session[s].lock
           value == session[s].end
           outcome == session[s].outcome
           place == IF outcome = "open" THEN "closeIncident" ELSE "closeCovered"
<1>1. CASE Fail(s)
  BY <1>1, FailIsConsistent
<1>2. CASE ~Fail(s)
  <2>1. /\ UNCHANGED <<incident, over>>
        /\ lockRow' = [lockRow EXCEPT ![p] = Written(@, s, value)]
        /\ Free(lockRow[p], s)
        /\ Seen(lockRow[p], s) \in {"active", value}
        /\ session[s].at = "closeLock"
        /\ Go(s, place)
    BY <1>2 DEF CloseLock, Freezes
  <2>2. /\ p \in Passes /\ Seen(lockRow[p], s) # "none"
        /\ Seen(incident[p], s) # "none"
        /\ value \in Ended /\ outcome # "none" /\ outcome \in Outcomes
        /\ value = "breached" <=> outcome = "breached"
        /\ outcome \in {"kept", "breached"} => Seen(incident[p], s) = outcome
    BY <2>1, SessionTyped DEF Knows, SessionRow
  <2>3. /\ lockRow \in [Passes -> Row(LockStates)]
        /\ incident \in [Passes -> IncidentRow]
        /\ OneContended /\ None \notin Sessions
        /\ \A q \in Passes : RowInOrder(q) /\ Unborn(q) /\ View(s, q)
    BY SessionAssumption DEF Consistent, RowsTyped
  <2>4. place \in Places
    BY DEF Places
  <2>5. /\ session' \in [Sessions -> SessionRow]
        /\ session'[s].at = place /\ session'[s].lock = p
        /\ session'[s].outcome = outcome
        /\ \A u \in Sessions : u # s => session'[u] = session[u]
    BY <2>1, <2>4, SessionTyped, GoMoves
  <2>6. /\ lockRow'[p].val = lockRow[p].val
        /\ lockRow'[p].new = value /\ lockRow'[p].owner = s
        /\ \A q \in Passes : q # p => lockRow'[q] = lockRow[q]
        /\ lockRow' \in [Passes -> Row(LockStates)]
    BY <2>1, <2>2, <2>3 DEF Written, Row, Owner, Ended, LockStates
  <2>7. WritesOwn(s)
    BY <2>1, <2>5, <2>6 DEF WritesOwn
  <2>8. ASSUME NEW q \in Passes PROVE RowInOrder(q)' /\ Unborn(q)' /\ View(s, q)'
    <3>1. RowInOrder(q) /\ Unborn(q) /\ View(s, q)
      BY <2>3
    <3>2. CASE q # p
      <4>1. lockRow'[q] = lockRow[q] /\ incident'[q] = incident[q]
        BY <2>1, <2>6, <3>2
      <4>2. RowInOrder(q)'
        BY <3>1, <4>1 DEF RowInOrder
      <4>3. Unborn(q)'
        BY <2>5, <3>1, <4>1 DEF Unborn, NotInserted, Sessions
      <4>4. View(s, q)'
        BY <2>1, <2>5, <3>1, <3>2, <4>1 DEF View, HalfClosed
      <4> QED
        BY <4>2, <4>3, <4>4
    <3>3. CASE q = p
      <4>1. RowInOrder(q)'
        BY <2>1, <2>2, <2>3, <2>6, <3>1, <3>3 DEF RowInOrder, Free, Seen, Ended
      <4>2. ~NotInserted(p)
        BY <2>2, <2>3 DEF NotInserted, Seen
      <4>3. Unborn(q)'
        BY <2>5, <3>1, <3>3, <4>2 DEF Unborn, Sessions
      <4>4. View(s, q)'
        <5>1. Seen(lockRow'[p], s) = value /\ Seen(incident'[p], s) = Seen(incident[p], s)
          BY <2>1, <2>6 DEF Seen
        <5>2. CASE outcome = "open"
          BY <2>2, <2>5, <2>6, <3>3, <5>2 DEF View, HalfClosed, Ended
        <5>3. CASE outcome \in {"kept", "breached"}
          <6>1. Agree(value, Seen(incident[p], s))
            BY <2>2, <5>3 DEF Agree, Ended
          <6>2. ~HalfClosed(s, q)'
            BY <2>5, <5>3 DEF HalfClosed
          <6> QED
            BY <3>3, <5>1, <6>1, <6>2 DEF View
        <5> QED
          BY <2>2, <5>2, <5>3 DEF Outcomes
      <4> QED
        BY <4>1, <4>3, <4>4
    <3> QED
      BY <3>2, <3>3
  <2>9. Knows(s)'
    <3>1. Seen(lockRow'[p], s) = value /\ Seen(incident'[p], s) = Seen(incident[p], s)
      BY <2>1, <2>6 DEF Seen
    <3> QED
      BY <2>2, <2>5, <3>1 DEF Knows, Outcomes, Ended
  <2>10. OneContended'
    <3>1. Contended' \subseteq Contended
      BY <2>2, <2>6 DEF Contended, Ended
    <3> QED
      BY <2>3, <3>1 DEF OneContended
  <2>11. RowsTyped'
    BY <2>1, <2>5, <2>6 DEF Consistent, RowsTyped
  <2> QED
    BY <2>7, <2>8, <2>9, <2>10, <2>11, OthersUndisturbed DEF Consistent
<1> QED
  BY <1>1, <1>2

\* A pass inserts its incident under a lock that runs.
LEMMA InsertCoveredIsConsistent ==
    ASSUME Consistent, NEW s \in Sessions, InsertCovered(s)
    PROVE  Consistent'
<1> DEFINE row == [val |-> "none", new |-> "open", owner |-> s, cover |-> session[s].lock]
<1>1. /\ s \in Passes /\ session[s].at = "cover" /\ session[s].lock \in Passes
      /\ incident' = [incident EXCEPT ![s] = row]
      /\ UNCHANGED <<lockRow, over>>
      /\ Go(s, "find") /\ "find" \in Places
  BY SessionTyped DEF InsertCovered, Knows, Places
<1>2. /\ incident \in [Passes -> IncidentRow]
      /\ OneContended /\ None \notin Sessions
      /\ NotInserted(s)
      /\ \A q \in Passes : RowInOrder(q) /\ Unborn(q) /\ View(s, q)
  BY <1>1, SessionAssumption DEF Consistent, RowsTyped, Unborn
<1>3. /\ session' \in [Sessions -> SessionRow]
      /\ session'[s].at = "find"
      /\ \A u \in Sessions : u # s => session'[u] = session[u]
  BY <1>1, SessionTyped, GoMoves
<1>4. /\ incident'[s] = row
      /\ \A q \in Passes : q # s => incident'[q] = incident[q]
      /\ incident' \in [Passes -> IncidentRow]
  <2>1. row \in IncidentRow
    BY <1>1 DEF IncidentRow, Outcomes, Owner
  <2> QED
    BY <1>1, <1>2, <2>1
<1>5. WritesOwn(s)
  BY <1>1, <1>2, <1>3, <1>4 DEF WritesOwn, NotInserted, Free
<1>6. ASSUME NEW q \in Passes PROVE RowInOrder(q)' /\ Unborn(q)' /\ View(s, q)'
  <2>1. RowInOrder(q)'
    BY <1>1, <1>2, <1>4 DEF RowInOrder, NotInserted
  <2>2. Unborn(q)'
    BY <1>1, <1>2, <1>3, <1>4 DEF Unborn, NotInserted, Sessions
  <2>3. View(s, q)'
    BY <1>1, <1>2, <1>3, <1>4 DEF View, HalfClosed, NotInserted, Seen, Agree
  <2> QED
    BY <2>1, <2>2, <2>3
<1>7. Knows(s)'
  BY <1>3 DEF Knows
<1>8. OneContended'
  BY <1>1, <1>2 DEF OneContended, Contended
<1>9. RowsTyped'
  BY <1>1, <1>3, <1>4 DEF Consistent, RowsTyped
<1> QED
  BY <1>5, <1>6, <1>7, <1>8, <1>9, OthersUndisturbed DEF Consistent

\* The index lets a lock in only when no row is active or may become so.
LEMMA InsertLockIsConsistent ==
    ASSUME Consistent, NEW s \in Sessions, InsertLock(s)
    PROVE  Consistent'
<1> DEFINE row == [val |-> "none", new |-> "open", owner |-> s, cover |-> None]
<1>1. CASE Fail(s)
  BY <1>1, FailIsConsistent
<1>2. CASE ~Fail(s)
  <2>1. /\ s \in Passes /\ session[s].at = "insert"
        /\ incident' = [incident EXCEPT ![s] = row]
        /\ lockRow' = [lockRow EXCEPT ![s] = Written(@, s, "active")]
        /\ UNCHANGED over
        /\ Go(s, "find") /\ "find" \in Places
        /\ \A p \in Contended : lockRow[p].owner = None
        /\ \A p \in Passes : lockRow[p].val # "active"
    BY <1>2, SessionTyped DEF InsertLock, Knows, Places
  <2>2. /\ lockRow \in [Passes -> Row(LockStates)]
        /\ incident \in [Passes -> IncidentRow]
        /\ None \notin Sessions
        /\ NotInserted(s)
        /\ \A q \in Passes : RowInOrder(q) /\ Unborn(q) /\ View(s, q)
    BY <2>1, SessionAssumption DEF Consistent, RowsTyped, Unborn
  <2>3. Contended = {}
    BY <2>1, <2>2 DEF Contended, RowInOrder
  <2>4. /\ session' \in [Sessions -> SessionRow]
        /\ session'[s].at = "find"
        /\ \A u \in Sessions : u # s => session'[u] = session[u]
    BY <2>1, SessionTyped, GoMoves
  <2>5. /\ incident'[s] = row
        /\ \A q \in Passes : q # s => incident'[q] = incident[q]
        /\ incident' \in [Passes -> IncidentRow]
    <3>1. row \in IncidentRow
      BY DEF IncidentRow, Outcomes, Owner
    <3> QED
      BY <2>1, <2>2, <3>1
  <2>6. /\ lockRow'[s].val = "none" /\ lockRow'[s].new = "active" /\ lockRow'[s].owner = s
        /\ \A q \in Passes : q # s => lockRow'[q] = lockRow[q]
        /\ lockRow' \in [Passes -> Row(LockStates)]
    <3>1. lockRow[s].val = "none"
      BY <2>2 DEF NotInserted
    <3> QED
      BY <2>1, <2>2, <3>1 DEF Written, Row, LockStates, Owner
  <2>7. WritesOwn(s)
    BY <2>2, <2>4, <2>5, <2>6 DEF WritesOwn, NotInserted, Free
  <2>8. ASSUME NEW q \in Passes PROVE RowInOrder(q)' /\ Unborn(q)' /\ View(s, q)'
    <3>1. RowInOrder(q)'
      BY <2>1, <2>2, <2>5, <2>6 DEF RowInOrder, Ended
    <3>2. Unborn(q)'
      BY <2>2, <2>4, <2>5, <2>6 DEF Unborn, NotInserted, Sessions
    <3>3. View(s, q)'
      BY <2>1, <2>2, <2>4, <2>5, <2>6 DEF View, HalfClosed, Seen, Agree
    <3> QED
      BY <3>1, <3>2, <3>3
  <2>9. Knows(s)'
    BY <2>4 DEF Knows
  <2>10. OneContended'
    <3>1. Contended' \subseteq {s}
      BY <2>3, <2>6 DEF Contended
    <3> QED
      BY <3>1 DEF OneContended
  <2>11. RowsTyped'
    BY <2>1, <2>4, <2>5, <2>6 DEF Consistent, RowsTyped
  <2> QED
    BY <2>7, <2>8, <2>9, <2>10, <2>11, OthersUndisturbed DEF Consistent
<1> QED
  BY <1>1, <1>2

LEMMA EndOfDayIsConsistent ==
    ASSUME Consistent, EndOfDay
    PROVE  Consistent'
<1>1. RowsTyped'
  BY DEF EndOfDay, Consistent, RowsTyped
<1>2. \A p \in Passes : RowInOrder(p)' /\ Unborn(p)'
  BY DEF EndOfDay, Consistent, RowInOrder, Unborn, NotInserted
<1>3. \A s \in Sessions : Knows(s)' /\ \A p \in Passes : View(s, p)'
  BY DEF EndOfDay, Consistent, Knows, View, HalfClosed
<1>4. OneContended' /\ VerdictsAgree'
  BY DEF EndOfDay, Consistent, OneContended, Contended, VerdictsAgree
<1> QED
  BY <1>1, <1>2, <1>3, <1>4 DEF Consistent

----------------------------------------------------------------------------
(* The specification *)

LEMMA InitIsConsistent ==
    ASSUME Init
    PROVE  Consistent
<1>1. RowsTyped
  BY DEF Init, RowsTyped, SessionRow, IncidentRow, Row, Owner, Places,
         Outcomes, LockStates
<1>2. \A p \in Passes : RowInOrder(p) /\ Unborn(p)
  BY DEF Init, RowInOrder, Unborn, NotInserted, Ended
<1>3. \A s \in Sessions : Knows(s) /\ \A p \in Passes : View(s, p)
  BY DEF Init, Knows, View, HalfClosed, Seen, Agree
<1>4. OneContended /\ VerdictsAgree
  BY DEF Init, OneContended, Contended, VerdictsAgree
<1> QED
  BY <1>1, <1>2, <1>3, <1>4 DEF Consistent

LEMMA StepIsConsistent ==
    ASSUME Consistent, [Next]_vars
    PROVE  Consistent'
<1>1. CASE UNCHANGED vars
  <2>1. /\ lockRow' = lockRow /\ incident' = incident /\ review' = review
        /\ breach' = breach /\ over' = over /\ session' = session
    BY <1>1 DEF vars
  <2> QED
    BY <2>1 DEF Consistent, RowsTyped, RowInOrder, Unborn, NotInserted, Knows,
                View, HalfClosed, OneContended, Contended, VerdictsAgree
<1>2. CASE EndOfDay
  BY <1>2, EndOfDayIsConsistent
<1>3. ASSUME NEW s \in Sessions, Begin(s) \/ Progress(s)
      PROVE  Consistent'
  <2>1. CASE Begin(s)
    BY <2>1, BeginIsConsistent
  <2>2. CASE LookForRunning(s)
    BY <2>2, LookForRunningIsConsistent
  <2>3. CASE InsertCovered(s)
    BY <2>3, InsertCoveredIsConsistent
  <2>4. CASE InsertLock(s)
    BY <2>4, InsertLockIsConsistent
  <2>5. CASE Find(s)
    BY <2>5, FindIsConsistent
  <2>6. CASE Judge(s)
    BY <2>6, JudgeIsConsistent
  <2>7. CASE RecordBreach(s)
    BY <2>7, RecordBreachIsConsistent
  <2>8. CASE CountBreach(s)
    BY <2>8, CountBreachIsConsistent
  <2>9. CASE WriteReview(s)
    BY <2>9, WriteReviewIsConsistent
  <2>10. CASE Settle(s)
    BY <2>10, SettleIsConsistent
  <2>11. CASE CloseLock(s)
    BY <2>11, CloseLockIsConsistent
  <2>12. CASE CloseIncident(s)
    BY <2>12, CloseIncidentIsConsistent
  <2>13. CASE CloseCovered(s)
    BY <2>13, CloseCoveredIsConsistent
  <2>14. CASE Commit(s)
    BY <2>14, CommitIsConsistent
  <2>15. CASE ResolveDeadlock(s)
    BY <2>15, FailIsConsistent DEF ResolveDeadlock
  <2> QED
    BY <1>3, <2>1, <2>2, <2>3, <2>4, <2>5, <2>6, <2>7, <2>8, <2>9, <2>10,
       <2>11, <2>12, <2>13, <2>14, <2>15 DEF Progress
<1> QED
  BY <1>1, <1>2, <1>3 DEF Next

\* Every state a session can bring about or see is consistent.
THEOREM AlwaysConsistent == Spec => []Consistent
<1>1. Init => Consistent
  BY InitIsConsistent
<1>2. Consistent /\ [Next]_vars => Consistent'
  BY StepIsConsistent
<1> QED
  BY <1>1, <1>2, PTL DEF Spec

\* However many passes, reviews and readers run side by side, committed state
\* has at most one active lock: two passes that both saw none do not both
\* start one (index one_active_lock, _start_lock).
THEOREM LocksAreAlone == Spec => []OneActiveLock
<1>1. Consistent => OneActiveLock
  BY DEF Consistent, OneContended, Contended, OneActiveLock
<1> QED
  BY <1>1, AlwaysConsistent, PTL

\* A lock and its incident are written by different statements, by sessions
\* that do not see each other, and what is committed of the two always tells
\* one verdict (settle, _finish, record_breach, the triggers of 0009).
THEOREM VerdictsStayOne == Spec => []VerdictsAgree
<1>1. Consistent => VerdictsAgree
  BY DEF Consistent
<1> QED
  BY <1>1, AlwaysConsistent, PTL

BreachRow == [val : BOOLEAN, new : BOOLEAN, owner : Owner,
              lock : Passes \union {None}]

ReviewsTyped ==
    /\ review \in [Passes -> Row(BOOLEAN)]
    /\ breach \in BreachRow

LEMMA ReviewsStayTyped ==
    ASSUME ReviewsTyped, Consistent, [Next]_vars
    PROVE  ReviewsTyped'
<1>1. CASE UNCHANGED <<review, breach>>
  BY <1>1 DEF ReviewsTyped
<1>2. ASSUME NEW s \in Sessions, Fail(s)
      PROVE  ReviewsTyped'
  BY <1>2 DEF Fail, RolledBack, ReviewsTyped, Row, Owner, BreachRow
<1>3. ASSUME NEW s \in Sessions, Commit(s)
      PROVE  ReviewsTyped'
  BY <1>3 DEF Commit, Committed, ReviewsTyped, Row, Owner, BreachRow
<1>4. ASSUME NEW s \in Sessions, CountBreach(s)
      PROVE  ReviewsTyped'
  <2>1. session[s].lock \in Passes
    BY <1>4, SessionTyped DEF CountBreach, Knows
  <2> QED
    BY <1>4, <2>1 DEF CountBreach, ReviewsTyped, Owner, BreachRow
<1>5. ASSUME NEW s \in Sessions, WriteReview(s), ~Fail(s)
      PROVE  ReviewsTyped'
  BY <1>5 DEF WriteReview, Written, ReviewsTyped, Row, Owner
<1>6. ASSUME NEW s \in Sessions, Begin(s) \/ Progress(s)
      PROVE  UNCHANGED <<review, breach>> \/ Fail(s) \/ Commit(s)
             \/ CountBreach(s) \/ (WriteReview(s) /\ ~Fail(s))
  BY <1>6 DEF Progress, Begin, LookForRunning, InsertCovered, InsertLock, Find, Judge,
              RecordBreach, Settle, CloseLock, CloseIncident, CloseCovered,
              ResolveDeadlock
<1>7. CASE Next
  BY <1>1, <1>2, <1>3, <1>4, <1>5, <1>6, <1>7 DEF Next, EndOfDay
<1> QED
  BY <1>1, <1>7 DEF vars

\* Every row and every session stays of its type: a lock, an incident and a
\* review have no other states than their columns allow (incidents/models.py).
THEOREM TypeCorrect == Spec => []TypeOK
<1>1. Init => ReviewsTyped
  BY DEF Init, ReviewsTyped, Row, Owner, BreachRow
<1>2. ReviewsTyped /\ Consistent /\ [Next]_vars => ReviewsTyped'
  BY ReviewsStayTyped
<1>3. ReviewsTyped /\ Consistent => TypeOK
  BY DEF ReviewsTyped, Consistent, RowsTyped, TypeOK, SessionRow, IncidentRow, BreachRow
<1> QED
  BY <1>1, <1>2, <1>3, AlwaysConsistent, PTL DEF Spec

----------------------------------------------------------------------------
(* Reviews.  A review is in the hands of the session that wrote it until    *)
(* the lock it is of has ended, in the same transaction; whoever lifts a    *)
(* lock sees its review.                                                    *)

Ending == {"settle", "closeLock", "closeIncident", "closeCovered", "commit"}

Holds(s, p) ==
    review[p].owner = s =>
        /\ session[s].lock = p /\ review[p].new /\ session[s].at \in Ending
        /\ session[s].at \in {"closeIncident", "closeCovered", "commit"} =>
               Seen(lockRow[p], s) \in Ended

Lifts(s, p) ==
    /\ Seen(lockRow[p], s) = "lifted" => Seen(review[p], s)
    /\ session[s].at = "closeLock" /\ session[s].end = "lifted"
         /\ session[s].lock = p => Seen(review[p], s)

ReviewsInOrder ==
    /\ ReviewsTyped
    /\ \A p \in Passes : review[p].val => review[p].new
    /\ \A s \in Sessions : \A p \in Passes : Holds(s, p) /\ Lifts(s, p)
    /\ ReviewEndsItsLock

\* s writes only locks and reviews nobody else has in hand, nothing committed.
Works(s) ==
    /\ \A u \in Sessions : u # s => session'[u] = session[u]
    /\ \A p \in Passes :
         /\ \/ lockRow'[p] = lockRow[p]
            \/ /\ Free(lockRow[p], s)
               /\ lockRow'[p].owner = s
               /\ lockRow'[p].val = lockRow[p].val
         /\ \/ review'[p] = review[p]
            \/ /\ Free(review[p], s)
               /\ review'[p].owner = s /\ review'[p].new
               /\ review'[p].val = review[p].val

LEMMA WorkInOrder ==
    ASSUME ReviewsInOrder, NEW s \in Sessions, Works(s), ReviewsTyped',
           \A p \in Passes : Holds(s, p)' /\ Lifts(s, p)'
    PROVE  ReviewsInOrder'
<1>1. None \notin Sessions
  BY SessionAssumption
<1>2. \A p \in Passes : /\ lockRow'[p].val = lockRow[p].val
                        /\ review'[p].val = review[p].val
                        /\ review'[p].val => review'[p].new
  BY DEF Works, ReviewsInOrder
<1>3. ReviewEndsItsLock'
  BY <1>2 DEF ReviewsInOrder, ReviewEndsItsLock
<1>4. ASSUME NEW u \in Sessions, u # s, NEW p \in Passes
      PROVE  Holds(u, p)' /\ Lifts(u, p)'
  <2>1. /\ Seen(lockRow'[p], u) = Seen(lockRow[p], u)
        /\ Seen(review'[p], u) = Seen(review[p], u)
        /\ review'[p].owner = u => review'[p] = review[p]
        /\ session'[u] = session[u]
    BY <1>1, <1>4 DEF Works, Free, Seen
  <2>2. Holds(u, p) /\ Lifts(u, p)
    BY DEF ReviewsInOrder
  <2> QED
    BY <2>1, <2>2 DEF Holds, Lifts
<1> QED
  BY <1>2, <1>3, <1>4 DEF ReviewsInOrder

\* A step that writes no lock and no review.
LEMMA PassingInOrder ==
    ASSUME ReviewsInOrder, NEW s \in Sessions, UNCHANGED <<lockRow, review>>,
           ReviewsTyped', \A u \in Sessions : u # s => session'[u] = session[u],
           \A p \in Passes : Holds(s, p)',
           session'[s].at = "closeLock" /\ session'[s].end = "lifted" =>
               \A p \in Passes : session'[s].lock = p => Seen(review[p], s)
    PROVE  ReviewsInOrder'
<1>1. Works(s)
  BY DEF Works
<1>2. \A p \in Passes : Lifts(s, p)'
  BY DEF ReviewsInOrder, Lifts
<1> QED
  BY <1>1, <1>2, WorkInOrder

\* A session that holds no review.
LEMMA EmptyHanded ==
    ASSUME ReviewsInOrder, NEW s \in Sessions, session[s].at \notin Ending,
           NEW p \in Passes
    PROVE  review[p].owner # s
  BY DEF ReviewsInOrder, Holds

LEMMA FailInOrder ==
    ASSUME Consistent, ReviewsInOrder, NEW s \in Sessions, Fail(s), ReviewsTyped'
    PROVE  ReviewsInOrder'
<1>1. /\ None \notin Sessions /\ "failed" \in Places
      /\ \A u \in Sessions : u # s => session'[u] = session[u]
      /\ session'[s].at = "failed"
  BY SessionAssumption, SessionTyped, GoMoves DEF Fail, Places
<1>2. ASSUME NEW p \in Passes
      PROVE  /\ lockRow'[p] = RolledBack(lockRow[p], s)
             /\ review'[p] = RolledBack(review[p], s)
  BY DEF Fail
<1>3. ASSUME NEW p \in Passes
      PROVE  /\ lockRow'[p].val = lockRow[p].val /\ review'[p].val = review[p].val
             /\ review'[p].val => review'[p].new
             /\ lockRow'[p].owner # s /\ review'[p].owner # s
             /\ lockRow[p].owner # s => lockRow'[p] = lockRow[p]
             /\ review[p].owner # s => review'[p] = review[p]
             /\ lockRow[p].owner = s => lockRow'[p].owner = None
             /\ review[p].owner = s => review'[p].owner = None
  <2>1. lockRow[p] \in Row(LockStates) /\ review[p] \in Row(BOOLEAN)
    BY DEF Consistent, RowsTyped, ReviewsInOrder, ReviewsTyped
  <2>2. review[p].val => review[p].new
    BY DEF ReviewsInOrder
  <2> QED
    BY <1>1, <1>2, <2>1, <2>2 DEF RolledBack, Row
<1>4. ReviewEndsItsLock'
  BY <1>3 DEF ReviewsInOrder, ReviewEndsItsLock
<1>5. ASSUME NEW p \in Passes PROVE Holds(s, p)' /\ Lifts(s, p)'
  BY <1>1, <1>3, <1>4 DEF Holds, Lifts, Seen, ReviewEndsItsLock
<1>6. ASSUME NEW u \in Sessions, u # s, NEW p \in Passes
      PROVE  Holds(u, p)' /\ Lifts(u, p)'
  <2>1. /\ Seen(lockRow'[p], u) = Seen(lockRow[p], u)
        /\ Seen(review'[p], u) = Seen(review[p], u)
        /\ review'[p].owner = u => review'[p] = review[p]
        /\ session'[u] = session[u]
    BY <1>1, <1>3, <1>6 DEF Seen
  <2>2. Holds(u, p) /\ Lifts(u, p)
    BY DEF ReviewsInOrder
  <2> QED
    BY <2>1, <2>2 DEF Holds, Lifts
<1> QED
  BY <1>3, <1>4, <1>5, <1>6 DEF ReviewsInOrder

LEMMA CommitInOrder ==
    ASSUME Consistent, ReviewsInOrder, NEW s \in Sessions, Commit(s), ReviewsTyped'
    PROVE  ReviewsInOrder'
<1>1. /\ None \notin Sessions /\ "done" \in Places /\ session[s].at = "commit"
      /\ \A u \in Sessions : u # s => session'[u] = session[u]
      /\ session'[s].at = "done"
  BY SessionAssumption, SessionTyped, GoMoves DEF Commit, Places
<1>2. ASSUME NEW p \in Passes
      PROVE  /\ lockRow'[p] = Committed(lockRow[p], s)
             /\ review'[p] = Committed(review[p], s)
  BY DEF Commit
<1>3. ASSUME NEW p \in Passes
      PROVE  /\ lockRow[p] \in Row(LockStates) /\ review[p] \in Row(BOOLEAN)
             /\ review[p].val => review[p].new
             /\ lockRow[p].val \in Ended => lockRow[p].new = lockRow[p].val
             /\ review[p].val => lockRow[p].val \in Ended
             /\ lockRow[p].val = "lifted" => review[p].val
  BY DEF Consistent, RowsTyped, RowInOrder, ReviewsInOrder, ReviewsTyped,
         ReviewEndsItsLock
<1>4. ASSUME NEW p \in Passes
      PROVE  /\ lockRow'[p].val = Seen(lockRow[p], s)
             /\ review'[p].val = Seen(review[p], s)
             /\ review'[p].val => review'[p].new
             /\ lockRow'[p].owner # s /\ review'[p].owner # s
             /\ lockRow[p].owner # s => lockRow'[p] = lockRow[p]
             /\ review[p].owner # s => review'[p] = review[p]
             /\ lockRow[p].owner = s => lockRow'[p].owner = None
             /\ review[p].owner = s => review'[p].owner = None
  BY <1>1, <1>2, <1>3 DEF Committed, Row, Seen
<1>5. ASSUME NEW p \in Passes
      PROVE  /\ review'[p].val => lockRow'[p].val \in Ended
             /\ lockRow'[p].val = "lifted" => review'[p].val
             /\ lockRow[p].val \in Ended => lockRow'[p].val = lockRow[p].val
             /\ review[p].val => review'[p].val
  <2>1. Holds(s, p) /\ Lifts(s, p)
    BY DEF ReviewsInOrder
  <2>2. review[p].owner = s => Seen(lockRow[p], s) \in Ended
    BY <1>1, <2>1 DEF Holds
  <2>3. Seen(lockRow[p], s) = "lifted" => Seen(review[p], s)
    BY <2>1 DEF Lifts
  <2> QED
    BY <1>3, <1>4, <2>2, <2>3 DEF Seen
<1>6. ASSUME NEW p \in Passes PROVE Holds(s, p)' /\ Lifts(s, p)'
  BY <1>1, <1>4, <1>5 DEF Holds, Lifts, Seen
<1>7. ASSUME NEW u \in Sessions, u # s, NEW p \in Passes
      PROVE  Holds(u, p)' /\ Lifts(u, p)'
  <2>1. Holds(u, p) /\ Lifts(u, p) /\ session'[u] = session[u]
    BY <1>1, <1>7 DEF ReviewsInOrder
  <2>2. Seen(lockRow[p], u) \in Ended => Seen(lockRow'[p], u) = Seen(lockRow[p], u)
    BY <1>1, <1>3, <1>4, <1>5, <1>7 DEF Seen
  <2>3. Seen(review[p], u) => Seen(review'[p], u)
    BY <1>1, <1>3, <1>4, <1>5, <1>7 DEF Seen
  <2>4. review'[p].owner = u => review[p].owner = u /\ review'[p] = review[p]
    BY <1>1, <1>4, <1>7
  <2>5. Seen(lockRow'[p], u) = "lifted" =>
          Seen(lockRow[p], u) = "lifted" \/ review'[p].val
    BY <1>1, <1>4, <1>5, <1>7 DEF Seen
  <2>6. review'[p].val => Seen(review'[p], u)
    BY <1>4 DEF Seen
  <2>7. Holds(u, p)'
    BY <2>1, <2>2, <2>4 DEF Holds
  <2>8. Lifts(u, p)'
    BY <2>1, <2>3, <2>5, <2>6 DEF Lifts
  <2> QED
    BY <2>7, <2>8
<1>8. ReviewEndsItsLock'
  BY <1>5 DEF ReviewEndsItsLock
<1> QED
  BY <1>4, <1>6, <1>7, <1>8 DEF ReviewsInOrder

LEMMA WriteReviewInOrder ==
    ASSUME Consistent, ReviewsInOrder, NEW s \in Sessions, WriteReview(s),
           ~Fail(s), ReviewsTyped'
    PROVE  ReviewsInOrder'
<1>1. PICK p : p = session[s].lock
  OBVIOUS
<1>2. /\ p \in Passes /\ session[s].at = "write" /\ Free(review[p], s)
      /\ review' = [review EXCEPT ![p] = Written(@, s, TRUE)]
      /\ UNCHANGED lockRow
      /\ Go(s, "settle") /\ "settle" \in Places
  BY <1>1, SessionTyped DEF WriteReview, Knows, Places
<1>3. /\ session'[s].at = "settle" /\ session'[s].lock = p
      /\ \A u \in Sessions : u # s => session'[u] = session[u]
  BY <1>1, <1>2, SessionTyped, GoMoves
<1>4. /\ review'[p].owner = s /\ review'[p].new /\ review'[p].val = review[p].val
      /\ \A q \in Passes : q # p => review'[q] = review[q]
  <2>1. review \in [Passes -> Row(BOOLEAN)]
    BY DEF ReviewsInOrder, ReviewsTyped
  <2> QED
    BY <1>2, <2>1 DEF Written, Row
<1>5. Works(s)
  BY <1>2, <1>3, <1>4 DEF Works
<1>6. ASSUME NEW q \in Passes PROVE Holds(s, q)' /\ Lifts(s, q)'
  <2>1. Lifts(s, q) /\ review[q].owner # s
    BY <1>2, EmptyHanded DEF ReviewsInOrder, Ending
  <2>2. CASE q = p
    BY <1>2, <1>3, <1>4, <2>2 DEF Holds, Lifts, Ending, Seen
  <2>3. CASE q # p
    BY <1>2, <1>3, <1>4, <2>1, <2>3 DEF Holds, Lifts, Seen
  <2> QED
    BY <2>2, <2>3
<1> QED
  BY <1>5, <1>6, WorkInOrder

LEMMA SettleInOrder ==
    ASSUME Consistent, ReviewsInOrder, NEW s \in Sessions, Settle(s), ReviewsTyped'
    PROVE  ReviewsInOrder'
<1>1. PICK p : p = session[s].lock
  OBVIOUS
<1>2. p \in Passes /\ session[s].at = "settle" /\ UNCHANGED <<lockRow, review>>
  BY <1>1, SessionTyped DEF Settle, Knows
<1>3. \A q \in Passes : Holds(s, q)
  BY DEF ReviewsInOrder
<1>4. CASE session[s].late \/ Seen(review[p], s)
  <2>1. PICK outcome, end :
          /\ session' = [session EXCEPT ![s].at = "closeLock",
                                        ![s].outcome = outcome, ![s].end = end]
          /\ end = "lifted" => Seen(review[p], s)
    BY <1>1, <1>4 DEF Settle
  <2>2. /\ session'[s].at = "closeLock" /\ session'[s].lock = p
        /\ session'[s].end = end
        /\ \A u \in Sessions : u # s => session'[u] = session[u]
    BY <1>1, <2>1, SessionTyped DEF SessionRow
  <2>3. \A q \in Passes : Holds(s, q)'
    BY <1>1, <1>2, <1>3, <2>2 DEF Holds, Ending
  <2> QED
    BY <1>2, <2>1, <2>2, <2>3, PassingInOrder
<1>5. CASE ~(session[s].late \/ Seen(review[p], s))
  <2>1. Go(s, "commit") /\ "commit" \in Places
    BY <1>1, <1>5 DEF Settle, Places
  <2>2. /\ session'[s].at = "commit"
        /\ \A u \in Sessions : u # s => session'[u] = session[u]
    BY <2>1, SessionTyped, GoMoves
  <2>3. \A q \in Passes : review[q].owner # s
    BY <1>1, <1>3, <1>5 DEF Holds, Seen
  <2>4. \A q \in Passes : Holds(s, q)'
    BY <1>2, <2>3 DEF Holds
  <2> QED
    BY <1>2, <2>2, <2>4, PassingInOrder
<1> QED
  BY <1>4, <1>5

LEMMA CloseLockInOrder ==
    ASSUME Consistent, ReviewsInOrder, NEW s \in Sessions, CloseLock(s),
           ~Fail(s), ReviewsTyped'
    PROVE  ReviewsInOrder'
<1>1. PICK p, value, place :
        /\ p = session[s].lock /\ value = session[s].end
        /\ place = IF session[s].outcome = "open" THEN "closeIncident"
                   ELSE "closeCovered"
  OBVIOUS
<1>2. /\ p \in Passes /\ session[s].at = "closeLock" /\ value \in Ended
      /\ Free(lockRow[p], s)
      /\ lockRow' = [lockRow EXCEPT ![p] = Written(@, s, value)]
      /\ UNCHANGED review
      /\ Go(s, place) /\ place \in {"closeIncident", "closeCovered"}
      /\ place \in Places
  BY <1>1, SessionTyped DEF CloseLock, Knows, Places
<1>3. /\ session'[s].at = place /\ session'[s].lock = p
      /\ \A u \in Sessions : u # s => session'[u] = session[u]
  BY <1>1, <1>2, SessionTyped, GoMoves
<1>4. /\ lockRow'[p].owner = s /\ lockRow'[p].new = value
      /\ lockRow'[p].val = lockRow[p].val
      /\ \A q \in Passes : q # p => lockRow'[q] = lockRow[q]
  <2>1. lockRow \in [Passes -> Row(LockStates)]
    BY DEF Consistent, RowsTyped
  <2> QED
    BY <1>2, <2>1 DEF Written, Row
<1>5. Works(s)
  BY <1>2, <1>3, <1>4 DEF Works
<1>6. ASSUME NEW q \in Passes PROVE Holds(s, q)' /\ Lifts(s, q)'
  <2>1. Holds(s, q) /\ Lifts(s, q)
    BY DEF ReviewsInOrder
  <2>2. CASE q = p
    <3>1. Seen(lockRow'[p], s) = value /\ Seen(review'[p], s) = Seen(review[p], s)
      BY <1>2, <1>4 DEF Seen
    <3>2. Holds(s, q)'
      BY <1>2, <1>3, <2>1, <2>2, <3>1 DEF Holds, Ending
    <3>3. Lifts(s, q)'
      BY <1>1, <1>2, <1>3, <2>1, <2>2, <3>1 DEF Lifts
    <3> QED
      BY <3>2, <3>3
  <2>3. CASE q # p
    BY <1>1, <1>2, <1>3, <1>4, <2>1, <2>3 DEF Holds, Lifts, Ending
  <2> QED
    BY <2>2, <2>3
<1> QED
  BY <1>5, <1>6, WorkInOrder

LEMMA InsertLockInOrder ==
    ASSUME Consistent, ReviewsInOrder, NEW s \in Sessions, InsertLock(s),
           ~Fail(s), ReviewsTyped'
    PROVE  ReviewsInOrder'
<1>1. /\ s \in Passes /\ session[s].at = "insert"
      /\ lockRow' = [lockRow EXCEPT ![s] = Written(@, s, "active")]
      /\ UNCHANGED review
      /\ Go(s, "find") /\ "find" \in Places
  BY SessionTyped DEF InsertLock, Knows, Places
<1>2. /\ session'[s].at = "find"
      /\ \A u \in Sessions : u # s => session'[u] = session[u]
  BY <1>1, SessionTyped, GoMoves
<1>3. /\ Free(lockRow[s], s)
      /\ lockRow'[s].owner = s /\ lockRow'[s].new = "active"
      /\ lockRow'[s].val = lockRow[s].val
      /\ \A q \in Passes : q # s => lockRow'[q] = lockRow[q]
  <2>1. lockRow \in [Passes -> Row(LockStates)] /\ NotInserted(s)
    BY <1>1 DEF Consistent, RowsTyped, Unborn
  <2> QED
    BY <1>1, <2>1 DEF Written, Row, NotInserted, Free
<1>4. Works(s)
  BY <1>1, <1>2, <1>3 DEF Works
<1>5. ASSUME NEW q \in Passes PROVE Holds(s, q)' /\ Lifts(s, q)'
  <2>1. Lifts(s, q) /\ review[q].owner # s
    BY <1>1, EmptyHanded DEF ReviewsInOrder, Ending
  <2>2. Seen(lockRow'[q], s) = "lifted" => Seen(lockRow[q], s) = "lifted"
    BY <1>3 DEF Seen
  <2> QED
    BY <1>1, <1>2, <2>1, <2>2 DEF Holds, Lifts
<1> QED
  BY <1>4, <1>5, WorkInOrder

\* The steps of a session that go on with the close of a lock.
LEMMA CloseInOrder ==
    ASSUME Consistent, ReviewsInOrder, NEW s \in Sessions,
           CloseIncident(s) \/ CloseCovered(s), ~Fail(s), ReviewsTyped'
    PROVE  ReviewsInOrder'
<1>1. /\ session[s].at \in {"closeIncident", "closeCovered"}
      /\ UNCHANGED <<lockRow, review>>
  BY DEF CloseIncident, CloseCovered
<1>2. /\ session'[s].at \in {"closeCovered", "commit"}
      /\ session'[s].lock = session[s].lock
      /\ \A u \in Sessions : u # s => session'[u] = session[u]
  <2>1. CASE CloseIncident(s)
    <3>1. session' = [session EXCEPT ![s].at = "closeCovered", ![s].outcome = "kept"]
      BY <2>1 DEF CloseIncident
    <3> QED
      BY <3>1, SessionTyped DEF SessionRow
  <2>2. CASE CloseCovered(s)
    BY <2>2, SessionTyped, GoMoves DEF CloseCovered, Places
  <2> QED
    BY <2>1, <2>2
<1>3. \A p \in Passes : Holds(s, p)
  BY DEF ReviewsInOrder
<1>4. \A p \in Passes : Holds(s, p)'
  BY <1>1, <1>2, <1>3 DEF Holds, Ending
<1> QED
  BY <1>1, <1>2, <1>4, PassingInOrder

\* The steps of a session that has written no review yet.
LEMMA EarlyInOrder ==
    ASSUME Consistent, ReviewsInOrder, NEW s \in Sessions, ReviewsTyped',
           \/ Begin(s) \/ LookForRunning(s) \/ InsertCovered(s) \/ Find(s)
           \/ Judge(s) \/ CountBreach(s) \/ (RecordBreach(s) /\ ~Fail(s))
    PROVE  ReviewsInOrder'
<1>1. session[s].at \notin Ending /\ UNCHANGED <<lockRow, review>>
  BY DEF Begin, LookForRunning, InsertCovered, Find, Judge, CountBreach,
         RecordBreach, Ending
<1>2. \E place \in Places \ {"closeLock"} :
        /\ session'[s].at = place
        /\ \A u \in Sessions : u # s => session'[u] = session[u]
  <2>1. CASE Begin(s)
    BY <2>1, SessionTyped DEF Begin, Places, SessionRow
  <2>2. CASE LookForRunning(s)
    BY <2>2, SessionTyped DEF LookForRunning, Go, Places, SessionRow
  <2>3. CASE InsertCovered(s)
    BY <2>3, SessionTyped DEF InsertCovered, Go, Places, SessionRow
  <2>4. CASE Find(s)
    <3>1. CASE Subjects(s) = {}
      <4>1. Go(s, "commit")
        BY <2>4, <3>1 DEF Find
      <4> QED
        BY <4>1, SessionTyped DEF Go, Places, SessionRow
    <3>2. CASE Subjects(s) # {}
      <4>1. PICK p \in Subjects(s) : \E place \in {"judge", "write", "settle"} :
              session' = [session EXCEPT ![s].lock = p, ![s].at = place]
        BY <2>4, <3>2 DEF Find, Sessions
      <4>2. PICK place \in {"judge", "write", "settle"} :
              session' = [session EXCEPT ![s].lock = p, ![s].at = place]
        BY <4>1
      <4> QED
        BY <4>2, SessionTyped DEF Places, SessionRow
    <3> QED
      BY <3>1, <3>2
  <2>5. CASE Judge(s)
    BY <2>5, SessionTyped DEF Judge, Go, Places, SessionRow
  <2>6. CASE CountBreach(s)
    BY <2>6, SessionTyped DEF CountBreach, Go, Places, SessionRow
  <2>7. CASE RecordBreach(s) /\ ~Fail(s)
    BY <2>7, SessionTyped DEF RecordBreach, Go, Places, SessionRow
  <2> QED
    BY <2>1, <2>2, <2>3, <2>4, <2>5, <2>6, <2>7
<1>3. \A p \in Passes : Holds(s, p)'
  BY <1>1, EmptyHanded DEF Holds
<1> QED
  BY <1>1, <1>2, <1>3, PassingInOrder

LEMMA StepInOrder ==
    ASSUME Consistent, ReviewsInOrder, [Next]_vars
    PROVE  ReviewsInOrder'
<1>1. ReviewsTyped'
  BY ReviewsStayTyped DEF ReviewsInOrder
<1>2. CASE UNCHANGED <<lockRow, review, session>>
  BY <1>1, <1>2 DEF ReviewsInOrder, Holds, Lifts, ReviewEndsItsLock, ReviewsTyped
<1>3. ASSUME NEW s \in Sessions, Begin(s) \/ Progress(s)
      PROVE  ReviewsInOrder'
  <2>1. CASE Fail(s)
    BY <1>1, <2>1, FailInOrder
  <2>2. CASE ~Fail(s)
    <3>1. ~ResolveDeadlock(s)
      BY <2>2 DEF ResolveDeadlock
    <3> QED
      BY <1>1, <1>3, <2>2, <3>1, EarlyInOrder, InsertLockInOrder,
         WriteReviewInOrder, SettleInOrder, CloseLockInOrder, CloseInOrder,
         CommitInOrder DEF Progress
  <2> QED
    BY <2>1, <2>2
<1> QED
  BY <1>2, <1>3 DEF Next, EndOfDay, vars

\* Whatever passes and readers settle a lock while its review is given, a
\* review that was taken has ended its lock, and a lock is lifted only with
\* its review (submit_review and settle, one transaction of three rows).
THEOREM ReviewsEndLocks == Spec => []ReviewEndsItsLock
<1>1. Init => ReviewsInOrder
  BY SessionAssumption
  DEF Init, ReviewsInOrder, ReviewsTyped, Row, Owner, BreachRow, Holds, Lifts,
      Seen, Ended, ReviewEndsItsLock
<1>2. Consistent /\ ReviewsInOrder /\ [Next]_vars => ReviewsInOrder'
  BY StepInOrder
<1>3. ReviewsInOrder => ReviewEndsItsLock
  BY DEF ReviewsInOrder
<1> QED
  BY <1>1, <1>2, <1>3, AlwaysConsistent, PTL DEF Spec

=============================================================================
