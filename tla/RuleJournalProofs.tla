------------------------- MODULE RuleJournalProofs -------------------------
(***************************************************************************)
(* What the journal of evaluations guarantees for every number of          *)
(* sessions, rules, trades and overlaps: a row is never changed, no trade  *)
(* of a walk is passed over, and no rule looks at a trade older than       *)
(* itself.  For passes that do not overlap: a rule fires on a rise, the    *)
(* counters are those of the trades stored, and what a refresh of          *)
(* positions found is kept.                                                *)
(***************************************************************************)
EXTENDS RuleJournal, FiniteSetTheorems, WellFoundedInduction, TLAPS

\* A session is a record of these fields.
Shape(x) ==
    x = [at |-> x.at, kind |-> x.kind, batch |-> x.batch, facts |-> x.facts,
         conditions |-> x.conditions, done |-> x.done, unrealized |-> x.unrealized,
         minute |-> x.minute, written |-> x.written]

Begun(x, a, k, b, f, u, m) ==
    [x EXCEPT !.at = a, !.kind = k, !.batch = b, !.facts = f, !.unrealized = u, !.minute = m]

HasRead(x, a, c, d) == [x EXCEPT !.at = a, !.conditions = c, !.done = d]

HasWritten(x, a, w, u) == [x EXCEPT !.at = a, !.written = w, !.unrealized = u]

LEMMA Beginning ==
    ASSUME NEW x, Shape(x), NEW a, NEW k, NEW b, NEW f, NEW u, NEW m
    PROVE  /\ Shape(Begun(x, a, k, b, f, u, m))
           /\ Begun(x, a, k, b, f, u, m).at = a
           /\ Begun(x, a, k, b, f, u, m).kind = k
           /\ Begun(x, a, k, b, f, u, m).batch = b
           /\ Begun(x, a, k, b, f, u, m).facts = f
           /\ Begun(x, a, k, b, f, u, m).conditions = x.conditions
           /\ Begun(x, a, k, b, f, u, m).done = x.done
           /\ Begun(x, a, k, b, f, u, m).written = x.written
           /\ Begun(x, a, k, b, f, u, m).unrealized = u
           /\ Begun(x, a, k, b, f, u, m).minute = m
<1>1. ASSUME NEW y, y = Begun(x, a, k, b, f, u, m)
      PROVE  /\ Shape(y)
             /\ y.at = a
             /\ y.kind = k
             /\ y.batch = b
             /\ y.facts = f
             /\ y.conditions = x.conditions
             /\ y.done = x.done
             /\ y.written = x.written
             /\ y.unrealized = u
             /\ y.minute = m
  BY <1>1 DEF Shape, Begun
<1> QED
  BY <1>1

LEMMA Reading ==
    ASSUME NEW x, Shape(x), NEW a, NEW c, NEW d
    PROVE  /\ Shape(HasRead(x, a, c, d))
           /\ HasRead(x, a, c, d).at = a
           /\ HasRead(x, a, c, d).conditions = c
           /\ HasRead(x, a, c, d).done = d
           /\ HasRead(x, a, c, d).facts = x.facts
           /\ HasRead(x, a, c, d).batch = x.batch
           /\ HasRead(x, a, c, d).kind = x.kind
           /\ HasRead(x, a, c, d).written = x.written
           /\ HasRead(x, a, c, d).unrealized = x.unrealized
           /\ HasRead(x, a, c, d).minute = x.minute
<1>1. ASSUME NEW y, y = HasRead(x, a, c, d)
      PROVE  /\ Shape(y)
             /\ y.at = a
             /\ y.conditions = c
             /\ y.done = d
             /\ y.facts = x.facts
             /\ y.batch = x.batch
             /\ y.kind = x.kind
             /\ y.written = x.written
             /\ y.unrealized = x.unrealized
             /\ y.minute = x.minute
  BY <1>1 DEF Shape, HasRead
<1> QED
  BY <1>1

LEMMA Writing ==
    ASSUME NEW x, Shape(x), NEW a, NEW w, NEW u
    PROVE  /\ Shape(HasWritten(x, a, w, u))
           /\ HasWritten(x, a, w, u).at = a
           /\ HasWritten(x, a, w, u).written = w
           /\ HasWritten(x, a, w, u).unrealized = u
           /\ HasWritten(x, a, w, u).facts = x.facts
           /\ HasWritten(x, a, w, u).batch = x.batch
           /\ HasWritten(x, a, w, u).kind = x.kind
           /\ HasWritten(x, a, w, u).conditions = x.conditions
           /\ HasWritten(x, a, w, u).done = x.done
           /\ HasWritten(x, a, w, u).minute = x.minute
<1>1. ASSUME NEW y, y = HasWritten(x, a, w, u)
      PROVE  /\ Shape(y)
             /\ y.at = a
             /\ y.written = w
             /\ y.unrealized = u
             /\ y.facts = x.facts
             /\ y.batch = x.batch
             /\ y.kind = x.kind
             /\ y.conditions = x.conditions
             /\ y.done = x.done
             /\ y.minute = x.minute
  BY <1>1 DEF Shape, HasWritten
<1> QED
  BY <1>1

Known == {r \in Rules : rule[r].state # "absent"}

Shapes ==
    /\ session = [s \in Sessions |-> session[s]]
    /\ \A s \in Sessions : Shape(session[s])
    /\ rule = [r \in Rules |-> rule[r]]
    /\ \A r \in Rules : rule[r] = [state |-> rule[r].state,
                                   created_at |-> rule[r].created_at,
                                   conditions |-> rule[r].conditions]

\* Rows belong to rules that were written, and to trades no older than these.
RowsHaveRules ==
    \A k \in DOMAIN journal :
        /\ k[1] \in Known
        /\ \A t \in Trades : k[2] = TradeRef(t) => t >= rule[k[1]].created_at

\* A session reads rules that were written, and rows that stay.
ReadsHold ==
    \A s \in Sessions : /\ DOMAIN session[s].conditions \subseteq Known
                        /\ DOMAIN session[s].done \subseteq DOMAIN journal

\* What a session wrote and has not committed is of the trades it walked and
\* is nobody else's: neither committed nor written by another.
WritesAreItsOwn ==
    \A s \in Sessions : \A k \in DOMAIN session[s].written :
        /\ \E r \in DOMAIN session[s].conditions : \E t \in session[s].facts :
             k = <<r, TradeRef(t)>> /\ t >= rule[r].created_at
        /\ k \notin DOMAIN journal
        /\ \A o \in Sessions \ {s} : k \notin DOMAIN session[o].written

\* A walk that ended has left a row for each of its trades, its own or one
\* that was there.
WalkIsComplete ==
    \A s \in Sessions : session[s].at = "save" =>
        \A r \in DOMAIN session[s].conditions : \A t \in session[s].facts :
            t >= rule[r].created_at =>
                <<r, TradeRef(t)>> \in DOMAIN journal \union DOMAIN session[s].written

WritesFollowTheWalk ==
    \A s \in Sessions : session[s].at # "save" => DOMAIN session[s].written = {}

IInv ==
    /\ Shapes
    /\ RowsHaveRules
    /\ ReadsHold
    /\ WritesAreItsOwn
    /\ WalkIsComplete
    /\ WritesFollowTheWalk

LEMMA InitIInv == Init => IInv
<1> SUFFICES ASSUME Init PROVE IInv
  OBVIOUS
<1>1. DOMAIN NoRows = {}
  BY DEF NoRows
<1>2. Shapes
  BY DEF Init, NoRule, Shapes, Shape, Idle
<1>3. RowsHaveRules
  BY <1>1 DEF Init, NoRule, RowsHaveRules
<1>4. ReadsHold /\ WritesAreItsOwn /\ WalkIsComplete /\ WritesFollowTheWalk
  BY <1>1 DEF Init, ReadsHold, WritesAreItsOwn, WalkIsComplete, WritesFollowTheWalk, Idle
<1> QED
  BY <1>2, <1>3, <1>4 DEF IInv

\* The editor: a rule written is never unwritten, and its time stays.
LEMMA EditorKeeps ==
    ASSUME IInv, NEW r \in Rules, NEW row, SetRule(r, row),
           row = [state |-> row.state, created_at |-> row.created_at,
                  conditions |-> row.conditions],
           row.state # "absent",
           rule[r].state # "absent" => row.created_at = rule[r].created_at
    PROVE  IInv'
<1>1. rule' = [rule EXCEPT ![r] = row]
  BY DEF SetRule
<1>2. \A q \in Rules : rule'[q] = IF q = r THEN row ELSE rule[q]
  BY <1>1 DEF IInv, Shapes
<1>3. Known \subseteq Known'
  BY <1>2 DEF Known
<1>4. \A q \in Known : rule'[q].created_at = rule[q].created_at
  BY <1>2 DEF Known
<1>5. UNCHANGED <<journal, session>>
  BY DEF SetRule
<1>6. Shapes'
  BY <1>1, <1>2, <1>5 DEF IInv, Shapes, Shape
<1>7. RowsHaveRules'
  BY <1>3, <1>4, <1>5 DEF IInv, RowsHaveRules
<1>8. ReadsHold'
  BY <1>3, <1>5 DEF IInv, ReadsHold
<1>9. WritesAreItsOwn'
  BY <1>4, <1>5 DEF IInv, WritesAreItsOwn, ReadsHold
<1>10. WalkIsComplete'
  BY <1>4, <1>5 DEF IInv, WalkIsComplete, ReadsHold
<1>11. WritesFollowTheWalk'
  BY <1>5 DEF IInv, WritesFollowTheWalk
<1> QED
  BY <1>6, <1>7, <1>8, <1>9, <1>10, <1>11 DEF IInv

\* A session that begins, fails or commits holds no reads and no writes.
LEMMA IdleHoldsNothing ==
    DOMAIN Idle.written = {} /\ DOMAIN Idle.conditions = {} /\ DOMAIN Idle.done = {}
BY DEF Idle, NoRows

LEMMA TickKeeps == IInv /\ Tick => IInv'
<1> SUFFICES ASSUME IInv, Tick PROVE IInv'
  OBVIOUS
<1>1. UNCHANGED <<rule, journal, session>>
  BY DEF Tick
<1>2. Shapes'
  BY <1>1 DEF IInv, Shapes, Shape
<1>3. RowsHaveRules' /\ ReadsHold' /\ WritesAreItsOwn' /\ WalkIsComplete'
      /\ WritesFollowTheWalk'
  BY <1>1 DEF IInv, RowsHaveRules, ReadsHold, WritesAreItsOwn, WalkIsComplete,
              WritesFollowTheWalk, Known
<1> QED
  BY <1>2, <1>3 DEF IInv

\* What the editor does to a row of the rules.
Edited(r, row) ==
    /\ SetRule(r, row)
    /\ row = [state |-> row.state, created_at |-> row.created_at,
              conditions |-> row.conditions]
    /\ row.state # "absent"
    /\ rule[r].state # "absent" => row.created_at = rule[r].created_at

LEMMA EditSetsARow ==
    ASSUME IInv, NEW r \in Rules,
           CreateRule(r) \/ EditRule(r)
    PROVE  \E row : Edited(r, row)
<1>1. rule[r] = [state |-> rule[r].state, created_at |-> rule[r].created_at,
                 conditions |-> rule[r].conditions]
  BY DEF IInv, Shapes
<1>2. CASE CreateRule(r)
  <2>1. PICK c \in Offered :
          SetRule(r, [state |-> "on", created_at |-> now, conditions |-> c])
    BY <1>2 DEF CreateRule, NewRule
  <2> QED
    BY <1>1, <1>2, <2>1 DEF CreateRule, NewRule, Edited
<1>3. CASE PatchRule(r)
  <2>1. PICK c \in Offered : SetRule(r, [rule[r] EXCEPT !.conditions = c])
    BY <1>3 DEF PatchRule, Found
  <2>2. rule[r].state # "absent"
    BY <1>3 DEF PatchRule, Found
  <2>3. [rule[r] EXCEPT !.conditions = c]
          = [state |-> rule[r].state, created_at |-> rule[r].created_at, conditions |-> c]
    BY <1>1
  <2> QED
    BY <1>1, <2>1, <2>2, <2>3 DEF Edited
<1>4. CASE ToggleRule(r)
  <2> DEFINE flipped == IF rule[r].state = "on" THEN "off" ELSE "on"
  <2>1. SetRule(r, [rule[r] EXCEPT !.state = flipped])
    BY <1>4 DEF ToggleRule, Found
  <2>2. [rule[r] EXCEPT !.state = flipped]
          = [state |-> flipped, created_at |-> rule[r].created_at,
             conditions |-> rule[r].conditions]
    BY <1>1
  <2>3. flipped # "absent"
    OBVIOUS
  <2> HIDE DEF flipped
  <2> QED
    BY <1>1, <2>1, <2>2, <2>3 DEF Edited
<1>5. CASE DeleteRule(r)
  <2>1. SetRule(r, [rule[r] EXCEPT !.state = "deleted"])
    BY <1>5 DEF DeleteRule, Found
  <2>2. [rule[r] EXCEPT !.state = "deleted"]
          = [state |-> "deleted", created_at |-> rule[r].created_at,
             conditions |-> rule[r].conditions]
    BY <1>1
  <2> QED
    BY <1>1, <2>1, <2>2 DEF Edited
<1> QED
  BY <1>2, <1>3, <1>4, <1>5 DEF EditRule

LEMMA EditKeeps ==
    ASSUME IInv, NEW r \in Rules,
           CreateRule(r) \/ EditRule(r)
    PROVE  IInv'
<1>1. PICK row : Edited(r, row)
  BY EditSetsARow
<1> QED
  BY <1>1, EditorKeeps DEF Edited

\* A session alone changes, to one that has read and written nothing; the
\* journal does not change.
LEMMA ClearedKeeps ==
    ASSUME IInv, NEW s \in Sessions, NEW x, Shape(x),
           DOMAIN x.written = {}, DOMAIN x.conditions = {}, DOMAIN x.done = {},
           session' = [session EXCEPT ![s] = x],
           UNCHANGED <<rule, journal>>
    PROVE  IInv'
<1>1. \A o \in Sessions : session'[o] = IF o = s THEN x ELSE session[o]
  BY DEF IInv, Shapes
<1>2. session' = [o \in Sessions |-> session'[o]]
  BY DEF IInv, Shapes
<1>3. Shapes'
  BY <1>1, <1>2 DEF IInv, Shapes, Shape
<1>4. RowsHaveRules' /\ ReadsHold'
  BY <1>1 DEF IInv, RowsHaveRules, ReadsHold, Known
<1>5. WritesAreItsOwn'
  BY <1>1 DEF IInv, WritesAreItsOwn
<1>6. WalkIsComplete'
  BY <1>1 DEF IInv, WalkIsComplete
<1>7. WritesFollowTheWalk'
  BY <1>1 DEF IInv, WritesFollowTheWalk
<1> QED
  BY <1>3, <1>4, <1>5, <1>6, <1>7 DEF IInv

LEMMA BeginKeeps ==
    ASSUME IInv, NEW s \in Sessions, NEW kind, NEW batch, NEW u, Begin(s, kind, batch, u)
    PROVE  IInv'
<1> DEFINE x == [Idle EXCEPT !.at = "read", !.kind = kind, !.batch = batch,
                             !.facts = stored \union batch, !.unrealized = u,
                             !.minute = IF kind = "positions" THEN now ELSE 0]
<1>1. session' = [session EXCEPT ![s] = x] /\ UNCHANGED <<rule, journal>>
  BY DEF Begin
<1>2. Shape(x) /\ x.facts = stored \union batch /\ x.written = Idle.written
      /\ x.conditions = Idle.conditions /\ x.done = Idle.done
  <2>1. Shape(Idle)
    BY DEF Shape, Idle
  <2> DEFINE m == IF kind = "positions" THEN now ELSE 0
             f == stored \union batch
  <2>2. x = Begun(Idle, "read", kind, batch, f, u, m)
    BY DEF Begun
  <2>3. f = stored \union batch
    OBVIOUS
  <2> HIDE DEF x, m, f
  <2> QED
    BY <2>1, <2>2, <2>3, Beginning
<1> HIDE DEF x
<1> QED
  BY <1>1, <1>2, IdleHoldsNothing, ClearedKeeps

LEMMA FailKeeps ==
    ASSUME IInv, NEW s \in Sessions, Fail(s)
    PROVE  IInv'
<1>1. session' = [session EXCEPT ![s] = Idle] /\ UNCHANGED <<rule, journal>>
  BY DEF Fail
<1>2. Shape(Idle)
  BY DEF Shape, Idle
<1> QED
  BY <1>1, <1>2, IdleHoldsNothing, ClearedKeeps

LEMMA ReadJournalKeeps ==
    ASSUME IInv, NEW s \in Sessions, ReadJournal(s)
    PROVE  IInv'
<1> DEFINE active == {r \in Rules : rule[r].state = "on"}
           x == [session[s] EXCEPT !.at = "trades",
                                   !.conditions = [r \in active |-> rule[r].conditions],
                                   !.done = journal]
<1>1. session' = [session EXCEPT ![s] = x] /\ UNCHANGED <<rule, journal>>
  BY DEF ReadJournal
<1>2. Shape(session[s]) /\ session[s].at = "read"
  BY DEF IInv, Shapes, ReadJournal
<1>3. Shape(x) /\ x.at = "trades" /\ x.facts = session[s].facts
      /\ x.written = session[s].written /\ DOMAIN x.conditions = active
      /\ x.done = journal
  <2> DEFINE c == [r \in active |-> rule[r].conditions]
  <2>1. DOMAIN c = active
    OBVIOUS
  <2>2. x = HasRead(session[s], "trades", c, journal)
    BY DEF HasRead
  <2> HIDE DEF x, c, active
  <2> QED
    BY <1>2, <2>1, <2>2, Reading
<1>4. active \subseteq Known
  BY DEF Known
<1> HIDE DEF x, active
<1>5. \A o \in Sessions : session'[o] = IF o = s THEN x ELSE session[o]
  BY <1>1 DEF IInv, Shapes
<1>6. session' = [o \in Sessions |-> session'[o]]
  BY <1>1 DEF IInv, Shapes
<1>7. DOMAIN session[s].written = {}
  BY <1>2 DEF IInv, WritesFollowTheWalk
<1>8. Shapes'
  BY <1>1, <1>3, <1>5, <1>6 DEF IInv, Shapes, Shape
<1>9. RowsHaveRules' /\ ReadsHold'
  BY <1>1, <1>3, <1>4, <1>5 DEF IInv, RowsHaveRules, ReadsHold, Known
<1>10. WritesAreItsOwn'
  BY <1>1, <1>3, <1>5, <1>7 DEF IInv, WritesAreItsOwn
<1>11. WalkIsComplete' /\ WritesFollowTheWalk'
  BY <1>1, <1>3, <1>5, <1>7 DEF IInv, WalkIsComplete, WritesFollowTheWalk
<1> QED
  BY <1>8, <1>9, <1>10, <1>11 DEF IInv

LEMMA InsertedDomain ==
    ASSUME NEW rows
    PROVE  DOMAIN Inserted(rows) = DOMAIN rows \ DOMAIN journal
BY DEF Inserted

LEMMA WithDomain ==
    ASSUME NEW j, NEW rows
    PROVE  /\ DOMAIN With(j, rows) = DOMAIN j \union DOMAIN rows
           /\ \A k \in DOMAIN j : k \notin DOMAIN rows => With(j, rows)[k] = j[k]
BY DEF With

\* References of trades are distinct, and none is one of a refresh.
LEMMA ReferencesDiffer ==
    /\ \A t, u : TradeRef(t) = TradeRef(u) => t = u
    /\ \A t, m : TradeRef(t) # PositionsRef(m)
BY DEF TradeRef, PositionsRef

\* The walk inserts a row for each rule and trade it finds unjudged, unless
\* one was committed since the journal was read.
LEMMA JudgeTradesKeeps ==
    ASSUME IInv, NEW s \in Sessions, JudgeTrades(s)
    PROVE  IInv'
<1> DEFINE active == DOMAIN session[s].conditions
           w == Inserted(Verdicts(s))
           u == IF session[s].kind = "day" THEN Kept(s) ELSE session[s].unrealized
           x == HasWritten(session[s], "save", w, u)
<1>1. session' = [session EXCEPT ![s] = x]
  <2>1. session' = [session EXCEPT
          ![s] = [session[s] EXCEPT !.at = "save", !.written = w, !.unrealized = u]]
    BY DEF JudgeTrades
  <2> HIDE DEF w, u
  <2>2. x = [session[s] EXCEPT !.at = "save", !.written = w, !.unrealized = u]
    BY DEF HasWritten
  <2> HIDE DEF x
  <2> QED
    BY <2>1, <2>2
<1>2. UNCHANGED <<rule, journal>> /\ Free(s, Due(s))
  BY DEF JudgeTrades
<1>3. DOMAIN w = Due(s) \ DOMAIN journal
  <2>1. DOMAIN Verdicts(s) = Due(s)
    BY DEF Verdicts
  <2> QED
    BY <2>1, InsertedDomain
<1>4. \A k \in Due(s) : \E r \in active : \E t \in session[s].facts :
         k = <<r, TradeRef(t)>> /\ t >= rule[r].created_at
  BY DEF Due, Unjudged, Subjects
<1>5. \A r \in active : \A t \in session[s].facts :
         t >= rule[r].created_at =>
            <<r, TradeRef(t)>> \in Due(s) \union DOMAIN session[s].done
  BY DEF Due, Unjudged, Subjects
<1>6. Shape(session[s])
  BY DEF IInv, Shapes
<1> HIDE DEF w, u
<1>7. /\ Shape(x) /\ x.at = "save" /\ x.written = w
      /\ x.facts = session[s].facts /\ x.conditions = session[s].conditions
      /\ x.done = session[s].done
  BY <1>6, Writing
<1> HIDE DEF x
<1>8. \A o \in Sessions : session'[o] = IF o = s THEN x ELSE session[o]
  BY <1>1 DEF IInv, Shapes
<1>9. session' = [o \in Sessions |-> session'[o]]
  BY <1>1 DEF IInv, Shapes
<1>10. Shapes'
  BY <1>2, <1>7, <1>8, <1>9 DEF IInv, Shapes, Shape
<1>11. RowsHaveRules' /\ ReadsHold'
  BY <1>2, <1>7, <1>8 DEF IInv, RowsHaveRules, ReadsHold, Known
<1>12. WritesAreItsOwn'
  <2>1. ASSUME NEW k \in DOMAIN w
        PROVE  /\ \E r \in active : \E t \in session[s].facts :
                    k = <<r, TradeRef(t)>> /\ t >= rule[r].created_at
               /\ k \notin DOMAIN journal
               /\ \A o \in Sessions \ {s} : k \notin DOMAIN session[o].written
    BY <1>2, <1>3, <1>4 DEF Free
  <2>2. ASSUME NEW o \in Sessions, o # s, NEW k \in DOMAIN session[o].written
        PROVE  /\ \E r \in DOMAIN session[o].conditions : \E t \in session[o].facts :
                    k = <<r, TradeRef(t)>> /\ t >= rule[r].created_at
               /\ k \notin DOMAIN journal
               /\ k \notin DOMAIN w
               /\ \A p \in Sessions \ {o, s} : k \notin DOMAIN session[p].written
    BY <2>1, <2>2 DEF IInv, WritesAreItsOwn
  <2> QED
    BY <1>2, <1>7, <1>8, <2>1, <2>2 DEF WritesAreItsOwn
<1>13. WalkIsComplete'
  <2>1. \A r \in active : \A t \in session[s].facts :
          t >= rule[r].created_at => <<r, TradeRef(t)>> \in DOMAIN journal \union DOMAIN w
    BY <1>3, <1>5 DEF IInv, ReadsHold
  <2> QED
    BY <1>2, <1>7, <1>8, <2>1 DEF IInv, WalkIsComplete
<1>14. WritesFollowTheWalk'
  BY <1>7, <1>8 DEF IInv, WritesFollowTheWalk
<1> QED
  BY <1>10, <1>11, <1>12, <1>13, <1>14 DEF IInv

LEMMA RowsOfPositions ==
    ASSUME NEW s \in Sessions
    PROVE  \A k \in DOMAIN PositionRows(s) : \E r \in DOMAIN session[s].conditions :
             k = <<r, PositionsRef(session[s].minute)>>
BY DEF PositionRows

\* A commit adds to the journal the rows of the session, and of its refresh.
LEMMA SaveAdds ==
    ASSUME IInv, NEW s \in Sessions, SaveCounters(s)
    PROVE  \E new :
             /\ DOMAIN journal' = DOMAIN journal \union DOMAIN session[s].written \union new
             /\ \A k \in new : \E r \in DOMAIN session[s].conditions :
                  k = <<r, PositionsRef(session[s].minute)>>
             /\ \A k \in DOMAIN journal : journal'[k] = journal[k]
<1> DEFINE new == DOMAIN Inserted(PositionRows(s))
           walked == With(journal, session[s].written)
<1>1. journal' = With(walked, Inserted(PositionRows(s)))
  BY DEF SaveCounters
<1>2. new = DOMAIN PositionRows(s) \ DOMAIN journal
  BY InsertedDomain
<1>3. DOMAIN session[s].written \intersect DOMAIN journal = {}
  BY DEF IInv, WritesAreItsOwn
<1>4. \A k \in new : \E r \in DOMAIN session[s].conditions :
         k = <<r, PositionsRef(session[s].minute)>>
  BY <1>2, RowsOfPositions
<1>5. DOMAIN walked = DOMAIN journal \union DOMAIN session[s].written
      /\ \A k \in DOMAIN journal : walked[k] = journal[k]
  BY <1>3, WithDomain
<1> HIDE DEF walked
<1>6. DOMAIN journal' = DOMAIN walked \union new
  BY <1>1, WithDomain
<1>7. \A k \in DOMAIN walked : k \notin new => journal'[k] = walked[k]
  BY <1>1, WithDomain
<1> HIDE DEF new
<1>8. DOMAIN journal' = DOMAIN journal \union DOMAIN session[s].written \union new
  BY <1>5, <1>6
<1>9. \A k \in DOMAIN journal : journal'[k] = journal[k]
  BY <1>2, <1>5, <1>7
<1> QED
  BY <1>4, <1>8, <1>9

LEMMA SaveKeeps ==
    ASSUME IInv, NEW s \in Sessions, SaveCounters(s)
    PROVE  IInv'
<1>1. session' = [session EXCEPT ![s] = Idle] /\ rule' = rule
  BY DEF SaveCounters
<1>2. PICK new :
        /\ DOMAIN journal' = DOMAIN journal \union DOMAIN session[s].written \union new
        /\ \A k \in new : \E r \in DOMAIN session[s].conditions :
             k = <<r, PositionsRef(session[s].minute)>>
  BY SaveAdds
<1>3. Shape(Idle)
  BY DEF Shape, Idle
<1>4. \A o \in Sessions : session'[o] = IF o = s THEN Idle ELSE session[o]
  BY <1>1 DEF IInv, Shapes
<1>5. session' = [o \in Sessions |-> session'[o]]
  BY <1>1 DEF IInv, Shapes
<1>6. Shapes'
  BY <1>1, <1>3, <1>4, <1>5 DEF IInv, Shapes, Shape
<1>7. RowsHaveRules'
  <2>1. DOMAIN session[s].conditions \subseteq Known
    BY DEF IInv, ReadsHold
  <2>2. ASSUME NEW k \in DOMAIN session[s].written
        PROVE  k[1] \in Known /\ \A t \in Trades : k[2] = TradeRef(t) => t >= rule[k[1]].created_at
    <3>1. PICK r \in DOMAIN session[s].conditions, t \in session[s].facts :
            k = <<r, TradeRef(t)>> /\ t >= rule[r].created_at
      BY DEF IInv, WritesAreItsOwn
    <3>2. k[1] = r /\ k[2] = TradeRef(t)
      BY <3>1
    <3> QED
      BY <2>1, <3>1, <3>2, ReferencesDiffer
  <2>3. ASSUME NEW k \in new
        PROVE  k[1] \in Known /\ \A t \in Trades : k[2] # TradeRef(t)
    <3>1. PICK r \in DOMAIN session[s].conditions : k = <<r, PositionsRef(session[s].minute)>>
      BY <1>2
    <3>2. k[1] = r /\ k[2] = PositionsRef(session[s].minute)
      BY <3>1
    <3> QED
      BY <2>1, <3>2, ReferencesDiffer
  <2>4. ASSUME NEW k \in DOMAIN journal
        PROVE  k[1] \in Known /\ \A t \in Trades : k[2] = TradeRef(t) => t >= rule[k[1]].created_at
    BY DEF IInv, RowsHaveRules
  <2>5. Known' = Known
    BY <1>1 DEF Known
  <2> QED
    BY <1>1, <1>2, <2>2, <2>3, <2>4, <2>5 DEF RowsHaveRules
<1>8. ReadsHold'
  BY <1>1, <1>2, <1>4, IdleHoldsNothing DEF IInv, ReadsHold, Known
<1>9. WritesAreItsOwn'
  <2>1. ASSUME NEW o \in Sessions, o # s, NEW k \in DOMAIN session[o].written
        PROVE  k \notin DOMAIN journal'
    <3>1. k \notin DOMAIN journal /\ k \notin DOMAIN session[s].written
      BY <2>1 DEF IInv, WritesAreItsOwn
    <3>2. PICK r, t : k = <<r, TradeRef(t)>>
      BY DEF IInv, WritesAreItsOwn
    <3>3. k \notin new
      BY <1>2, <3>2, ReferencesDiffer
    <3> QED
      BY <1>2, <3>1, <3>3
  <2> QED
    BY <1>1, <1>4, <2>1, IdleHoldsNothing DEF IInv, WritesAreItsOwn
<1>10. WalkIsComplete'
  BY <1>1, <1>2, <1>4, IdleHoldsNothing DEF IInv, WalkIsComplete
<1>11. WritesFollowTheWalk'
  BY <1>4, IdleHoldsNothing DEF IInv, WritesFollowTheWalk
<1> QED
  BY <1>6, <1>7, <1>8, <1>9, <1>10, <1>11 DEF IInv

LEMMA StutterKeeps == IInv /\ UNCHANGED vars => IInv'
BY DEF IInv, Shapes, Shape, RowsHaveRules, ReadsHold, WritesAreItsOwn, WalkIsComplete,
       WritesFollowTheWalk, Known, vars

LEMMA NextKeeps == IInv /\ [Next]_vars => IInv'
<1> SUFFICES ASSUME IInv, [Next]_vars PROVE IInv'
  OBVIOUS
<1>1. CASE Tick
  BY <1>1, TickKeeps
<1>2. ASSUME NEW r \in Rules,
             CreateRule(r) \/ EditRule(r)
      PROVE  IInv'
  BY <1>2, EditKeeps
<1>3. ASSUME NEW s \in Sessions, BeginDay(s)
      PROVE  IInv'
  BY <1>3, BeginKeeps DEF BeginDay
<1>4. ASSUME NEW s \in Sessions, RefreshPositions(s)
      PROVE  IInv'
  BY <1>4, BeginKeeps DEF RefreshPositions
<1>5. ASSUME NEW s \in Sessions, PassStep(s)
      PROVE  IInv'
  BY <1>5, ReadJournalKeeps, JudgeTradesKeeps, SaveKeeps DEF PassStep
<1>6. ASSUME NEW s \in Sessions, Fail(s)
      PROVE  IInv'
  BY <1>6, FailKeeps
<1>7. CASE UNCHANGED vars
  BY <1>7, StutterKeeps
<1> QED
  BY <1>1, <1>2, <1>3, <1>4, <1>5, <1>6, <1>7 DEF Next

\* The invariant the theorems rest on.
THEOREM Invariant == Spec => []IInv
<1> QED
  BY InitIInv, NextKeeps, PTL DEF Spec

\* No rule, however edited, switched or deleted, has a verdict on a trade that
\* closed before it was written (subjects of run_day).
THEOREM VerdictsAreNotInRetrospect == Spec => []NoFiringInRetrospect
<1>1. IInv => NoFiringInRetrospect
  <2> SUFFICES ASSUME IInv, NEW r \in Rules, NEW t \in TradeRows(r)
               PROVE  t >= rule[r].created_at
    BY DEF NoFiringInRetrospect
  <2> DEFINE k == <<r, TradeRef(t)>>
  <2>1. t \in Trades /\ k \in DOMAIN journal
    BY DEF TradeRows
  <2>2. k[1] = r /\ k[2] = TradeRef(t)
    OBVIOUS
  <2> QED
    BY <2>1, <2>2 DEF IInv, RowsHaveRules
<1> QED
  BY <1>1, Invariant, PTL

\* on_conflict_do_nothing of record_evaluation and the wait for a key another
\* session holds: a verdict that was committed stands.
THEOREM VerdictsStand == Spec => JournalIsFrozen
<1> DEFINE Frozen ==
        \A k \in DOMAIN journal : k \in DOMAIN journal' /\ journal'[k] = journal[k]
<1>1. ASSUME IInv, [Next]_vars
      PROVE  Frozen
  <2>1. CASE journal' = journal
    BY <2>1
  <2>2. ASSUME NEW s \in Sessions, SaveCounters(s)
        PROVE  Frozen
    BY <1>1, <2>2, SaveAdds
  <2> QED
    BY <1>1, <2>1, <2>2
    DEF Next, Tick, CreateRule, NewRule, EditRule, PatchRule, ToggleRule,
        DeleteRule, SetRule, BeginDay,
        RefreshPositions, Begin, PassStep, ReadJournal, JudgeTrades, Fail, vars
<1> QED
  BY <1>1, Invariant, PTL DEF Spec, JournalIsFrozen

\* run_day judges every trade of its facts by every rule it has read, or finds
\* it judged.
THEOREM NoTradeIsPassedOver == Spec => EveryTradeIsJudged
<1> DEFINE Judged ==
        \A s \in Sessions : SaveCounters(s) =>
          \A r \in DOMAIN session[s].conditions : \A t \in session[s].facts :
             t >= rule[r].created_at => <<r, TradeRef(t)>> \in DOMAIN journal'
<1>1. ASSUME IInv
      PROVE  Judged
  <2> SUFFICES ASSUME NEW s \in Sessions, SaveCounters(s),
                      NEW r \in DOMAIN session[s].conditions, NEW t \in session[s].facts,
                      t >= rule[r].created_at
               PROVE  <<r, TradeRef(t)>> \in DOMAIN journal'
    OBVIOUS
  <2>1. session[s].at = "save"
    BY DEF SaveCounters
  <2>2. <<r, TradeRef(t)>> \in DOMAIN journal \union DOMAIN session[s].written
    BY <1>1, <2>1 DEF IInv, WalkIsComplete
  <2> QED
    BY <1>1, <2>2, SaveAdds
<1> QED
  BY <1>1, Invariant, PTL DEF Spec, EveryTradeIsJudged

----------------------------------------------------------------------------
(* A rule fires on a rise: as long as passes do not overlap and no trade   *)
(* comes late, the rows of a rule are those of an unbroken run of trades,  *)
(* and a pass continues the run where the journal ends.                    *)

RowsIn(j, r) == {t \in Trades : <<r, TradeRef(t)>> \in DOMAIN j}

Earlier(j, r, t) == {p \in RowsIn(j, r) : p < t}

MetBefore(j, r, t) ==
    Earlier(j, r, t) # {} /\ j[<<r, TradeRef(Max(Earlier(j, r, t)))>>].met

RiseAt(j, r, t) ==
    j[<<r, TradeRef(t)>>].fired = (j[<<r, TradeRef(t)>>].met /\ ~MetBefore(j, r, t))

Rises(j) == \A r \in Rules : \A t \in RowsIn(j, r) : RiseAt(j, r, t)

\* A trade of the batch closed before one that is stored.
Lags(s) == \E t \in session[s].batch, p \in stored : t < p

TradesAreOfTheDay ==
    /\ now \in 0..Horizon
    /\ overlaps \in Nat
    /\ stored \subseteq 1..now
    /\ \A s \in Sessions : /\ session[s].batch \subseteq 1..now
                           /\ session[s].facts \subseteq stored \union session[s].batch
                           /\ session[s].kind \in {"day", "positions"}

RowsOfStored == \A r \in Rules : RowsIn(journal, r) \subseteq stored

Solo == overlaps = 0 => \A s, o \in Sessions : Running(s) /\ Running(o) => s = o

\* What a pass alone has read is what is committed.
SoloReads ==
    overlaps = 0 =>
        \A s \in Sessions :
            /\ Running(s) => session[s].facts = stored \union session[s].batch
            /\ session[s].at \in {"trades", "save"} => session[s].done = journal
            /\ session[s].at = "save" /\ session[s].kind = "day" =>
                 session[s].unrealized = cache.unrealized_pct

\* Between a trade a rule was judged at and the writing of the rule no trade
\* is unjudged.
Unbroken ==
    overlaps = 0 /\ ~late =>
        \A r \in Rules : \A t \in RowsIn(journal, r), p \in stored :
            p < t /\ p >= rule[r].created_at => p \in RowsIn(journal, r)

RisesStored == overlaps = 0 /\ ~late => Rises(journal)

RisesPending ==
    overlaps = 0 /\ ~late =>
        \A s \in Sessions : session[s].at = "save" /\ ~Lags(s) =>
            Rises(With(journal, session[s].written))

RInv ==
    /\ TradesAreOfTheDay
    /\ RowsOfStored
    /\ Solo
    /\ SoloReads
    /\ Unbroken
    /\ RisesStored
    /\ RisesPending

LEMMA LeastNumber ==
    ASSUME NEW T, T \subseteq Nat, T # {}
    PROVE  \E x \in T : \A y \in T : x <= y
<1> DEFINE R == OpToRel(<, Nat)
<1>1. \E x \in T : \A y \in T : ~ (<<y, x>> \in R)
  <2>1. IsWellFoundedOn(R, Nat)
    BY NatLessThanWellFounded
  <2> HIDE DEF R
  <2> QED
    BY <2>1, WFMin
<1>2. PICK x \in T : \A y \in T : ~ (<<y, x>> \in R)
  BY <1>1
<1>3. ASSUME NEW y \in T PROVE x <= y
  <2>1. ~ (y < x)
    BY <1>2 DEF OpToRel
  <2> QED
    BY <2>1
<1> QED
  BY <1>3

\* The last of a set of numbers that has a bound.
LEMMA LastOfSet ==
    ASSUME NEW T, T \subseteq Int, T # {}, NEW b \in Int, \A y \in T : y <= b
    PROVE  Max(T) \in T /\ \A y \in T : Max(T) >= y
<1> DEFINE Below == {b - y : y \in T}
<1>1. PICK x \in Below : \A y \in Below : x <= y
  <2>1. \A y \in T : b - y \in Nat
    <3> TAKE y \in T
    <3>1. y \in Int /\ y <= b
      OBVIOUS
    <3> QED
      BY <3>1
  <2>2. Below \subseteq Nat /\ Below # {}
    BY <2>1
  <2> HIDE DEF Below
  <2> QED
    BY <2>2, LeastNumber
<1>2. PICK m \in T : x = b - m
  OBVIOUS
<1>3. \A y \in T : m >= y
  <2> TAKE y \in T
  <2>1. b - m <= b - y
    BY <1>1, <1>2
  <2> QED
    BY <2>1
<1> QED
  BY <1>3 DEF Max

\* Whether a rule fires on rises depends on the rows of its trades alone.
LEMMA SameRises ==
    ASSUME NEW j, NEW k, Rises(j),
           \A r \in Rules : RowsIn(k, r) = RowsIn(j, r),
           \A r \in Rules : \A t \in RowsIn(j, r) :
              k[<<r, TradeRef(t)>>] = j[<<r, TradeRef(t)>>]
    PROVE  Rises(k)
<1> SUFFICES ASSUME NEW r \in Rules, NEW t \in RowsIn(k, r)
             PROVE  RiseAt(k, r, t)
  BY DEF Rises
<1>1. t \in RowsIn(j, r) /\ RiseAt(j, r, t)
  BY DEF Rises
<1>2. Earlier(k, r, t) = Earlier(j, r, t)
  BY DEF Earlier
<1>3. MetBefore(k, r, t) = MetBefore(j, r, t)
  <2>1. CASE Earlier(j, r, t) = {}
    BY <1>2, <2>1 DEF MetBefore
  <2>2. CASE Earlier(j, r, t) # {}
    <3>1. Earlier(j, r, t) \subseteq RowsIn(j, r) /\ RowsIn(j, r) \subseteq 1..Horizon
      BY DEF Earlier, RowsIn, Trades
    <3>2. Max(Earlier(j, r, t)) \in Earlier(j, r, t)
      BY <2>2, <3>1, LastOfSet, JournalAssumption
    <3> QED
      BY <1>2, <3>1, <3>2 DEF MetBefore
  <2> QED
    BY <2>1, <2>2
<1> QED
  BY <1>1, <1>3 DEF RiseAt

LEMMA InitRInv == Init => RInv
<1> SUFFICES ASSUME Init PROVE RInv
  OBVIOUS
<1>1. DOMAIN NoRows = {}
  BY DEF NoRows
<1>2. \A s \in Sessions : /\ session[s].at = "idle" /\ session[s].kind = "day"
                          /\ session[s].batch = {} /\ session[s].facts = {}
  BY DEF Init, Idle
<1>3. \A r : RowsIn(journal, r) = {}
  BY <1>1 DEF Init, RowsIn
<1>4. TradesAreOfTheDay
  BY <1>2, JournalAssumption DEF Init, TradesAreOfTheDay
<1>5. RowsOfStored /\ Solo /\ SoloReads /\ Unbroken /\ RisesStored /\ RisesPending
  BY <1>2, <1>3 DEF RowsOfStored, Solo, SoloReads, Unbroken, RisesStored, RisesPending,
                    Rises, Running
<1> QED
  BY <1>4, <1>5 DEF RInv

\* Steps that leave the sessions, the trades and the journal as they are.
LEMMA QuietKeepsR ==
    ASSUME IInv, RInv, now' \in 0..Horizon, now' >= now,
           \A r \in Known : rule'[r].created_at = rule[r].created_at,
           UNCHANGED <<ret, stored, journal, cache, session, overlaps, late>>
    PROVE  RInv'
<1>1. TradesAreOfTheDay'
  <2>1. 1..now \subseteq 1..now'
    BY DEF RInv, TradesAreOfTheDay
  <2> QED
    BY <2>1 DEF RInv, TradesAreOfTheDay
<1>2. RowsOfStored' /\ Solo' /\ SoloReads' /\ RisesStored' /\ RisesPending'
  BY DEF RInv, RowsOfStored, Solo, SoloReads, RisesStored, RisesPending, Running, Lags
<1>3. Unbroken'
  <2>1. \A r \in Rules : RowsIn(journal, r) # {} => r \in Known
    <3> SUFFICES ASSUME NEW r \in Rules, NEW t \in RowsIn(journal, r) PROVE r \in Known
      OBVIOUS
    <3>1. <<r, TradeRef(t)>> \in DOMAIN journal /\ <<r, TradeRef(t)>>[1] = r
      BY DEF RowsIn
    <3> QED
      BY <3>1 DEF IInv, RowsHaveRules
  <2>2. \A r : RowsIn(journal, r)' = RowsIn(journal, r)
    BY DEF RowsIn
  <2> QED
    BY <2>1, <2>2 DEF RInv, Unbroken
<1> QED
  BY <1>1, <1>2, <1>3 DEF RInv

LEMMA TickKeepsR == IInv /\ RInv /\ Tick => RInv'
<1> SUFFICES ASSUME IInv, RInv, Tick PROVE RInv'
  OBVIOUS
<1>1. now' = now + 1 /\ now < Horizon
      /\ UNCHANGED <<ret, stored, rule, journal, cache, session, overlaps, late>>
  BY DEF Tick
<1>2. now' \in 0..Horizon /\ now' >= now
  BY <1>1, JournalAssumption DEF RInv, TradesAreOfTheDay
<1> QED
  BY <1>1, <1>2, QuietKeepsR

LEMMA EditKeepsR ==
    ASSUME IInv, RInv, NEW r \in Rules, CreateRule(r) \/ EditRule(r)
    PROVE  RInv'
<1>1. PICK row : Edited(r, row)
  BY EditSetsARow
<1>2. rule' = [rule EXCEPT ![r] = row]
      /\ UNCHANGED <<now, ret, stored, journal, cache, session, overlaps, late>>
  BY <1>1 DEF Edited, SetRule
<1>3. \A q \in Known : rule'[q].created_at = rule[q].created_at
  BY <1>1, <1>2 DEF Edited, Known, IInv, Shapes
<1>4. now' \in 0..Horizon /\ now' >= now
  BY <1>2 DEF RInv, TradesAreOfTheDay
<1> QED
  BY <1>2, <1>3, <1>4, QuietKeepsR

\* A session alone changes to one that has read nothing: it begins where no
\* other runs, or another has begun as well.
LEMMA BeginKeepsR ==
    ASSUME IInv, RInv, NEW s \in Sessions, NEW kind \in {"day", "positions"}, NEW batch,
           NEW u, batch \subseteq 1..now, Begin(s, kind, batch, u)
    PROVE  RInv'
<1> DEFINE m == IF kind = "positions" THEN now ELSE 0
           f == stored \union batch
           x == Begun(Idle, "read", kind, batch, f, u, m)
<1>1. session' = [session EXCEPT ![s] = x]
      /\ UNCHANGED <<now, ret, stored, rule, journal, cache, late>>
  <2> DEFINE y == [Idle EXCEPT !.at = "read", !.kind = kind, !.batch = batch,
                               !.facts = f, !.unrealized = u, !.minute = m]
  <2>1. session' = [session EXCEPT ![s] = y]
        /\ UNCHANGED <<now, ret, stored, rule, journal, cache, late>>
    BY DEF Begin
  <2> HIDE DEF m, f
  <2>2. x = y
    BY DEF Begun
  <2> HIDE DEF x, y
  <2> QED
    BY <2>1, <2>2
<1>2. x.at = "read" /\ x.kind = kind /\ x.batch = batch /\ x.facts = f
  <2>1. Shape(Idle)
    BY DEF Shape, Idle
  <2> HIDE DEF m, f
  <2> QED
    BY <2>1, Beginning
<1> HIDE DEF x, m
<1>3. \A o \in Sessions : session'[o] = IF o = s THEN x ELSE session[o]
  BY <1>1 DEF IInv, Shapes
<1>4. overlaps' \in Nat
      /\ (overlaps' = 0 => overlaps = 0 /\ \A o \in Sessions : ~Running(o))
  BY DEF Begin, RInv, TradesAreOfTheDay
<1>5. TradesAreOfTheDay'
  <2> HIDE DEF f
  <2>1. \A o \in Sessions : /\ session'[o].batch \subseteq 1..now
                            /\ session'[o].facts \subseteq stored \union session'[o].batch
                            /\ session'[o].kind \in {"day", "positions"}
    BY <1>2, <1>3 DEF RInv, TradesAreOfTheDay, f
  <2> QED
    BY <1>1, <1>4, <2>1 DEF RInv, TradesAreOfTheDay
<1>6. RowsOfStored' /\ RisesStored' /\ Unbroken'
  BY <1>1, <1>4 DEF RInv, RowsOfStored, RisesStored, Unbroken, RowsIn
<1>7. Solo'
  BY <1>3, <1>4 DEF Solo, Running
<1>8. SoloReads'
  BY <1>1, <1>2, <1>3, <1>4 DEF SoloReads, Running
<1>9. RisesPending'
  BY <1>2, <1>3, <1>4 DEF RisesPending, Running
<1> QED
  BY <1>5, <1>6, <1>7, <1>8, <1>9 DEF RInv

LEMMA FailKeepsR ==
    ASSUME IInv, RInv, NEW s \in Sessions, Fail(s)
    PROVE  RInv'
<1>1. session' = [session EXCEPT ![s] = Idle]
      /\ UNCHANGED <<now, ret, stored, rule, journal, cache, overlaps, late>>
  BY DEF Fail
<1>2. Idle.at = "idle" /\ Idle.kind = "day" /\ Idle.batch = {} /\ Idle.facts = {}
  BY DEF Idle
<1>3. \A o \in Sessions : session'[o] = IF o = s THEN Idle ELSE session[o]
  BY <1>1 DEF IInv, Shapes
<1>4. TradesAreOfTheDay'
  BY <1>1, <1>2, <1>3 DEF RInv, TradesAreOfTheDay
<1>5. RowsOfStored' /\ RisesStored' /\ Unbroken'
  BY <1>1 DEF RInv, RowsOfStored, RisesStored, Unbroken, RowsIn
<1>6. Solo'
  BY <1>1, <1>2, <1>3 DEF RInv, Solo, Running
<1>7. SoloReads'
  BY <1>1, <1>2, <1>3 DEF RInv, SoloReads, Running
<1>8. RisesPending'
  BY <1>1, <1>2, <1>3 DEF RInv, RisesPending, Lags
<1> QED
  BY <1>4, <1>5, <1>6, <1>7, <1>8 DEF RInv

LEMMA ReadJournalKeepsR ==
    ASSUME IInv, RInv, NEW s \in Sessions, ReadJournal(s)
    PROVE  RInv'
<1> DEFINE active == {r \in Rules : rule[r].state = "on"}
           c == [r \in active |-> rule[r].conditions]
           x == HasRead(session[s], "trades", c, journal)
<1>1. session' = [session EXCEPT ![s] = x]
      /\ UNCHANGED <<now, ret, stored, rule, journal, cache, overlaps, late>>
  <2> DEFINE y == [session[s] EXCEPT !.at = "trades", !.conditions = c, !.done = journal]
  <2>1. session' = [session EXCEPT ![s] = y]
        /\ UNCHANGED <<now, ret, stored, rule, journal, cache, overlaps, late>>
    BY DEF ReadJournal
  <2> HIDE DEF active, c
  <2>2. x = y
    BY DEF HasRead
  <2> HIDE DEF x, y
  <2> QED
    BY <2>1, <2>2
<1>2. session[s].at = "read" /\ Shape(session[s])
  BY DEF ReadJournal, IInv, Shapes
<1> HIDE DEF c
<1>3. /\ x.at = "trades" /\ x.done = journal
      /\ x.facts = session[s].facts /\ x.batch = session[s].batch
      /\ x.kind = session[s].kind
  BY <1>2, Reading
<1> HIDE DEF x
<1>4. \A o \in Sessions : session'[o] = IF o = s THEN x ELSE session[o]
  BY <1>1 DEF IInv, Shapes
<1>5. TradesAreOfTheDay'
  BY <1>1, <1>3, <1>4 DEF RInv, TradesAreOfTheDay
<1>6. RowsOfStored' /\ RisesStored' /\ Unbroken'
  BY <1>1 DEF RInv, RowsOfStored, RisesStored, Unbroken, RowsIn
<1>7. Solo'
  BY <1>1, <1>2, <1>4 DEF RInv, Solo, Running
<1>8. SoloReads'
  BY <1>1, <1>2, <1>3, <1>4 DEF RInv, SoloReads, Running
<1>9. RisesPending'
  BY <1>1, <1>3, <1>4 DEF RInv, RisesPending, Lags
<1> QED
  BY <1>5, <1>6, <1>7, <1>8, <1>9 DEF RInv

\* The verdicts of a pass alone continue what the journal says.
LEMMA VerdictsRise ==
    ASSUME IInv, RInv, NEW s \in Sessions, session[s].at = "trades",
           overlaps = 0, ~late, ~Lags(s)
    PROVE  Rises(With(journal, Inserted(Verdicts(s))))
<1> DEFINE w == Inserted(Verdicts(s))
           j == With(journal, w)
           Row(r, t) == <<r, TradeRef(t)>>
<1>1. session[s].facts = stored \union session[s].batch /\ session[s].done = journal
  BY DEF RInv, SoloReads, Running
<1>2. DOMAIN w = Due(s) /\ \A k \in Due(s) : k \notin DOMAIN journal /\ w[k] = Verdicts(s)[k]
  <2>1. \A k \in Due(s) : k \notin DOMAIN journal
    BY <1>1 DEF Due, Unjudged
  <2>2. DOMAIN Verdicts(s) = Due(s)
    BY DEF Verdicts
  <2> QED
    BY <2>1, <2>2 DEF Inserted
<1>3. DOMAIN j = DOMAIN journal \union Due(s)
      /\ (\A k \in DOMAIN journal : j[k] = journal[k])
      /\ \A k \in Due(s) : j[k] = Verdicts(s)[k]
  BY <1>2 DEF With
<1> HIDE DEF j, w
<1>4. ASSUME NEW r, NEW t
      PROVE  Row(r, t) \in Due(s) <=>
               /\ r \in DOMAIN session[s].conditions
               /\ t \in Subjects(s, r)
               /\ Row(r, t) \notin DOMAIN journal
  <2>1. ASSUME Row(r, t) \in Due(s)
        PROVE  r \in DOMAIN session[s].conditions /\ t \in Unjudged(s, r)
    <3>1. PICK q \in DOMAIN session[s].conditions :
            \E p \in Unjudged(s, q) : Row(r, t) = <<q, TradeRef(p)>>
      BY <2>1 DEF Due
    <3>2. PICK p \in Unjudged(s, q) : Row(r, t) = <<q, TradeRef(p)>>
      BY <3>1
    <3>3. r = q /\ t = p
      BY <3>2, ReferencesDiffer
    <3> QED
      BY <3>2, <3>3
  <2>2. ASSUME r \in DOMAIN session[s].conditions, t \in Unjudged(s, r)
        PROVE  Row(r, t) \in Due(s)
    BY <2>2 DEF Due
  <2> QED
    BY <1>1, <2>1, <2>2 DEF Unjudged
<1>5. \A r \in Rules : RowsIn(journal, r) \subseteq stored
  BY DEF RInv, RowsOfStored
<1>6. session[s].facts \subseteq Trades
  <2>1. stored \subseteq 1..now /\ session[s].batch \subseteq 1..now /\ now \in 0..Horizon
    BY DEF RInv, TradesAreOfTheDay
  <2>2. 1..now \subseteq Trades
    BY <2>1, JournalAssumption DEF Trades
  <2> QED
    BY <1>1, <2>1, <2>2
<1>7. \A r \in Rules : \A t \in RowsIn(journal, r) : t >= rule[r].created_at
  BY DEF IInv, RowsHaveRules, RowsIn
<1>8. ASSUME NEW r \in Rules, NEW t \in RowsIn(journal, r)
      PROVE  RiseAt(j, r, t)
  <2>1. RiseAt(journal, r, t)
    BY DEF RInv, RisesStored, Rises
  <2>2. Earlier(j, r, t) = Earlier(journal, r, t)
    <3>1. ASSUME NEW p \in Trades, Row(r, p) \in Due(s), p < t
          PROVE  FALSE
      <4>1. p \in session[s].facts /\ p >= rule[r].created_at
            /\ Row(r, p) \notin DOMAIN journal
        BY <1>4, <3>1 DEF Subjects
      <4>2. t \in stored
        BY <1>5
      <4>3. p \in stored
        BY <1>1, <3>1, <4>1, <4>2 DEF Lags
      <4>4. p \in RowsIn(journal, r)
        BY <3>1, <4>1, <4>3 DEF RInv, Unbroken
      <4> QED
        BY <4>1, <4>4 DEF RowsIn
    <3> QED
      BY <1>3, <3>1 DEF Earlier, RowsIn
  <2>3. MetBefore(j, r, t) = MetBefore(journal, r, t)
    <3>1. CASE Earlier(j, r, t) = {}
      BY <2>2, <3>1 DEF MetBefore
    <3>2. CASE Earlier(j, r, t) # {}
      <4>1. Earlier(journal, r, t) \subseteq RowsIn(journal, r)
            /\ RowsIn(journal, r) \subseteq 1..Horizon
        BY DEF Earlier, RowsIn, Trades
      <4>2. Max(Earlier(journal, r, t)) \in RowsIn(journal, r)
        BY <2>2, <3>2, <4>1, LastOfSet, JournalAssumption
      <4> QED
        BY <1>3, <2>2, <4>2 DEF MetBefore, RowsIn
    <3> QED
      BY <3>1, <3>2
  <2>4. j[Row(r, t)] = journal[Row(r, t)]
    BY <1>3 DEF RowsIn
  <2> QED
    BY <2>1, <2>3, <2>4 DEF RiseAt
<1>9. ASSUME NEW r \in Rules, NEW t \in Trades, Row(r, t) \in Due(s)
      PROVE  RiseAt(j, r, t)
  <2>1. r \in DOMAIN session[s].conditions /\ t \in Subjects(s, r)
    BY <1>4, <1>9
  <2>2. RowsIn(j, r) = Subjects(s, r)
    <3>1. RowsIn(journal, r) \subseteq Subjects(s, r)
      BY <1>1, <1>5, <1>7 DEF Subjects
    <3>2. Subjects(s, r) \subseteq Trades
      BY <1>6 DEF Subjects
    <3>3. \A p \in Subjects(s, r) : Row(r, p) \in DOMAIN j
      BY <1>3, <1>4, <2>1
    <3>4. \A p \in Trades : Row(r, p) \in DOMAIN j => p \in Subjects(s, r)
      BY <1>3, <1>4, <3>1 DEF RowsIn
    <3> QED
      BY <3>2, <3>3, <3>4 DEF RowsIn
  <2> DEFINE earlier == {p \in Subjects(s, r) : p < t}
             last == Max(earlier)
  <2>3. Earlier(j, r, t) = earlier
    BY <2>2 DEF Earlier
  <2>4. earlier # {} => last \in Subjects(s, r)
    <3>1. earlier \subseteq Subjects(s, r) /\ Subjects(s, r) \subseteq 1..Horizon
      BY <1>6 DEF Subjects, Trades
    <3> HIDE DEF earlier
    <3> QED
      BY <3>1, LastOfSet, JournalAssumption
  <2>5. Verdicts(s)[Row(r, t)]
          = [fired |-> MetNow(s, r, t) /\ ~WasMet(s, r, t), met |-> MetNow(s, r, t)]
    <3>1. Row(r, t)[1] = r /\ Row(r, t)[2][2] = t
      BY DEF TradeRef
    <3> QED
      BY <1>9, <3>1 DEF Verdicts
  <2>6. WasMet(s, r, t) = MetBefore(j, r, t)
    <3>1. CASE earlier = {}
      BY <2>3, <3>1 DEF WasMet, MetBefore
    <3>2. CASE earlier # {} /\ Row(r, last) \in DOMAIN journal
      <4>1. j[Row(r, last)] = journal[Row(r, last)]
        BY <1>3, <3>2
      <4>2. MetBefore(j, r, t) = (earlier # {} /\ journal[Row(r, last)].met)
        BY <2>3, <4>1 DEF MetBefore
      <4>3. WasMet(s, r, t) = (earlier # {} /\ journal[Row(r, last)].met)
        BY <1>1, <3>2 DEF WasMet
      <4> QED
        BY <4>2, <4>3
    <3>3. CASE earlier # {} /\ Row(r, last) \notin DOMAIN journal
      <4>1. Row(r, last) \in Due(s)
        BY <1>4, <2>1, <2>4, <3>3
      <4>2. Row(r, last)[1] = r /\ Row(r, last)[2][2] = last
        BY DEF TradeRef
      <4>3. j[Row(r, last)].met = MetNow(s, r, last)
        <5> HIDE DEF last
        <5>1. j[Row(r, last)] = Verdicts(s)[Row(r, last)]
          BY <1>3, <4>1
        <5> QED
          BY <4>1, <4>2, <5>1 DEF Verdicts
      <4>4. MetBefore(j, r, t) = (earlier # {} /\ MetNow(s, r, last))
        BY <2>3, <4>3 DEF MetBefore
      <4>5. WasMet(s, r, t) = (earlier # {} /\ MetNow(s, r, last))
        BY <1>1, <3>3 DEF WasMet
      <4> QED
        BY <4>4, <4>5
    <3> QED
      BY <3>1, <3>2, <3>3
  <2>7. j[Row(r, t)].met = MetNow(s, r, t)
        /\ j[Row(r, t)].fired = (MetNow(s, r, t) /\ ~WasMet(s, r, t))
    BY <1>3, <1>9, <2>5
  <2> QED
    BY <2>6, <2>7 DEF RiseAt
<1>10. SUFFICES ASSUME NEW r \in Rules, NEW t \in RowsIn(j, r)
                PROVE  RiseAt(j, r, t)
  BY DEF Rises, j, w
<1>11. t \in Trades /\ Row(r, t) \in DOMAIN j
  BY DEF RowsIn
<1> QED
  BY <1>3, <1>8, <1>9, <1>11 DEF RowsIn

LEMMA JudgeTradesKeepsR ==
    ASSUME IInv, RInv, NEW s \in Sessions, JudgeTrades(s)
    PROVE  RInv'
<1> DEFINE w == Inserted(Verdicts(s))
           u == IF session[s].kind = "day" THEN Kept(s) ELSE session[s].unrealized
           x == HasWritten(session[s], "save", w, u)
<1>1. session' = [session EXCEPT ![s] = x]
  <2>1. session' = [session EXCEPT
          ![s] = [session[s] EXCEPT !.at = "save", !.written = w, !.unrealized = u]]
    BY DEF JudgeTrades
  <2> HIDE DEF w, u
  <2>2. x = [session[s] EXCEPT !.at = "save", !.written = w, !.unrealized = u]
    BY DEF HasWritten
  <2> HIDE DEF x
  <2> QED
    BY <2>1, <2>2
<1>2. session[s].at = "trades" /\ Shape(session[s])
      /\ UNCHANGED <<now, ret, stored, rule, journal, cache, overlaps, late>>
  BY DEF JudgeTrades, IInv, Shapes
<1>3. session[s].kind = "day" => u = cache.unrealized_pct
  BY DEF Kept
<1>4. overlaps = 0 /\ ~late /\ ~Lags(s) => Rises(With(journal, w))
  BY <1>2, VerdictsRise
<1> HIDE DEF w, u
<1>5. /\ x.at = "save" /\ x.written = w /\ x.unrealized = u
      /\ x.facts = session[s].facts /\ x.batch = session[s].batch
      /\ x.kind = session[s].kind /\ x.done = session[s].done
  BY <1>2, Writing
<1> HIDE DEF x
<1>6. \A o \in Sessions : session'[o] = IF o = s THEN x ELSE session[o]
  BY <1>1 DEF IInv, Shapes
<1>7. TradesAreOfTheDay'
  BY <1>2, <1>5, <1>6 DEF RInv, TradesAreOfTheDay
<1>8. RowsOfStored' /\ RisesStored' /\ Unbroken'
  BY <1>2 DEF RInv, RowsOfStored, RisesStored, Unbroken, RowsIn
<1>9. Solo'
  BY <1>2, <1>6 DEF RInv, Solo, Running
<1>10. SoloReads'
  BY <1>2, <1>3, <1>5, <1>6 DEF RInv, SoloReads, Running
<1>11. RisesPending'
  <2>1. \A o \in Sessions : Lags(o)' = Lags(o)
    BY <1>2, <1>5, <1>6 DEF Lags
  <2> QED
    BY <1>2, <1>4, <1>5, <1>6, <2>1 DEF RInv, RisesPending
<1> QED
  BY <1>7, <1>8, <1>9, <1>10, <1>11 DEF RInv

\* The rows a commit adds to the journal it finds are those the walk wrote; a
\* refresh of positions adds none of a trade.
LEMMA SaveWrites ==
    ASSUME IInv, NEW s \in Sessions, SaveCounters(s)
    PROVE  \A r, t : /\ <<r, TradeRef(t)>> \in DOMAIN journal'
                          <=> <<r, TradeRef(t)>> \in DOMAIN With(journal, session[s].written)
                     /\ <<r, TradeRef(t)>> \in DOMAIN journal' =>
                          journal'[<<r, TradeRef(t)>>]
                            = With(journal, session[s].written)[<<r, TradeRef(t)>>]
<1> DEFINE new == Inserted(PositionRows(s))
           walked == With(journal, session[s].written)
<1>1. journal' = With(walked, new)
  BY DEF SaveCounters
<1>2. \A r, t : <<r, TradeRef(t)>> \notin DOMAIN new
  <2>1. ASSUME NEW r, NEW t, <<r, TradeRef(t)>> \in DOMAIN PositionRows(s)
        PROVE  FALSE
    <3>1. PICK q : <<r, TradeRef(t)>> = <<q, PositionsRef(session[s].minute)>>
      BY <2>1, RowsOfPositions
    <3>2. TradeRef(t) = PositionsRef(session[s].minute)
      BY <3>1
    <3> QED
      BY <3>2, ReferencesDiffer
  <2> QED
    BY <2>1, InsertedDomain
<1> HIDE DEF walked, new
<1>3. DOMAIN journal' = DOMAIN walked \union DOMAIN new
      /\ \A k \in DOMAIN walked : k \notin DOMAIN new => journal'[k] = walked[k]
  BY <1>1, WithDomain
<1>4. \A r, t : /\ <<r, TradeRef(t)>> \in DOMAIN journal'
                     <=> <<r, TradeRef(t)>> \in DOMAIN walked
                /\ <<r, TradeRef(t)>> \in DOMAIN journal' =>
                     journal'[<<r, TradeRef(t)>>] = walked[<<r, TradeRef(t)>>]
  BY <1>2, <1>3
<1> QED
  BY <1>4 DEF walked

LEMMA SaveKeepsR ==
    ASSUME IInv, RInv, NEW s \in Sessions, SaveCounters(s)
    PROVE  RInv'
<1> DEFINE j == With(journal, session[s].written)
<1>1. /\ session[s].at = "save" /\ stored' = stored \union session[s].batch
      /\ late' = (late \/ Lags(s)) /\ session' = [session EXCEPT ![s] = Idle]
      /\ UNCHANGED <<now, ret, rule, overlaps>>
  BY DEF SaveCounters, Lags
<1>2. Idle.at = "idle" /\ Idle.kind = "day" /\ Idle.batch = {} /\ Idle.facts = {}
  BY DEF Idle
<1>3. \A o \in Sessions : session'[o] = IF o = s THEN Idle ELSE session[o]
  BY <1>1 DEF IInv, Shapes
<1>4. overlaps = 0 => \A o \in Sessions : session'[o].at = "idle"
  BY <1>1, <1>2, <1>3 DEF RInv, Solo, Running
<1>5. \A r : RowsIn(journal', r) = RowsIn(j, r)
      /\ \A t \in RowsIn(j, r) : journal'[<<r, TradeRef(t)>>] = j[<<r, TradeRef(t)>>]
  BY SaveWrites DEF RowsIn
<1>6. DOMAIN j = DOMAIN journal \union DOMAIN session[s].written
  BY WithDomain
<1>7. TradesAreOfTheDay'
  <2>1. stored' \subseteq 1..now
    BY <1>1 DEF RInv, TradesAreOfTheDay
  <2>2. \A o \in Sessions : session[o].facts \subseteq stored' \union session[o].batch
    BY <1>1 DEF RInv, TradesAreOfTheDay
  <2> QED
    BY <1>1, <1>2, <1>3, <2>1, <2>2 DEF RInv, TradesAreOfTheDay
<1>8. \A r \in Rules : RowsIn(j, r) \subseteq stored'
  <2> SUFFICES ASSUME NEW r \in Rules, NEW t \in RowsIn(j, r)
               PROVE  t \in stored'
    OBVIOUS
  <2>1. CASE <<r, TradeRef(t)>> \in DOMAIN journal
    BY <1>1, <2>1 DEF RInv, RowsOfStored, RowsIn
  <2>2. CASE <<r, TradeRef(t)>> \in DOMAIN session[s].written
    <3>1. PICK q \in DOMAIN session[s].conditions :
            \E p \in session[s].facts : <<r, TradeRef(t)>> = <<q, TradeRef(p)>>
      BY <2>2 DEF IInv, WritesAreItsOwn
    <3>2. PICK p \in session[s].facts : <<r, TradeRef(t)>> = <<q, TradeRef(p)>>
      BY <3>1
    <3>3. t = p
      BY <3>2, ReferencesDiffer
    <3> QED
      BY <1>1, <3>2, <3>3 DEF RInv, TradesAreOfTheDay
  <2> QED
    BY <1>6, <2>1, <2>2 DEF RowsIn
<1>9. RowsOfStored'
  <2>1. \A r \in Rules : RowsIn(journal', r) \subseteq stored'
    BY <1>5, <1>8
  <2> QED
    BY <2>1 DEF RowsOfStored
<1>10. Solo' /\ SoloReads' /\ RisesPending'
  BY <1>1, <1>4 DEF Solo, SoloReads, RisesPending, Running
<1>11. RisesStored'
  <2>1. overlaps' = 0 /\ ~late' => Rises(j)
    BY <1>1 DEF RInv, RisesPending
  <2>2. Rises(j) => Rises(journal')
    <3> HIDE DEF j
    <3> QED
      BY <1>5, SameRises
  <2> QED
    BY <2>1, <2>2 DEF RisesStored
<1>12. Unbroken'
  <2> SUFFICES ASSUME overlaps = 0, ~late, ~Lags(s),
                      NEW r \in Rules, NEW t \in RowsIn(j, r), NEW p \in stored',
                      p < t, p >= rule[r].created_at
               PROVE  p \in RowsIn(j, r)
    <3>1. overlaps' = 0 /\ ~late' => overlaps = 0 /\ ~late /\ ~Lags(s)
      BY <1>1
    <3> QED
      BY <1>1, <1>5, <3>1 DEF Unbroken
  <2>1. session[s].facts = stored'
    BY <1>1 DEF RInv, SoloReads, Running
  <2>2. p \in Trades
    BY <1>1, <1>7, JournalAssumption DEF TradesAreOfTheDay, Trades
  <2>3. CASE r \in DOMAIN session[s].conditions
    <3>1. <<r, TradeRef(p)>> \in DOMAIN j
      BY <1>1, <1>6, <2>1, <2>3 DEF IInv, WalkIsComplete
    <3> QED
      BY <2>2, <3>1 DEF RowsIn
  <2>4. CASE r \notin DOMAIN session[s].conditions
    <3>1. <<r, TradeRef(t)>> \notin DOMAIN session[s].written
      <4> SUFFICES ASSUME <<r, TradeRef(t)>> \in DOMAIN session[s].written PROVE FALSE
        OBVIOUS
      <4>1. PICK q \in DOMAIN session[s].conditions :
              \E x \in session[s].facts : <<r, TradeRef(t)>> = <<q, TradeRef(x)>>
        BY DEF IInv, WritesAreItsOwn
      <4>2. r = q
        BY <4>1
      <4> QED
        BY <2>4, <4>2
    <3>2. t \in RowsIn(journal, r)
      BY <1>6, <3>1 DEF RowsIn
    <3>3. t \in stored
      BY <3>2 DEF RInv, RowsOfStored
    <3>4. p \in stored
      BY <1>1, <3>3 DEF Lags
    <3>5. p \in RowsIn(journal, r)
      BY <3>2, <3>4 DEF RInv, Unbroken
    <3> QED
      BY <1>6, <3>5 DEF RowsIn
  <2> QED
    BY <2>3, <2>4
<1> QED
  BY <1>7, <1>9, <1>10, <1>11, <1>12 DEF RInv

LEMMA StutterKeepsR == IInv /\ RInv /\ UNCHANGED vars => RInv'
<1> SUFFICES ASSUME IInv, RInv, UNCHANGED vars PROVE RInv'
  OBVIOUS
<1>1. UNCHANGED <<now, ret, stored, rule, journal, cache, session, overlaps, late>>
  BY DEF vars
<1>2. now' \in 0..Horizon /\ now' >= now
  BY <1>1 DEF RInv, TradesAreOfTheDay
<1> QED
  BY <1>1, <1>2, QuietKeepsR

LEMMA NextKeepsR == IInv /\ RInv /\ [Next]_vars => RInv'
<1> SUFFICES ASSUME IInv, RInv, [Next]_vars PROVE RInv'
  OBVIOUS
<1>1. CASE Tick
  BY <1>1, TickKeepsR
<1>2. ASSUME NEW r \in Rules, CreateRule(r) \/ EditRule(r)
      PROVE  RInv'
  BY <1>2, EditKeepsR
<1>3. ASSUME NEW s \in Sessions, BeginDay(s)
      PROVE  RInv'
  <2>1. PICK batch \in SUBSET (1..now) : Begin(s, "day", batch, Unknown)
    BY <1>3 DEF BeginDay
  <2> QED
    BY <2>1, BeginKeepsR
<1>4. ASSUME NEW s \in Sessions, RefreshPositions(s)
      PROVE  RInv'
  <2>1. PICK u \in Unrealized \union {Unknown} : Begin(s, "positions", {}, u)
    BY <1>4 DEF RefreshPositions
  <2> QED
    BY <2>1, BeginKeepsR
<1>5. ASSUME NEW s \in Sessions, PassStep(s)
      PROVE  RInv'
  BY <1>5, ReadJournalKeepsR, JudgeTradesKeepsR, SaveKeepsR DEF PassStep
<1>6. ASSUME NEW s \in Sessions, Fail(s)
      PROVE  RInv'
  BY <1>6, FailKeepsR
<1>7. CASE UNCHANGED vars
  BY <1>7, StutterKeepsR
<1> QED
  BY <1>1, <1>2, <1>3, <1>4, <1>5, <1>6, <1>7 DEF Next

\* With the invariant of the journal, what a pass alone rests on.
THEOREM PassesContinue == Spec => []RInv
<1> QED
  BY Invariant, InitRInv, NextKeepsR, PTL DEF Spec

\* run_day carries the state of the condition over from what the journal says
\* of the trades before: a rule fires exactly where its condition becomes met,
\* through edits, switching and passes that fail.
THEOREM RulesFireOnRise == Spec => []FiresOnRise
<1>1. RInv => FiresOnRise
  <2> SUFFICES ASSUME RInv, overlaps = 0, ~late, NEW r \in Rules, NEW t \in TradeRows(r)
               PROVE  LET earlier == {p \in TradeRows(r) : p < t}
                          wasMet == earlier # {} /\ TradeRow(r, Max(earlier)).met
                      IN TradeRow(r, t).fired = (TradeRow(r, t).met /\ ~wasMet)
    BY DEF FiresOnRise
  <2>1. TradeRows(r) = RowsIn(journal, r)
    BY DEF TradeRows, RowsIn
  <2>2. RiseAt(journal, r, t)
    BY <2>1 DEF RInv, RisesStored, Rises
  <2> QED
    BY <2>1, <2>2 DEF RiseAt, MetBefore, Earlier, TradeRow
<1> QED
  BY <1>1, PassesContinue, PTL

----------------------------------------------------------------------------
(* The counters of a walk are those of its trades.  The recursions of the  *)
(* model, the walk over the minutes and the sum over a set, are functions; *)
(* what they are for every day is shown by induction, which is an argument *)
(* about the least counterexample.                                         *)

LEMMA NumberInduction ==
    ASSUME NEW S, S \subseteq Nat, 0 \in S, \A n \in S : n + 1 \in S
    PROVE  S = Nat
<1> SUFFICES ASSUME Nat \ S # {} PROVE FALSE
  OBVIOUS
<1>1. PICK x \in Nat \ S : \A y \in Nat \ S : x <= y
  BY LeastNumber
<1>2. x # 0 /\ x \in Nat
  OBVIOUS
<1>3. x - 1 \in Nat /\ ~ (x <= x - 1) /\ (x - 1) + 1 = x
  BY <1>2
<1>4. x - 1 \in S
  BY <1>1, <1>3
<1> QED
  BY <1>3, <1>4

LEMMA TradesAreFinite ==
    \A S \in SUBSET Trades : IsFiniteSet(S) /\ Cardinality(S) \in Nat
<1>1. IsFiniteSet(Trades)
  BY FS_Interval, JournalAssumption DEF Trades
<1> QED
  BY <1>1, FS_Subset, FS_CardinalityType

LEMMA OneLess ==
    ASSUME NEW S \in SUBSET Trades, NEW x \in S
    PROVE  /\ S \ {x} \in SUBSET Trades
           /\ Cardinality(S) = Cardinality(S \ {x}) + 1
<1>1. IsFiniteSet(S) /\ Cardinality(S) \in Nat /\ S \ {x} \in SUBSET Trades
  BY TradesAreFinite
<1>2. Cardinality(S \ {x}) = Cardinality(S) - 1
  BY <1>1, FS_RemoveElement
<1> QED
  BY <1>1, <1>2

\* Induction over sets of trades: what holds of a set if it holds of the set
\* without any one of its trades, holds of all.
LEMMA SetInduction ==
    ASSUME NEW X, X \subseteq SUBSET Trades,
           \A S \in SUBSET Trades : (\A x \in S : S \ {x} \in X) => S \in X
    PROVE  X = SUBSET Trades
<1> DEFINE Bad == (SUBSET Trades) \ X
           Sizes == {Cardinality(S) : S \in Bad}
<1> SUFFICES ASSUME Bad # {} PROVE FALSE
  OBVIOUS
<1>1. Sizes \subseteq Nat /\ Sizes # {}
  BY TradesAreFinite
<1>2. PICK n \in Sizes : \A m \in Sizes : n <= m
  <2> HIDE DEF Sizes
  <2> QED
    BY <1>1, LeastNumber
<1>3. PICK S \in Bad : n = Cardinality(S)
  BY <1>2
<1>4. ASSUME NEW x \in S PROVE S \ {x} \in X
  <2>1. /\ S \ {x} \in SUBSET Trades
        /\ Cardinality(S) = Cardinality(S \ {x}) + 1
    BY OneLess
  <2>2. Cardinality(S \ {x}) \in Nat
    BY <2>1, TradesAreFinite
  <2>3. ~ (n <= Cardinality(S \ {x}))
    <3>1. n = Cardinality(S \ {x}) + 1
      BY <1>3, <2>1
    <3> HIDE DEF Bad, Sizes
    <3> QED
      BY <2>2, <3>1
  <2>4. Cardinality(S \ {x}) \notin Sizes
    BY <1>2, <2>3
  <2> QED
    BY <2>1, <2>4
<1> QED
  BY <1>4

\* The total of a set of trades under the outcomes q, as MapThenSumSet has it.
IsTotal(g, q, S) ==
    g = [s \in SUBSET S |-> IF s = {} THEN 0
            ELSE q[CHOOSE x \in s : TRUE] + g[s \ {CHOOSE x \in s : TRUE}]]

DayTotal(q, S) == (CHOOSE g : IsTotal(g, q, S))[S]

LEMMA SumIsDayTotal ==
    ASSUME NEW S
    PROVE  Sum(S) = DayTotal(ret, S)
BY DEF Sum, MapThenSumSet, MapThenFoldSet, DayTotal, IsTotal

\* The recursion has a solution: it is built up by the size of the sets.
LEMMA TotalExists ==
    ASSUME NEW q
    PROVE  \E g : IsTotal(g, q, Trades)
<1> DEFINE First(s) == CHOOSE x \in s : TRUE
           Sets(n) == {s \in SUBSET Trades : Cardinality(s) <= n}
           IsPart(g, n) ==
               g = [s \in Sets(n) |-> IF s = {} THEN 0 ELSE q[First(s)] + g[s \ {First(s)}]]
           Solved == {n \in Nat : \E g : IsPart(g, n)}
<1>1. 0 \in Solved
  <2>1. ASSUME NEW s \in Sets(0) PROVE s = {}
    BY TradesAreFinite, FS_EmptySet
  <2> DEFINE g == [s \in Sets(0) |-> 0]
  <2>2. IsPart(g, 0)
    <3> HIDE DEF Sets
    <3> QED
      BY <2>1
  <2> HIDE DEF IsPart, g
  <2> QED
    BY <2>2
<1>2. ASSUME NEW n \in Solved PROVE n + 1 \in Solved
  <2>1. PICK g : IsPart(g, n)
    OBVIOUS
  <2> DEFINE h == [s \in Sets(n + 1) |->
                     IF s = {} THEN 0 ELSE q[First(s)] + g[s \ {First(s)}]]
  <2>2. ASSUME NEW s \in Sets(n + 1), s # {}
        PROVE  s \ {First(s)} \in Sets(n)
    <3>1. First(s) \in s /\ s \in SUBSET Trades
      BY <2>2
    <3> HIDE DEF First
    <3>2. /\ s \ {First(s)} \in SUBSET Trades
          /\ Cardinality(s) = Cardinality(s \ {First(s)}) + 1
      BY <3>1, OneLess
    <3>3. Cardinality(s \ {First(s)}) \in Nat
      BY <3>2, TradesAreFinite
    <3> QED
      BY <3>2, <3>3
  <2>3. Sets(n) \subseteq Sets(n + 1)
    BY TradesAreFinite
  <2> HIDE DEF Sets, First
  <2>4. \A s \in Sets(n) : h[s] = g[s]
    BY <2>1, <2>3
  <2>5. h = [s \in Sets(n + 1) |-> IF s = {} THEN 0 ELSE q[First(s)] + h[s \ {First(s)}]]
    BY <2>2, <2>4
  <2> HIDE DEF h
  <2>6. \E f : IsPart(f, n + 1)
    BY <2>5
  <2> HIDE DEF IsPart
  <2> QED
    BY <2>6
<1>3. Solved = Nat
  <2>1. Solved \subseteq Nat
    OBVIOUS
  <2> HIDE DEF Solved
  <2> QED
    BY <1>1, <1>2, <2>1, NumberInduction
<1>4. PICK g : IsPart(g, Cardinality(Trades))
  <2>1. Cardinality(Trades) \in Solved
    BY <1>3, TradesAreFinite
  <2> QED
    BY <2>1
<1>5. Sets(Cardinality(Trades)) = SUBSET Trades
  <2>1. IsFiniteSet(Trades)
    BY TradesAreFinite
  <2> QED
    BY <2>1, FS_Subset
<1> QED
  BY <1>4, <1>5 DEF IsTotal

\* Of a set the total of all its subsets is one function, whatever the set
\* they are taken from.
LEMMA TotalAgrees ==
    ASSUME NEW q, NEW g, IsTotal(g, q, Trades), NEW S \in SUBSET Trades
    PROVE  DayTotal(q, S) = g[S]
<1> DEFINE h == [s \in SUBSET S |-> g[s]]
           f == CHOOSE f : IsTotal(f, q, S)
<1>1. IsTotal(h, q, S)
  BY DEF IsTotal
<1>2. IsTotal(f, q, S)
  <2> HIDE DEF h
  <2> QED
    BY <1>1
<1> HIDE DEF f, h
<1> DEFINE X == {T \in SUBSET Trades : T \subseteq S => f[T] = g[T]}
<1>3. ASSUME NEW T \in SUBSET Trades, \A x \in T : T \ {x} \in X
      PROVE  T \in X
  <2> SUFFICES ASSUME T \subseteq S PROVE f[T] = g[T]
    OBVIOUS
  <2> DEFINE x == CHOOSE x \in T : TRUE
  <2>1. CASE T = {}
    BY <1>2, <2>1 DEF IsTotal
  <2>2. CASE T # {}
    <3>1. x \in T
      BY <2>2
    <3>2. f[T \ {x}] = g[T \ {x}]
      BY <1>3, <3>1
    <3>3. f[T] = q[x] + f[T \ {x}]
      BY <1>2, <2>2 DEF IsTotal
    <3>4. g[T] = q[x] + g[T \ {x}]
      BY <2>2 DEF IsTotal
    <3> QED
      BY <3>2, <3>3, <3>4
  <2> QED
    BY <2>1, <2>2
<1>4. X = SUBSET Trades
  <2>1. X \subseteq SUBSET Trades
    OBVIOUS
  <2> HIDE DEF X
  <2> QED
    BY <1>3, <2>1, SetInduction
<1>5. S \in X
  BY <1>4
<1> QED
  BY <1>5 DEF DayTotal, f

LEMMA TotalUnfolds ==
    ASSUME NEW q \in [Trades -> Int]
    PROVE  /\ DayTotal(q, {}) = 0
           /\ \A S \in SUBSET Trades : S # {} =>
                DayTotal(q, S) = q[CHOOSE x \in S : TRUE]
                                   + DayTotal(q, S \ {CHOOSE x \in S : TRUE})
<1>1. PICK g : IsTotal(g, q, Trades)
  BY TotalExists
<1>2. \A S \in SUBSET Trades : DayTotal(q, S) = g[S]
  BY <1>1, TotalAgrees
<1>3. \A S \in SUBSET Trades : S \ {CHOOSE x \in S : TRUE} \in SUBSET Trades
  OBVIOUS
<1>4. \A S \in SUBSET Trades :
         g[S] = IF S = {} THEN 0
                ELSE q[CHOOSE x \in S : TRUE] + g[S \ {CHOOSE x \in S : TRUE}]
  BY <1>1 DEF IsTotal
<1> QED
  BY <1>2, <1>3, <1>4

LEMMA TotalIsNumber ==
    ASSUME NEW q \in [Trades -> Int], NEW S \in SUBSET Trades
    PROVE  DayTotal(q, S) \in Int
<1> DEFINE X == {T \in SUBSET Trades : DayTotal(q, T) \in Int}
<1>1. ASSUME NEW T \in SUBSET Trades, \A x \in T : T \ {x} \in X
      PROVE  T \in X
  <2>1. CASE T = {}
    BY <2>1, TotalUnfolds
  <2>2. CASE T # {}
    <3> DEFINE x == CHOOSE x \in T : TRUE
    <3>1. x \in T
      BY <2>2
    <3>2. DayTotal(q, T) = q[x] + DayTotal(q, T \ {x})
      BY <2>2, TotalUnfolds
    <3> HIDE DEF x
    <3>3. DayTotal(q, T \ {x}) \in Int /\ q[x] \in Int
      BY <1>1, <3>1
    <3> QED
      BY <3>2, <3>3
  <2> QED
    BY <2>1, <2>2
<1>2. X = SUBSET Trades
  <2>1. X \subseteq SUBSET Trades
    OBVIOUS
  <2> HIDE DEF X
  <2> QED
    BY <1>1, <2>1, SetInduction
<1> QED
  BY <1>2

\* A total does not depend on the order in which it is taken.
LEMMA TotalInAnyOrder ==
    ASSUME NEW q \in [Trades -> Int], NEW S \in SUBSET Trades, NEW x \in S
    PROVE  DayTotal(q, S) = q[x] + DayTotal(q, S \ {x})
<1> DEFINE X == {T \in SUBSET Trades :
                   \A y \in T : DayTotal(q, T) = q[y] + DayTotal(q, T \ {y})}
<1>1. ASSUME NEW T \in SUBSET Trades, \A y \in T : T \ {y} \in X
      PROVE  T \in X
  <2> SUFFICES ASSUME NEW y \in T
               PROVE  DayTotal(q, T) = q[y] + DayTotal(q, T \ {y})
    OBVIOUS
  <2> DEFINE z == CHOOSE z \in T : TRUE
  <2>1. z \in T /\ DayTotal(q, T) = q[z] + DayTotal(q, T \ {z})
    BY TotalUnfolds
  <2> HIDE DEF z
  <2>2. CASE y = z
    BY <2>1, <2>2
  <2>3. CASE y # z
    <3>1. T \ {z} \in X /\ T \ {y} \in X
      BY <1>1, <2>1
    <3>2. y \in T \ {z} /\ z \in T \ {y} /\ (T \ {z}) \ {y} = (T \ {y}) \ {z}
      BY <2>1, <2>3
    <3>3. DayTotal(q, T \ {z}) = q[y] + DayTotal(q, (T \ {z}) \ {y})
      BY <3>1, <3>2
    <3>4. DayTotal(q, T \ {y}) = q[z] + DayTotal(q, (T \ {z}) \ {y})
      BY <3>1, <3>2
    <3>5. q[y] \in Int /\ q[z] \in Int /\ DayTotal(q, (T \ {z}) \ {y}) \in Int
      <4>1. (T \ {z}) \ {y} \in SUBSET Trades
        OBVIOUS
      <4>2. DayTotal(q, (T \ {z}) \ {y}) \in Int
        BY <4>1, TotalIsNumber
      <4> QED
        BY <2>1, <4>2
    <3> QED
      BY <2>1, <3>3, <3>4, <3>5
  <2> QED
    BY <2>2, <2>3
<1>2. X = SUBSET Trades
  <2>1. X \subseteq SUBSET Trades
    OBVIOUS
  <2> HIDE DEF X
  <2> QED
    BY <1>1, <2>1, SetInduction
<1>3. S \in X
  BY <1>2
<1> QED
  BY <1>3

\* Counters are a record of these fields.
Counted(c) ==
    c = [loss_streak |-> c.loss_streak, equity_pct |-> c.equity_pct,
         peak_pct |-> c.peak_pct, drawdown_pct |-> c.drawdown_pct,
         loss_sum_pct |-> c.loss_sum_pct, significant_trades |-> c.significant_trades,
         all_trades |-> c.all_trades, last_trade_id |-> c.last_trade_id,
         unrealized_pct |-> c.unrealized_pct, drawdown_full_pct |-> c.drawdown_full_pct]

LEMMA ApplyFields ==
    ASSUME NEW c, Counted(c), NEW t
    PROVE  LET d == Apply(c, t)
           IN /\ Counted(d)
              /\ d.equity_pct = c.equity_pct + ret[t]
              /\ d.peak_pct = Max({c.peak_pct, c.equity_pct + ret[t]})
              /\ d.drawdown_pct = d.peak_pct - d.equity_pct
              /\ d.loss_sum_pct = IF d.equity_pct < 0 THEN -d.equity_pct ELSE 0
              /\ d.all_trades = c.all_trades + 1
              /\ d.significant_trades = IF IsSignificant(t) THEN c.significant_trades + 1
                                        ELSE c.significant_trades
              /\ ~IsSignificant(t) => d.loss_streak = c.loss_streak
              /\ IsSignificant(t) /\ ret[t] < 0 => d.loss_streak = c.loss_streak + 1
              /\ IsSignificant(t) /\ ~(ret[t] < 0) => d.loss_streak = 0
<1> DEFINE e == c.equity_pct + ret[t]
           k == Max({c.peak_pct, e})
           dd == k - e
           ls == IF e < 0 THEN -e ELSE 0
           st == IF IsSignificant(t) THEN c.significant_trades + 1 ELSE c.significant_trades
           lk == CASE ~IsSignificant(t) -> c.loss_streak
                   [] IsSignificant(t) /\ ret[t] < 0 -> c.loss_streak + 1
                   [] OTHER -> 0
           at == c.all_trades + 1
<1>1. Apply(c, t) = [c EXCEPT !.all_trades = at, !.equity_pct = e, !.peak_pct = k,
                              !.drawdown_pct = dd, !.loss_sum_pct = ls,
                              !.significant_trades = st, !.loss_streak = lk,
                              !.last_trade_id = t]
  BY DEF Apply
<1>2. /\ ~IsSignificant(t) => lk = c.loss_streak
      /\ IsSignificant(t) /\ ret[t] < 0 => lk = c.loss_streak + 1
      /\ IsSignificant(t) /\ ~(ret[t] < 0) => lk = 0
  OBVIOUS
<1>3. dd = k - e /\ ls = (IF e < 0 THEN -e ELSE 0)
  OBVIOUS
<1> HIDE DEF dd, ls, st, lk, at, k, e
<1>4. ASSUME NEW d,
             d = [c EXCEPT !.all_trades = at, !.equity_pct = e, !.peak_pct = k,
                           !.drawdown_pct = dd, !.loss_sum_pct = ls,
                           !.significant_trades = st, !.loss_streak = lk,
                           !.last_trade_id = t]
      PROVE  /\ Counted(d)
             /\ d.equity_pct = e /\ d.peak_pct = k /\ d.drawdown_pct = dd
             /\ d.loss_sum_pct = ls /\ d.all_trades = at
             /\ d.significant_trades = st /\ d.loss_streak = lk
  BY <1>4 DEF Counted
<1>5. LET d == Apply(c, t)
      IN /\ Counted(d)
         /\ d.equity_pct = e /\ d.peak_pct = k /\ d.drawdown_pct = dd
         /\ d.loss_sum_pct = ls /\ d.all_trades = at
         /\ d.significant_trades = st /\ d.loss_streak = lk
  BY <1>1, <1>4
<1> QED
  BY <1>2, <1>3, <1>5 DEF e, k, st, at

\* What a refresh of positions adds leaves the counters of the trades.
LEMMA UnrealizedFields ==
    ASSUME NEW c, Counted(c), NEW u
    PROVE  LET d == WithUnrealized(c, u)
           IN /\ d.unrealized_pct = u
              /\ d.equity_pct = c.equity_pct /\ d.peak_pct = c.peak_pct
              /\ d.drawdown_pct = c.drawdown_pct /\ d.loss_sum_pct = c.loss_sum_pct
              /\ d.all_trades = c.all_trades /\ d.loss_streak = c.loss_streak
              /\ d.significant_trades = c.significant_trades
              /\ Counted(d)
<1> DEFINE f == IF u = Unknown THEN Unknown
                ELSE Max({c.peak_pct, c.equity_pct + u}) - (c.equity_pct + u)
<1>1. WithUnrealized(c, u) = [c EXCEPT !.unrealized_pct = u, !.drawdown_full_pct = f]
  BY DEF WithUnrealized
<1> HIDE DEF f
<1>2. ASSUME NEW d, d = [c EXCEPT !.unrealized_pct = u, !.drawdown_full_pct = f]
      PROVE  /\ d.unrealized_pct = u
             /\ d.equity_pct = c.equity_pct /\ d.peak_pct = c.peak_pct
             /\ d.drawdown_pct = c.drawdown_pct /\ d.loss_sum_pct = c.loss_sum_pct
             /\ d.all_trades = c.all_trades /\ d.loss_streak = c.loss_streak
             /\ d.significant_trades = c.significant_trades
             /\ Counted(d)
  BY <1>2 DEF Counted
<1> QED
  BY <1>1, <1>2

IsWalk(g, facts) ==
    g = [i \in 0..Horizon |->
            IF i = 0 THEN Zero
            ELSE IF i \in facts THEN Apply(g[i - 1], i) ELSE g[i - 1]]

LEMMA WalkExists ==
    ASSUME NEW facts
    PROVE  \E g : IsWalk(g, facts)
<1> DEFINE Step(c, i) == IF i \in facts THEN Apply(c, i) ELSE c
           IsPart(g, n) == g = [i \in 0..n |-> IF i = 0 THEN Zero ELSE Step(g[i - 1], i)]
           Walked == {n \in Nat : \E g : IsPart(g, n)}
<1> HIDE DEF Step
<1>1. 0 \in Walked
  <2> DEFINE g == [i \in 0..0 |-> Zero]
  <2>1. IsPart(g, 0)
    OBVIOUS
  <2> HIDE DEF IsPart, g
  <2> QED
    BY <2>1
<1>2. ASSUME NEW n \in Walked PROVE n + 1 \in Walked
  <2>1. PICK g : IsPart(g, n)
    OBVIOUS
  <2> DEFINE h == [i \in 0..(n + 1) |-> IF i = 0 THEN Zero ELSE Step(g[i - 1], i)]
  <2>2. \A i \in 0..n : h[i] = g[i]
    BY <2>1
  <2>3. \A i \in 0..(n + 1) : i # 0 => i - 1 \in 0..n
    OBVIOUS
  <2>4. h = [i \in 0..(n + 1) |-> IF i = 0 THEN Zero ELSE Step(h[i - 1], i)]
    BY <2>2, <2>3
  <2> HIDE DEF h
  <2>5. \E f : IsPart(f, n + 1)
    BY <2>4
  <2> HIDE DEF IsPart
  <2> QED
    BY <2>5
<1>3. Walked = Nat
  <2>1. Walked \subseteq Nat
    OBVIOUS
  <2> HIDE DEF Walked
  <2> QED
    BY <1>1, <1>2, <2>1, NumberInduction
<1>4. PICK g : IsPart(g, Horizon)
  BY <1>3, JournalAssumption
<1> QED
  BY <1>4 DEF IsWalk, Step

LEMMA WalkUnfolds ==
    ASSUME NEW facts
    PROVE  /\ CountersAt(facts, 0) = Zero
           /\ \A i \in 1..Horizon :
                CountersAt(facts, i) = IF i \in facts THEN Apply(CountersAt(facts, i - 1), i)
                                       ELSE CountersAt(facts, i - 1)
<1> DEFINE g == CHOOSE g : IsWalk(g, facts)
<1>1. IsWalk(g, facts)
  BY WalkExists
<1>2. \A t : CountersAt(facts, t) = g[t]
  BY DEF CountersAt, IsWalk
<1> HIDE DEF g
<1>3. g[0] = Zero
  BY <1>1, JournalAssumption DEF IsWalk
<1>4. ASSUME NEW i \in 1..Horizon
      PROVE  g[i] = IF i \in facts THEN Apply(g[i - 1], i) ELSE g[i - 1]
  <2>1. i \in 0..Horizon /\ i # 0
    BY JournalAssumption
  <2> QED
    BY <1>1, <2>1 DEF IsWalk
<1> QED
  BY <1>2, <1>3, <1>4

IsLast(m, T) == m \in T /\ m \in Int /\ \A y \in T : m >= y

Peaks(q, F)  == {0} \union {DayTotal(q, {p \in F : p <= t}) : t \in F}
Weighty(q, F) == {t \in F : Abs(q[t]) >= Significance}
RunOf(q, F) ==
    {t \in Weighty(q, F) : \A p \in Weighty(q, F) : p >= t => q[p] < 0}

\* The counters c are those of the trades F under the outcomes q.
RightFor(q, c, F) ==
    /\ Counted(c)
    /\ c.equity_pct = DayTotal(q, F)
    /\ IsLast(c.peak_pct, Peaks(q, F))
    /\ c.drawdown_pct = c.peak_pct - DayTotal(q, F)
    /\ IsLast(c.loss_sum_pct, {0, -DayTotal(q, F)})
    /\ c.loss_streak = Cardinality(RunOf(q, F))
    /\ c.significant_trades = Cardinality(Weighty(q, F))
    /\ c.all_trades = Cardinality(F)

LEMMA LastIsMax ==
    ASSUME NEW T, T \subseteq Int, NEW m, IsLast(m, T)
    PROVE  Max(T) = m
<1>1. m \in T /\ \A y \in T : m >= y
  BY DEF IsLast
<1>2. ASSUME NEW k \in T, \A y \in T : k >= y
      PROVE  k = m
  <2>1. k \in Int /\ m \in Int /\ k >= m /\ m >= k
    BY <1>1, <1>2
  <2> QED
    BY <2>1
<1> QED
  BY <1>1, <1>2 DEF Max

LEMMA MaxOfTwo ==
    ASSUME NEW a \in Int, NEW b \in Int
    PROVE  Max({a, b}) = IF a >= b THEN a ELSE b
<1>1. CASE a >= b
  BY <1>1, LastIsMax DEF IsLast
<1>2. CASE ~(a >= b)
  <2>1. b >= a /\ b >= b
    BY <1>2
  <2> QED
    BY <1>2, <2>1, LastIsMax DEF IsLast
<1> QED
  BY <1>1, <1>2

LEMMA NothingWalked ==
    ASSUME NEW q
    PROVE  RightFor(q, Zero, {})
<1>1. DayTotal(q, {}) = 0
  <2>1. \E g : IsTotal(g, q, {})
    <3> DEFINE g == [s \in SUBSET {} |-> 0]
    <3>1. IsTotal(g, q, {})
      BY DEF IsTotal
    <3> QED
      BY <3>1
  <2>2. PICK g : IsTotal(g, q, {}) /\ g = CHOOSE f : IsTotal(f, q, {})
    BY <2>1
  <2>3. g[{}] = 0
    BY <2>2 DEF IsTotal
  <2> QED
    BY <2>2, <2>3 DEF DayTotal
<1>2. Peaks(q, {}) = {0} /\ Weighty(q, {}) = {} /\ RunOf(q, {}) = {}
  BY DEF Peaks, Weighty, RunOf
<1>3. Cardinality({}) = 0
  BY FS_EmptySet
<1>4. Counted(Zero) /\ Zero.equity_pct = 0 /\ Zero.peak_pct = 0 /\ Zero.drawdown_pct = 0
      /\ Zero.loss_sum_pct = 0 /\ Zero.loss_streak = 0 /\ Zero.significant_trades = 0
      /\ Zero.all_trades = 0
  BY DEF Zero, Counted
<1> QED
  BY <1>1, <1>2, <1>3, <1>4 DEF RightFor, IsLast

\* A set and one more.
LEMMA OneMore ==
    ASSUME NEW F \in SUBSET Trades, NEW t \in Trades, t \notin F
    PROVE  Cardinality(F \union {t}) = Cardinality(F) + 1
<1>1. IsFiniteSet(F)
  BY TradesAreFinite
<1> QED
  BY <1>1, FS_AddElement

\* One more trade, later than all the others.
LEMMA LaterTrade ==
    ASSUME NEW q \in [Trades -> Int], NEW F \in SUBSET Trades, NEW t \in Trades,
           \A p \in F : p < t
    PROVE  /\ t \notin F
           /\ DayTotal(q, F \union {t}) = DayTotal(q, F) + q[t]
           /\ Peaks(q, F \union {t}) = Peaks(q, F) \union {DayTotal(q, F \union {t})}
           /\ Weighty(q, F \union {t}) =
                IF Abs(q[t]) >= Significance THEN Weighty(q, F) \union {t} ELSE Weighty(q, F)
           /\ ~(Abs(q[t]) >= Significance) => RunOf(q, F \union {t}) = RunOf(q, F)
           /\ Abs(q[t]) >= Significance /\ q[t] < 0 =>
                RunOf(q, F \union {t}) = RunOf(q, F) \union {t}
           /\ Abs(q[t]) >= Significance /\ ~(q[t] < 0) => RunOf(q, F \union {t}) = {}
<1> DEFINE G == F \union {t}
<1>1. F \subseteq Int /\ t \in Int
  BY JournalAssumption DEF Trades
<1>2. t \notin F
  BY <1>1
<1>3. DayTotal(q, G) = DayTotal(q, F) + q[t]
  <2>1. DayTotal(q, G) = q[t] + DayTotal(q, G \ {t})
    BY TotalInAnyOrder
  <2>2. G \ {t} = F
    BY <1>2
  <2>3. q[t] \in Int /\ DayTotal(q, F) \in Int
    BY TotalIsNumber
  <2>4. DayTotal(q, G) = q[t] + DayTotal(q, F)
    BY <2>1, <2>2
  <2> HIDE DEF G
  <2> QED
    BY <2>3, <2>4
<1>4. Peaks(q, G) = Peaks(q, F) \union {DayTotal(q, G)}
  <2>1. {p \in G : p <= t} = G
    <3>1. \A p \in G : p <= t
      BY <1>1
    <3> QED
      BY <3>1
  <2>2. \A u \in F : {p \in G : p <= u} = {p \in F : p <= u}
    <3> TAKE u \in F
    <3>1. ~(t <= u)
      BY <1>1
    <3> QED
      BY <3>1
  <2> DEFINE Up(H, u) == DayTotal(q, {p \in H : p <= u})
  <2>3. Up(G, t) = DayTotal(q, G) /\ \A u \in F : Up(G, u) = Up(F, u)
    BY <2>1, <2>2
  <2>4. Peaks(q, G) = {0} \union {Up(G, u) : u \in G}
        /\ Peaks(q, F) = {0} \union {Up(F, u) : u \in F}
    BY DEF Peaks
  <2> HIDE DEF Up
  <2> QED
    BY <2>3, <2>4
<1>5. Weighty(q, G) = IF Abs(q[t]) >= Significance THEN Weighty(q, F) \union {t}
                      ELSE Weighty(q, F)
  BY DEF Weighty
<1>6. ~(Abs(q[t]) >= Significance) => RunOf(q, G) = RunOf(q, F)
  BY <1>5 DEF RunOf
<1>7. \A p \in Weighty(q, F) : ~(p >= t) /\ t >= p
  BY <1>1 DEF Weighty
<1>8. t >= t
  BY <1>1
<1>9. Abs(q[t]) >= Significance /\ q[t] < 0 => RunOf(q, G) = RunOf(q, F) \union {t}
  BY <1>5, <1>7, <1>8 DEF RunOf
<1>10. Abs(q[t]) >= Significance /\ ~(q[t] < 0) => RunOf(q, G) = {}
  BY <1>5, <1>7, <1>8 DEF RunOf
<1> QED
  BY <1>2, <1>3, <1>4, <1>5, <1>6, <1>9, <1>10

LEMMA PeaksAreNumbers ==
    ASSUME NEW q \in [Trades -> Int], NEW F \in SUBSET Trades
    PROVE  Peaks(q, F) \subseteq Int
<1>1. \A u \in F : {p \in F : p <= u} \in SUBSET Trades
  OBVIOUS
<1>2. \A u \in F : DayTotal(q, {p \in F : p <= u}) \in Int
  BY <1>1, TotalIsNumber
<1>3. ASSUME NEW y \in Peaks(q, F) PROVE y \in Int
  <2>1. y = 0 \/ \E u \in F : y = DayTotal(q, {p \in F : p <= u})
    BY DEF Peaks
  <2>2. CASE y = 0
    BY <2>2
  <2>3. CASE \E u \in F : y = DayTotal(q, {p \in F : p <= u})
    BY <1>2, <2>3, Zenon
  <2> QED
    BY <2>1, <2>2, <2>3
<1> QED
  BY <1>3

LEMMA ApplyCounts ==
    ASSUME ret \in [Trades -> Int], NEW F \in SUBSET Trades, NEW t \in Trades,
           \A p \in F : p < t, NEW c, RightFor(ret, c, F)
    PROVE  RightFor(ret, Apply(c, t), F \union {t})
<1> DEFINE G == F \union {t}
           d == Apply(c, t)
           e == DayTotal(ret, G)
           W == Weighty(ret, F)
           R == RunOf(ret, F)
<1>1. DayTotal(ret, F) \in Int /\ ret[t] \in Int /\ e \in Int
  BY TotalIsNumber
<1>2. /\ t \notin F
      /\ e = DayTotal(ret, F) + ret[t]
      /\ Peaks(ret, G) = Peaks(ret, F) \union {e}
      /\ Weighty(ret, G) = IF Abs(ret[t]) >= Significance THEN W \union {t} ELSE W
      /\ ~(Abs(ret[t]) >= Significance) => RunOf(ret, G) = R
      /\ Abs(ret[t]) >= Significance /\ ret[t] < 0 => RunOf(ret, G) = R \union {t}
      /\ Abs(ret[t]) >= Significance /\ ~(ret[t] < 0) => RunOf(ret, G) = {}
  BY LaterTrade
<1>3. W \in SUBSET Trades /\ t \notin W /\ R \in SUBSET Trades /\ t \notin R
  BY <1>2 DEF Weighty, RunOf
<1>4. /\ Counted(c) /\ c.equity_pct = DayTotal(ret, F)
      /\ IsLast(c.peak_pct, Peaks(ret, F))
      /\ c.loss_streak = Cardinality(R)
      /\ c.significant_trades = Cardinality(W)
      /\ c.all_trades = Cardinality(F)
  BY DEF RightFor
<1>5. /\ Counted(d)
      /\ d.equity_pct = c.equity_pct + ret[t]
      /\ d.peak_pct = Max({c.peak_pct, c.equity_pct + ret[t]})
      /\ d.drawdown_pct = d.peak_pct - d.equity_pct
      /\ d.loss_sum_pct = IF d.equity_pct < 0 THEN -d.equity_pct ELSE 0
      /\ d.all_trades = c.all_trades + 1
      /\ d.significant_trades = IF IsSignificant(t) THEN c.significant_trades + 1
                                ELSE c.significant_trades
      /\ ~IsSignificant(t) => d.loss_streak = c.loss_streak
      /\ IsSignificant(t) /\ ret[t] < 0 => d.loss_streak = c.loss_streak + 1
      /\ IsSignificant(t) /\ ~(ret[t] < 0) => d.loss_streak = 0
  BY <1>4, ApplyFields
<1>6. IsSignificant(t) <=> Abs(ret[t]) >= Significance
  BY DEF IsSignificant
<1>7. Cardinality(G) = Cardinality(F) + 1
      /\ Cardinality(W \union {t}) = Cardinality(W) + 1
      /\ Cardinality(R \union {t}) = Cardinality(R) + 1
      /\ Cardinality({}) = 0
  BY <1>2, <1>3, OneMore, FS_EmptySet
<1> HIDE DEF d, e, G, W, R
<1>8. d.equity_pct = e
  BY <1>2, <1>4, <1>5
<1>9. IsLast(d.peak_pct, Peaks(ret, G))
  <2> DEFINE k == c.peak_pct
  <2>1. k \in Peaks(ret, F) /\ k \in Int /\ \A y \in Peaks(ret, F) : k >= y
    BY <1>4 DEF IsLast
  <2>2. d.peak_pct = IF k >= e THEN k ELSE e
    BY <1>1, <1>2, <1>4, <1>5, <2>1, MaxOfTwo
  <2> HIDE DEF k
  <2>3. Peaks(ret, F) \subseteq Int
    BY PeaksAreNumbers
  <2>4. CASE k >= e
    BY <1>1, <1>2, <2>1, <2>2, <2>4 DEF IsLast
  <2>5. CASE ~(k >= e)
    <3>1. e >= e /\ \A y \in Peaks(ret, F) : e >= y
      BY <1>1, <2>1, <2>3, <2>5
    <3> QED
      BY <1>1, <1>2, <2>2, <2>5, <3>1 DEF IsLast
  <2> QED
    BY <2>4, <2>5
<1>10. d.drawdown_pct = d.peak_pct - e
  BY <1>5, <1>8
<1>11. IsLast(d.loss_sum_pct, {0, -e})
  BY <1>1, <1>5, <1>8 DEF IsLast
<1>12. d.loss_streak = Cardinality(RunOf(ret, G))
  BY <1>2, <1>4, <1>5, <1>6, <1>7
<1>13. d.significant_trades = Cardinality(Weighty(ret, G))
  BY <1>2, <1>4, <1>5, <1>6, <1>7
<1>14. d.all_trades = Cardinality(G)
  BY <1>4, <1>5, <1>7
<1>15. RightFor(ret, d, G)
  BY <1>5, <1>8, <1>9, <1>10, <1>11, <1>12, <1>13, <1>14 DEF RightFor, e
<1> QED
  BY <1>15 DEF d, G

\* What the walk counts, for every day.
LEMMA WalkCounts ==
    ASSUME ret \in [Trades -> Int], NEW facts \in SUBSET Trades
    PROVE  RightFor(ret, CountersAt(facts, Horizon), facts)
<1> DEFINE Upto(n) == {p \in facts : p <= n}
           Good == {n \in Nat : n <= Horizon => RightFor(ret, CountersAt(facts, n), Upto(n))}
<1>1. Horizon \in Nat /\ \A p \in facts : p \in Int /\ 1 <= p /\ p <= Horizon
  BY JournalAssumption DEF Trades
<1>2. 0 \in Good
  <2>1. Upto(0) = {}
    BY <1>1
  <2>2. CountersAt(facts, 0) = Zero
    BY WalkUnfolds
  <2> HIDE DEF Upto
  <2> QED
    BY <2>1, <2>2, NothingWalked
<1>3. ASSUME NEW n \in Good PROVE n + 1 \in Good
  <2> SUFFICES ASSUME n + 1 <= Horizon
               PROVE  RightFor(ret, CountersAt(facts, n + 1), Upto(n + 1))
    OBVIOUS
  <2>1. n + 1 \in 1..Horizon /\ (n + 1) - 1 = n /\ n <= Horizon
    BY <1>1
  <2>2. RightFor(ret, CountersAt(facts, n), Upto(n))
    BY <2>1
  <2>3. CountersAt(facts, n + 1) = IF n + 1 \in facts THEN Apply(CountersAt(facts, n), n + 1)
                                   ELSE CountersAt(facts, n)
    BY <2>1, WalkUnfolds
  <2>4. CASE n + 1 \in facts
    <3>1. Upto(n + 1) = Upto(n) \union {n + 1}
      BY <1>1, <2>4
    <3>2. Upto(n) \in SUBSET Trades /\ n + 1 \in Trades
      BY <2>1 DEF Trades
    <3>3. \A p \in Upto(n) : p < n + 1
      BY <1>1
    <3> HIDE DEF Upto
    <3> QED
      BY <2>2, <2>3, <2>4, <3>1, <3>2, <3>3, ApplyCounts
  <2>5. CASE n + 1 \notin facts
    <3>1. Upto(n + 1) = Upto(n)
      BY <1>1, <2>5
    <3> HIDE DEF Upto
    <3> QED
      BY <2>2, <2>3, <2>5, <3>1
  <2> QED
    BY <2>4, <2>5
<1>4. Good = Nat
  <2>1. Good \subseteq Nat
    OBVIOUS
  <2> HIDE DEF Good
  <2> QED
    BY <1>2, <1>3, <2>1, NumberInduction
<1>5. Horizon \in Good
  BY <1>1, <1>4
<1>6. Upto(Horizon) = facts
  BY <1>1
<1> HIDE DEF Upto
<1> QED
  BY <1>1, <1>5, <1>6

\* As long as no two passes overlapped, what is cached is the count of what is
\* stored.
CacheCounts ==
    /\ ret \in [Trades -> Int]
    /\ overlaps = 0 => RightFor(ret, cache, stored)

LEMMA CountersCount ==
    ASSUME RInv, ret \in [Trades -> Int], NEW s \in Sessions
    PROVE  /\ RightFor(ret, Counters(s), session[s].facts)
           /\ Counters(s).unrealized_pct = session[s].unrealized
<1> DEFINE c == CountersAt(session[s].facts, Horizon)
           d == WithUnrealized(c, session[s].unrealized)
<1>1. session[s].facts \in SUBSET Trades
  <2>1. stored \subseteq 1..now /\ session[s].batch \subseteq 1..now /\ now \in 0..Horizon
        /\ session[s].facts \subseteq stored \union session[s].batch
    BY DEF RInv, TradesAreOfTheDay
  <2>2. 1..now \subseteq Trades
    BY <2>1, JournalAssumption DEF Trades
  <2> QED
    BY <2>1, <2>2
<1>2. RightFor(ret, c, session[s].facts)
  BY <1>1, WalkCounts
<1>3. Counted(c)
  BY <1>2 DEF RightFor
<1> HIDE DEF c
<1>4. /\ d.unrealized_pct = session[s].unrealized
      /\ d.equity_pct = c.equity_pct /\ d.peak_pct = c.peak_pct
      /\ d.drawdown_pct = c.drawdown_pct /\ d.loss_sum_pct = c.loss_sum_pct
      /\ d.all_trades = c.all_trades /\ d.loss_streak = c.loss_streak
      /\ d.significant_trades = c.significant_trades
      /\ Counted(d)
  BY <1>3, UnrealizedFields
<1> HIDE DEF d
<1>5. RightFor(ret, d, session[s].facts)
  BY <1>2, <1>4 DEF RightFor
<1> QED
  BY <1>4, <1>5 DEF Counters, c, d

LEMMA InitCounts == Init => CacheCounts
<1> SUFFICES ASSUME Init PROVE CacheCounts
  OBVIOUS
<1>1. ret \in [Trades -> Int] /\ cache = Zero /\ stored = {}
  BY JournalAssumption DEF Init
<1> QED
  BY <1>1, NothingWalked DEF CacheCounts

LEMMA NextCounts == RInv /\ CacheCounts /\ [Next]_vars => CacheCounts'
<1> SUFFICES ASSUME RInv, CacheCounts, [Next]_vars PROVE CacheCounts'
  OBVIOUS
<1>1. CASE /\ ret' = ret /\ cache' = cache /\ stored' = stored
           /\ overlaps' = 0 => overlaps = 0
  BY <1>1 DEF CacheCounts
<1>2. ASSUME NEW s \in Sessions, SaveCounters(s)
      PROVE  CacheCounts'
  <2>1. /\ ret' = ret /\ overlaps' = overlaps /\ cache' = Counters(s)
        /\ stored' = stored \union session[s].batch
    BY <1>2 DEF SaveCounters
  <2>2. overlaps = 0 => stored' = session[s].facts
    BY <1>2, <2>1 DEF RInv, SoloReads, SaveCounters, Running
  <2> QED
    BY <2>1, <2>2, CountersCount DEF CacheCounts
<1>3. ASSUME NEW s \in Sessions, NEW kind, NEW batch, NEW u, Begin(s, kind, batch, u)
      PROVE  CacheCounts'
  <2>1. overlaps' = 0 => overlaps = 0
    BY <1>3 DEF Begin, RInv, TradesAreOfTheDay
  <2> QED
    BY <1>1, <1>3, <2>1 DEF Begin
<1>4. ASSUME NEW s \in Sessions, BeginDay(s) \/ RefreshPositions(s)
      PROVE  CacheCounts'
  BY <1>3, <1>4 DEF BeginDay, RefreshPositions
<1>5. ASSUME NEW s \in Sessions, ReadJournal(s) \/ JudgeTrades(s) \/ Fail(s)
      PROVE  CacheCounts'
  BY <1>1, <1>5 DEF ReadJournal, JudgeTrades, Fail
<1>6. CASE Tick
  BY <1>1, <1>6 DEF Tick
<1>7. ASSUME NEW r \in Rules, CreateRule(r) \/ EditRule(r)
      PROVE  CacheCounts'
  BY <1>1, <1>7
  DEF CreateRule, EditRule, PatchRule, ToggleRule, DeleteRule, SetRule
<1>8. CASE UNCHANGED vars
  BY <1>1, <1>8 DEF vars
<1> QED
  BY <1>2, <1>4, <1>5, <1>6, <1>7, <1>8 DEF Next, PassStep

\* The row of day_counters is what the trades of the day come to: total, peak,
\* drawdown, losses, streak and counts, for every outcome of every trade and
\* whatever order they are brought in.
THEOREM CountersAreOfTrades == Spec => []CountersOfTrades
<1>1. RInv /\ CacheCounts => CountersOfTrades
  <2> SUFFICES ASSUME RInv, CacheCounts, overlaps = 0
               PROVE  /\ cache.equity_pct = Sum(stored)
                      /\ cache.peak_pct = Peak(stored)
                      /\ cache.drawdown_pct = Peak(stored) - Sum(stored)
                      /\ cache.loss_sum_pct = Max({0, -Sum(stored)})
                      /\ cache.loss_streak = Streak(stored)
                      /\ cache.significant_trades = Cardinality(Significant(stored))
                      /\ cache.all_trades = Cardinality(stored)
    BY DEF CountersOfTrades
  <2>1. /\ cache.equity_pct = DayTotal(ret, stored)
        /\ IsLast(cache.peak_pct, Peaks(ret, stored))
        /\ cache.drawdown_pct = cache.peak_pct - DayTotal(ret, stored)
        /\ IsLast(cache.loss_sum_pct, {0, -DayTotal(ret, stored)})
        /\ cache.loss_streak = Cardinality(RunOf(ret, stored))
        /\ cache.significant_trades = Cardinality(Weighty(ret, stored))
        /\ cache.all_trades = Cardinality(stored)
    BY DEF CacheCounts, RightFor
  <2>2. stored \in SUBSET Trades
    <3>1. stored \subseteq 1..now /\ now \in 0..Horizon
      BY DEF RInv, TradesAreOfTheDay
    <3>2. 1..now \subseteq Trades
      BY <3>1, JournalAssumption DEF Trades
    <3> QED
      BY <3>1, <3>2
  <2>3. \A S : Sum(S) = DayTotal(ret, S)
    BY SumIsDayTotal
  <2>4. Significant(stored) = Weighty(ret, stored)
    BY DEF Significant, Weighty, IsSignificant
  <2>5. Streak(stored) = Cardinality(RunOf(ret, stored))
    BY <2>4 DEF Streak, RunOf
  <2>6. Peak(stored) = Max(Peaks(ret, stored))
    <3>1. {Sum({p \in stored : p <= t}) : t \in stored}
            = {DayTotal(ret, {p \in stored : p <= t}) : t \in stored}
      BY <2>3
    <3> QED
      BY <3>1 DEF Peak, Peaks
  <2>7. ret \in [Trades -> Int]
    BY DEF CacheCounts
  <2>8. Max(Peaks(ret, stored)) = cache.peak_pct
    BY <2>1, <2>2, <2>7, PeaksAreNumbers, LastIsMax
  <2>9. Max({0, -DayTotal(ret, stored)}) = cache.loss_sum_pct
    <3>1. DayTotal(ret, stored) \in Int
      BY <2>2, <2>7, TotalIsNumber
    <3>2. {0, -DayTotal(ret, stored)} \subseteq Int
      BY <3>1
    <3> QED
      BY <2>1, <3>2, LastIsMax
  <2> QED
    BY <2>1, <2>3, <2>4, <2>5, <2>6, <2>8, <2>9
<1>2. Spec => []CacheCounts
  BY PassesContinue, InitCounts, NextCounts, PTL DEF Spec
<1> QED
  BY <1>1, <1>2, PassesContinue, PTL

\* run_day of an ordinary pass keeps what a refresh of positions has found:
\* "an ordinary pass has no right to wipe" it.
THEOREM UnrealizedIsKept == Spec => KeepsUnrealized
<1> DEFINE Keeps ==
        overlaps = 0 /\ cache'.unrealized_pct # cache.unrealized_pct =>
            \E s \in Sessions : session[s].kind = "positions" /\ SaveCounters(s)
<1>1. ASSUME RInv, CacheCounts, [Next]_vars
      PROVE  Keeps
  <2>1. CASE cache' = cache
    BY <2>1
  <2>2. ASSUME NEW s \in Sessions, SaveCounters(s)
        PROVE  Keeps
    <3>1. cache'.unrealized_pct = session[s].unrealized
      BY <1>1, <2>2, CountersCount DEF CacheCounts, SaveCounters
    <3>2. session[s].kind \in {"day", "positions"}
      BY <1>1 DEF RInv, TradesAreOfTheDay
    <3>3. CASE session[s].kind = "day"
      <4>1. session[s].at = "save"
        BY <2>2 DEF SaveCounters
      <4>2. overlaps = 0 => session[s].unrealized = cache.unrealized_pct
        BY <1>1, <3>3, <4>1 DEF RInv, SoloReads
      <4> QED
        BY <3>1, <4>2
    <3>4. CASE session[s].kind = "positions"
      BY <2>2, <3>4
    <3> QED
      BY <3>2, <3>3, <3>4
  <2> QED
    BY <1>1, <2>1, <2>2
    DEF Next, Tick, CreateRule, NewRule, EditRule, PatchRule, ToggleRule,
        DeleteRule, SetRule, BeginDay,
        RefreshPositions, Begin, PassStep, ReadJournal, JudgeTrades, Fail, vars
<1>2. Spec => []CacheCounts
  BY PassesContinue, InitCounts, NextCounts, PTL DEF Spec
<1> QED
  BY <1>1, <1>2, PassesContinue, PTL DEF Spec, KeepsUnrealized

----------------------------------------------------------------------------
(* Types *)

Fits(x) ==
    /\ x.at \in {"idle", "read", "trades", "save"}
    /\ x.kind \in {"day", "positions"}
    /\ x.batch \subseteq x.facts
    /\ IsJournal(x.done) /\ IsJournal(x.written)
    /\ x.unrealized \in Unrealized \union {Unknown}
    /\ x.kind = "positions" => x.minute \in Polls

IsRule(row) ==
    /\ row.state \in {"absent", "on", "off", "deleted"}
    /\ row.created_at \in 0..now
    /\ row.conditions \in Offered \union {{}}

\* Also where passes overlap, the cache holds the count of some trades of the
\* day: those of the walk of the pass that wrote it.
CacheIsAWalk == \E F \in SUBSET (1..now) : RightFor(ret, cache, F)

TInv ==
    /\ ret \in Outcomes
    /\ \A r \in Rules : IsRule(rule[r])
    /\ IsJournal(journal)
    /\ CacheIsAWalk
    /\ cache.unrealized_pct \in Unrealized \union {Unknown}
    /\ \A s \in Sessions : Fits(session[s])
    /\ overlaps \in 0..MaxOverlaps /\ late \in BOOLEAN

LEMMA FewTrades ==
    ASSUME NEW n \in 0..Horizon, NEW F \in SUBSET (1..n)
    PROVE  F \in SUBSET Trades /\ Cardinality(F) \in 0..n
<1>1. n \in Nat /\ 1..n \subseteq Trades
  BY JournalAssumption DEF Trades
<1>2. IsFiniteSet(1..n) /\ Cardinality(1..n) = IF 1 > n THEN 0 ELSE n - 1 + 1
  BY <1>1, FS_Interval
<1>3. Cardinality(1..n) = n
  BY <1>1, <1>2
<1>4. Cardinality(F) \in Nat /\ Cardinality(F) <= n
  BY <1>2, <1>3, FS_Subset, FS_CardinalityType
<1> QED
  BY <1>1, <1>4

\* The peak is no less than where the day ends.
LEMMA DrawdownIsNumber ==
    ASSUME NEW q \in [Trades -> Int], NEW F \in SUBSET Trades, NEW c, RightFor(q, c, F)
    PROVE  c.drawdown_pct \in Nat
<1> DEFINE e == DayTotal(q, F)
           k == c.peak_pct
<1>1. e \in Int
  BY TotalIsNumber
<1>2. k \in Int /\ (\A y \in Peaks(q, F) : k >= y) /\ c.drawdown_pct = k - e
  BY DEF RightFor, IsLast
<1>3. e \in Peaks(q, F)
  <2>1. CASE F = {}
    <3>1. DayTotal(q, {}) = 0
      BY TotalUnfolds
    <3> QED
      BY <2>1, <3>1 DEF Peaks
  <2>2. CASE F # {}
    <3>1. F \subseteq Int /\ Horizon \in Int /\ \A y \in F : y <= Horizon
      BY JournalAssumption DEF Trades
    <3>2. PICK t \in F : \A y \in F : t >= y
      BY <2>2, <3>1, LastOfSet
    <3>3. \A y \in F : y <= t
      BY <3>1, <3>2
    <3>4. {p \in F : p <= t} = F
      BY <3>3
    <3>5. DayTotal(q, {p \in F : p <= t}) = e
      BY <3>4
    <3> HIDE DEF e
    <3> QED
      BY <3>5 DEF Peaks
  <2> QED
    BY <2>1, <2>2
<1> HIDE DEF e, k
<1>4. k >= e
  BY <1>2, <1>3
<1> QED
  BY <1>1, <1>2, <1>4

LEMMA JournalsJoin ==
    ASSUME NEW j, NEW rows, IsJournal(j), IsJournal(rows)
    PROVE  IsJournal(With(j, rows))
<1>1. \A k \in DOMAIN With(j, rows) : With(j, rows)[k] = IF k \in DOMAIN rows THEN rows[k] ELSE j[k]
  BY DEF With
<1>2. DOMAIN With(j, rows) = DOMAIN j \union DOMAIN rows
  BY WithDomain
<1> QED
  BY <1>1, <1>2 DEF IsJournal

LEMMA InsertsAreRows ==
    ASSUME NEW rows, IsJournal(rows)
    PROVE  IsJournal(Inserted(rows))
<1>1. \A k \in DOMAIN Inserted(rows) : Inserted(rows)[k] = rows[k]
  BY DEF Inserted
<1>2. DOMAIN Inserted(rows) \subseteq DOMAIN rows
  BY InsertedDomain
<1> QED
  BY <1>1, <1>2 DEF IsJournal

LEMMA RowIsEvaluation ==
    ASSUME NEW p \in BOOLEAN, NEW q \in BOOLEAN
    PROVE  [fired |-> p, met |-> q] \in Evaluations
BY DEF Evaluations

LEMMA VerdictsAreRows ==
    ASSUME NEW s \in Sessions, DOMAIN session[s].conditions \subseteq Rules,
           session[s].facts \subseteq Trades
    PROVE  IsJournal(Verdicts(s))
<1>1. DOMAIN Verdicts(s) = Due(s)
  BY DEF Verdicts
<1>2. Due(s) \subseteq Rules \X Refs
  <2>1. ASSUME NEW k \in Due(s) PROVE k \in Rules \X Refs
    <3>1. PICK r \in DOMAIN session[s].conditions : \E t \in Unjudged(s, r) : k = <<r, TradeRef(t)>>
      BY DEF Due
    <3>2. PICK t \in Unjudged(s, r) : k = <<r, TradeRef(t)>>
      BY <3>1
    <3>3. t \in Trades
      BY DEF Unjudged, Subjects
    <3> QED
      BY <3>2, <3>3 DEF Refs
  <2> QED
    BY <2>1
<1>3. ASSUME NEW k \in Due(s) PROVE Verdicts(s)[k] \in Evaluations
  <2> DEFINE met == MetNow(s, k[1], k[2][2])
             fired == met /\ ~WasMet(s, k[1], k[2][2])
  <2>1. Verdicts(s)[k] = [fired |-> fired, met |-> met]
    BY DEF Verdicts
  <2>2. met \in BOOLEAN
    BY DEF MetNow, Evaluate
  <2>3. fired \in BOOLEAN
    OBVIOUS
  <2> HIDE DEF met, fired
  <2> QED
    BY <2>1, <2>2, <2>3, RowIsEvaluation
<1> QED
  BY <1>1, <1>2, <1>3 DEF IsJournal

LEMMA PositionsAreRows ==
    ASSUME NEW s \in Sessions, DOMAIN session[s].conditions \subseteq Rules,
           session[s].kind = "positions" => session[s].minute \in Polls
    PROVE  IsJournal(PositionRows(s))
<1> DEFINE Key(r) == <<r, PositionsRef(session[s].minute)>>
           due == {r \in DOMAIN session[s].conditions :
                  /\ session[s].kind = "positions"
                  /\ session[s].unrealized # Unknown
                  /\ UsesPositionMetric(session[s].conditions[r])
                  /\ Key(r) \notin DOMAIN session[s].done}
           D == {Key(r) : r \in due}
           met(k) == Evaluate(session[s].conditions[k[1]], Counters(s))
           fired(k) == met(k) /\ ~WasMet(s, k[1], Horizon + 1)
<1>1. PositionRows(s) = [k \in D |-> [fired |-> fired(k), met |-> met(k)]]
  BY DEF PositionRows
<1>2. D \subseteq Rules \X Refs
  <2>1. ASSUME NEW k \in D PROVE k \in Rules \X Refs
    <3>1. PICK r \in due : k = Key(r)
      OBVIOUS
    <3>2. r \in Rules /\ session[s].minute \in Polls
      OBVIOUS
    <3> QED
      BY <3>1, <3>2 DEF Refs
  <2> QED
    BY <2>1
<1>3. ASSUME NEW k PROVE [fired |-> fired(k), met |-> met(k)] \in Evaluations
  <2>1. met(k) \in BOOLEAN
    BY DEF Evaluate
  <2>2. fired(k) \in BOOLEAN
    OBVIOUS
  <2> HIDE DEF met, fired
  <2> QED
    BY <2>1, <2>2, RowIsEvaluation
<1> HIDE DEF D, met, fired
<1>4. /\ DOMAIN PositionRows(s) = D
      /\ \A k \in D : PositionRows(s)[k] = [fired |-> fired(k), met |-> met(k)]
  BY <1>1
<1> QED
  BY <1>2, <1>3, <1>4 DEF IsJournal

LEMMA EmptyJournal == IsJournal(NoRows)
BY DEF IsJournal, NoRows

LEMMA IdleFits == Fits(Idle)
BY EmptyJournal DEF Fits, Idle

LEMMA InitTInv == Init => TInv
<1> SUFFICES ASSUME Init PROVE TInv
  OBVIOUS
<1>1. ret \in Outcomes /\ ret \in [Trades -> Int] /\ cache = Zero /\ journal = NoRows
      /\ overlaps = 0 /\ late = FALSE /\ now = 0
  BY JournalAssumption DEF Init
<1>2. CacheIsAWalk
  BY <1>1, NothingWalked DEF CacheIsAWalk
<1>3. \A r \in Rules : IsRule(rule[r])
  BY <1>1 DEF Init, NoRule, IsRule
<1>4. \A s \in Sessions : Fits(session[s])
  BY IdleFits DEF Init
<1>5. cache.unrealized_pct = Unknown
  BY <1>1 DEF Zero
<1>6. overlaps \in 0..MaxOverlaps
  BY <1>1, JournalAssumption
<1> QED
  BY <1>1, <1>2, <1>3, <1>4, <1>5, <1>6, EmptyJournal DEF TInv

\* A session alone changes.
LEMMA SessionFits ==
    ASSUME IInv, TInv, NEW s \in Sessions, NEW x, Fits(x),
           session' = [session EXCEPT ![s] = x],
           UNCHANGED <<now, ret, stored, rule, journal, cache, late>>,
           overlaps' \in 0..MaxOverlaps
    PROVE  TInv'
<1>1. \A o \in Sessions : session'[o] = IF o = s THEN x ELSE session[o]
  BY DEF IInv, Shapes
<1>2. \A o \in Sessions : Fits(session'[o])
  BY <1>1 DEF TInv
<1>3. CacheIsAWalk'
  BY DEF TInv, CacheIsAWalk
<1>4. \A r \in Rules : IsRule(rule[r])'
  BY DEF TInv, IsRule
<1>5. \A o \in Sessions : Fits(session[o])'
  BY <1>2 DEF Fits
<1> QED
  BY <1>3, <1>4, <1>5 DEF TInv

LEMMA BeginFits ==
    ASSUME IInv, RInv, TInv, NEW s \in Sessions, NEW kind \in {"day", "positions"},
           NEW batch, NEW u \in Unrealized \union {Unknown},
           kind = "positions" => now \in Polls, Begin(s, kind, batch, u)
    PROVE  TInv'
<1> DEFINE m == IF kind = "positions" THEN now ELSE 0
           f == stored \union batch
           x == Begun(Idle, "read", kind, batch, f, u, m)
<1>1. session' = [session EXCEPT ![s] = x]
      /\ UNCHANGED <<now, ret, stored, rule, journal, cache, late>>
  <2> DEFINE y == [Idle EXCEPT !.at = "read", !.kind = kind, !.batch = batch,
                               !.facts = f, !.unrealized = u, !.minute = m]
  <2>1. session' = [session EXCEPT ![s] = y]
        /\ UNCHANGED <<now, ret, stored, rule, journal, cache, late>>
    BY DEF Begin
  <2> HIDE DEF m, f
  <2>2. x = y
    BY DEF Begun
  <2> HIDE DEF x, y
  <2> QED
    BY <2>1, <2>2
<1>2. overlaps' \in 0..MaxOverlaps
  BY JournalAssumption DEF Begin, TInv
<1>3. batch \subseteq f /\ (kind = "positions" => m \in Polls)
  OBVIOUS
<1> HIDE DEF m, f
<1>4. /\ x.at = "read" /\ x.kind = kind /\ x.batch = batch /\ x.facts = f
      /\ x.done = Idle.done /\ x.written = Idle.written /\ x.unrealized = u /\ x.minute = m
  <2>1. Shape(Idle)
    BY DEF Shape, Idle
  <2> QED
    BY <2>1, Beginning
<1> HIDE DEF x
<1>5. Fits(x)
  BY <1>3, <1>4, IdleFits DEF Fits
<1> QED
  BY <1>1, <1>2, <1>5, SessionFits

LEMMA ReadJournalFits ==
    ASSUME IInv, TInv, NEW s \in Sessions, ReadJournal(s)
    PROVE  TInv'
<1> DEFINE active == {r \in Rules : rule[r].state = "on"}
           c == [r \in active |-> rule[r].conditions]
           x == HasRead(session[s], "trades", c, journal)
<1>1. session' = [session EXCEPT ![s] = x]
      /\ UNCHANGED <<now, ret, stored, rule, journal, cache, overlaps, late>>
  <2> DEFINE y == [session[s] EXCEPT !.at = "trades", !.conditions = c, !.done = journal]
  <2>1. session' = [session EXCEPT ![s] = y]
        /\ UNCHANGED <<now, ret, stored, rule, journal, cache, overlaps, late>>
    BY DEF ReadJournal
  <2> HIDE DEF active, c
  <2>2. x = y
    BY DEF HasRead
  <2> HIDE DEF x, y
  <2> QED
    BY <2>1, <2>2
<1>2. Shape(session[s]) /\ Fits(session[s]) /\ IsJournal(journal)
      /\ overlaps \in 0..MaxOverlaps
  BY DEF IInv, Shapes, TInv
<1> HIDE DEF c
<1>3. /\ x.at = "trades" /\ x.done = journal /\ x.written = session[s].written
      /\ x.facts = session[s].facts /\ x.batch = session[s].batch
      /\ x.kind = session[s].kind /\ x.unrealized = session[s].unrealized
      /\ x.minute = session[s].minute
  BY <1>2, Reading
<1> HIDE DEF x
<1>4. Fits(x)
  BY <1>2, <1>3 DEF Fits
<1> QED
  BY <1>1, <1>2, <1>4, SessionFits

LEMMA ReadsAreOfTheDay ==
    ASSUME IInv, RInv, NEW s \in Sessions
    PROVE  /\ DOMAIN session[s].conditions \subseteq Rules
           /\ session[s].facts \subseteq 1..now
           /\ session[s].facts \subseteq Trades
<1>1. DOMAIN session[s].conditions \subseteq Rules
  BY DEF IInv, ReadsHold, Known
<1>2. session[s].facts \subseteq 1..now /\ now \in 0..Horizon
  BY DEF RInv, TradesAreOfTheDay
<1>3. 1..now \subseteq Trades
  BY <1>2, JournalAssumption DEF Trades
<1> QED
  BY <1>1, <1>2, <1>3

LEMMA JudgeTradesFits ==
    ASSUME IInv, RInv, TInv, NEW s \in Sessions, JudgeTrades(s)
    PROVE  TInv'
<1> DEFINE w == Inserted(Verdicts(s))
           u == IF session[s].kind = "day" THEN Kept(s) ELSE session[s].unrealized
           x == HasWritten(session[s], "save", w, u)
<1>1. session' = [session EXCEPT ![s] = x]
      /\ UNCHANGED <<now, ret, stored, rule, journal, cache, overlaps, late>>
  <2>1. session' = [session EXCEPT
          ![s] = [session[s] EXCEPT !.at = "save", !.written = w, !.unrealized = u]]
        /\ UNCHANGED <<now, ret, stored, rule, journal, cache, overlaps, late>>
    BY DEF JudgeTrades
  <2> HIDE DEF w, u
  <2>2. x = [session[s] EXCEPT !.at = "save", !.written = w, !.unrealized = u]
    BY DEF HasWritten
  <2> HIDE DEF x
  <2> QED
    BY <2>1, <2>2
<1>2. Shape(session[s]) /\ Fits(session[s]) /\ overlaps \in 0..MaxOverlaps
  BY DEF IInv, Shapes, TInv
<1>3. IsJournal(w)
  BY ReadsAreOfTheDay, VerdictsAreRows, InsertsAreRows
<1>4. u \in Unrealized \union {Unknown}
  BY DEF TInv, Fits, Kept
<1> HIDE DEF w, u
<1>5. /\ x.at = "save" /\ x.written = w /\ x.unrealized = u /\ x.facts = session[s].facts
      /\ x.batch = session[s].batch /\ x.kind = session[s].kind
      /\ x.done = session[s].done /\ x.minute = session[s].minute
  BY <1>2, Writing
<1> HIDE DEF x
<1>6. Fits(x)
  BY <1>2, <1>3, <1>4, <1>5 DEF Fits
<1> QED
  BY <1>1, <1>2, <1>6, SessionFits

LEMMA SaveFits ==
    ASSUME IInv, RInv, TInv, NEW s \in Sessions, SaveCounters(s)
    PROVE  TInv'
<1>1. /\ journal' = With(With(journal, session[s].written), Inserted(PositionRows(s)))
      /\ cache' = Counters(s)
      /\ late' = (late \/ \E t \in session[s].batch, p \in stored : t < p)
      /\ session' = [session EXCEPT ![s] = Idle]
      /\ UNCHANGED <<now, ret, rule, overlaps>>
  BY DEF SaveCounters
<1>2. ret \in Outcomes /\ ret \in [Trades -> Int] /\ Fits(session[s]) /\ overlaps \in 0..MaxOverlaps
  BY JournalAssumption DEF TInv
<1>3. IsJournal(journal')
  BY <1>1, <1>2, ReadsAreOfTheDay, PositionsAreRows, InsertsAreRows, JournalsJoin
  DEF TInv, Fits
<1>4. RightFor(ret, cache', session[s].facts) /\ cache'.unrealized_pct = session[s].unrealized
  BY <1>1, <1>2, CountersCount
<1>5. CacheIsAWalk'
  BY <1>1, <1>4, ReadsAreOfTheDay DEF CacheIsAWalk
<1>6. \A o \in Sessions : session'[o] = IF o = s THEN Idle ELSE session[o]
  BY <1>1 DEF IInv, Shapes
<1>7. \A o \in Sessions : Fits(session[o])'
  BY <1>6, IdleFits DEF TInv, Fits
<1>8. \A r \in Rules : IsRule(rule[r])'
  BY <1>1 DEF TInv, IsRule
<1>9. late' \in BOOLEAN
  BY <1>1
<1>10. cache'.unrealized_pct \in Unrealized \union {Unknown}
  BY <1>2, <1>4 DEF Fits
<1> QED
  BY <1>1, <1>2, <1>3, <1>5, <1>7, <1>8, <1>9, <1>10 DEF TInv

LEMMA TickFits == RInv /\ TInv /\ Tick => TInv'
<1> SUFFICES ASSUME RInv, TInv, Tick PROVE TInv'
  OBVIOUS
<1>1. now' = now + 1 /\ UNCHANGED <<ret, stored, rule, journal, cache, session, overlaps, late>>
  BY DEF Tick
<1>2. now \in Nat
  BY JournalAssumption DEF RInv, TradesAreOfTheDay
<1>3. 0..now \subseteq 0..now' /\ 1..now \subseteq 1..now'
  BY <1>1, <1>2
<1>4. CacheIsAWalk'
  BY <1>1, <1>3 DEF TInv, CacheIsAWalk
<1>5. \A r \in Rules : IsRule(rule[r])'
  BY <1>1, <1>3 DEF TInv, IsRule
<1>6. \A s \in Sessions : Fits(session[s])'
  BY <1>1 DEF TInv, Fits
<1> QED
  BY <1>1, <1>4, <1>5, <1>6 DEF TInv

LEMMA EditFits ==
    ASSUME IInv, RInv, TInv, NEW r \in Rules, CreateRule(r) \/ EditRule(r)
    PROVE  TInv'
<1>1. \E row : SetRule(r, row) /\ IsRule(row)
  <2>1. now \in 0..now
    BY JournalAssumption DEF RInv, TradesAreOfTheDay
  <2>2. IsRule(rule[r]) /\ rule[r] = [state |-> rule[r].state,
                                      created_at |-> rule[r].created_at,
                                      conditions |-> rule[r].conditions]
    BY DEF TInv, IInv, Shapes
  <2>3. ASSUME NEW a \in {"absent", "on", "off", "deleted"}, NEW b \in 0..now,
               NEW c \in Offered \union {{}}
        PROVE  IsRule([state |-> a, created_at |-> b, conditions |-> c])
    BY DEF IsRule
  <2>4. CASE CreateRule(r)
    <3>1. PICK c \in Offered : SetRule(r, NewRule(c))
      BY <2>4 DEF CreateRule
    <3>2. IsRule(NewRule(c))
      BY <2>1, <2>3 DEF NewRule
    <3> QED
      BY <3>1, <3>2
  <2>5. CASE PatchRule(r)
    <3>1. PICK c \in Offered : SetRule(r, [rule[r] EXCEPT !.conditions = c])
      BY <2>5 DEF PatchRule
    <3>2. [rule[r] EXCEPT !.conditions = c]
            = [state |-> rule[r].state, created_at |-> rule[r].created_at, conditions |-> c]
      BY <2>2
    <3>3. IsRule([state |-> rule[r].state, created_at |-> rule[r].created_at, conditions |-> c])
      BY <2>2, <2>3 DEF IsRule
    <3> QED
      BY <3>1, <3>2, <3>3
  <2>6. ASSUME NEW a \in {"on", "off", "deleted"}, SetRule(r, [rule[r] EXCEPT !.state = a])
        PROVE  \E row : SetRule(r, row) /\ IsRule(row)
    <3>1. [rule[r] EXCEPT !.state = a]
            = [state |-> a, created_at |-> rule[r].created_at,
               conditions |-> rule[r].conditions]
      BY <2>2
    <3>2. IsRule([state |-> a, created_at |-> rule[r].created_at,
                  conditions |-> rule[r].conditions])
      BY <2>2, <2>3 DEF IsRule
    <3> QED
      BY <2>6, <3>1, <3>2
  <2>7. CASE ToggleRule(r)
    <3> DEFINE a == IF rule[r].state = "on" THEN "off" ELSE "on"
    <3>1. a \in {"on", "off", "deleted"} /\ SetRule(r, [rule[r] EXCEPT !.state = a])
      BY <2>7 DEF ToggleRule
    <3> HIDE DEF a
    <3> QED
      BY <2>6, <3>1
  <2>8. CASE DeleteRule(r)
    BY <2>6, <2>8 DEF DeleteRule
  <2> QED
    BY <2>4, <2>5, <2>7, <2>8 DEF EditRule
<1>2. PICK row : SetRule(r, row) /\ IsRule(row)
  BY <1>1
<1>3. rule' = [rule EXCEPT ![r] = row]
      /\ UNCHANGED <<now, ret, stored, journal, cache, session, overlaps, late>>
  BY <1>2 DEF SetRule
<1>4. \A q \in Rules : rule'[q] = IF q = r THEN row ELSE rule[q]
  BY <1>3 DEF IInv, Shapes
<1>5. \A q \in Rules : IsRule(rule[q])'
  BY <1>2, <1>3, <1>4 DEF TInv, IsRule
<1>6. CacheIsAWalk' /\ \A s \in Sessions : Fits(session[s])'
  BY <1>3 DEF TInv, CacheIsAWalk, Fits
<1> QED
  BY <1>3, <1>5, <1>6 DEF TInv

LEMMA NextFits == IInv /\ RInv /\ TInv /\ [Next]_vars => TInv'
<1> SUFFICES ASSUME IInv, RInv, TInv, [Next]_vars PROVE TInv'
  OBVIOUS
<1>1. CASE Tick
  BY <1>1, TickFits
<1>2. ASSUME NEW r \in Rules, CreateRule(r) \/ EditRule(r)
      PROVE  TInv'
  BY <1>2, EditFits
<1>3. ASSUME NEW s \in Sessions, BeginDay(s) \/ RefreshPositions(s)
      PROVE  TInv'
  BY <1>3, BeginFits DEF BeginDay, RefreshPositions
<1>4. ASSUME NEW s \in Sessions, PassStep(s)
      PROVE  TInv'
  BY <1>4, ReadJournalFits, JudgeTradesFits, SaveFits DEF PassStep
<1>5. ASSUME NEW s \in Sessions, Fail(s)
      PROVE  TInv'
  <2>1. overlaps' \in 0..MaxOverlaps
    BY <1>5 DEF Fail, TInv
  <2> QED
    BY <1>5, <2>1, IdleFits, SessionFits DEF Fail
<1>6. CASE UNCHANGED vars
  BY <1>6 DEF TInv, CacheIsAWalk, IsRule, Fits, vars
<1> QED
  BY <1>1, <1>2, <1>3, <1>4, <1>5, <1>6 DEF Next

\* The types of the rows, also while passes overlap: the counters saved are
\* then those of some trades of the day, so the drawdown is no less than zero.
THEOREM TypeCorrect == Spec => []TypeOK
<1>1. IInv /\ RInv /\ TInv => TypeOK
  <2> SUFFICES ASSUME IInv, RInv, TInv PROVE TypeOK
    OBVIOUS
  <2>1. now \in 0..Horizon /\ stored \subseteq 1..now
    BY DEF RInv, TradesAreOfTheDay
  <2>2. PICK F \in SUBSET (1..now) : RightFor(ret, cache, F)
    BY DEF TInv, CacheIsAWalk
  <2>3. F \in SUBSET Trades /\ Cardinality(F) \in 0..now
    BY <2>1, FewTrades
  <2>4. ret \in [Trades -> Int]
    BY JournalAssumption DEF TInv
  <2>5. cache.all_trades \in 0..now /\ cache.drawdown_pct \in Nat
    BY <2>2, <2>3, <2>4, DrawdownIsNumber DEF RightFor
  <2>6. \A s \in Sessions : Fits(session[s]) /\ DOMAIN session[s].conditions \subseteq Rules
                            /\ session[s].facts \subseteq 1..now
    BY ReadsAreOfTheDay DEF TInv
  <2>7. \A r \in Rules : IsRule(rule[r])
    BY DEF TInv
  <2> QED
    BY <2>1, <2>5, <2>6, <2>7 DEF TypeOK, TInv, Fits, IsRule
<1>2. Spec => []TInv
  BY Invariant, PassesContinue, InitTInv, NextFits, PTL DEF Spec
<1> QED
  BY <1>1, <1>2, Invariant, PassesContinue, PTL

=============================================================================
