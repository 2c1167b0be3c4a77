--------------------------- MODULE MessengerProofs ---------------------------
(***************************************************************************)
(* Proofs about Messenger for any events, messages and chats, any limits   *)
(* of the dispatch and any number of lost answers and crashes.             *)
(***************************************************************************)
EXTENDS Messenger, FiniteSetTheorems, TLAPS

----------------------------------------------------------------------------
(* The queue *)

\* A finite set, listed, is a sequence that holds each of its elements once.
LEMMA Listed ==
    ASSUME NEW S, IsFiniteSet(S)
    PROVE  /\ SetToSeq(S) \in Seq(S)
           /\ \A i, j \in DOMAIN SetToSeq(S) : SetToSeq(S)[i] = SetToSeq(S)[j] => i = j
           /\ \A x \in S : \E i \in DOMAIN SetToSeq(S) : SetToSeq(S)[i] = x
<1> DEFINE n == Cardinality(S)
<1>1. n \in Nat /\ ExistsBijection(1..n, S)
  BY FS_CardinalityType
<1> HIDE DEF n
<1>2. PICK f : f \in Bijection(1..n, S)
  BY <1>1 DEF ExistsBijection
<1>3. f \in [1..n -> S] /\ IsInjective(f)
  BY <1>2 DEF Bijection, Injection
<1>4. SetToSeq(S) = CHOOSE g \in [1..n -> S] : IsInjective(g)
  BY DEF SetToSeq, n
<1>5. SetToSeq(S) \in [1..n -> S] /\ IsInjective(SetToSeq(S))
  BY <1>3, <1>4
<1>6. PICK s : s = SetToSeq(S)
  OBVIOUS
<1>7. s \in [1..n -> S] /\ IsInjective(s)
  BY <1>5, <1>6
<1>8. s \in Injection(1..n, S)
  BY <1>7 DEF Injection
<1>9. s \in Surjection(1..n, S)
  <2>1. IsFiniteSet(1..n) /\ Cardinality(1..n) = n
    BY <1>1, FS_Interval
  <2>2. Cardinality(1..n) = Cardinality(S)
    BY <2>1 DEF n
  <2> QED
    BY <1>8, <2>2, FS_Injection
<1>10. s \in Seq(S)
  BY <1>1, <1>7
<1>11. \A i, j \in DOMAIN s : s[i] = s[j] => i = j
  BY <1>7 DEF IsInjective
<1>12. \A x \in S : \E i \in DOMAIN s : s[i] = x
  BY <1>7, <1>9 DEF Surjection
<1> QED
  BY <1>6, <1>10, <1>11, <1>12

\* Each message has one place in the queue.
NoRepeats == \A i, j \in DOMAIN queue : queue[i] = queue[j] => i = j

LEMMA Contained ==
    ASSUME NEW q \in Seq(Messages), NEW m
    PROVE  Contains(q, m) <=> \E i \in DOMAIN q : q[i] = m
BY DEF Contains

\* What is put in the queue stands behind what is there, and only once.
LEMMA QueueGrows ==
    ASSUME NEW e \in Events, TypeOK, NoRepeats, Enqueue(e)
    PROVE  /\ queue' \in Seq(Messages)
           /\ DOMAIN queue \subseteq DOMAIN queue'
           /\ \A i \in DOMAIN queue : queue'[i] = queue[i]
           /\ NoRepeats'
           /\ \A m \in Messages : Contains(queue', m) <=>
                                    Contains(queue, m) \/ m \in New(e)
<1> DEFINE S == {m \in New(e) : ~Contains(queue, m)}
<1>1. S \subseteq MessagesOf[e] /\ MessagesOf[e] \subseteq Messages
  BY DEF New, Messages
<1>2. IsFiniteSet(S)
  BY <1>1, MessengerAssumption, FS_Subset
<1>3. PICK s : s = SetToSeq(S)
  OBVIOUS
<1>4. \A m \in S : m \in New(e) /\ ~Contains(queue, m)
  OBVIOUS
<1>5. \A m \in New(e) : m \in S \/ Contains(queue, m)
  OBVIOUS
<1>6. queue' = queue \o s
  BY <1>3 DEF Enqueue
<1>7. /\ s \in Seq(S)
      /\ \A i, j \in DOMAIN s : s[i] = s[j] => i = j
      /\ \A x \in S : \E i \in DOMAIN s : s[i] = x
  BY <1>2, <1>3, Listed
<1> HIDE DEF S
<1>8. queue \in Seq(Messages)
  BY DEF TypeOK
<1>9. S \subseteq Messages
  BY <1>1
<1>10. s \in Seq(Messages)
  BY <1>7, <1>9
<1>11. queue' \in Seq(Messages) /\ Len(queue') = Len(queue) + Len(s)
  BY <1>6, <1>8, <1>10
<1>12. /\ DOMAIN queue = 1..Len(queue) /\ DOMAIN s = 1..Len(s)
       /\ DOMAIN queue' = 1..(Len(queue) + Len(s))
       /\ Len(queue) \in Nat /\ Len(s) \in Nat
  BY <1>8, <1>10, <1>11
<1>13. \A i \in DOMAIN queue : i \in DOMAIN queue' /\ queue'[i] = queue[i]
  BY <1>6, <1>8, <1>10, <1>12
<1>14. \A i \in DOMAIN queue' : i \notin DOMAIN queue =>
          i - Len(queue) \in DOMAIN s /\ queue'[i] = s[i - Len(queue)]
  BY <1>6, <1>8, <1>10, <1>12
<1>15. \A k \in DOMAIN s :
          k + Len(queue) \in DOMAIN queue' /\ queue'[k + Len(queue)] = s[k]
  BY <1>6, <1>8, <1>10, <1>12
<1>16. \A k \in DOMAIN s : s[k] \in S
  BY <1>7
<1>17. \A i \in DOMAIN queue : queue[i] \notin S
  BY <1>4, <1>8, Contained
<1>18. NoRepeats'
  <2> SUFFICES ASSUME NEW i \in DOMAIN queue', NEW j \in DOMAIN queue',
                      queue'[i] = queue'[j]
               PROVE  i = j
    BY DEF NoRepeats
  <2>1. CASE i \in DOMAIN queue /\ j \in DOMAIN queue
    BY <1>13, <2>1 DEF NoRepeats
  <2>2. CASE i \in DOMAIN queue /\ j \notin DOMAIN queue
    BY <1>13, <1>14, <1>16, <1>17, <2>2
  <2>3. CASE i \notin DOMAIN queue /\ j \in DOMAIN queue
    BY <1>13, <1>14, <1>16, <1>17, <2>3
  <2>4. CASE i \notin DOMAIN queue /\ j \notin DOMAIN queue
    <3>1. i - Len(queue) = j - Len(queue)
      BY <1>7, <1>14, <2>4
    <3> QED
      BY <1>12, <3>1
  <2> QED
    BY <2>1, <2>2, <2>3, <2>4
<1>19. ASSUME NEW m \in Messages
       PROVE  Contains(queue', m) <=> Contains(queue, m) \/ m \in New(e)
  <2>1. Contains(queue', m) <=> \E i \in DOMAIN queue' : queue'[i] = m
    BY <1>11, Contained
  <2>2. Contains(queue, m) <=> \E i \in DOMAIN queue : queue[i] = m
    BY <1>8, Contained
  <2>3. ASSUME NEW i \in DOMAIN queue', queue'[i] = m
        PROVE  Contains(queue, m) \/ m \in New(e)
    BY <1>4, <1>13, <1>14, <1>16, <2>2, <2>3
  <2>4. m \in S => \E i \in DOMAIN queue' : queue'[i] = m
    BY <1>7, <1>15
  <2>5. Contains(queue, m) => \E i \in DOMAIN queue' : queue'[i] = m
    BY <1>13, <2>2
  <2> QED
    BY <1>5, <2>1, <2>3, <2>4, <2>5
<1> QED
  BY <1>11, <1>13, <1>18, <1>19

----------------------------------------------------------------------------
(* The inductive invariant *)

\* A row that is to be sent knows where to, and has attempts left.
Sendable(r) == r.state = "queued" => r.chat \in Chats /\ r.attempts < MaxSendAttempts

RowsSendable == \A m \in Messages : Sendable(row[m])

\* What the dispatch under way holds of a message it has tried: the row it
\* will save keeps the recipient, and the message is not tried twice.
Tried(r) ==
    /\ row[r.message].state = "queued"
    /\ r.row.chat = row[r.message].chat
    /\ r.row.state \in {"queued", "sent", "failed"}
    /\ Sendable(r.row)
    /\ \A i \in sender.todo : queue[i] # r.message
    /\ \A q \in sender.done : q.message = r.message => q = r

BatchHolds ==
    /\ ~sender.busy => sender.todo = {} /\ sender.done = {}
    /\ \A i \in sender.todo : row[queue[i]].state = "queued"
    /\ \A r \in sender.done : Tried(r)

\* A message was delivered to the recipient its row names.
ReachedItsChat ==
    \A m \in Messages : \A k \in DOMAIN reached[m] :
        row[m].state # "none" /\ reached[m][k] = row[m].chat

\* The service knows that m was delivered: it is saved, or about to be.
KnownSent(m) ==
    \/ row[m].state = "sent"
    \/ \E r \in sender.done : r.message = m /\ r.row.state = "sent"

\* A delivery the service does not know of cost a lost answer or a crash.
DeliveriesCounted ==
    \A m \in Messages :
        Len(reached[m]) <= lost + crashes + (IF KnownSent(m) THEN 1 ELSE 0)

IInv == /\ TypeOK /\ NoRepeats /\ RowsSendable /\ BatchHolds
        /\ ReachedItsChat /\ DeliveriesCounted

LEMMA InitSafe == Init => IInv
<1> SUFFICES ASSUME Init PROVE IInv
  OBVIOUS
<1>1. NoRow \in Rows /\ NoRow.state = "none" /\ MaxLost \in Nat /\ MaxCrashes \in Nat
  BY MessengerAssumption DEF NoRow, Rows
<1>2. \A m : ~Contains(<<>>, m)
  BY DEF Contains
<1>3. TypeOK
  BY <1>1, <1>2 DEF Init, TypeOK, Idle
<1>4. NoRepeats /\ RowsSendable /\ BatchHolds /\ ReachedItsChat
  BY <1>1 DEF Init, Idle, NoRepeats, RowsSendable, Sendable, BatchHolds, ReachedItsChat
<1>5. DeliveriesCounted
  BY <1>1 DEF Init, Idle, DeliveriesCounted, KnownSent
<1> QED
  BY <1>3, <1>4, <1>5 DEF IInv

\* The facts of the type invariant, in terms the steps use.
LEMMA Typed ==
    ASSUME TypeOK
    PROVE  /\ lost \in Nat /\ crashes \in Nat
           /\ queue \in Seq(Messages)
           /\ \A i \in sender.todo : i \in DOMAIN queue /\ queue[i] \in Messages
           /\ \A r \in sender.done : r.message \in Messages /\ r.row \in Rows
           /\ \A m \in Messages :
                /\ row[m] \in Rows /\ reached[m] \in Seq(Chats)
                /\ Len(reached[m]) \in Nat
<1>1. MaxLost \in Nat /\ MaxCrashes \in Nat
  BY MessengerAssumption
<1> QED
  BY <1>1 DEF TypeOK

----------------------------------------------------------------------------
(* Each step preserves it *)

\* What only touches settings, events and occasions.
LEMMA OthersSafe ==
    ASSUME IInv, UNCHANGED <<row, queue, sender, lost, crashes, reached>>,
           shadow' \in BOOLEAN, enabled' \in BOOLEAN,
           chatOf' \in [Channels -> Chats \union {None}],
           event' \in [Events -> {"none", "published", "shadow"}],
           claimed' \subseteq Reminders
    PROVE  IInv'
<1>1. TypeOK'
  BY DEF IInv, TypeOK
<1>2. NoRepeats' /\ RowsSendable' /\ BatchHolds' /\ ReachedItsChat'
  BY DEF IInv, NoRepeats, RowsSendable, BatchHolds, Tried, ReachedItsChat
<1>3. DeliveriesCounted'
  BY DEF IInv, DeliveriesCounted, KnownSent
<1> QED
  BY <1>1, <1>2, <1>3 DEF IInv

\* Messages join the queue.
LEMMA EnqueueSafe ==
    ASSUME IInv, NEW e \in Events, Enqueue(e), claimed' \subseteq Reminders,
           UNCHANGED <<settings, event, sender, lost, crashes, reached>>
    PROVE  IInv'
<1>1. TypeOK /\ NoRepeats
  BY DEF IInv
<1>2. /\ queue' \in Seq(Messages)
      /\ DOMAIN queue \subseteq DOMAIN queue'
      /\ \A i \in DOMAIN queue : queue'[i] = queue[i]
      /\ NoRepeats'
      /\ \A m \in Messages : Contains(queue', m) <=>
                               Contains(queue, m) \/ m \in New(e)
  BY <1>1, QueueGrows
<1>3. \A m \in Messages : row'[m] = IF m \in New(e) THEN RowOf(m) ELSE row[m]
  BY DEF Enqueue
<1>4. ASSUME NEW m \in Messages
      PROVE  /\ RowOf(m) \in Rows /\ RowOf(m).state \in {"queued", "skipped"}
             /\ Sendable(RowOf(m))
  <2>1. Channel[m] \in Channels /\ MaxSendAttempts \in Nat /\ MaxSendAttempts > 0
    BY MessengerAssumption
  <2>2. Gate(m) => chatOf[Channel[m]] \in Chats
    BY <1>1, <2>1 DEF Gate, TypeOK
  <2>3. CASE Gate(m)
    <3>1. RowOf(m) = [state |-> "queued", chat |-> chatOf[Channel[m]],
                      attempts |-> 0, waits |-> FALSE]
      BY <2>3 DEF RowOf
    <3> QED
      BY <2>1, <2>2, <2>3, <3>1 DEF Rows, Sendable
  <2>4. CASE ~Gate(m)
    <3>1. RowOf(m) = [state |-> "skipped", chat |-> None, attempts |-> 0,
                      waits |-> FALSE]
      BY <2>4 DEF RowOf, NoRow
    <3> QED
      BY <2>1, <3>1 DEF Rows, Sendable
  <2> QED
    BY <2>3, <2>4
<1>5. \A m \in Messages : row[m].state # "none" => row'[m] = row[m]
  BY <1>3 DEF New
<1>6. \A m \in Messages : m \in New(e) => row[m].state = "none"
  BY DEF New
<1>7. row' \in [Messages -> Rows]
  BY <1>1, <1>4 DEF Enqueue, TypeOK
<1>8. \A m \in Messages : row'[m].state = "none" <=> ~Contains(queue', m)
  <2> SUFFICES ASSUME NEW m \in Messages
               PROVE  row'[m].state = "none" <=> ~Contains(queue', m)
    OBVIOUS
  <2>1. row[m].state = "none" <=> ~Contains(queue, m)
    BY <1>1 DEF TypeOK
  <2>2. m \in New(e) => row'[m].state # "none"
    BY <1>3, <1>4
  <2> QED
    BY <1>2, <1>3, <2>1, <2>2
<1>9. sender' = sender /\ sender \in [busy : BOOLEAN, todo : SUBSET (DOMAIN queue'),
                done : SUBSET [message : Messages, row : Rows]]
  <2>1. SUBSET (DOMAIN queue) \subseteq SUBSET (DOMAIN queue')
    BY <1>2
  <2>2. sender \in [busy : BOOLEAN, todo : SUBSET (DOMAIN queue),
                    done : SUBSET [message : Messages, row : Rows]]
    BY <1>1 DEF TypeOK
  <2> QED
    BY <2>1, <2>2
<1>10. \A m \in Messages : row'[m].state = "queued" => row'[m].chat # None
  <2>1. None \notin Chats
    BY MessengerAssumption
  <2>2. \A m \in Messages : Sendable(row[m])
    BY DEF IInv, RowsSendable
  <2> QED
    BY <1>3, <1>4, <2>1, <2>2 DEF Sendable
<1>11. TypeOK'
  BY <1>1, <1>2, <1>7, <1>8, <1>9, <1>10 DEF TypeOK, settings
<1>12. RowsSendable'
  BY <1>3, <1>4 DEF IInv, RowsSendable, Sendable
<1>13. BatchHolds'
  <2>1. \A i \in sender.todo :
          /\ queue'[i] = queue[i]
          /\ queue[i] \in Messages
          /\ row'[queue[i]] = row[queue[i]]
    BY <1>1, <1>2, <1>5, Typed DEF IInv, BatchHolds
  <2>2. \A r \in sender.done : row'[r.message] = row[r.message]
    BY <1>1, <1>5, Typed DEF IInv, BatchHolds, Tried
  <2> QED
    BY <1>9, <2>1, <2>2 DEF IInv, BatchHolds, Tried, Sendable
<1>14. ReachedItsChat'
  BY <1>5 DEF IInv, ReachedItsChat
<1>15. DeliveriesCounted'
  <2>1. \A m \in Messages : KnownSent(m)' <=> KnownSent(m)
    BY <1>3, <1>4, <1>5, <1>6, <1>9 DEF KnownSent
  <2> QED
    BY <2>1 DEF IInv, DeliveriesCounted
<1> QED
  BY <1>2, <1>11, <1>12, <1>13, <1>14, <1>15 DEF IInv

LEMMA StartSafe == ASSUME IInv, StartBatch PROVE IInv'
<1>1. /\ sender' = [busy |-> TRUE, done |-> {}, todo |-> Batch]
      /\ UNCHANGED <<settings, event, claimed, row, queue, lost, crashes, reached>>
      /\ sender.done = {}
  BY DEF StartBatch, IInv, BatchHolds
<1>2. /\ Batch \subseteq DOMAIN queue
      /\ \A i \in Batch : row[queue[i]].state = "queued"
  BY DEF Batch, Due
<1>3. TypeOK'
  BY <1>1, <1>2 DEF IInv, TypeOK, settings
<1>4. NoRepeats' /\ RowsSendable' /\ BatchHolds' /\ ReachedItsChat'
  BY <1>1, <1>2
     DEF IInv, NoRepeats, RowsSendable, BatchHolds, ReachedItsChat
<1>5. DeliveriesCounted'
  <2>1. \A m \in Messages : KnownSent(m)' <=> KnownSent(m)
    BY <1>1 DEF KnownSent
  <2> QED
    BY <1>1, <2>1 DEF IInv, DeliveriesCounted
<1> QED
  BY <1>3, <1>4, <1>5 DEF IInv

\* A message of the batch has been tried, with the row r to show for it.
LEMMA SavesSafe ==
    ASSUME IInv, NEW i \in sender.todo, NEW r \in Rows,
           r.chat = row[queue[i]].chat,
           r.state \in {"queued", "sent", "failed"}, Sendable(r),
           Saves(queue[i], r),
           UNCHANGED <<row, queue>>
    PROVE  /\ sender' \in [busy : BOOLEAN, todo : SUBSET (DOMAIN queue),
                           done : SUBSET [message : Messages, row : Rows]]
           /\ NoRepeats' /\ RowsSendable' /\ BatchHolds'
           /\ \A m \in Messages :
                \/ m = queue[i] /\ ~KnownSent(m) /\ (KnownSent(m)' <=> r.state = "sent")
                \/ m # queue[i] /\ (KnownSent(m)' <=> KnownSent(m))
<1>0. PICK m : m = queue[i]
  OBVIOUS
<1>1. /\ m \in Messages /\ row[m].state = "queued"
      /\ sender \in [busy : BOOLEAN, todo : SUBSET (DOMAIN queue),
                     done : SUBSET [message : Messages, row : Rows]]
  BY <1>0, Typed DEF IInv, TypeOK, BatchHolds
<1>2. \A q \in sender.done : Tried(q) /\ q.message # m
  BY <1>0 DEF IInv, BatchHolds, Tried
<1>3. sender' = [sender EXCEPT !.todo = {j \in @ : queue[j] # m},
                               !.done = @ \union {[message |-> m, row |-> r]}]
  BY <1>0 DEF Saves
<1>4. /\ sender'.todo = {j \in sender.todo : queue[j] # m}
      /\ sender'.done = sender.done \union {[message |-> m, row |-> r]}
      /\ sender'.busy = sender.busy
  BY <1>1, <1>3
<1>5. sender' \in [busy : BOOLEAN, todo : SUBSET (DOMAIN queue),
                   done : SUBSET [message : Messages, row : Rows]]
  <2>1. /\ sender'.todo \subseteq DOMAIN queue
        /\ [message |-> m, row |-> r] \in [message : Messages, row : Rows]
    BY <1>1, <1>4
  <2>2. sender'.done \subseteq [message : Messages, row : Rows]
    BY <1>1, <1>4, <2>1
  <2>3. sender' = [sender EXCEPT !.todo = sender'.todo, !.done = sender'.done]
    BY <1>1, <1>3
  <2> QED
    BY <1>1, <2>1, <2>2, <2>3
<1>6. sender.busy
  BY DEF IInv, BatchHolds
<1>7. BatchHolds'
  <2>1. ASSUME NEW q \in sender'.done PROVE Tried(q)'
    <3>1. CASE q \in sender.done
      <4>1. Tried(q) /\ q.message # m
        BY <1>2, <3>1
      <4> QED
        BY <1>4, <4>1 DEF Tried, Sendable
    <3>2. CASE q = [message |-> m, row |-> r]
      <4>1. q.message = m /\ q.row = r
        BY <3>2
      <4>2. \A p \in sender'.done : p.message = m => p = q
        BY <1>2, <1>4, <3>2
      <4>3. \A j \in sender'.todo : queue[j] # m
        BY <1>4
      <4> QED
        BY <1>0, <1>1, <4>1, <4>2, <4>3 DEF Tried, Sendable
    <3> QED
      BY <1>4, <2>1, <3>1, <3>2
  <2>2. \A j \in sender'.todo : row'[queue'[j]].state = "queued"
    BY <1>4 DEF IInv, BatchHolds
  <2>3. sender'.busy
    BY <1>4, <1>6
  <2> QED
    BY <2>1, <2>2, <2>3 DEF BatchHolds
<1>8. /\ ~KnownSent(m)
      /\ KnownSent(m)' <=> r.state = "sent"
      /\ \A k \in Messages : k # m => (KnownSent(k)' <=> KnownSent(k))
  <2> DEFINE new == [message |-> m, row |-> r]
  <2>1. new.message = m /\ new.row = r
    OBVIOUS
  <2> HIDE DEF new
  <2>2. sender'.done = sender.done \union {new} /\ row' = row
    BY <1>4 DEF new
  <2>3. ~KnownSent(m)
    BY <1>1, <1>2 DEF KnownSent
  <2>4. KnownSent(m)' <=> r.state = "sent"
    BY <1>1, <1>2, <2>1, <2>2 DEF KnownSent
  <2>5. ASSUME NEW k \in Messages, k # m
        PROVE  KnownSent(k)' <=> KnownSent(k)
    BY <2>1, <2>2, <2>5 DEF KnownSent
  <2> QED
    BY <2>3, <2>4, <2>5
<1>9. NoRepeats' /\ RowsSendable'
  BY DEF IInv, NoRepeats, RowsSendable, Sendable
<1> QED
  BY <1>0, <1>5, <1>7, <1>8, <1>9

LEMMA SendSafe == ASSUME IInv, Send PROVE IInv'
<1>1. PICK i \in sender.todo :
        /\ \/ Delivered(queue[i]) \/ AnswerLost(queue[i])
           \/ NotNow(queue[i])   \/ Refused(queue[i])
        /\ UNCHANGED <<settings, event, claimed, row, queue, crashes>>
  BY DEF Send
<1>2. PICK m : m = queue[i]
  OBVIOUS
<1>3. /\ TypeOK
      /\ m \in Messages /\ row[m] \in Rows /\ row[m].state = "queued"
      /\ row[m].chat \in Chats /\ row[m].attempts < MaxSendAttempts
      /\ lost \in Nat /\ crashes \in Nat /\ MaxSendAttempts \in Nat
      /\ \A k \in Messages : reached[k] \in Seq(Chats) /\ Len(reached[k]) \in Nat
  BY <1>1, <1>2, Typed, MessengerAssumption
     DEF IInv, BatchHolds, RowsSendable, Sendable
<1>4. row[m].attempts + 1 \in 0..MaxSendAttempts
  BY <1>3 DEF Rows
<1>5. ASSUME NEW r \in Rows, r.chat = row[m].chat,
             r.state \in {"queued", "sent", "failed"}, Sendable(r), Saves(m, r)
      PROVE  /\ sender' \in [busy : BOOLEAN, todo : SUBSET (DOMAIN queue),
                             done : SUBSET [message : Messages, row : Rows]]
             /\ NoRepeats' /\ RowsSendable' /\ BatchHolds'
             /\ \A k \in Messages :
                  \/ k = m /\ ~KnownSent(k) /\ (KnownSent(k)' <=> r.state = "sent")
                  \/ k # m /\ (KnownSent(k)' <=> KnownSent(k))
  BY <1>1, <1>2, <1>5, SavesSafe
<1>6. ASSUME lost' \in 0..MaxLost, reached' \in [Messages -> Seq(Chats)],
             sender' \in [busy : BOOLEAN, todo : SUBSET (DOMAIN queue),
                          done : SUBSET [message : Messages, row : Rows]]
      PROVE  TypeOK'
  BY <1>1, <1>3, <1>6 DEF TypeOK, settings
<1>7. /\ lost \in 0..MaxLost /\ reached \in [Messages -> Seq(Chats)]
      /\ MaxLost \in Nat
  BY <1>3, MessengerAssumption DEF TypeOK
<1>8. AfterFailure(row[m]) \in Rows /\ Sendable(AfterFailure(row[m]))
      /\ AfterFailure(row[m]).state \in {"queued", "failed"}
      /\ AfterFailure(row[m]).chat = row[m].chat
  <2>1. CASE row[m].attempts + 1 >= MaxSendAttempts
    <3>1. AfterFailure(row[m]) = [row[m] EXCEPT !.attempts = row[m].attempts + 1,
                                                !.state = "failed"]
      BY <1>3, <2>1 DEF AfterFailure, Rows
    <3> QED
      BY <1>3, <1>4, <3>1 DEF Rows, Sendable
  <2>2. CASE ~(row[m].attempts + 1 >= MaxSendAttempts)
    <3>1. AfterFailure(row[m]) = [row[m] EXCEPT !.attempts = row[m].attempts + 1,
                                                !.waits = TRUE]
      BY <1>3, <2>2 DEF AfterFailure, Rows
    <3>2. row[m].attempts + 1 < MaxSendAttempts
      BY <1>3, <1>4, <2>2
    <3> QED
      BY <1>3, <1>4, <3>1, <3>2 DEF Rows, Sendable
  <2> QED
    BY <2>1, <2>2
<1>9. ASSUME NEW state \in {"sent", "failed"}
      PROVE  LET r == [row[m] EXCEPT !.state = state, !.attempts = row[m].attempts + 1]
             IN  /\ r \in Rows /\ Sendable(r)
                 /\ r.state = state /\ r.chat = row[m].chat
  BY <1>3, <1>4 DEF Rows, Sendable
<1>10. ASSUME Delivers(m, Recipient(m))
       PROVE  /\ reached' \in [Messages -> Seq(Chats)]
              /\ ReachedItsChat'
              /\ Len(reached'[m]) = Len(reached[m]) + 1
              /\ \A k \in Messages \ {m} : reached'[k] = reached[k]
  <2>1. reached' = [reached EXCEPT ![m] = Append(reached[m], row[m].chat)]
    BY <1>10 DEF Delivers, Recipient
  <2>2. reached'[m] = Append(reached[m], row[m].chat)
        /\ \A k \in Messages \ {m} : reached'[k] = reached[k]
    BY <1>3, <1>7, <2>1
  <2>3. Append(reached[m], row[m].chat) \in Seq(Chats)
    BY <1>3
  <2>4. reached' \in [Messages -> Seq(Chats)] /\ Len(reached'[m]) = Len(reached[m]) + 1
    BY <1>3, <1>7, <2>1, <2>2, <2>3
  <2>5. \A k \in DOMAIN reached'[m] : reached'[m][k] = row[m].chat
    BY <1>3, <2>2 DEF IInv, ReachedItsChat
  <2>6. ReachedItsChat'
    BY <1>1, <1>3, <2>2, <2>5 DEF IInv, ReachedItsChat
  <2> QED
    BY <2>2, <2>4, <2>6
<1>11. \A k \in Messages :
         Len(reached[k]) <= lost + crashes + (IF KnownSent(k) THEN 1 ELSE 0)
  BY DEF IInv, DeliveriesCounted
<1>12. crashes' = crashes /\ reached' = reached => ReachedItsChat'
  BY <1>1 DEF IInv, ReachedItsChat
<1>13. CASE Delivered(m)
  <2>1. PICK r : r = [row[m] EXCEPT !.state = "sent", !.attempts = row[m].attempts + 1]
    OBVIOUS
  <2>2. r \in Rows /\ Sendable(r) /\ r.state = "sent" /\ r.chat = row[m].chat
    BY <1>9, <2>1
  <2>3. Saves(m, r) /\ Delivers(m, Recipient(m)) /\ lost' = lost
    BY <1>3, <1>13, <2>1 DEF Delivered, Rows
  <2>4. /\ TypeOK' /\ NoRepeats' /\ RowsSendable' /\ BatchHolds' /\ ReachedItsChat'
        /\ \A k \in Messages :
             \/ k = m /\ ~KnownSent(k) /\ KnownSent(k)'
             \/ k # m /\ (KnownSent(k)' <=> KnownSent(k))
    BY <1>5, <1>6, <1>7, <1>10, <2>2, <2>3
  <2>5. DeliveriesCounted'
    <3> SUFFICES ASSUME NEW k \in Messages
                 PROVE  Len(reached'[k]) <= lost' + crashes' +
                                            (IF KnownSent(k)' THEN 1 ELSE 0)
      BY DEF DeliveriesCounted
    <3>1. CASE k = m
      BY <1>1, <1>3, <1>10, <1>11, <2>3, <2>4, <3>1
    <3>2. CASE k # m
      BY <1>1, <1>10, <1>11, <2>3, <2>4, <3>2
    <3> QED
      BY <3>1, <3>2
  <2> QED
    BY <2>4, <2>5 DEF IInv
<1>14. CASE AnswerLost(m)
  <2>1. Saves(m, AfterFailure(row[m])) /\ Delivers(m, Recipient(m))
        /\ lost' = lost + 1 /\ lost < MaxLost
    BY <1>14 DEF AnswerLost
  <2>2. lost' \in 0..MaxLost
    BY <1>7, <2>1
  <2>3. /\ TypeOK' /\ NoRepeats' /\ RowsSendable' /\ BatchHolds' /\ ReachedItsChat'
        /\ \A k \in Messages :
             \/ k = m /\ ~KnownSent(k) /\ ~KnownSent(k)'
             \/ k # m /\ (KnownSent(k)' <=> KnownSent(k))
    BY <1>5, <1>6, <1>7, <1>8, <1>10, <2>1, <2>2
  <2>4. DeliveriesCounted'
    <3> SUFFICES ASSUME NEW k \in Messages
                 PROVE  Len(reached'[k]) <= lost' + crashes' +
                                            (IF KnownSent(k)' THEN 1 ELSE 0)
      BY DEF DeliveriesCounted
    <3>1. CASE k = m
      BY <1>1, <1>3, <1>10, <1>11, <2>1, <2>3, <3>1
    <3>2. CASE k # m
      BY <1>1, <1>3, <1>10, <1>11, <2>1, <2>3, <3>2
    <3> QED
      BY <3>1, <3>2
  <2> QED
    BY <2>3, <2>4 DEF IInv
<1>15. CASE NotNow(m) \/ Refused(m)
  <2>1. PICK r : r = IF NotNow(m) THEN AfterFailure(row[m])
                     ELSE [row[m] EXCEPT !.state = "failed",
                                         !.attempts = row[m].attempts + 1]
    OBVIOUS
  <2>2. /\ r \in Rows /\ Sendable(r) /\ r.state \in {"queued", "failed"}
        /\ r.chat = row[m].chat
    BY <1>8, <1>9, <2>1
  <2>3. Saves(m, r) /\ lost' = lost /\ reached' = reached
    BY <1>3, <1>15, <2>1 DEF NotNow, Refused, Rows
  <2>4. /\ TypeOK' /\ NoRepeats' /\ RowsSendable' /\ BatchHolds' /\ ReachedItsChat'
        /\ \A k \in Messages : KnownSent(k)' <=> KnownSent(k)
    BY <1>1, <1>5, <1>6, <1>7, <1>12, <2>2, <2>3
  <2>5. DeliveriesCounted'
    BY <1>1, <1>11, <2>3, <2>4 DEF DeliveriesCounted
  <2> QED
    BY <2>4, <2>5 DEF IInv
<1> QED
  BY <1>1, <1>2, <1>13, <1>14, <1>15

\* The rows a dispatch saves.
LEMMA SavedRow ==
    ASSUME IInv, NEW m \in Messages
    PROVE  \/ \E r \in sender.done : /\ r.message = m
                                     /\ Saved(m, sender.done) = r.row
           \/ /\ ~ \E r \in sender.done : r.message = m
              /\ Saved(m, sender.done) = row[m]
<1>1. CASE \E r \in sender.done : r.message = m
  <2> DEFINE c == CHOOSE r \in sender.done : r.message = m
  <2>1. c \in sender.done /\ c.message = m
    BY <1>1
  <2> QED
    BY <1>1, <2>1 DEF Saved
<1>2. CASE ~ \E r \in sender.done : r.message = m
  BY <1>2 DEF Saved
<1> QED
  BY <1>1, <1>2

LEMMA CommitSafe == ASSUME IInv, CommitBatch PROVE IInv'
<1>1. /\ sender' = [busy |-> FALSE, todo |-> {}, done |-> {}]
      /\ \A m \in Messages : row'[m] = Saved(m, sender.done)
      /\ UNCHANGED <<settings, event, claimed, queue, lost, crashes, reached>>
  BY DEF CommitBatch, Idle
<1>2. TypeOK
  BY DEF IInv
<1>3. ASSUME NEW m \in Messages
      PROVE  /\ row'[m] \in Rows
             /\ Sendable(row'[m])
             /\ row'[m].chat = row[m].chat
             /\ row'[m].state = "none" <=> row[m].state = "none"
             /\ KnownSent(m) => row'[m].state = "sent"
  <2>1. CASE \E r \in sender.done : /\ r.message = m
                                    /\ Saved(m, sender.done) = r.row
    <3>1. PICK r \in sender.done : r.message = m /\ row'[m] = r.row
      BY <1>1, <2>1
    <3>2. Tried(r) /\ r.row \in Rows
      BY <1>2, Typed DEF IInv, BatchHolds
    <3>3. KnownSent(m) => r.row.state = "sent"
      BY <3>1, <3>2 DEF KnownSent, Tried
    <3> QED
      BY <3>1, <3>2, <3>3 DEF Tried
  <2>2. CASE /\ ~ \E r \in sender.done : r.message = m
             /\ Saved(m, sender.done) = row[m]
    <3>1. row'[m] = row[m] /\ row[m] \in Rows
      BY <1>1, <1>2, <2>2, Typed
    <3> QED
      BY <2>2, <3>1 DEF IInv, RowsSendable, KnownSent
  <2> QED
    BY <2>1, <2>2, SavedRow
<1>4. row' \in [Messages -> Rows]
  BY <1>3 DEF CommitBatch
<1>5. \A m \in Messages : row'[m].state = "queued" => row'[m].chat # None
  BY <1>3, MessengerAssumption DEF Sendable
<1>6. TypeOK'
  BY <1>1, <1>2, <1>3, <1>4, <1>5 DEF TypeOK, settings
<1>7. NoRepeats' /\ RowsSendable' /\ BatchHolds' /\ ReachedItsChat'
  BY <1>1, <1>3
     DEF IInv, NoRepeats, RowsSendable, BatchHolds, ReachedItsChat
<1>8. DeliveriesCounted'
  <2> SUFFICES ASSUME NEW m \in Messages
               PROVE  Len(reached[m]) <= lost + crashes +
                                         (IF KnownSent(m)' THEN 1 ELSE 0)
    BY <1>1 DEF DeliveriesCounted
  <2>1. KnownSent(m) => KnownSent(m)'
    BY <1>3 DEF KnownSent
  <2>2. Len(reached[m]) <= lost + crashes + (IF KnownSent(m) THEN 1 ELSE 0)
    BY DEF IInv, DeliveriesCounted
  <2> QED
    BY <1>2, <2>1, <2>2, Typed
<1> QED
  BY <1>6, <1>7, <1>8 DEF IInv

LEMMA PauseSafe == ASSUME IInv, NEW m \in Messages, PauseEnds(m) PROVE IInv'
<1>1. row' = [row EXCEPT ![m].waits = FALSE]
      /\ UNCHANGED <<settings, event, claimed, queue, sender, lost, crashes, reached>>
  BY DEF PauseEnds
<1>2. TypeOK
  BY DEF IInv
<1>3. \A k \in Messages : /\ row'[k] \in Rows
                          /\ row'[k].state = row[k].state
                          /\ row'[k].chat = row[k].chat
                          /\ row'[k].attempts = row[k].attempts
  BY <1>1, <1>2 DEF TypeOK, Rows
<1>4. row' \in [Messages -> Rows]
  BY <1>1, <1>2, <1>3 DEF TypeOK
<1>5. TypeOK'
  BY <1>1, <1>2, <1>3, <1>4 DEF TypeOK, settings
<1>6. NoRepeats' /\ RowsSendable' /\ ReachedItsChat'
  BY <1>1, <1>3 DEF IInv, NoRepeats, RowsSendable, Sendable, ReachedItsChat
<1>7. BatchHolds'
  <2>1. \A i \in sender.todo : queue[i] \in Messages
    BY <1>2, Typed
  <2>2. \A r \in sender.done : r.message \in Messages
    BY <1>2, Typed
  <2> QED
    BY <1>1, <1>3, <2>1, <2>2 DEF IInv, BatchHolds, Tried, Sendable
<1>8. DeliveriesCounted'
  BY <1>1, <1>3 DEF IInv, DeliveriesCounted, KnownSent
<1> QED
  BY <1>5, <1>6, <1>7, <1>8 DEF IInv

\* A crash forgets what the batch knew, and is counted.
LEMMA CrashSafe == ASSUME IInv, Crash PROVE IInv'
<1>1. /\ sender' = [busy |-> FALSE, todo |-> {}, done |-> {}]
      /\ crashes' = crashes + 1 /\ crashes < MaxCrashes
      /\ UNCHANGED <<settings, event, claimed, row, queue, lost, reached>>
  BY DEF Crash, Idle
<1>2. crashes' \in 0..MaxCrashes
  BY <1>1, MessengerAssumption DEF IInv, TypeOK
<1>3. TypeOK'
  BY <1>1, <1>2 DEF IInv, TypeOK, settings
<1>4. NoRepeats' /\ RowsSendable' /\ BatchHolds' /\ ReachedItsChat'
  BY <1>1 DEF IInv, NoRepeats, RowsSendable, BatchHolds, ReachedItsChat
<1>5. DeliveriesCounted'
  <2> SUFFICES ASSUME NEW m \in Messages
               PROVE  Len(reached[m]) <= lost + (crashes + 1) +
                                         (IF KnownSent(m)' THEN 1 ELSE 0)
    BY <1>1 DEF DeliveriesCounted
  <2>1. Len(reached[m]) <= lost + crashes + 1
    BY Typed DEF IInv, DeliveriesCounted
  <2> QED
    BY <2>1, Typed DEF IInv
<1> QED
  BY <1>3, <1>4, <1>5 DEF IInv

LEMMA StepSafe == ASSUME IInv, [Next]_vars PROVE IInv'
<1>1. TypeOK
  BY DEF IInv
<1>2. CASE UNCHANGED vars
  BY <1>1, <1>2, OthersSafe DEF vars, settings, TypeOK
<1>3. CASE SwitchShadow \/ SwitchTelegram
  BY <1>1, <1>3, OthersSafe DEF SwitchShadow, SwitchTelegram, Unchanged, TypeOK
<1>4. ASSUME NEW c \in Channels, NEW chat \in Chats \union {None}, SetChat(c, chat)
      PROVE  IInv'
  BY <1>1, <1>4, OthersSafe DEF SetChat, Unchanged, TypeOK
<1>5. ASSUME NEW e \in Events, Publish(e)
      PROVE  IInv'
  BY <1>1, <1>5, OthersSafe DEF Publish, settings, TypeOK
<1>6. ASSUME NEW e \in Events, ShowToday(e)
      PROVE  IInv'
  BY <1>1, <1>6, OthersSafe DEF ShowToday, Claim, Overdue, settings, TypeOK
<1>7. ASSUME NEW e \in Events, Handle(e)
      PROVE  IInv'
  BY <1>1, <1>7, EnqueueSafe DEF Handle, TypeOK
<1>8. ASSUME NEW e \in Events, Watch(e)
      PROVE  IInv'
  BY <1>1, <1>8, EnqueueSafe DEF Watch, Claim, Overdue, TypeOK
<1> QED
  BY <1>2, <1>3, <1>4, <1>5, <1>6, <1>7, <1>8, StartSafe, SendSafe,
     CommitSafe, PauseSafe, CrashSafe DEF Next, SenderStep

LEMMA Safe == Spec => []IInv
<1> QED
  BY InitSafe, StepSafe, PTL DEF Spec

----------------------------------------------------------------------------
(* What it gives *)

\* Rows, queue and the dispatch under way keep their types; what is queued
\* has a chat to go to.
THEOREM TypeCorrect == Spec => []TypeOK
<1>1. IInv => TypeOK
  BY DEF IInv
<1> QED
  BY <1>1, Safe, PTL

LEMMA AtMostOne ==
    ASSUME NEW S, NEW c, S \subseteq {c}
    PROVE  Cardinality(S) <= 1
<1>1. S = {} \/ S = {c}
  OBVIOUS
<1>2. Cardinality({}) = 0
  BY FS_EmptySet
<1>3. Cardinality({c}) = 1
  BY FS_Singleton, Zenon
<1> QED
  BY <1>1, <1>2, <1>3

\* A message goes to one person, however often it is tried, whatever is linked
\* or unlinked in between: its row keeps the chat it was written with.
THEOREM OneRecipientEach == Spec => []OneRecipient
<1>1. ASSUME IInv, NEW m \in Messages
      PROVE  Cardinality(ToSet(reached[m])) <= 1
  <2>1. ToSet(reached[m]) \subseteq {row[m].chat}
    BY <1>1 DEF ToSet, IInv, ReachedItsChat
  <2> QED
    BY <2>1, AtMostOne
<1>2. IInv => OneRecipient
  BY <1>1 DEF OneRecipient
<1> QED
  BY <1>2, Safe, PTL

\* A message arrives again only after an answer of Telegram was lost, or the
\* loop died between sending and saving.
THEOREM RepeatsAreAccounted == Spec => []RepeatsAreExplained
<1>1. ASSUME IInv, NEW m \in Messages
      PROVE  Len(reached[m]) <= 1 + lost + crashes
  <2>1. Len(reached[m]) <= lost + crashes + (IF KnownSent(m) THEN 1 ELSE 0)
    BY <1>1 DEF IInv, DeliveriesCounted
  <2> QED
    BY <1>1, <2>1, Typed DEF IInv
<1>2. IInv => RepeatsAreExplained
  BY <1>1 DEF RepeatsAreExplained
<1> QED
  BY <1>2, Safe, PTL
=============================================================================
