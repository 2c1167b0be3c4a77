--------------------------- MODULE TelegramProofs ---------------------------
(***************************************************************************)
(* What the bot's side of Telegram guarantees for any number of chats,     *)
(* codes, locks, updates, failures and restarts.                           *)
(***************************************************************************)
EXTENDS Telegram, FiniteSetTheorems, TLAPS

Message == [kind : Kinds \union {"press"}, arg : Nat \union Locks, chat : Chats]

Loop == [phase : {"poll", "batch", "read", "committed"}, offset : Nat,
         next : Nat \ {0}, last : Nat, failedId : Nat, attempts : Nat,
         plan : {"nothing", "link", "invite", "press"}, of : Nat]

\* The rows, as TypeOK has them.
RowsTyped ==
    /\ now \in 0..Horizon
    /\ issued \in [Kinds -> Nat]
    /\ link \in [state : {"none", "pending", "linked"},
                 code : 0..issued["link"],
                 until : Moments, chat : Chats \union {None}]
    /\ contact \in [id : 0..issued["invite"],
                    status : {"none", "pending", "confirmed"},
                    code : 0..issued["invite"], at : 0..Horizon,
                    chat : Chats \union {None},
                    removeAt : Moments \union {None}]
    /\ link.state = "linked" <=> link.chat # None
    /\ contact.status = "confirmed" <=> contact.chat # None
    /\ contact = NoContact <=> contact.id = 0
    /\ due \in 0..issued["invite"]
    /\ lock \in [Locks -> {"none", "active", "lifted", "expired"}]
    /\ asked \in (0..Horizon) \union {None}

\* What was sent says something that exists; what a handler has made of an
\* update agrees with the kind of the update.
UpdatesTyped ==
    /\ updates \in Seq(Message)
    /\ Len(updates) <= MaxUpdates
    /\ \A u \in 1..Len(updates) :
         /\ updates[u].kind = "link" => updates[u].arg \in 1..issued["link"]
         /\ updates[u].kind = "invite" => updates[u].arg \in 1..issued["invite"]
         /\ updates[u].kind = "press" => updates[u].arg \in Locks
    /\ issued["link"] <= MaxCodes["link"]
    /\ issued["invite"] <= MaxCodes["invite"]

LoopTyped ==
    /\ poller \in Loop
    /\ confirmed \in 0..Len(updates)
    /\ poller.offset <= Len(updates) + 1
    /\ poller.last <= Len(updates)
    /\ poller.phase \in {"read", "committed"} => poller.next <= poller.last
    /\ poller.plan # "nothing" => poller.phase = "read"
    /\ poller.plan # "nothing" => poller.plan = updates[poller.next].kind
    /\ poller.plan = "invite" => poller.of # 0
    /\ failures \in Nat
    /\ crashes \in Nat

\* An update that was given up is behind the offset and never met again
\* before a restart, so the attempts stay within their limit.
AttemptsBounded ==
    /\ poller.attempts <= MaxUpdateAttempts
    /\ poller.attempts = MaxUpdateAttempts =>
         /\ poller.failedId < poller.offset
         /\ poller.phase # "poll" => poller.failedId < poller.next

GhostsTyped ==
    /\ handled \in [1..MaxUpdates -> Nat]
    /\ bound \in [Codes -> SUBSET Chats]
    /\ lifter \in [Locks -> 0..MaxUpdates]

TypeInv == RowsTyped /\ UpdatesTyped /\ LoopTyped /\ AttemptsBounded /\ GhostsTyped

LEMMA TypeInvHasType == TypeInv => TypeOK
  BY DEF TypeInv, TypeOK, RowsTyped, UpdatesTyped, LoopTyped, AttemptsBounded,
         GhostsTyped, Loop

LEMMA TypeInit == Init => TypeInv
<1> SUFFICES ASSUME Init PROVE TypeInv
  OBVIOUS
<1> USE TelegramAssumption
<1>1. RowsTyped
  BY DEF Init, RowsTyped, NoLink, NoContact, Moments, Kinds
<1>2. UpdatesTyped
  BY DEF Init, UpdatesTyped, Message, Kinds
<1>3. LoopTyped /\ AttemptsBounded
  BY DEF Init, LoopTyped, AttemptsBounded, Loop, Stopped
<1>4. GhostsTyped
  BY DEF Init, GhostsTyped
<1> QED
  BY <1>1, <1>2, <1>3, <1>4 DEF TypeInv

\* Nothing but the numbers of codes issued moves on, for the updates sent.
LEMMA SameUpdates ==
    ASSUME UpdatesTyped, UNCHANGED <<updates, issued>>
    PROVE  UpdatesTyped'
  BY DEF UpdatesTyped

LEMMA SameLoop ==
    ASSUME LoopTyped, AttemptsBounded,
           UNCHANGED <<updates, poller, confirmed, failures, crashes>>
    PROVE  LoopTyped' /\ AttemptsBounded'
  BY DEF LoopTyped, AttemptsBounded

LEMMA SameGhosts ==
    ASSUME GhostsTyped, UNCHANGED <<handled, bound, lifter>>
    PROVE  GhostsTyped'
  BY DEF GhostsTyped

\* One code more, of either kind: what was sent names codes all the same.
LEMMA CodeIssued ==
    ASSUME UpdatesTyped, issued \in [Kinds -> Nat], UNCHANGED updates,
           NEW k \in Kinds, issued[k] < MaxCodes[k],
           issued' = [issued EXCEPT ![k] = @ + 1]
    PROVE  UpdatesTyped'
<1> USE TelegramAssumption DEF Kinds
<1>1. /\ issued'["link"] \in Nat /\ issued'["invite"] \in Nat
      /\ issued["link"] \in Nat /\ issued["invite"] \in Nat
      /\ issued["link"] <= issued'["link"]
      /\ issued["invite"] <= issued'["invite"]
  OBVIOUS
<1>2. /\ issued'["link"] <= MaxCodes["link"]
      /\ issued'["invite"] <= MaxCodes["invite"]
  BY DEF UpdatesTyped
<1>3. \A u \in 1..Len(updates) :
         /\ updates[u].kind = "link" => updates[u].arg \in 1..issued'["link"]
         /\ updates[u].kind = "invite" => updates[u].arg \in 1..issued'["invite"]
         /\ updates[u].kind = "press" => updates[u].arg \in Locks
  BY <1>1 DEF UpdatesTyped
<1> QED
  BY <1>2, <1>3 DEF UpdatesTyped

\* The trader's requests keep the types.
LEMMA RequestTypes ==
    ASSUME TypeInv, StartLink \/ Unlink \/ Invite \/ RequestRemoval \/ CancelRemoval
    PROVE  TypeInv'
<1> USE TelegramAssumption DEF Moments, Kinds, RowsTyped
<1>1. CASE StartLink
  <2>1. RowsTyped'
    BY <1>1 DEF TypeInv, StartLink, Started, ghosts
  <2>2. UpdatesTyped'
    BY <1>1, CodeIssued DEF TypeInv, StartLink
  <2> QED
    BY <1>1, <2>1, <2>2, SameLoop, SameGhosts DEF TypeInv, StartLink, ghosts
<1>2. CASE Unlink
  <2>1. RowsTyped'
    BY <1>2 DEF TypeInv, Unlink, NoLink, ghosts
  <2> QED
    BY <1>2, <2>1, SameUpdates, SameLoop, SameGhosts DEF TypeInv, Unlink, ghosts
<1>3. CASE Invite
  <2>1. RowsTyped'
    BY <1>3 DEF TypeInv, Invite, Invited, NoContact
  <2>2. UpdatesTyped'
    BY <1>3, CodeIssued DEF TypeInv, Invite
  <2> QED
    BY <1>3, <2>1, <2>2, SameLoop, SameGhosts DEF TypeInv, Invite
<1>4. CASE RequestRemoval
  <2>1. RowsTyped'
    BY <1>4 DEF TypeInv, RequestRemoval, NoContact
  <2> QED
    BY <1>4, <2>1, SameUpdates, SameLoop, SameGhosts DEF TypeInv, RequestRemoval
<1>5. CASE CancelRemoval
  <2>1. RowsTyped'
    BY <1>5 DEF TypeInv, CancelRemoval, NoContact
  <2> QED
    BY <1>5, <2>1, SameUpdates, SameLoop, SameGhosts DEF TypeInv, CancelRemoval
<1> QED
  BY <1>1, <1>2, <1>3, <1>4, <1>5

LEMMA Appended ==
    ASSUME NEW S, NEW q \in Seq(S), NEW x \in S
    PROVE  /\ Append(q, x) \in Seq(S)
           /\ Len(q) \in Nat
           /\ Len(Append(q, x)) = Len(q) + 1
           /\ Append(q, x)[Len(q) + 1] = x
           /\ \A i \in 1..Len(q) : Append(q, x)[i] = q[i]
  OBVIOUS

LEMMA LongerUpdates ==
    ASSUME LoopTyped, AttemptsBounded,
           UNCHANGED <<confirmed, poller, failures, crashes>>,
           Len(updates) \in Nat, Len(updates') = Len(updates) + 1,
           \A u \in 1..Len(updates) : updates'[u] = updates[u]
    PROVE  LoopTyped' /\ AttemptsBounded'
<1>1. poller.next \in Nat \ {0} /\ poller.last \in Nat /\ poller.offset \in Nat
  BY DEF LoopTyped, Loop
<1>2. poller.plan # "nothing" => poller.next \in 1..Len(updates)
  BY <1>1 DEF LoopTyped
<1>3. poller.plan # "nothing" => poller.plan = updates'[poller.next].kind
  BY <1>2 DEF LoopTyped
<1>4. /\ confirmed \in 0..Len(updates')
      /\ poller.offset <= Len(updates') + 1
      /\ poller.last <= Len(updates')
  BY <1>1 DEF LoopTyped
<1>5. LoopTyped'
  BY <1>3, <1>4 DEF LoopTyped
<1> QED
  BY <1>5 DEF AttemptsBounded

\* So do the watch, the locks, the clock and the chats.
LEMMA SurroundingTypes ==
    ASSUME TypeInv,
           \/ Watch \/ Tick
           \/ \E l \in Locks : StartLock(l) \/ ExpireLock(l)
           \/ \E chat \in Chats : SendUpdate(chat)
    PROVE  TypeInv'
<1> USE TelegramAssumption DEF Moments, Kinds, RowsTyped
<1>1. CASE ReadDue
  <2>1. RowsTyped'
    BY <1>1 DEF TypeInv, ReadDue, rows, ghosts
  <2> QED
    BY <1>1, <2>1, SameUpdates, SameLoop, SameGhosts DEF TypeInv, ReadDue, ghosts
<1>2. CASE DeleteDue
  <2>1. RowsTyped'
    BY <1>2 DEF TypeInv, DeleteDue, NoContact
  <2> QED
    BY <1>2, <2>1, SameUpdates, SameLoop, SameGhosts DEF TypeInv, DeleteDue
<1>3. CASE Tick
  <2>1. RowsTyped'
    BY <1>3 DEF TypeInv, Tick, rows, ghosts
  <2> QED
    BY <1>3, <2>1, SameUpdates, SameLoop, SameGhosts DEF TypeInv, Tick, ghosts
<1>4. CASE \E l \in Locks : StartLock(l) \/ ExpireLock(l)
  <2>1. RowsTyped'
    BY <1>4 DEF TypeInv, StartLock, ExpireLock, ghosts
  <2> QED
    BY <1>4, <2>1, SameUpdates, SameLoop, SameGhosts
    DEF TypeInv, StartLock, ExpireLock, ghosts
<1>5. ASSUME NEW chat \in Chats, SendUpdate(chat)
      PROVE  TypeInv'
  <2>1. RowsTyped'
    BY <1>5 DEF TypeInv, SendUpdate, rows, ghosts
  <2>2. PICK message \in Says(chat) : updates' = Append(updates, message)
    BY <1>5 DEF SendUpdate
  <2>3. /\ message \in Message
        /\ message.kind = "link" => message.arg \in 1..issued["link"]
        /\ message.kind = "invite" => message.arg \in 1..issued["invite"]
        /\ message.kind = "press" => message.arg \in Locks
    <3>1. CASE message \in [kind : {"link"}, arg : 1..issued["link"], chat : {chat}]
      BY <3>1 DEF Message, TypeInv
    <3>2. CASE message \in [kind : {"invite"}, arg : 1..issued["invite"], chat : {chat}]
      BY <3>2 DEF Message, TypeInv
    <3>3. CASE message \in [kind : {"press"}, arg : {l \in Locks : lock[l] # "none"},
                            chat : {chat}]
      BY <3>3 DEF Message
    <3> QED
      BY <2>2, <3>1, <3>2, <3>3 DEF Says
  <2>4. /\ updates' \in Seq(Message)
        /\ Len(updates) \in Nat
        /\ Len(updates') = Len(updates) + 1
        /\ updates'[Len(updates) + 1] = message
        /\ \A u \in 1..Len(updates) : updates'[u] = updates[u]
    BY <2>2, <2>3, Appended DEF TypeInv, UpdatesTyped
  <2>5. UpdatesTyped'
    <3>1. Len(updates') <= MaxUpdates
      BY <1>5, <2>4 DEF TypeInv, UpdatesTyped, SendUpdate
    <3>2. \A u \in 1..Len(updates') : u \in 1..Len(updates) \/ u = Len(updates) + 1
      BY <2>4
    <3> QED
      BY <1>5, <2>3, <2>4, <3>1, <3>2 DEF TypeInv, UpdatesTyped, SendUpdate
  <2>6. LoopTyped' /\ AttemptsBounded'
    BY <1>5, <2>4, LongerUpdates DEF TypeInv, SendUpdate
  <2> QED
    BY <1>5, <2>1, <2>5, <2>6, SameGhosts DEF TypeInv, SendUpdate, ghosts
<1> QED
  BY <1>1, <1>2, <1>3, <1>4, <1>5 DEF Watch

\* The handler makes of an update what its kind allows, and an invitation
\* accepted is that of a contact.
LEMMA PlanOfKind ==
    ASSUME TypeInv, NEW u \in 1..Len(updates)
    PROVE  /\ Plan(u) \in {"nothing", "link", "invite", "press"}
           /\ Plan(u) # "nothing" => Plan(u) = updates[u].kind
           /\ Plan(u) = "link" => LinkAccepts(u)
           /\ Plan(u) = "invite" => InviteAccepts(u) /\ contact.id # 0
           /\ Plan(u) = "press" => PressAccepts(u)
<1>1. /\ Plan(u) \in {"nothing", "link", "invite", "press"}
      /\ Plan(u) = "link" => LinkAccepts(u)
      /\ Plan(u) = "invite" => InviteAccepts(u)
      /\ Plan(u) = "press" => PressAccepts(u)
  BY Zenon DEF Plan
<1>2. ASSUME InviteAccepts(u) PROVE contact.id # 0
  <2>1. contact.code \in 1..issued["invite"]
    BY <1>2 DEF InviteAccepts, TypeInv, UpdatesTyped
  <2>2. contact.code # 0
    BY <2>1
  <2> QED
    BY <2>2 DEF TypeInv, RowsTyped, NoContact
<1> QED
  BY <1>1, <1>2 DEF LinkAccepts, InviteAccepts, PressAccepts

\* The loop keeps its place: it never goes past what was sent.
LEMMA LoopTypes ==
    ASSUME TypeInv, Len(updates) \in Nat, PollerStep \/ Restart
    PROVE  LoopTyped' /\ AttemptsBounded'
<1>0. /\ LoopTyped /\ AttemptsBounded
      /\ UNCHANGED updates
      /\ Len(updates) \in Nat
      /\ poller \in Loop
      /\ confirmed \in Nat /\ confirmed <= Len(updates)
      /\ poller.offset <= Len(updates) + 1
      /\ poller.next \in Nat \ {0} /\ poller.offset \in Nat
      /\ poller.last \in Nat /\ poller.failedId \in Nat
      /\ poller.attempts \in Nat
      /\ poller.next + 1 \in Nat \ {0} /\ poller.next + 1 \in Nat
      /\ 0 \in Nat /\ 1 \in Nat \ {0}
  BY DEF TypeInv, LoopTyped, Loop, PollerStep, Restart, GetUpdates, ReadUpdate,
         CommitUpdate, MoveOffset, FailUpdate, EndBatch
<1>1. CASE GetUpdates
  <2> DEFINE start == IF poller.offset = 0 THEN confirmed + 1 ELSE poller.offset
  <2>0. /\ start \in 1..Len(updates) + 1
        /\ start \in Nat \ {0}
        /\ poller.offset # 0 => start = poller.offset
    BY <1>0
  <2>1. PICK from \in Nat \ {0} :
          /\ poller' = [poller EXCEPT !.phase = "batch", !.next = from,
                                      !.last = Len(updates)]
          /\ poller.phase = "poll"
          /\ confirmed' = from - 1
          /\ from = start
    BY <1>1, <2>0 DEF GetUpdates
  <2> HIDE DEF start
  <2>2. /\ poller' \in Loop
        /\ poller'.phase = "batch" /\ poller'.next = from
        /\ poller'.last = Len(updates) /\ poller'.offset = poller.offset
        /\ poller'.plan = poller.plan /\ poller'.failedId = poller.failedId
        /\ poller'.attempts = poller.attempts
    BY <1>0, <2>1 DEF Loop
  <2>3. poller.plan = "nothing"
    BY <1>0, <2>1 DEF LoopTyped
  <2>4. confirmed' \in 0..Len(updates')
    BY <1>0, <2>0, <2>1
  <2>5. UNCHANGED <<failures, crashes>>
    BY <1>1 DEF GetUpdates
  <2>6. LoopTyped'
    BY <1>0, <2>2, <2>3, <2>4, <2>5 DEF LoopTyped
  <2>7. AttemptsBounded'
    BY <1>0, <2>0, <2>1, <2>2 DEF AttemptsBounded
  <2> QED
    BY <2>6, <2>7
<1>2. CASE ReadUpdate
  <2>1. /\ poller.phase = "batch" /\ poller.next <= poller.last
        /\ poller' = [poller EXCEPT !.phase = "read", !.plan = Plan(poller.next),
                                    !.of = contact.id]
        /\ UNCHANGED <<confirmed, failures, crashes>>
    BY <1>2 DEF ReadUpdate
  <2>2. poller.next \in 1..Len(updates)
    BY <1>0, <2>1 DEF LoopTyped
  <2> DEFINE plan == Plan(poller.next)
  <2>3. /\ plan \in {"nothing", "link", "invite", "press"}
        /\ plan # "nothing" => plan = updates[poller.next].kind
        /\ plan = "invite" => contact.id # 0
        /\ contact.id \in Nat
    BY <2>2, PlanOfKind DEF TypeInv, RowsTyped
  <2>4. poller' = [poller EXCEPT !.phase = "read", !.plan = plan, !.of = contact.id]
    BY <2>1
  <2> HIDE DEF plan
  <2>5. /\ poller' \in Loop
        /\ poller'.phase = "read" /\ poller'.plan = plan
        /\ poller'.of = contact.id /\ poller'.next = poller.next
        /\ poller'.last = poller.last /\ poller'.offset = poller.offset
        /\ poller'.failedId = poller.failedId
        /\ poller'.attempts = poller.attempts
    BY <1>0, <2>3, <2>4 DEF Loop
  <2>6. LoopTyped'
    BY <1>0, <2>1, <2>3, <2>5 DEF LoopTyped
  <2>7. AttemptsBounded'
    BY <1>0, <2>1, <2>5 DEF AttemptsBounded
  <2> QED
    BY <2>6, <2>7
<1>3. CASE CommitUpdate
  <2>1. /\ poller.phase = "read"
        /\ poller' = [poller EXCEPT !.phase = "committed", !.plan = "nothing",
                                    !.of = 0]
        /\ UNCHANGED <<confirmed, failures, crashes>>
    BY <1>3 DEF CommitUpdate
  <2>2. /\ poller' \in Loop
        /\ poller'.phase = "committed" /\ poller'.plan = "nothing"
        /\ poller'.next = poller.next
        /\ poller'.last = poller.last /\ poller'.offset = poller.offset
        /\ poller'.failedId = poller.failedId
        /\ poller'.attempts = poller.attempts
    BY <1>0, <2>1 DEF Loop
  <2>3. LoopTyped'
    BY <1>0, <2>1, <2>2 DEF LoopTyped
  <2>4. AttemptsBounded'
    BY <1>0, <2>1, <2>2 DEF AttemptsBounded
  <2> QED
    BY <2>3, <2>4
<1>4. CASE MoveOffset
  <2>1. /\ poller.phase = "committed"
        /\ poller' = [poller EXCEPT !.phase = "batch", !.offset = poller.next + 1,
                                    !.next = @ + 1, !.failedId = 0, !.attempts = 0]
        /\ UNCHANGED <<confirmed, failures, crashes>>
    BY <1>4 DEF MoveOffset
  <2>2. /\ poller' \in Loop
        /\ poller'.phase = "batch" /\ poller'.plan = poller.plan
        /\ poller'.next = poller.next + 1
        /\ poller'.last = poller.last /\ poller'.offset = poller.next + 1
        /\ poller'.attempts = 0
    BY <1>0, <2>1 DEF Loop
  <2>3. poller.plan = "nothing" /\ poller.next <= poller.last /\ poller.last <= Len(updates)
    BY <1>0, <2>1 DEF LoopTyped
  <2>4. LoopTyped'
    BY <1>0, <2>1, <2>2, <2>3 DEF LoopTyped
  <2>5. AttemptsBounded'
    BY <2>2, TelegramAssumption DEF AttemptsBounded
  <2> QED
    BY <2>4, <2>5
<1>5. CASE FailUpdate
  <2> DEFINE tried  == Attempts
             offset == IF tried < MaxUpdateAttempts THEN poller.offset
                       ELSE poller.next + 1
  <2>1. /\ poller.phase = "read"
        /\ poller' = [poller EXCEPT !.phase = "batch", !.next = @ + 1,
                                    !.plan = "nothing", !.of = 0,
                                    !.failedId = poller.next, !.attempts = tried,
                                    !.offset = offset]
        /\ failures' \in Nat
        /\ UNCHANGED <<confirmed, crashes>>
    BY <1>0, <1>5 DEF FailUpdate, AfterFailure, LoopTyped
  <2>2. poller.next <= poller.last /\ poller.last <= Len(updates)
    BY <1>0, <2>1 DEF LoopTyped
  <2>3. /\ tried \in Nat
        /\ tried <= MaxUpdateAttempts
        /\ offset \in Nat /\ offset <= Len(updates) + 1
        /\ tried = MaxUpdateAttempts => offset = poller.next + 1
    <3>1. MaxUpdateAttempts \in Nat /\ MaxUpdateAttempts >= 1
      BY TelegramAssumption
    <3>2. poller.failedId = poller.next => poller.attempts < MaxUpdateAttempts
      BY <1>0, <2>1, <3>1 DEF AttemptsBounded
    <3>3. tried \in Nat /\ tried <= MaxUpdateAttempts
      BY <1>0, <3>1, <3>2 DEF Attempts
    <3> HIDE DEF tried
    <3> QED
      BY <1>0, <2>2, <3>1, <3>3
  <2> HIDE DEF tried, offset
  <2>4. /\ poller' \in Loop
        /\ poller'.phase = "batch" /\ poller'.plan = "nothing"
        /\ poller'.next = poller.next + 1
        /\ poller'.last = poller.last /\ poller'.offset = offset
        /\ poller'.failedId = poller.next /\ poller'.attempts = tried
    <3>1. offset \in Nat /\ tried \in Nat /\ poller.next \in Nat
      BY <1>0, <2>3
    <3> QED
      BY <1>0, <2>1, <3>1 DEF Loop
  <2>5. LoopTyped'
    BY <1>0, <2>1, <2>2, <2>3, <2>4 DEF LoopTyped
  <2>6. AttemptsBounded'
    BY <1>0, <2>3, <2>4 DEF AttemptsBounded
  <2> QED
    BY <2>5, <2>6
<1>6. CASE EndBatch
  <2>1. /\ poller.phase = "batch"
        /\ poller' = [poller EXCEPT !.phase = "poll", !.next = 1, !.last = 0]
        /\ UNCHANGED <<confirmed, failures, crashes>>
    BY <1>6 DEF EndBatch
  <2>2. /\ poller' \in Loop
        /\ poller'.phase = "poll" /\ poller'.plan = poller.plan
        /\ poller'.last = 0 /\ poller'.offset = poller.offset
        /\ poller'.failedId = poller.failedId
        /\ poller'.attempts = poller.attempts
    BY <1>0, <2>1 DEF Loop
  <2>3. LoopTyped'
    BY <1>0, <2>1, <2>2 DEF LoopTyped
  <2>4. AttemptsBounded'
    BY <1>0, <2>1, <2>2 DEF AttemptsBounded
  <2> QED
    BY <2>3, <2>4
<1>7. CASE Restart
  <2>1. /\ poller' = Stopped
        /\ crashes' \in Nat
        /\ UNCHANGED <<confirmed, failures>>
    BY <1>0, <1>7 DEF Restart, LoopTyped
  <2>2. LoopTyped'
    BY <1>0, <2>1 DEF LoopTyped, Loop, Stopped
  <2>3. AttemptsBounded'
    BY <2>1, TelegramAssumption DEF AttemptsBounded, Stopped
  <2> QED
    BY <2>2, <2>3
<1> QED
  BY <1>1, <1>2, <1>3, <1>4, <1>5, <1>6, <1>7 DEF PollerStep

LEMMA CodeIsKnown ==
    ASSUME UpdatesTyped, issued \in [Kinds -> Nat], NEW u \in 1..Len(updates),
           updates[u].kind = "link" \/ updates[u].kind = "invite"
    PROVE  /\ <<updates[u].kind, updates[u].arg>> \in Codes
           /\ updates[u].arg \in 1..MaxCodes[updates[u].kind]
<1> DEFINE k == updates[u].kind
           n == updates[u].arg
<1>1. k \in Kinds /\ n \in 1..issued[k] /\ issued[k] \in Nat
      /\ issued[k] <= MaxCodes[k]
  BY DEF UpdatesTyped, Kinds
<1>2. MaxCodes[k] \in Nat
  BY <1>1, TelegramAssumption DEF Kinds
<1>3. n \in 1..MaxCodes[k]
  BY <1>1, <1>2
<1> HIDE DEF k, n
<1>4. <<k, n>> \in {k} \X (1..MaxCodes[k])
  BY <1>3
<1>5. <<k, n>> \in Codes
  BY <1>1, <1>4 DEF Codes
<1> QED
  BY <1>3, <1>5 DEF k, n

\* The writes of a handler keep the types of the rows.
LEMMA CommitTypes ==
    ASSUME TypeInv, CommitUpdate
    PROVE  RowsTyped' /\ GhostsTyped'
<1>0. PICK u : u = poller.next
  OBVIOUS
<1>1. /\ RowsTyped /\ UpdatesTyped /\ LoopTyped /\ GhostsTyped
      /\ issued["link"] \in Nat /\ issued["invite"] \in Nat
      /\ None \notin Chats
      /\ 0 \in Moments
  BY TelegramAssumption DEF TypeInv, RowsTyped, Kinds, Moments
<1>2. /\ UNCHANGED <<now, issued, due, asked>>
      /\ poller.phase = "read"
      /\ handled' = [handled EXCEPT ![u] = @ + 1]
      /\ Linked(u) \/ Consented(u) \/ Lifted(u) \/ NothingToWrite(u)
  BY <1>0 DEF CommitUpdate
<1>3. /\ u \in 1..Len(updates) /\ u \in 1..MaxUpdates
      /\ u \in 0..MaxUpdates
  <2>1. u \in Nat \ {0} /\ poller.last \in Nat
    BY <1>0, <1>1 DEF LoopTyped, Loop
  <2>2. u <= poller.last /\ poller.last <= Len(updates)
    BY <1>0, <1>1, <1>2 DEF LoopTyped
  <2>3. Len(updates) \in Nat /\ Len(updates) <= MaxUpdates /\ MaxUpdates \in Nat
    BY <1>1, TelegramAssumption DEF UpdatesTyped
  <2> QED
    BY <2>1, <2>2, <2>3
<1>4. /\ updates[u].chat \in Chats
      /\ poller.plan # "nothing" => poller.plan = updates[u].kind
      /\ poller.plan = "invite" => poller.of # 0
  <2>1. updates[u] \in Message
    BY <1>1, <1>3 DEF UpdatesTyped
  <2> QED
    BY <1>0, <1>1, <2>1 DEF LoopTyped, Message
<1>5. ASSUME poller.plan = "link" \/ poller.plan = "invite", bound' = Binding(u)
      PROVE  bound' \in [Codes -> SUBSET Chats]
  <2>1. <<updates[u].kind, updates[u].arg>> \in Codes
    BY <1>1, <1>3, <1>4, <1>5, CodeIsKnown DEF RowsTyped
  <2> QED
    BY <1>1, <1>4, <1>5, <2>1 DEF Binding, GhostsTyped
<1>6. handled' \in [1..MaxUpdates -> Nat]
  BY <1>1, <1>2, <1>3 DEF GhostsTyped
<1>7. CASE Linked(u)
  <2>1. /\ link' = [state |-> "linked", code |-> 0, until |-> 0,
                    chat |-> updates[u].chat]
        /\ UNCHANGED <<contact, lock, lifter>>
        /\ poller.plan = "link" /\ bound' = Binding(u)
    BY <1>7 DEF Linked
  <2>2. /\ link' \in [state : {"none", "pending", "linked"},
                      code : 0..issued["link"],
                      until : Moments, chat : Chats \union {None}]
        /\ link'.state = "linked" /\ link'.chat # None
    BY <1>1, <1>4, <2>1
  <2>3. RowsTyped'
    BY <1>1, <1>2, <2>1, <2>2 DEF RowsTyped, NoContact
  <2> QED
    BY <1>1, <1>5, <1>6, <2>1, <2>3 DEF GhostsTyped
<1>8. CASE Consented(u)
  <2>1. /\ contact' = [contact EXCEPT !.status = "confirmed", !.code = 0,
                                      !.chat = updates[u].chat]
        /\ contact.id # 0
        /\ UNCHANGED <<link, lock, lifter>>
        /\ poller.plan = "invite" /\ bound' = Binding(u)
    BY <1>4, <1>8 DEF Consented
  <2>2. /\ contact' \in [id : 0..issued["invite"],
                         status : {"none", "pending", "confirmed"},
                         code : 0..issued["invite"], at : 0..Horizon,
                         chat : Chats \union {None},
                         removeAt : Moments \union {None}]
        /\ contact'.status = "confirmed" /\ contact'.chat # None
        /\ contact'.id = contact.id
    <3>1. contact \in [id : 0..issued["invite"],
                       status : {"none", "pending", "confirmed"},
                       code : 0..issued["invite"], at : 0..Horizon,
                       chat : Chats \union {None},
                       removeAt : Moments \union {None}]
      BY <1>1 DEF RowsTyped
    <3>2. 0 \in 0..issued["invite"] /\ updates[u].chat \in Chats \union {None}
      BY <1>1, <1>4
    <3>3. updates[u].chat # None
      BY <1>1, <1>4
    <3> QED
      BY <2>1, <3>1, <3>2, <3>3
  <2>3. contact' # NoContact
    BY <2>1, <2>2 DEF NoContact
  <2>4. RowsTyped'
    BY <1>1, <1>2, <2>1, <2>2, <2>3 DEF RowsTyped, NoContact
  <2> QED
    BY <1>1, <1>5, <1>6, <2>1, <2>4 DEF GhostsTyped
<1>9. CASE Lifted(u)
  <2>1. /\ lock' = [lock EXCEPT ![updates[u].arg] = "lifted"]
        /\ lifter' = [lifter EXCEPT ![updates[u].arg] = u]
        /\ UNCHANGED <<link, contact, bound>>
    BY <1>9 DEF Lifted
  <2>2. RowsTyped'
    BY <1>1, <1>2, <2>1 DEF RowsTyped, NoContact
  <2> QED
    BY <1>1, <1>3, <1>6, <2>1, <2>2 DEF GhostsTyped
<1>10. CASE NothingToWrite(u)
  <2>1. UNCHANGED <<rows, bound, lifter>>
    BY <1>10 DEF NothingToWrite
  <2>2. RowsTyped'
    BY <1>1, <1>2, <2>1 DEF rows, RowsTyped, NoContact
  <2> QED
    BY <1>1, <1>6, <2>1, <2>2 DEF GhostsTyped
<1> QED
  BY <1>2, <1>7, <1>8, <1>9, <1>10

LEMMA TypeStep == TypeInv /\ [Next]_vars => TypeInv'
<1> SUFFICES ASSUME TypeInv, [Next]_vars PROVE TypeInv'
  OBVIOUS
<1>0. Len(updates) \in Nat
  BY DEF TypeInv, UpdatesTyped
<1>1. CASE StartLink \/ Unlink \/ Invite \/ RequestRemoval \/ CancelRemoval
  BY <1>1, RequestTypes
<1>2. CASE \/ Watch \/ Tick
           \/ \E l \in Locks : StartLock(l) \/ ExpireLock(l)
           \/ \E chat \in Chats : SendUpdate(chat)
  BY <1>2, SurroundingTypes
<1>3. CASE CommitUpdate
  <2>1. UNCHANGED <<updates, issued>>
    BY <1>3 DEF CommitUpdate
  <2> QED
    BY <1>0, <1>3, <2>1, LoopTypes, CommitTypes, SameUpdates DEF PollerStep, TypeInv
<1>4. CASE \/ GetUpdates \/ ReadUpdate \/ MoveOffset \/ FailUpdate \/ EndBatch
           \/ Restart
  <2>1. UNCHANGED <<now, issued, rows, due, updates, ghosts>>
    BY <1>4 DEF GetUpdates, ReadUpdate, MoveOffset, FailUpdate, EndBatch, Restart
  <2>2. RowsTyped' /\ GhostsTyped'
    BY <2>1 DEF TypeInv, RowsTyped, GhostsTyped, rows, ghosts
  <2>3. LoopTyped' /\ AttemptsBounded'
    BY <1>0, <1>4, LoopTypes DEF PollerStep
  <2> QED
    BY <2>1, <2>2, <2>3, SameUpdates DEF TypeInv
<1>5. CASE UNCHANGED vars
  <2>1. RowsTyped' /\ GhostsTyped'
    BY <1>5 DEF TypeInv, RowsTyped, GhostsTyped, vars, rows, ghosts
  <2> QED
    BY <1>5, <2>1, SameUpdates, SameLoop DEF TypeInv, vars
<1> QED
  BY <1>1, <1>2, <1>3, <1>4, <1>5 DEF Next, PollerStep

LEMMA Typed == Spec => []TypeInv
  BY TypeInit, TypeStep, PTL DEF Spec

\* Rows, updates, the loop and the attempts at an update are what the code
\* takes them for.
THEOREM TypeCorrect == Spec => []TypeOK
  BY Typed, TypeInvHasType, PTL

----------------------------------------------------------------------------
(* The removal of a contact *)

\* A standing removal is a day after the request it stands for.
RemovalDay ==
    contact.removeAt # None =>
        asked # None /\ contact.removeAt = asked + RemovalDelay

LEMMA RemovalStep ==
    ASSUME TypeInv, RemovalDay, [Next]_vars
    PROVE  /\ RemovalDay'
           /\ due' # 0 /\ due = 0 => asked # None /\ now >= asked + RemovalDelay
<1>0. /\ now \in Nat
      /\ now # None
      /\ contact \in [id : 0..issued["invite"],
                     status : {"none", "pending", "confirmed"},
                     code : 0..issued["invite"], at : 0..Horizon,
                     chat : Chats \union {None},
                     removeAt : Moments \union {None}]
  BY TelegramAssumption DEF TypeInv, RowsTyped
<1>1. CASE Invite
  BY <1>1 DEF Invite, Invited, RemovalDay
<1>2. CASE RequestRemoval
  <2>1. /\ contact' = [contact EXCEPT !.removeAt = now + RemovalDelay]
        /\ asked' = now
        /\ UNCHANGED due
    BY <1>2 DEF RequestRemoval
  <2>2. contact'.removeAt = now + RemovalDelay
    BY <1>0, <2>1
  <2> QED
    BY <1>0, <2>1, <2>2 DEF RemovalDay
<1>3. CASE CancelRemoval
  <2>1. contact'.removeAt = None /\ UNCHANGED due
    BY <1>0, <1>3 DEF CancelRemoval
  <2> QED
    BY <2>1 DEF RemovalDay
<1>4. CASE ReadDue
  <2>1. /\ contact.removeAt # None /\ contact.removeAt <= now
        /\ UNCHANGED <<contact, asked>>
    BY <1>4 DEF ReadDue, rows, ghosts
  <2> QED
    BY <2>1 DEF RemovalDay
<1>5. CASE DeleteDue
  BY <1>5 DEF DeleteDue, RemovalDay, NoContact
<1>6. CASE CommitUpdate
  <2>1. UNCHANGED <<due, asked>>
    BY <1>6 DEF CommitUpdate
  <2>2. contact'.removeAt = contact.removeAt
    BY <1>0, <1>6 DEF CommitUpdate, Linked, Consented, Lifted, NothingToWrite, rows
  <2> QED
    BY <2>1, <2>2 DEF RemovalDay
<1>7. CASE UNCHANGED <<contact, asked, due>>
  BY <1>7 DEF RemovalDay
<1>8. CASE \/ StartLink \/ Unlink \/ Tick \/ Restart
           \/ \E l \in Locks : StartLock(l) \/ ExpireLock(l)
           \/ \E chat \in Chats : SendUpdate(chat)
           \/ GetUpdates \/ ReadUpdate \/ MoveOffset \/ FailUpdate \/ EndBatch
  <2>1. UNCHANGED <<contact, asked, due>>
    BY <1>8 DEF StartLink, Unlink, Tick, Restart, StartLock, ExpireLock,
                SendUpdate, GetUpdates, ReadUpdate, MoveOffset, FailUpdate,
                EndBatch, rows, ghosts
  <2> QED
    BY <1>7, <2>1
<1> QED
  BY <1>1, <1>2, <1>3, <1>4, <1>5, <1>6, <1>7, <1>8
  DEF Next, Watch, PollerStep, vars, rows, ghosts

\* A contact is found due for removal no sooner than a day after the last
\* request that was not withdrawn, however invitations, consents, withdrawals
\* and the watch interleave.
THEOREM RemovalWaits == Spec => RemovalTakesADay
<1>1. Init => RemovalDay
  BY DEF Init, RemovalDay, NoContact
<1>2. TypeInv /\ RemovalDay /\ [Next]_vars => RemovalDay'
  BY RemovalStep
<1>3. TypeInv /\ RemovalDay /\ [Next]_vars
        => [due' # 0 /\ due = 0 => asked # None /\ now >= asked + RemovalDelay]_vars
  BY RemovalStep
<1> QED
  BY Typed, <1>1, <1>2, <1>3, PTL DEF Spec, RemovalTakesADay

----------------------------------------------------------------------------
(* Repeats *)

\* An update behind the offset, or committed and about to be, was handled
\* once more than the loop has ended; any other no more often.
Repeats ==
    /\ \A u \in 1..MaxUpdates :
         /\ handled[u] <= 1 + crashes
         /\ ~(u < poller.offset \/ (poller.phase = "committed" /\ u = poller.next))
                => handled[u] <= crashes
    /\ poller.phase # "poll" => poller.offset <= poller.next

LEMMA RepeatsStep ==
    ASSUME TypeInv, Repeats, [Next]_vars
    PROVE  Repeats'
<1>0. /\ poller \in Loop /\ crashes \in Nat
      /\ poller.next \in Nat /\ poller.offset \in Nat
      /\ handled \in [1..MaxUpdates -> Nat]
      /\ confirmed \in Nat
  BY DEF TypeInv, LoopTyped, Loop, GhostsTyped, UpdatesTyped
<1>1. CASE UNCHANGED <<handled, crashes, poller>>
  BY <1>1 DEF Repeats
<1>2. CASE GetUpdates
  <2>1. /\ poller'.phase = "batch" /\ poller'.offset = poller.offset
        /\ poller.phase = "poll"
        /\ UNCHANGED <<handled, crashes>>
    BY <1>0, <1>2 DEF GetUpdates, ghosts, Loop
  <2>2. poller'.offset <= poller'.next
    BY <1>0, <1>2, <2>1 DEF GetUpdates, Loop
  <2> QED
    BY <2>1, <2>2 DEF Repeats
<1>3. CASE ReadUpdate
  <2>1. /\ poller'.phase = "read" /\ poller'.offset = poller.offset
        /\ poller'.next = poller.next /\ poller.phase = "batch"
        /\ UNCHANGED <<handled, crashes>>
    BY <1>0, <1>3 DEF ReadUpdate, ghosts, Loop
  <2> QED
    BY <2>1 DEF Repeats
<1>4. CASE CommitUpdate
  <2>1. /\ poller'.phase = "committed" /\ poller'.offset = poller.offset
        /\ poller'.next = poller.next /\ poller.phase = "read"
        /\ handled' = [handled EXCEPT ![poller.next] = @ + 1]
        /\ UNCHANGED crashes
    BY <1>0, <1>4 DEF CommitUpdate, Loop
  <2>2. ASSUME NEW u \in 1..MaxUpdates
        PROVE  /\ handled'[u] <= 1 + crashes
               /\ u # poller.next => handled'[u] = handled[u]
    BY <1>0, <2>1 DEF Repeats
  <2> QED
    BY <1>0, <2>1, <2>2 DEF Repeats
<1>5. CASE MoveOffset
  <2>1. /\ poller'.phase = "batch" /\ poller'.offset = poller.next + 1
        /\ poller'.next = poller.next + 1 /\ poller.phase = "committed"
        /\ UNCHANGED <<handled, crashes>>
    BY <1>0, <1>5 DEF MoveOffset, ghosts, Loop
  <2> QED
    BY <1>0, <2>1 DEF Repeats
<1>6. CASE FailUpdate
  <2>1. /\ poller'.phase = "batch"
        /\ poller'.offset = poller.offset \/ poller'.offset = poller.next + 1
        /\ poller'.next = poller.next + 1 /\ poller.phase = "read"
        /\ UNCHANGED <<handled, crashes>>
    BY <1>0, <1>6 DEF FailUpdate, AfterFailure, ghosts, Loop
  <2> QED
    BY <1>0, <2>1 DEF Repeats
<1>7. CASE EndBatch
  <2>1. /\ poller'.phase = "poll" /\ poller'.offset = poller.offset
        /\ poller.phase = "batch"
        /\ UNCHANGED <<handled, crashes>>
    BY <1>0, <1>7 DEF EndBatch, ghosts, Loop
  <2> QED
    BY <2>1 DEF Repeats
<1>8. CASE Restart
  <2>1. /\ poller'.phase = "poll" /\ poller'.offset = 0
        /\ crashes' = crashes + 1
        /\ UNCHANGED handled
    BY <1>8 DEF Restart, Stopped, ghosts
  <2> QED
    BY <1>0, <2>1 DEF Repeats
<1>9. CASE \/ StartLink \/ Unlink \/ Invite \/ RequestRemoval \/ CancelRemoval
           \/ Watch \/ Tick
           \/ \E l \in Locks : StartLock(l) \/ ExpireLock(l)
           \/ \E chat \in Chats : SendUpdate(chat)
  <2>1. UNCHANGED <<handled, crashes, poller>>
    BY <1>9 DEF StartLink, Unlink, Invite, RequestRemoval, CancelRemoval, Watch,
                ReadDue, DeleteDue, Tick, StartLock, ExpireLock, SendUpdate, ghosts
  <2> QED
    BY <1>1, <2>1
<1> QED
  BY <1>1, <1>2, <1>3, <1>4, <1>5, <1>6, <1>7, <1>8, <1>9
  DEF Next, PollerStep, vars, ghosts

\* However many updates, failures and restarts there are, an update is handled
\* at most once more than the loop has ended.
THEOREM RepeatsAreRestarts == Spec => []RepeatsNeedRestarts
<1>1. Init => Repeats
  BY TelegramAssumption DEF Init, Repeats, Stopped
<1>2. TypeInv /\ Repeats /\ [Next]_vars => Repeats'
  BY RepeatsStep
<1>3. Repeats => RepeatsNeedRestarts
  BY DEF Repeats, RepeatsNeedRestarts
<1> QED
  BY Typed, <1>1, <1>2, <1>3, PTL DEF Spec

----------------------------------------------------------------------------
(* The handler's plan *)

\* Where the loop may be after a step: a plan that stands was made in this
\* step, or nothing of the loop moved.
LEMMA PlanMoves ==
    ASSUME TypeInv, [Next]_vars
    PROVE  \/ ReadUpdate
           \/ poller'.plan = "nothing"
           \/ UNCHANGED poller
<1>0. poller \in Loop /\ (poller.plan # "nothing" => poller.phase = "read")
  BY DEF TypeInv, LoopTyped
<1>1. CASE GetUpdates \/ EndBatch \/ MoveOffset
  <2>1. poller.phase # "read"
    BY <1>1 DEF GetUpdates, EndBatch, MoveOffset
  <2>2. poller.plan = "nothing"
    BY <1>0, <2>1
  <2>3. poller'.plan = poller.plan
    BY <1>0, <1>1 DEF GetUpdates, EndBatch, MoveOffset, Loop
  <2> QED
    BY <2>2, <2>3
<1>2. CASE CommitUpdate
  BY <1>0, <1>2 DEF CommitUpdate, Loop
<1>3. CASE FailUpdate
  BY <1>0, <1>3 DEF FailUpdate, AfterFailure, Loop
<1>4. CASE Restart
  BY <1>4 DEF Restart, Stopped
<1>5. CASE \/ StartLink \/ Unlink \/ Invite \/ RequestRemoval \/ CancelRemoval
           \/ Watch \/ Tick
           \/ \E l \in Locks : StartLock(l) \/ ExpireLock(l)
           \/ \E chat \in Chats : SendUpdate(chat)
  BY <1>5 DEF StartLink, Unlink, Invite, RequestRemoval, CancelRemoval, Watch,
              ReadDue, DeleteDue, Tick, StartLock, ExpireLock, SendUpdate
<1> QED
  BY <1>1, <1>2, <1>3, <1>4, <1>5 DEF Next, PollerStep, vars

\* The update a plan is about is one that was sent, and stays as it is.
LEMMA PlanIsAboutAnUpdate ==
    ASSUME TypeInv
    PROVE  poller.phase = "read" => poller.next \in 1..Len(updates)
<1>1. /\ poller \in Loop /\ poller.last <= Len(updates)
      /\ poller.phase = "read" => poller.next <= poller.last
      /\ Len(updates) \in Nat
  BY DEF TypeInv, LoopTyped, UpdatesTyped
<1> QED
  BY <1>1 DEF Loop

LEMMA UpdatesStay ==
    ASSUME TypeInv, [Next]_vars
    PROVE  /\ Len(updates) \in Nat /\ Len(updates') \in Nat
           /\ Len(updates) <= Len(updates')
           /\ \A u \in 1..Len(updates) : updates'[u] = updates[u]
<1>0. updates \in Seq(Message) /\ Len(updates) \in Nat
  BY DEF TypeInv, UpdatesTyped
<1>1. ASSUME NEW chat \in Chats, SendUpdate(chat)
      PROVE  \E message \in Message : updates' = Append(updates, message)
  <2>1. PICK message : updates' = Append(updates, message)
    BY <1>1 DEF SendUpdate
  <2>2. updates' \in Seq(Message)
    BY TypeStep DEF TypeInv, UpdatesTyped
  <2>3. updates'[Len(updates')] = message /\ Len(updates') \in 1..Len(updates')
    BY <1>0, <2>1
  <2>4. message \in Message
    BY <2>2, <2>3
  <2> QED
    BY <2>1, <2>4
<1>2. CASE \E chat \in Chats : SendUpdate(chat)
  BY <1>0, <1>1, <1>2, Appended
<1>3. CASE UNCHANGED updates
  BY <1>0, <1>3
<1>4. CASE \/ StartLink \/ Unlink \/ Invite \/ RequestRemoval \/ CancelRemoval
           \/ Watch \/ Tick \/ PollerStep \/ Restart
           \/ \E l \in Locks : StartLock(l) \/ ExpireLock(l)
  <2>1. UNCHANGED updates
    BY <1>4 DEF StartLink, Unlink, Invite, RequestRemoval, CancelRemoval, Watch,
                ReadDue, DeleteDue, Tick, StartLock, ExpireLock, PollerStep,
                GetUpdates, ReadUpdate, CommitUpdate, MoveOffset, FailUpdate,
                EndBatch, Restart
  <2> QED
    BY <1>3, <2>1
<1> QED
  BY <1>2, <1>3, <1>4 DEF Next, vars

----------------------------------------------------------------------------
(* One chat for a code *)

\* A code that can still be used, and one a handler is about to use, has bound
\* nobody yet.
CodesOnce ==
    /\ \A c \in Codes : bound[c] = {} \/ \E chat \in Chats : bound[c] = {chat}
    /\ \A k \in Kinds : \A n \in 1..MaxCodes[k] :
           n > issued[k] => bound[<<k, n>>] = {}
    /\ link.code # 0 => bound[<<"link", link.code>>] = {}
    /\ contact.code # 0 => bound[<<"invite", contact.code>>] = {}
    /\ poller.plan \in {"link", "invite"} =>
           bound[<<updates[poller.next].kind, updates[poller.next].arg>>] = {}

\* A step that binds nobody.
LEMMA NobodyBound ==
    ASSUME TypeInv, CodesOnce, [Next]_vars, UNCHANGED bound
    PROVE  CodesOnce'
<1>0. /\ issued \in [Kinds -> Nat] /\ issued' \in [Kinds -> Nat]
      /\ issued'["link"] <= MaxCodes["link"]
      /\ issued'["invite"] <= MaxCodes["invite"]
      /\ MaxCodes["link"] \in Nat /\ MaxCodes["invite"] \in Nat
      /\ "link" \in Kinds /\ "invite" \in Kinds
      /\ contact.code \in Nat /\ link.code \in Nat
  <2>1. TypeInv'
    BY TypeStep
  <2> QED
    BY <2>1, TelegramAssumption DEF TypeInv, RowsTyped, UpdatesTyped, Kinds
<1>1. \A k \in Kinds : issued[k] <= issued'[k]
  <2>1. CASE StartLink \/ Invite
    BY <1>0, <2>1 DEF StartLink, Invite, Kinds
  <2>2. CASE UNCHANGED issued
    BY <1>0, <2>2
  <2>3. CASE \/ Unlink \/ RequestRemoval \/ CancelRemoval \/ Watch \/ Tick
             \/ PollerStep \/ Restart
             \/ \E l \in Locks : StartLock(l) \/ ExpireLock(l)
             \/ \E chat \in Chats : SendUpdate(chat)
    <3>1. UNCHANGED issued
      BY <2>3 DEF Unlink, RequestRemoval, CancelRemoval, Watch, ReadDue,
                  DeleteDue, Tick, StartLock, ExpireLock, SendUpdate, PollerStep,
                  GetUpdates, ReadUpdate, CommitUpdate, MoveOffset, FailUpdate,
                  EndBatch, Restart
    <3> QED
      BY <2>2, <3>1
  <2> QED
    BY <2>1, <2>2, <2>3 DEF Next, vars
<1>2. \A k \in Kinds : \A n \in 1..MaxCodes[k] :
          n > issued'[k] => bound'[<<k, n>>] = {}
  <2>1. ASSUME NEW k \in Kinds, NEW n \in 1..MaxCodes[k], n > issued'[k]
        PROVE  bound'[<<k, n>>] = {}
    <3>1. n > issued[k]
      BY <1>0, <1>1, <2>1
    <3> QED
      BY <2>1, <3>1 DEF CodesOnce
  <2> QED
    BY <2>1
<1>3. link'.code # 0 => bound'[<<"link", link'.code>>] = {}
  <2>1. CASE StartLink
    <3>1. /\ issued'["link"] = issued["link"] + 1
          /\ link'.code = issued'["link"]
      BY <1>0, <2>1 DEF StartLink, Started
    <3> QED
      BY <1>0, <3>1 DEF CodesOnce
  <2>2. CASE Unlink \/ CommitUpdate
    <3>1. link'.code = 0 \/ link' = link
      BY <2>2 DEF Unlink, CommitUpdate, NoLink, Linked, Consented, Lifted,
                  NothingToWrite, rows
    <3> QED
      BY <3>1 DEF CodesOnce
  <2>3. CASE UNCHANGED link
    BY <2>3 DEF CodesOnce
  <2>4. CASE \/ Invite \/ RequestRemoval \/ CancelRemoval \/ Watch \/ Tick
             \/ GetUpdates \/ ReadUpdate \/ MoveOffset \/ FailUpdate \/ EndBatch
             \/ Restart
             \/ \E l \in Locks : StartLock(l) \/ ExpireLock(l)
             \/ \E chat \in Chats : SendUpdate(chat)
    <3>1. UNCHANGED link
      BY <2>4 DEF Invite, RequestRemoval, CancelRemoval, Watch, ReadDue,
                  DeleteDue, Tick, StartLock, ExpireLock, SendUpdate, GetUpdates,
                  ReadUpdate, MoveOffset, FailUpdate, EndBatch, Restart, rows
    <3> QED
      BY <2>3, <3>1
  <2> QED
    BY <2>1, <2>2, <2>3, <2>4 DEF Next, PollerStep, vars, rows
<1>4. contact'.code # 0 => bound'[<<"invite", contact'.code>>] = {}
  <2>0. contact \in [id : 0..issued["invite"],
                     status : {"none", "pending", "confirmed"},
                     code : 0..issued["invite"], at : 0..Horizon,
                     chat : Chats \union {None},
                     removeAt : Moments \union {None}]
    BY DEF TypeInv, RowsTyped
  <2>1. CASE Invite
    <3>1. /\ issued'["invite"] = issued["invite"] + 1
          /\ contact'.code = issued'["invite"]
      BY <1>0, <2>1 DEF Invite, Invited
    <3> QED
      BY <1>0, <3>1 DEF CodesOnce
  <2>2. CASE contact'.code = 0 \/ contact'.code = contact.code
    BY <2>2 DEF CodesOnce
  <2>3. CASE RequestRemoval \/ CancelRemoval \/ DeleteDue
    <3>1. contact'.code = 0 \/ contact'.code = contact.code
      BY <2>0, <2>3 DEF RequestRemoval, CancelRemoval, DeleteDue, NoContact
    <3> QED
      BY <2>2, <3>1
  <2>6. CASE CommitUpdate
    <3>1. \/ UNCHANGED contact
          \/ \E chat : contact' = [contact EXCEPT !.status = "confirmed",
                                                !.code = 0, !.chat = chat]
      BY <2>6 DEF CommitUpdate, Linked, Consented, Lifted, NothingToWrite, rows
    <3>2. contact'.code = 0 \/ contact'.code = contact.code
      BY <2>0, <3>1
    <3> QED
      BY <2>2, <3>2
  <2>4. CASE \/ StartLink \/ Unlink \/ ReadDue \/ Tick
             \/ GetUpdates \/ ReadUpdate \/ MoveOffset \/ FailUpdate \/ EndBatch
             \/ Restart
             \/ \E l \in Locks : StartLock(l) \/ ExpireLock(l)
             \/ \E chat \in Chats : SendUpdate(chat)
    <3>1. UNCHANGED contact
      BY <2>4 DEF StartLink, Unlink, ReadDue, Tick, StartLock, ExpireLock,
                  SendUpdate, GetUpdates, ReadUpdate, MoveOffset, FailUpdate,
                  EndBatch, Restart, rows
    <3> QED
      BY <2>2, <3>1
  <2>5. CASE UNCHANGED vars
    BY <2>2, <2>5 DEF vars, rows
  <2> QED
    BY <2>1, <2>3, <2>4, <2>5, <2>6 DEF Next, Watch, PollerStep
<1>5. poller'.plan \in {"link", "invite"} =>
          bound'[<<updates'[poller'.next].kind, updates'[poller'.next].arg>>] = {}
  <2>1. CASE ReadUpdate
    <3>1. /\ poller.phase = "batch" /\ poller.next <= poller.last
          /\ poller \in Loop /\ poller.last <= Len(updates)
          /\ Len(updates) \in Nat /\ UNCHANGED updates
          /\ poller'.plan = Plan(poller.next) /\ poller'.next = poller.next
      BY <2>1 DEF ReadUpdate, TypeInv, LoopTyped, UpdatesTyped, Loop
    <3>2. poller.next \in 1..Len(updates)
      BY <3>1 DEF Loop
    <3>3. ASSUME Plan(poller.next) = "link"
          PROVE  bound[<<updates[poller.next].kind, updates[poller.next].arg>>] = {}
      <4>1. LinkAccepts(poller.next)
        BY <3>2, <3>3, PlanOfKind
      <4>2. updates[poller.next].arg \in 1..issued["link"]
        BY <3>2, <4>1 DEF LinkAccepts, TypeInv, UpdatesTyped
      <4> QED
        BY <4>1, <4>2 DEF LinkAccepts, CodesOnce
    <3>4. ASSUME Plan(poller.next) = "invite"
          PROVE  bound[<<updates[poller.next].kind, updates[poller.next].arg>>] = {}
      <4>1. InviteAccepts(poller.next)
        BY <3>2, <3>4, PlanOfKind
      <4>2. updates[poller.next].arg \in 1..issued["invite"]
        BY <3>2, <4>1 DEF InviteAccepts, TypeInv, UpdatesTyped
      <4> QED
        BY <4>1, <4>2 DEF InviteAccepts, CodesOnce
    <3> QED
      BY <3>1, <3>3, <3>4
  <2>2. CASE UNCHANGED poller
    <3>1. ASSUME poller.plan \in {"link", "invite"}
          PROVE  updates'[poller.next] = updates[poller.next]
      <4>1. poller.phase = "read"
        BY <3>1 DEF TypeInv, LoopTyped
      <4> QED
        BY <4>1, PlanIsAboutAnUpdate, UpdatesStay
    <3> QED
      BY <2>2, <3>1 DEF CodesOnce
  <2> QED
    BY <2>1, <2>2, PlanMoves
<1> QED
  BY <1>2, <1>3, <1>4, <1>5 DEF CodesOnce

\* A code is used by one handler, and is put out with it.
LEMMA OneBound ==
    ASSUME TypeInv, CodesOnce, CommitUpdate,
           Linked(poller.next) \/ Consented(poller.next)
    PROVE  CodesOnce'
<1>0. PICK u : u = poller.next
  OBVIOUS
<1>1. /\ u \in 1..Len(updates)
      /\ UNCHANGED <<issued, updates>>
      /\ poller'.plan = "nothing"
      /\ poller.plan \in {"link", "invite"}
      /\ poller.plan = updates[u].kind
      /\ bound' = Binding(u)
  <2>1. poller.phase = "read" /\ poller \in Loop
    BY DEF CommitUpdate, TypeInv, LoopTyped
  <2>2. u \in 1..Len(updates)
    BY <1>0, <2>1, PlanIsAboutAnUpdate
  <2> QED
    BY <1>0, <2>1, <2>2 DEF CommitUpdate, Linked, Consented, TypeInv, LoopTyped, Loop
<1>2. PICK k, n, chat : /\ k = updates[u].kind /\ n = updates[u].arg
                        /\ chat = updates[u].chat
  OBVIOUS
<1>3. /\ k \in Kinds /\ n \in 1..issued[k] /\ chat \in Chats
      /\ <<k, n>> \in Codes
      /\ bound \in [Codes -> SUBSET Chats]
      /\ bound' = [bound EXCEPT ![<<k, n>>] = @ \union {chat}]
      /\ bound[<<k, n>>] = {}
      /\ issued[k] \in Nat
  <2>1. <<k, n>> \in Codes
    BY <1>1, <1>2, CodeIsKnown DEF TypeInv, RowsTyped
  <2>2. updates[u] \in Message
    BY <1>1 DEF TypeInv, UpdatesTyped
  <2> QED
    BY <1>0, <1>1, <1>2, <2>1, <2>2
    DEF TypeInv, RowsTyped, UpdatesTyped, GhostsTyped, Message, Binding, CodesOnce,
        Kinds
<1>4. \A c \in Codes : bound'[c] = IF c = <<k, n>> THEN {chat} ELSE bound[c]
  BY <1>3
<1>5. \A c \in Codes : bound'[c] = {} \/ \E x \in Chats : bound'[c] = {x}
  BY <1>3, <1>4 DEF CodesOnce
<1>6. \A kk \in Kinds : \A m \in 1..MaxCodes[kk] :
          m > issued'[kk] => bound'[<<kk, m>>] = {}
  <2>1. ASSUME NEW kk \in Kinds, NEW m \in 1..MaxCodes[kk], m > issued[kk]
        PROVE  bound'[<<kk, m>>] = {}
    <3>1. <<kk, m>> \in Codes
      BY DEF Codes
    <3>2. <<kk, m>> # <<k, n>>
      BY <1>3, <2>1
    <3> QED
      BY <1>4, <2>1, <3>1, <3>2 DEF CodesOnce
  <2> QED
    BY <1>1, <2>1
<1>7. /\ issued["link"] \in Nat /\ issued["invite"] \in Nat
      /\ issued["link"] <= MaxCodes["link"]
      /\ issued["invite"] <= MaxCodes["invite"]
      /\ MaxCodes["link"] \in Nat /\ MaxCodes["invite"] \in Nat
  BY TelegramAssumption DEF TypeInv, RowsTyped, UpdatesTyped, Kinds
<1>8. CASE Linked(u)
  <2>1. k = "link" /\ link'.code = 0 /\ UNCHANGED contact
    BY <1>1, <1>2, <1>8 DEF Linked
  <2>2. contact'.code # 0 => bound'[<<"invite", contact'.code>>] = {}
    <3>1. ASSUME contact.code # 0
          PROVE  <<"invite", contact.code>> \in Codes
      <4>1. contact.code \in 1..MaxCodes["invite"]
        BY <1>7, <3>1 DEF TypeInv, RowsTyped
      <4> QED
        BY <4>1 DEF Codes, Kinds
    <3>2. <<"invite", contact.code>> # <<k, n>>
      BY <2>1
    <3> QED
      BY <1>4, <2>1, <3>1, <3>2 DEF CodesOnce
  <2> QED
    BY <1>1, <1>5, <1>6, <2>1, <2>2 DEF CodesOnce
<1>9. CASE Consented(u)
  <2>1. k = "invite" /\ UNCHANGED link /\ contact'.code = 0
    BY <1>1, <1>2, <1>9 DEF Consented, TypeInv, RowsTyped
  <2>2. link'.code # 0 => bound'[<<"link", link'.code>>] = {}
    <3>1. ASSUME link.code # 0
          PROVE  <<"link", link.code>> \in Codes
      <4>1. link.code \in 1..MaxCodes["link"]
        BY <1>7, <3>1 DEF TypeInv, RowsTyped
      <4> QED
        BY <4>1 DEF Codes, Kinds
    <3>2. <<"link", link.code>> # <<k, n>>
      BY <2>1
    <3> QED
      BY <1>4, <2>1, <3>1, <3>2 DEF CodesOnce
  <2> QED
    BY <1>1, <1>5, <1>6, <2>1, <2>2 DEF CodesOnce
<1> QED
  BY <1>0, <1>8, <1>9

LEMMA OnceStep ==
    ASSUME TypeInv, CodesOnce, [Next]_vars
    PROVE  CodesOnce'
<1>1. CASE UNCHANGED bound
  BY <1>1, NobodyBound
<1>2. CASE CommitUpdate
  <2>1. CASE Linked(poller.next) \/ Consented(poller.next)
    BY <1>2, <2>1, OneBound
  <2>2. CASE Lifted(poller.next) \/ NothingToWrite(poller.next)
    BY <1>1, <2>2 DEF Lifted, NothingToWrite
  <2> QED
    BY <1>2, <2>1, <2>2 DEF CommitUpdate
<1>3. CASE ~CommitUpdate
  <2>1. UNCHANGED bound
    BY <1>3 DEF Next, PollerStep, StartLink, Unlink, Invite, RequestRemoval,
                CancelRemoval, Watch, ReadDue, DeleteDue, Tick, StartLock,
                ExpireLock, SendUpdate, GetUpdates, ReadUpdate, MoveOffset,
                FailUpdate, EndBatch, Restart, vars, ghosts
  <2> QED
    BY <1>1, <2>1
<1> QED
  BY <1>2, <1>3

\* A code binds at most one chat, whatever Telegram repeats and whatever the
\* trader asks for while a handler is at work.
THEOREM CodesAreUsedOnce == Spec => []OneChatPerCode
<1>1. Init => CodesOnce
  BY DEF Init, CodesOnce, NoLink, NoContact, Stopped, Codes, Kinds
<1>2. TypeInv /\ CodesOnce /\ [Next]_vars => CodesOnce'
  BY OnceStep
<1>3. CodesOnce => OneChatPerCode
  <2>1. \A chat : Cardinality({chat}) = 1
    BY FS_Singleton, Zenon
  <2>2. Cardinality({}) <= 1
    BY FS_EmptySet
  <2>3. ASSUME CodesOnce, NEW c \in Codes PROVE Cardinality(bound[c]) <= 1
    <3>1. bound[c] = {} \/ \E chat \in Chats : bound[c] = {chat}
      BY <2>3 DEF CodesOnce
    <3>2. CASE bound[c] = {}
      BY <2>2, <3>2
    <3>3. CASE \E chat \in Chats : bound[c] = {chat}
      <4>1. PICK chat : bound[c] = {chat}
        BY <3>3
      <4>2. Cardinality(bound[c]) = 1
        BY <2>1, <4>1, Zenon
      <4> QED
        BY <4>2
    <3> QED
      BY <3>1, <3>2, <3>3
  <2> QED
    BY <2>3 DEF OneChatPerCode
<1> QED
  BY Typed, <1>1, <1>2, <1>3, PTL DEF Spec

----------------------------------------------------------------------------
(* Consent *)

HaveConsented == UNION {bound[<<"invite", n>>] : n \in 1..MaxCodes["invite"]}

\* The chat of a contact accepted an invitation; so did the one a handler
\* takes a press for, and the one that lifted a lock.
Consent ==
    /\ contact.chat # None => contact.chat \in HaveConsented
    /\ poller.plan = "press" => updates[poller.next].chat \in HaveConsented
    /\ \A l \in Locks :
           lifter[l] # 0 =>
               /\ lifter[l] \in 1..Len(updates)
               /\ updates[lifter[l]].arg = l
               /\ updates[lifter[l]].chat \in HaveConsented

LEMMA BoundGrows ==
    ASSUME TypeInv, [Next]_vars
    PROVE  HaveConsented \subseteq HaveConsented'
<1>1. /\ \A n \in 1..MaxCodes["invite"] : <<"invite", n>> \in Codes
      /\ bound \in [Codes -> SUBSET Chats]
  BY DEF TypeInv, GhostsTyped, Codes, Kinds
<1>2. CASE UNCHANGED bound
  BY <1>2 DEF HaveConsented
<1>3. CASE \E u : bound' = Binding(u)
  <2>1. PICK c, x : bound' = [bound EXCEPT ![c] = @ \union {x}]
    BY <1>3, Zenon DEF Binding
  <2>2. \A n \in 1..MaxCodes["invite"] :
            bound[<<"invite", n>>] \subseteq bound'[<<"invite", n>>]
    BY <1>1, <2>1
  <2> QED
    BY <2>2 DEF HaveConsented
<1>4. CASE CommitUpdate
  <2>1. UNCHANGED bound \/ bound' = Binding(poller.next)
    BY <1>4 DEF CommitUpdate, Linked, Consented, Lifted, NothingToWrite
  <2> QED
    BY <1>2, <1>3, <2>1
<1>5. CASE ~CommitUpdate
  <2>1. UNCHANGED bound
    BY <1>5 DEF Next, PollerStep, StartLink, Unlink, Invite, RequestRemoval,
                CancelRemoval, Watch, ReadDue, DeleteDue, Tick, StartLock,
                ExpireLock, SendUpdate, GetUpdates, ReadUpdate, MoveOffset,
                FailUpdate, EndBatch, Restart, vars, ghosts
  <2> QED
    BY <1>2, <2>1
<1> QED
  BY <1>4, <1>5

LEMMA ConsentStep ==
    ASSUME TypeInv, Consent, [Next]_vars
    PROVE  Consent'
<1>0. /\ contact \in [id : 0..issued["invite"],
                     status : {"none", "pending", "confirmed"},
                     code : 0..issued["invite"], at : 0..Horizon,
                     chat : Chats \union {None},
                     removeAt : Moments \union {None}]
      /\ poller \in Loop
      /\ lifter \in [Locks -> 0..MaxUpdates]
      /\ Len(updates) \in Nat
  BY DEF TypeInv, RowsTyped, LoopTyped, GhostsTyped, UpdatesTyped
<1>1. contact'.chat # None => contact'.chat \in HaveConsented'
  <2>1. CASE contact'.chat = None \/ contact'.chat = contact.chat
    BY <2>1, BoundGrows DEF Consent
  <2>2. CASE CommitUpdate
    <3>1. PICK u : u = poller.next
      OBVIOUS
    <3>2. CASE Consented(u)
      <4>1. /\ u \in 1..Len(updates) /\ updates[u].kind = "invite"
            /\ contact'.chat = updates[u].chat
            /\ bound' = Binding(u)
        BY <1>0, <2>2, <3>1, <3>2, PlanIsAboutAnUpdate
        DEF CommitUpdate, Consented, TypeInv, LoopTyped
      <4>2. /\ <<"invite", updates[u].arg>> \in Codes
            /\ updates[u].arg \in 1..MaxCodes["invite"]
        BY <4>1, CodeIsKnown DEF TypeInv, RowsTyped
      <4>3. contact'.chat \in bound'[<<"invite", updates[u].arg>>]
        BY <4>1, <4>2 DEF Binding, TypeInv, GhostsTyped
      <4> QED
        BY <4>2, <4>3 DEF HaveConsented
    <3>3. CASE Linked(u) \/ Lifted(u) \/ NothingToWrite(u)
      BY <2>1, <3>3 DEF Linked, Lifted, NothingToWrite, rows
    <3> QED
      BY <2>2, <3>1, <3>2, <3>3 DEF CommitUpdate
  <2>3. CASE Invite \/ RequestRemoval \/ CancelRemoval \/ DeleteDue
    <3>1. contact'.chat = None \/ contact'.chat = contact.chat
      BY <1>0, <2>3 DEF Invite, Invited, RequestRemoval, CancelRemoval, DeleteDue,
                        NoContact
    <3> QED
      BY <2>1, <3>1
  <2>4. CASE \/ StartLink \/ Unlink \/ ReadDue \/ Tick
             \/ GetUpdates \/ ReadUpdate \/ MoveOffset \/ FailUpdate \/ EndBatch
             \/ Restart
             \/ \E l \in Locks : StartLock(l) \/ ExpireLock(l)
             \/ \E chat \in Chats : SendUpdate(chat)
    <3>1. UNCHANGED contact
      BY <2>4 DEF StartLink, Unlink, ReadDue, Tick, StartLock, ExpireLock,
                  SendUpdate, GetUpdates, ReadUpdate, MoveOffset, FailUpdate,
                  EndBatch, Restart, rows
    <3> QED
      BY <2>1, <3>1
  <2>5. CASE UNCHANGED vars
    BY <2>1, <2>5 DEF vars, rows
  <2> QED
    BY <2>2, <2>3, <2>4, <2>5 DEF Next, Watch, PollerStep
<1>2. poller'.plan = "press" => updates'[poller'.next].chat \in HaveConsented'
  <2>1. CASE ReadUpdate
    <3>1. /\ poller.phase = "batch" /\ poller.next <= poller.last
          /\ poller.last <= Len(updates) /\ UNCHANGED updates
          /\ poller'.plan = Plan(poller.next) /\ poller'.next = poller.next
      BY <1>0, <2>1 DEF ReadUpdate, TypeInv, LoopTyped, Loop
    <3>2. poller.next \in 1..Len(updates)
      BY <1>0, <3>1 DEF Loop
    <3>3. ASSUME Plan(poller.next) = "press"
          PROVE  updates[poller.next].chat \in HaveConsented
      <4>1. PressAccepts(poller.next)
        BY <3>2, <3>3, PlanOfKind
      <4> QED
        BY <4>1 DEF PressAccepts, TypeInv, RowsTyped, Consent
    <3> QED
      BY <3>1, <3>3, BoundGrows
  <2>2. CASE UNCHANGED poller
    <3>1. ASSUME poller.plan = "press"
          PROVE  updates'[poller.next] = updates[poller.next]
      <4>1. poller.phase = "read"
        BY <3>1 DEF TypeInv, LoopTyped
      <4> QED
        BY <4>1, PlanIsAboutAnUpdate, UpdatesStay
    <3> QED
      BY <2>2, <3>1, BoundGrows DEF Consent
  <2> QED
    BY <2>1, <2>2, PlanMoves
<1>3. ASSUME NEW l \in Locks, lifter'[l] # 0
      PROVE  /\ lifter'[l] \in 1..Len(updates')
             /\ updates'[lifter'[l]].arg = l
             /\ updates'[lifter'[l]].chat \in HaveConsented'
  <2>1. CASE lifter'[l] = lifter[l]
    <3>1. /\ lifter[l] \in 1..Len(updates) /\ updates[lifter[l]].arg = l
          /\ updates[lifter[l]].chat \in HaveConsented
      BY <1>3, <2>1 DEF Consent
    <3>2. updates'[lifter[l]] = updates[lifter[l]]
      BY <3>1, UpdatesStay
    <3>3. lifter[l] \in 1..Len(updates')
      BY <3>1, UpdatesStay
    <3> QED
      BY <2>1, <3>1, <3>2, <3>3, BoundGrows
  <2>2. CASE CommitUpdate /\ lifter'[l] # lifter[l]
    <3>1. PICK u : u = poller.next
      OBVIOUS
    <3>2. Lifted(u)
      BY <2>2, <3>1 DEF CommitUpdate, Linked, Consented, NothingToWrite
    <3>3. /\ u \in 1..Len(updates)
          /\ lifter' = [lifter EXCEPT ![updates[u].arg] = u]
          /\ poller.plan = "press"
          /\ UNCHANGED updates
      BY <2>2, <3>1, <3>2, PlanIsAboutAnUpdate DEF CommitUpdate, Lifted
    <3>4. updates[u].arg = l /\ lifter'[l] = u
      BY <1>0, <2>2, <3>3
    <3>5. updates[u].chat \in HaveConsented
      BY <3>1, <3>3 DEF Consent
    <3> QED
      BY <3>3, <3>4, <3>5, BoundGrows
  <2>3. CASE ~CommitUpdate
    <3>1. UNCHANGED lifter
      BY <2>3 DEF Next, PollerStep, StartLink, Unlink, Invite, RequestRemoval,
                  CancelRemoval, Watch, ReadDue, DeleteDue, Tick, StartLock,
                  ExpireLock, SendUpdate, GetUpdates, ReadUpdate, MoveOffset,
                  FailUpdate, EndBatch, Restart, vars, ghosts
    <3> QED
      BY <2>1, <3>1
  <2> QED
    BY <2>1, <2>2, <2>3
<1> QED
  BY <1>1, <1>2, <1>3 DEF Consent

\* A lock is lifted only through its own button, by a chat that accepted an
\* invitation, for any number of chats, locks and restarts.
THEOREM LiftsAreConsented == Spec => []LiftedByConsent
<1>1. Init => Consent
  BY DEF Init, Consent, NoContact, Stopped
<1>2. TypeInv /\ Consent /\ [Next]_vars => Consent'
  BY ConsentStep
<1>3. Consent => LiftedByConsent
  <2>1. ASSUME Consent, NEW l \in Locks, lifter[l] # 0
        PROVE  /\ updates[lifter[l]].arg = l
               /\ updates[lifter[l]].chat \in HaveConsented
    BY <2>1 DEF Consent
  <2>2. \A chat \in HaveConsented :
            \E n \in 1..MaxCodes["invite"] : chat \in bound[<<"invite", n>>]
    BY DEF HaveConsented
  <2> QED
    BY <2>1, <2>2 DEF LiftedByConsent
<1> QED
  BY Typed, <1>1, <1>2, <1>3, PTL DEF Spec
=============================================================================
