------------------------------ MODULE Telegram ------------------------------
(***************************************************************************)
(* What the bot hears (notifications/service.py, telegram/poller.py,       *)
(* app/bot.py): the link of the trader's own account, the trusted contact  *)
(* with the double consent, and the polling of updates that carries both.  *)
(*                                                                         *)
(* The chats write to Telegram, which keeps an update until a later offset *)
(* confirms it.  One poller takes the unconfirmed updates as a batch and   *)
(* handles them one by one, each in a transaction of its own: it reads the *)
(* row, then writes it, while the trader's requests go on.                 *)
(***************************************************************************)
EXTENDS Integers, Sequences, FiniteSets

CONSTANTS
    Chats,              \* chats that may write to the bot
    Locks,              \* locks the trusted contact may be asked to lift
    None,
    LinkTtl,            \* LINK_TTL_MIN
    InviteTtl,          \* INVITE_TTL_HOURS
    RemovalDelay,       \* REMOVAL_DELAY_HOURS
    MaxUpdateAttempts,  \* MAX_UPDATE_ATTEMPTS
    Poison,             \* updates whose handler always fails
    MaxFailures,        \* bound: other failures of the handler
    MaxCrashes,         \* bound: ends of the polling loop
    MaxCodes,           \* bound: kind -> codes issued
    MaxUpdates,         \* bound: updates the chats send
    Horizon             \* bound: the clock

ASSUME TelegramAssumption ==
    /\ {LinkTtl, InviteTtl, RemovalDelay} \subseteq Nat \ {0}
    /\ MaxUpdateAttempts \in Nat \ {0}
    /\ MaxCodes \in [{"link", "invite"} -> Nat]
    /\ {MaxFailures, MaxCrashes, MaxUpdates, Horizon} \subseteq Nat
    /\ Poison \subseteq 1..MaxUpdates
    /\ None \notin Chats \union Locks
    /\ None \notin Nat

VARIABLES
    now,
    issued,     \* codes issued so far, of either kind
    link,       \* notify.telegram_links: the row of the trader
    contact,    \* notify.contacts: the row of the trader
    due,        \* the contact the watch has read as due for removal
    lock,       \* Locks -> state of the lock, as the confirmation sees it
    updates,    \* what the chats sent; the index is update_id
    confirmed,  \* Telegram: the last update a later offset confirmed
    poller,     \* the polling loop
    failures,   \* failures of the handler that are not the update's fault
    crashes,
    handled,    \* update -> times its transaction committed
    bound,      \* code -> chats it was ever bound to
    asked,      \* when the standing removal was asked for
    lifter      \* Locks -> the update that lifted it, 0 for none

rows == <<link, contact, lock>>
ghosts == <<handled, bound, asked, lifter>>
vars == <<now, issued, rows, due, updates, confirmed, poller, failures,
          crashes, ghosts>>

Kinds   == {"link", "invite"}
Codes   == UNION {{k} \X (1..MaxCodes[k]) : k \in Kinds}
Moments == 0..Horizon + LinkTtl + InviteTtl + RemovalDelay

NoLink    == [state |-> "none", code |-> 0, until |-> 0, chat |-> None]
NoContact == [id |-> 0, status |-> "none", code |-> 0, at |-> 0,
              chat |-> None, removeAt |-> None]

\* plan: what the handler makes of the row it has read; 0 offset: None.
Stopped == [phase |-> "poll", offset |-> 0, next |-> 1, last |-> 0,
            failedId |-> 0, attempts |-> 0, plan |-> "nothing", of |-> 0]

TypeOK ==
    /\ now \in 0..Horizon
    /\ issued \in [Kinds -> Nat]
    /\ link \in [state : {"none", "pending", "linked"}, code : 0..issued["link"],
                 until : Moments, chat : Chats \union {None}]
    /\ contact \in [id : 0..issued["invite"],
                    status : {"none", "pending", "confirmed"},
                    code : 0..issued["invite"], at : 0..Horizon,
                    chat : Chats \union {None},
                    removeAt : Moments \union {None}]
    /\ link.state = "linked" <=> link.chat # None
    /\ contact.status = "confirmed" <=> contact.chat # None
    /\ contact = NoContact <=> contact.id = 0
    /\ due \in 0..issued["invite"]
    /\ lock \in [Locks -> {"none", "active", "lifted", "expired"}]
    /\ Len(updates) <= MaxUpdates
    /\ confirmed \in 0..Len(updates)
    /\ poller.phase \in {"poll", "batch", "read", "committed"}
    /\ poller.offset \in 0..Len(updates) + 1
    /\ poller.last \in 0..Len(updates)
    /\ poller.attempts \in 0..MaxUpdateAttempts
    /\ poller.plan \in {"nothing", "link", "invite", "press"}
    /\ handled \in [1..MaxUpdates -> Nat]
    /\ bound \in [Codes -> SUBSET Chats]
    /\ asked \in (0..Horizon) \union {None}
    /\ lifter \in [Locks -> 0..MaxUpdates]

Init ==
    /\ now = 0
    /\ issued = [k \in Kinds |-> 0]
    /\ link = NoLink
    /\ contact = NoContact
    /\ due = 0
    /\ lock = [l \in Locks |-> "none"]
    /\ updates = <<>>
    /\ confirmed = 0
    /\ poller = Stopped
    /\ failures = 0
    /\ crashes = 0
    /\ handled = [u \in 1..MaxUpdates |-> 0]
    /\ bound = [c \in Codes |-> {}]
    /\ asked = None
    /\ lifter = [l \in Locks |-> 0]

----------------------------------------------------------------------------
(* The trader's requests *)

\* start_link: the row with a new code; a link that stood is gone.
Started(code) == [state |-> "pending", code |-> code,
                  until |-> now + LinkTtl, chat |-> None]

StartLink ==
    /\ issued["link"] < MaxCodes["link"]
    /\ issued' = [issued EXCEPT !["link"] = @ + 1]
    /\ link' = Started(issued'["link"])
    /\ UNCHANGED <<now, contact, due, lock, updates, confirmed, poller,
                   failures, crashes, ghosts>>

Unlink ==
    /\ link # NoLink
    /\ link' = NoLink
    /\ UNCHANGED <<now, issued, contact, due, lock, updates, confirmed, poller,
                   failures, crashes, ghosts>>

\* invite: a row that waits for consent is reused, its old code and its
\* removal are gone.  A new row's id is the number of its first code.
Invited(code) ==
    [id |-> IF contact = NoContact THEN code ELSE contact.id,
     status |-> "pending", code |-> code, at |-> now, chat |-> None,
     removeAt |-> None]

\* invite_contact and resend_invite: refused once the contact has consented.
Invite ==
    /\ issued["invite"] < MaxCodes["invite"]
    /\ contact.status # "confirmed"
    /\ issued' = [issued EXCEPT !["invite"] = @ + 1]
    /\ contact' = Invited(issued'["invite"])
    /\ asked' = None
    /\ UNCHANGED <<now, link, due, lock, updates, confirmed, poller, failures,
                   crashes, handled, bound, lifter>>

HasActiveLock == \E l \in Locks : lock[l] = "active"

\* Mutant: the day of delay is forgotten.
RequestRemovalAtOnce ==
    /\ contact # NoContact
    /\ ~HasActiveLock
    /\ contact' = [contact EXCEPT !.removeAt = now]
    /\ asked' = now
    /\ UNCHANGED <<now, issued, link, due, lock, updates, confirmed, poller,
                   failures, crashes, handled, bound, lifter>>

\* remove_contact: not while a lock is active; asked again, the day starts
\* again.
RequestRemoval ==
    /\ contact # NoContact
    /\ ~HasActiveLock
    /\ contact' = [contact EXCEPT !.removeAt = now + RemovalDelay]
    /\ asked' = now
    /\ UNCHANGED <<now, issued, link, due, lock, updates, confirmed, poller,
                   failures, crashes, handled, bound, lifter>>

CancelRemoval ==
    /\ contact.removeAt # None
    /\ contact' = [contact EXCEPT !.removeAt = None]
    /\ asked' = None
    /\ UNCHANGED <<now, issued, link, due, lock, updates, confirmed, poller,
                   failures, crashes, handled, bound, lifter>>

----------------------------------------------------------------------------
(* The watch and the locks *)

\* apply_due_removals reads the rows that are due, then deletes them by id: a
\* request in between is not asked.
ReadDue ==
    /\ due = 0
    /\ contact.removeAt # None
    /\ contact.removeAt <= now
    /\ due' = contact.id
    /\ UNCHANGED <<now, issued, rows, updates, confirmed, poller, failures,
                   crashes, ghosts>>

DeleteDue ==
    /\ due # 0
    /\ due' = 0
    /\ contact' = IF contact.id = due THEN NoContact ELSE contact
    /\ asked' = IF contact.id = due THEN None ELSE asked
    /\ UNCHANGED <<now, issued, link, lock, updates, confirmed, poller,
                   failures, crashes, handled, bound, lifter>>

\* _watch_all, every minute.
Watch == ReadDue \/ DeleteDue

\* The engine starts a lock when none is active and ends it with the day.
StartLock(l) ==
    /\ lock[l] = "none"
    /\ ~HasActiveLock
    /\ lock' = [lock EXCEPT ![l] = "active"]
    /\ UNCHANGED <<now, issued, link, contact, due, updates, confirmed, poller,
                   failures, crashes, ghosts>>

ExpireLock(l) ==
    /\ lock[l] = "active"
    /\ lock' = [lock EXCEPT ![l] = "expired"]
    /\ UNCHANGED <<now, issued, link, contact, due, updates, confirmed, poller,
                   failures, crashes, ghosts>>

Tick ==
    /\ now < Horizon
    /\ now' = now + 1
    /\ UNCHANGED <<issued, rows, due, updates, confirmed, poller, failures,
                   crashes, ghosts>>

----------------------------------------------------------------------------
(* Updates *)

\* A chat opens a link with a code that was issued, or presses the button
\* under a request about a lock that has started.
Says(chat) ==
    [kind : {"link"}, arg : 1..issued["link"], chat : {chat}]
      \union [kind : {"invite"}, arg : 1..issued["invite"], chat : {chat}]
      \union [kind : {"press"}, arg : {l \in Locks : lock[l] # "none"},
              chat : {chat}]

SendUpdate(chat) ==
    /\ Len(updates) < MaxUpdates
    /\ \E message \in Says(chat) : updates' = Append(updates, message)
    /\ UNCHANGED <<now, issued, rows, due, confirmed, poller, failures,
                   crashes, ghosts>>

\* Mutant: getUpdates is called without the offset.
GetUpdatesAll ==
    /\ poller.phase = "poll"
    /\ confirmed < Len(updates)
    /\ poller' = [poller EXCEPT !.phase = "batch", !.next = confirmed + 1,
                                !.last = Len(updates)]
    /\ UNCHANGED <<now, issued, rows, due, updates, confirmed, failures,
                   crashes, ghosts>>

\* get_updates(offset): everything from the offset on, or all that is not
\* confirmed; the offset confirms what is before it.  An empty answer and a
\* failed request change nothing but the pause.
GetUpdates ==
    LET from == IF poller.offset = 0 THEN confirmed + 1 ELSE poller.offset
    IN  /\ poller.phase = "poll"
        /\ from <= Len(updates) \/ confirmed # from - 1
        /\ confirmed' = from - 1
        /\ poller' = [poller EXCEPT !.phase = "batch", !.next = from,
                                    !.last = Len(updates)]
        /\ UNCHANGED <<now, issued, rows, due, updates, failures, crashes,
                       ghosts>>

\* What the handler finds when it reads: complete_link, confirm_contact and
\* contact_by_chat, each with its refusals.
LinkAccepts(u) ==
    /\ updates[u].kind = "link"
    /\ link.code = updates[u].arg
    /\ now <= link.until

InviteAccepts(u) ==
    /\ updates[u].kind = "invite"
    /\ contact.code = updates[u].arg
    /\ now <= contact.at + InviteTtl

\* Mutant: whoever presses is taken for the contact.
PressAcceptsAnyone(u) ==
    /\ updates[u].kind = "press"
    /\ contact # NoContact

PressAccepts(u) ==
    /\ updates[u].kind = "press"
    /\ contact.status = "confirmed"
    /\ contact.chat = updates[u].chat

Plan(u) ==
    CASE LinkAccepts(u)   -> "link"
      [] InviteAccepts(u) -> "invite"
      [] PressAccepts(u)  -> "press"
      [] OTHER            -> "nothing"

ReadUpdate ==
    /\ poller.phase = "batch"
    /\ poller.next <= poller.last
    /\ poller' = [poller EXCEPT !.phase = "read", !.plan = Plan(poller.next),
                                !.of = contact.id]
    /\ UNCHANGED <<now, issued, rows, due, updates, confirmed, failures,
                   crashes, ghosts>>

Binding(u) == [bound EXCEPT ![<<updates[u].kind, updates[u].arg>>] =
                                @ \union {updates[u].chat}]

\* Mutant: the code is not put out.
LinkedKeepingCode(u) ==
    /\ poller.plan = "link"
    /\ link # NoLink
    /\ link' = [link EXCEPT !.state = "linked", !.chat = updates[u].chat]
    /\ bound' = Binding(u)
    /\ UNCHANGED <<contact, lock, lifter>>

\* The row is written by its key: gone meanwhile, the write fails.
Linked(u) ==
    /\ poller.plan = "link"
    /\ link # NoLink
    /\ link' = [state |-> "linked", code |-> 0, until |-> 0,
                chat |-> updates[u].chat]
    /\ bound' = Binding(u)
    /\ UNCHANGED <<contact, lock, lifter>>

Consented(u) ==
    /\ poller.plan = "invite"
    /\ contact.id = poller.of
    /\ contact' = [contact EXCEPT !.status = "confirmed", !.code = 0,
                                  !.chat = updates[u].chat]
    /\ bound' = Binding(u)
    /\ UNCHANGED <<link, lock, lifter>>

\* confirm_by_buddy on the lock the button names; nothing else is awaited.
Lifted(u) ==
    /\ poller.plan = "press"
    /\ lock[updates[u].arg] = "active"
    /\ lock' = [lock EXCEPT ![updates[u].arg] = "lifted"]
    /\ lifter' = [lifter EXCEPT ![updates[u].arg] = u]
    /\ UNCHANGED <<link, contact, bound>>

NothingToWrite(u) ==
    /\ \/ poller.plan = "nothing"
       \/ poller.plan = "press" /\ lock[updates[u].arg] # "active"
    /\ UNCHANGED <<rows, bound, lifter>>

CommitUpdate ==
    LET u == poller.next
    IN  /\ poller.phase = "read"
        /\ u \notin Poison
        /\ Linked(u) \/ Consented(u) \/ Lifted(u) \/ NothingToWrite(u)
        /\ handled' = [handled EXCEPT ![u] = @ + 1]
        /\ poller' = [poller EXCEPT !.phase = "committed", !.plan = "nothing",
                                    !.of = 0]
        /\ UNCHANGED <<now, issued, due, updates, confirmed, failures, crashes,
                       asked>>

\* The offset moves after the handler.
MoveOffset ==
    /\ poller.phase = "committed"
    /\ poller' = [poller EXCEPT !.phase = "batch", !.offset = poller.next + 1,
                                !.next = @ + 1, !.failedId = 0, !.attempts = 0]
    /\ UNCHANGED <<now, issued, rows, due, updates, confirmed, failures,
                   crashes, ghosts>>

\* The row the handler is to write is gone.
WriteFails ==
    \/ poller.plan = "link" /\ link = NoLink
    \/ poller.plan = "invite" /\ contact.id # poller.of

\* _count_failure: the attempts of the last update that failed.
Attempts == IF poller.failedId = poller.next THEN poller.attempts + 1 ELSE 1

\* Below the limit the offset stays, but the loop goes on with the batch.
AfterFailure ==
    [poller EXCEPT !.phase = "batch", !.next = @ + 1, !.plan = "nothing",
                   !.of = 0, !.failedId = poller.next, !.attempts = Attempts,
                   !.offset = IF Attempts < MaxUpdateAttempts
                              THEN @ ELSE poller.next + 1]

FailUpdate ==
    /\ poller.phase = "read"
    /\ \/ /\ poller.next \in Poison \/ WriteFails
          /\ failures' = failures
       \/ /\ failures < MaxFailures
          /\ failures' = failures + 1
    /\ poller' = AfterFailure
    /\ UNCHANGED <<now, issued, rows, due, updates, confirmed, crashes, ghosts>>

EndBatch ==
    /\ poller.phase = "batch"
    /\ poller.next > poller.last
    /\ poller' = [poller EXCEPT !.phase = "poll", !.next = 1, !.last = 0]
    /\ UNCHANGED <<now, issued, rows, due, updates, confirmed, failures,
                   crashes, ghosts>>

\* The process dies, the token is refused or the loop is reloaded: _supervise
\* starts a new Poller, which knows no offset and no failures.
Restart ==
    /\ crashes < MaxCrashes
    /\ poller # Stopped
    /\ crashes' = crashes + 1
    /\ poller' = Stopped
    /\ UNCHANGED <<now, issued, rows, due, updates, confirmed, failures,
                   ghosts>>

PollerStep == GetUpdates \/ ReadUpdate \/ CommitUpdate \/ MoveOffset
                \/ FailUpdate \/ EndBatch

Next ==
    \/ StartLink \/ Unlink \/ Invite \/ RequestRemoval \/ CancelRemoval
    \/ Watch \/ Tick
    \/ \E l \in Locks : StartLock(l) \/ ExpireLock(l)
    \/ \E chat \in Chats : SendUpdate(chat)
    \/ PollerStep \/ Restart

Spec == Init /\ [][Next]_vars

----------------------------------------------------------------------------
(* Properties *)

\* complete_link, confirm_contact: a code is put out when it is used, so no
\* second chat is ever bound by it, whatever Telegram repeats.
OneChatPerCode == \A c \in Codes : Cardinality(bound[c]) <= 1

\* A lock is lifted only by the chat of somebody who accepted an invitation,
\* through the button of that very lock.
LiftedByConsent ==
    \A l \in Locks :
        lifter[l] # 0 =>
            /\ updates[lifter[l]].arg = l
            /\ \E n \in 1..MaxCodes["invite"] :
                   updates[lifter[l]].chat \in bound[<<"invite", n>>]

\* ТЗ 6.8: a contact is found due for removal no sooner than a day after the
\* last request that was not withdrawn.
RemovalTakesADay ==
    [][due' # 0 /\ due = 0 => asked # None /\ now >= asked + RemovalDelay]_vars

\* poller.py: the offset moves after the handler, so an update is handled
\* again only if the loop ended in between.
RepeatsNeedRestarts == \A u \in 1..MaxUpdates : handled[u] <= 1 + crashes

=============================================================================
