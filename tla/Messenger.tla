----------------------------- MODULE Messenger ------------------------------
(***************************************************************************)
(* What the bot says (app/notify.py, notifications/service.py, BotRunner   *)
(* of app/bot.py): events of the bus become rows of notify.outbound, and   *)
(* one loop sends the rows that are due.                                   *)
(*                                                                         *)
(* The bus may bring an event late and more than once.  Whether a message  *)
(* may go, and where to, is decided when its row is written; a batch of    *)
(* rows is sent one by one and saved in one transaction at its end, so a   *)
(* crash forgets what was already sent.                                    *)
(***************************************************************************)
EXTENDS Integers, Sequences, FiniteSets, SequencesExt

CONSTANTS
    Events,         \* domain events the notify consumer takes
    Incidents,      \* those that tell of a recorded incident
    Reminders,      \* those the clock brings about and no event tells (SR-4)
    MessagesOf,     \* event -> the messages its handler writes, by dedup key
    Channel,        \* message -> SELF or BUDDY
    Chats, None,
    MaxSendAttempts,
    BatchLimit,     \* limit of dispatch
    MaxLost,        \* bound: answers of Telegram that are lost
    MaxCrashes      \* bound: ends of the sending loop

Messages == UNION {MessagesOf[e] : e \in Events}
Channels == {"self", "buddy"}

ASSUME MessengerAssumption ==
    /\ Incidents \subseteq Events /\ Reminders \subseteq Events
    /\ \A e \in Events : IsFiniteSet(MessagesOf[e])
    /\ \A e, f \in Events :
           e # f => MessagesOf[e] \intersect MessagesOf[f] = {}
    /\ Channel \in [Messages -> Channels]
    /\ None \notin Chats
    /\ MaxSendAttempts \in Nat \ {0}
    /\ BatchLimit \in Nat \ {0}
    /\ {MaxLost, MaxCrashes} \subseteq Nat

VARIABLES
    shadow,     \* shadow_mode of the settings
    enabled,    \* telegram_enabled
    chatOf,     \* channel -> the linked chat or that of the consenting contact
    event,      \* Events -> not yet, published, or published in shadow mode
    claimed,    \* reminders in the journal of the rules
    row,        \* Messages -> the row of notify.outbound
    queue,      \* the messages by created_at
    sender,     \* the dispatch under way: places in the queue of the rows to
                \* go, rows to be saved
    lost, crashes,
    reached     \* Messages -> sequence of chats it was delivered to

settings == <<shadow, enabled, chatOf>>
vars == <<settings, event, claimed, row, queue, sender, lost, crashes, reached>>

NoRow == [state |-> "none", chat |-> None, attempts |-> 0, waits |-> FALSE]
Rows  == [state : {"none", "queued", "sent", "failed", "skipped"},
          chat : Chats \union {None}, attempts : 0..MaxSendAttempts,
          waits : BOOLEAN]

Idle == [busy |-> FALSE, todo |-> {}, done |-> {}]

\* A queued message knows its chat: dispatch has an answer for one that does
\* not, and never needs it.
TypeOK ==
    /\ shadow \in BOOLEAN
    /\ enabled \in BOOLEAN
    /\ chatOf \in [Channels -> Chats \union {None}]
    /\ event \in [Events -> {"none", "published", "shadow"}]
    /\ claimed \subseteq Reminders
    /\ row \in [Messages -> Rows]
    /\ \A m \in Messages : row[m].state = "queued" => row[m].chat # None
    /\ \A m \in Messages : row[m].state = "none" <=> ~Contains(queue, m)
    /\ queue \in Seq(Messages)
    /\ sender \in [busy : BOOLEAN, todo : SUBSET (DOMAIN queue),
                   done : SUBSET [message : Messages, row : Rows]]
    /\ lost \in 0..MaxLost
    /\ crashes \in 0..MaxCrashes
    /\ reached \in [Messages -> Seq(Chats)]

Init ==
    /\ shadow \in BOOLEAN
    /\ enabled = TRUE
    /\ chatOf = [c \in Channels |-> None]
    /\ event = [e \in Events |-> "none"]
    /\ claimed = {}
    /\ row = [m \in Messages |-> NoRow]
    /\ queue = <<>>
    /\ sender = Idle
    /\ lost = 0
    /\ crashes = 0
    /\ reached = [m \in Messages |-> <<>>]

----------------------------------------------------------------------------
(* The trader's settings; the links change as Telegram.tla says *)

Unchanged == UNCHANGED <<event, claimed, row, queue, sender, lost, crashes,
                         reached>>

SwitchShadow ==
    /\ shadow' = ~shadow
    /\ UNCHANGED <<enabled, chatOf>> /\ Unchanged

SwitchTelegram ==
    /\ enabled' = ~enabled
    /\ UNCHANGED <<shadow, chatOf>> /\ Unchanged

SetChat(channel, chat) ==
    /\ chatOf[channel] # chat
    /\ chat # None => chatOf[channel] = None
    /\ chatOf' = [chatOf EXCEPT ![channel] = chat]
    /\ UNCHANGED <<shadow, enabled>> /\ Unchanged

----------------------------------------------------------------------------
(* From an event to the queue *)

\* An incident keeps the mode it was recorded in.
Publish(e) ==
    /\ event[e] = "none"
    /\ event' = [event EXCEPT ![e] =
         IF e \in Incidents /\ shadow THEN "shadow" ELSE "published"]
    /\ UNCHANGED <<settings, claimed, row, queue, sender, lost, crashes, reached>>

\* _gate: the first reason not to send.
Gate(m) == ~shadow /\ enabled /\ chatOf[Channel[m]] # None

RowOf(m) ==
    IF Gate(m)
    THEN [state |-> "queued", chat |-> chatOf[Channel[m]], attempts |-> 0,
          waits |-> FALSE]
    ELSE [NoRow EXCEPT !.state = "skipped"]

\* enqueue: the dedup key makes a repeat write nothing.
New(e) == {m \in MessagesOf[e] : row[m].state = "none"}

\* _on_incident: an incident of the observation mode says nothing.
Speaks(e) == event[e] = "published"

\* send: every message of the occasion, in the transaction of the caller.
Enqueue(e) ==
    /\ row' = [m \in Messages |-> IF m \in New(e) THEN RowOf(m) ELSE row[m]]
    /\ queue' = queue \o SetToSeq({m \in New(e) : ~Contains(queue, m)})

\* on_event: the alert and the signal of one event; any number of times.
Handle(e) ==
    /\ e \notin Reminders
    /\ Speaks(e)
    /\ Enqueue(e)
    /\ UNCHANGED <<settings, event, claimed, sender, lost, crashes, reached>>

\* unmarked_closed_before: a closed trade that is unmarked for too long.
Overdue == {e \in Reminders : event[e] = "published"}

\* _claim: the unique key of the journal lets one reader have the occasion.
Claim(e) ==
    /\ e \notin claimed
    /\ claimed' = claimed \union {e}

\* watch, every minute: what nobody has taken yet is reminded of.
Watch(e) ==
    /\ e \in Overdue
    /\ Claim(e)
    /\ Enqueue(e)
    /\ UNCHANGED <<settings, event, sender, lost, crashes, reached>>

\* sr4_unmarked read by the main page: it takes the occasion too, and shows
\* it without a message.
ShowToday(e) ==
    /\ e \in Overdue
    /\ Claim(e)
    /\ UNCHANGED <<settings, event, row, queue, sender, lost, crashes, reached>>

----------------------------------------------------------------------------
(* Sending *)

\* Mutant: a row that was tried before is not due.
DueFresh == {i \in DOMAIN queue : /\ row[queue[i]].state = "queued"
                                  /\ row[queue[i]].attempts = 0}

\* due: the places in the queue of the rows whose pause is over.
Due == {i \in DOMAIN queue : /\ row[queue[i]].state = "queued"
                             /\ ~row[queue[i]].waits}

\* The oldest of them, as many as one dispatch takes.
Batch == {i \in Due : Cardinality({j \in Due : j < i}) < BatchLimit}

StartBatch ==
    /\ ~sender.busy
    /\ Due # {}
    /\ sender' = [busy |-> TRUE, done |-> {}, todo |-> Batch]
    /\ UNCHANGED <<settings, event, claimed, row, queue, lost, crashes, reached>>

\* _after_failure for a network error or a pause Telegram asked for.
AfterFailure(r) ==
    IF r.attempts + 1 >= MaxSendAttempts
    THEN [r EXCEPT !.attempts = @ + 1, !.state = "failed"]
    ELSE [r EXCEPT !.attempts = @ + 1, !.waits = TRUE]

Delivers(m, chat) == reached' = [reached EXCEPT ![m] = Append(@, chat)]

Saves(m, r) ==
    sender' = [sender EXCEPT !.todo = {i \in @ : queue[i] # m},
                             !.done = @ \union {[message |-> m, row |-> r]}]

\* Mutant: the chat is looked up when the message goes.
RecipientNow(m) ==
    IF chatOf[Channel[m]] = None THEN row[m].chat ELSE chatOf[Channel[m]]

Recipient(m) == row[m].chat

Delivered(m) ==
    /\ Delivers(m, Recipient(m))
    /\ Saves(m, [row[m] EXCEPT !.state = "sent", !.attempts = @ + 1])
    /\ UNCHANGED lost

\* Telegram delivers, but its answer does not come: to the code, a timeout.
AnswerLost(m) ==
    /\ lost < MaxLost
    /\ lost' = lost + 1
    /\ Delivers(m, Recipient(m))
    /\ Saves(m, AfterFailure(row[m]))

\* No network, a server error, 429.
NotNow(m) ==
    /\ Saves(m, AfterFailure(row[m]))
    /\ UNCHANGED <<lost, reached>>

\* The bot is blocked, the chat unknown, the token refused.
Refused(m) ==
    /\ Saves(m, [row[m] EXCEPT !.state = "failed", !.attempts = @ + 1])
    /\ UNCHANGED <<lost, reached>>

\* dispatch: the rows one by one, the oldest first.
Send ==
    \E i \in sender.todo :
        /\ \A j \in sender.todo : i <= j
        /\ \/ Delivered(queue[i]) \/ AnswerLost(queue[i])
           \/ NotNow(queue[i])   \/ Refused(queue[i])
        /\ UNCHANGED <<settings, event, claimed, row, queue, crashes>>

\* Mutant: only the failures are saved.
SavedUnlessSent(m, done) ==
    IF \E r \in done : r.message = m /\ r.row.state # "sent"
    THEN (CHOOSE r \in done : r.message = m).row ELSE row[m]

Saved(m, done) ==
    IF \E r \in done : r.message = m
    THEN (CHOOSE r \in done : r.message = m).row ELSE row[m]

CommitBatch ==
    /\ sender.busy
    /\ sender.todo = {}
    /\ row' = [m \in Messages |-> Saved(m, sender.done)]
    /\ sender' = Idle
    /\ UNCHANGED <<settings, event, claimed, queue, lost, crashes, reached>>

PauseEnds(m) ==
    /\ row[m].waits
    /\ row' = [row EXCEPT ![m].waits = FALSE]
    /\ UNCHANGED <<settings, event, claimed, queue, sender, lost, crashes, reached>>

\* The process ends, or the batch cannot be saved.
Crash ==
    /\ sender.busy
    /\ crashes < MaxCrashes
    /\ crashes' = crashes + 1
    /\ sender' = Idle
    /\ UNCHANGED <<settings, event, claimed, row, queue, lost, reached>>

SenderStep == StartBatch \/ Send \/ CommitBatch

Next ==
    \/ SwitchShadow \/ SwitchTelegram
    \/ \E c \in Channels, chat \in Chats \union {None} : SetChat(c, chat)
    \/ \E e \in Events : Publish(e) \/ Handle(e) \/ Watch(e) \/ ShowToday(e)
    \/ SenderStep
    \/ \E m \in Messages : PauseEnds(m)
    \/ Crash

Spec == Init /\ [][Next]_vars

\* _send_loop survives its errors; a pause ends by the clock.
FairSpec == /\ Spec
            /\ WF_vars(SenderStep)
            /\ \A m \in Messages : WF_vars(PauseEnds(m))

----------------------------------------------------------------------------
(* Properties *)

\* A message reaches one person, though it is tried again after the account
\* was linked anew or the contact replaced.
OneRecipient == \A m \in Messages : Cardinality(ToSet(reached[m])) <= 1

\* A message is delivered twice only if an answer was lost or the loop died
\* between sending and saving.
RepeatsAreExplained ==
    \A m \in Messages : Len(reached[m]) <= 1 + lost + crashes

\* What is queued is sent or given up in the end.
QueuedIsSettled ==
    \A m \in Messages :
        row[m].state = "queued" ~> row[m].state \in {"sent", "failed"}

=============================================================================
