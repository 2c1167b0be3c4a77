------------------------------ MODULE Sources ------------------------------
(***************************************************************************)
(* The connections of one trader (modules/source/service.py) and the       *)
(* streams the process keeps for them (app/stream.py StreamRegistry).      *)
(*                                                                         *)
(* A change of connections commits together with an event; a consumer of   *)
(* the event and the scheduler's minute loop both bring the registry in    *)
(* line with the database, and neither waits for the other.  A stream      *)
(* whose connection is gone stops itself and stays in the registry.        *)
(***************************************************************************)
EXTENDS Integers, FiniteSets

CONSTANTS
    Providers,  \* providers the trader connects
    Keyed,      \* CONNECTABLE: those connected by a key (the test source is not)
    Streamed,   \* those with a stream (binance)
    Requests,   \* requests and passes that may run at once
    MaxIds,     \* bound: connections ever created
    MaxChanges, \* bound: requests that begin
    MaxCrashes, \* bound: restarts of the process
    None

ASSUME SourcesAssumption ==
    /\ Keyed \subseteq Providers
    /\ Streamed \subseteq Keyed
    /\ {MaxIds, MaxChanges, MaxCrashes} \subseteq Nat
    /\ None \notin Providers

VARIABLES
    conn,     \* source.connections: provider -> row, id 0 for none
    lastId,   \* ids given out
    owner,    \* id -> its provider
    request,  \* transactions of requests and passes
    begun,    \* requests begun
    changed,  \* a SOURCE_CONNECTION_CHANGED event waits for its consumer
    running,  \* StreamRegistry._running: id -> state of its stream
    caller,   \* the two callers of sync_with_db
    crashes

vars == <<conn, lastId, owner, request, begun, changed, running, caller,
          crashes>>

Ids     == 1..MaxIds
Callers == {"scheduler", "consumer"}

NoRow == [id |-> 0, active |-> FALSE, state |-> "connected"]
Idle  == [phase |-> "idle"]

Rights == {"reading", "withdrawals", "ipRestrict"}

\* check_key: a key that can withdraw, is bound to an address or cannot read
\* is not taken; what else it can do leads to warnings only.
Refused(rights) ==
    \/ rights \cap {"withdrawals", "ipRestrict"} # {}
    \/ "reading" \notin rights

\* active_connection
Active == IF \E p \in Providers : conn[p].active
          THEN CHOOSE p \in Providers : conn[p].active ELSE None

ActiveId(i) == \E p \in Providers : conn[p].id = i /\ conn[p].active

\* Mutant: none where the last pass has failed.
WantedIfConnected ==
    {i \in Ids : /\ owner[i] \in Streamed
                 /\ \E p \in Providers : /\ conn[p].id = i
                                         /\ conn[p].active
                                         /\ conn[p].state = "connected"}

\* active_binance_connections
Wanted == {i \in Ids : ActiveId(i) /\ owner[i] \in Streamed}

Held == {i \in Ids : running[i] # "none"}

Init ==
    /\ conn = [p \in Providers |-> NoRow]
    /\ lastId = 0
    /\ owner = [i \in Ids |-> None]
    /\ request = [r \in Requests |-> Idle]
    /\ begun = 0
    /\ changed = FALSE
    /\ running = [i \in Ids |-> "none"]
    /\ caller = [c \in Callers |-> Idle]
    /\ crashes = 0

----------------------------------------------------------------------------
(* Requests: each reads, asks the provider or not, and commits later *)

\* A session is a transaction; a request has one of its own.
Begin(r, plan) ==
    /\ request[r] = Idle
    /\ begun < MaxChanges
    /\ begun' = begun + 1
    /\ request' = [request EXCEPT ![r] = plan]
    /\ UNCHANGED <<conn, lastId, owner, changed, running, caller, crashes>>

End(r) == request' = [request EXCEPT ![r] = Idle]

\* _connection_changed
Tell == changed' = TRUE

\* connection_by_provider, active_connection: what a request has read.
Plan(phase, p) ==
    [phase |-> phase, of |-> p, id |-> conn[p].id, state |-> conn[p].state,
     current |-> Active]

\* connect, probe_binance: the provider has answered and the key was not
\* refused; the row and the active source are read after that.
ConnectReads(r, p) ==
    /\ p \in Keyed
    /\ Begin(r, Plan("connect", p))

\* connect_fake: the test source has no key to look at.
FakeReads(r, p) ==
    /\ p \notin Keyed
    /\ Begin(r, Plan("fake", p))

\* create_connection, or a known connection, which keeps its id.
NewOrKnown(plan) == IF plan.id = 0 THEN lastId + 1 ELSE plan.id

\* The first source is switched on; a second one waits to be confirmed.
Connected(plan, id) ==
    [conn EXCEPT ![plan.of] =
        [id |-> id, active |-> @.active \/ plan.current = None,
         state |-> IF plan.phase = "fake" /\ plan.id # 0 THEN @.state
                   ELSE "connected"]]

\* A row that two requests create, or a second active one, fails in the
\* database.
Commits(r, id) ==
    LET plan == request[r]
    IN  /\ conn[plan.of].id = plan.id
        /\ plan.current = None => Active \in {None, plan.of}
        /\ id <= MaxIds
        /\ conn' = Connected(plan, id)
        /\ lastId' = IF plan.id = 0 THEN id ELSE lastId
        /\ owner' = [owner EXCEPT ![id] = plan.of]
        /\ End(r)
        /\ UNCHANGED <<begun, running, caller, crashes>>

ConnectCommits(r) ==
    /\ request[r].phase = "connect"
    /\ Commits(r, NewOrKnown(request[r]))
    /\ Tell

\* Nobody is told of the test source.
FakeCommits(r) ==
    /\ request[r].phase = "fake"
    /\ Commits(r, NewOrKnown(request[r]))
    /\ UNCHANGED changed

\* activate: refused without the confirmation when it would be a switch.
ActivateReads(r, p, confirm) ==
    /\ conn[p].id # 0
    /\ Active # p
    /\ Active # None => confirm
    /\ Begin(r, Plan("activate", p))

\* deactivate_all, activate: of all rows there are by now.
SwitchedTo(chosen) ==
    [p \in Providers |-> [conn[p] EXCEPT !.active = (p = chosen)]]

ActivateCommits(r) ==
    LET plan == request[r]
    IN  /\ plan.phase = "activate"
        /\ conn[plan.of].id = plan.id
        /\ conn' = SwitchedTo(plan.of)
        /\ Tell
        /\ End(r)
        /\ UNCHANGED <<lastId, owner, begun, running, caller, crashes>>

\* set_state on the row as it was read: what it said already is not written.
Stated(plan, state) ==
    IF state = plan.state THEN conn ELSE [conn EXCEPT ![plan.of].state = state]

\* verify: the stored key is tried again ...
VerifyReads(r, p) ==
    /\ p \in Keyed
    /\ conn[p].id # 0
    /\ Begin(r, Plan("verify", p))

\* ... and the answer, a refusal too, is kept in the state of the row; the
\* connection stays as active as it is and nobody is told.
VerifyCommits(r) ==
    LET plan == request[r]
    IN  /\ plan.phase = "verify"
        /\ conn[plan.of].id = plan.id
        /\ \E rights \in SUBSET Rights :
              conn' = Stated(plan, IF Refused(rights) THEN "error"
                                                      ELSE "connected")
        /\ End(r)
        /\ UNCHANGED <<lastId, owner, begun, changed, running, caller, crashes>>

\* The row has gone, the index of the one active source refuses, or a pass
\* fails by more than its source: nothing is left of it.
RequestFails(r) ==
    /\ request[r] # Idle
    /\ \/ request[r].phase = "pass"
       \/ conn[request[r].of].id # request[r].id
       \/ Active # request[r].current
       \/ lastId = MaxIds
    /\ End(r)
    /\ UNCHANGED <<conn, lastId, owner, begun, changed, running, caller,
                   crashes>>

\* start_reconcile_run: a pass over the active source notes that it runs.
PassBegins(r, p) ==
    /\ conn[p].active
    /\ request[r] = Idle
    /\ request' = [request EXCEPT ![r] = Plan("pass", p)]
    /\ UNCHANGED <<conn, lastId, owner, begun, changed, running, caller, crashes>>

\* sync: how the pass went is left in the state of its row, switched off
\* meanwhile or not, also where a refused key had left "error".
PassEnds(r, state) ==
    /\ request[r].phase = "pass"
    /\ conn' = Stated(request[r], state)
    /\ End(r)
    /\ UNCHANGED <<lastId, owner, begun, changed, running, caller, crashes>>

\* The note of a running pass refers to the row: a delete waits for it.
Referenced(p) ==
    \E r \in Requests : request[r].phase = "pass" /\ request[r].of = p

\* delete_connection: the row goes, and what belongs to it; the trades stay.
Deleted(p) == [conn EXCEPT ![p] = NoRow]

Delete(p) ==
    /\ conn[p].id # 0
    /\ ~Referenced(p)
    /\ begun < MaxChanges
    /\ begun' = begun + 1
    /\ conn' = Deleted(p)
    /\ Tell
    /\ UNCHANGED <<lastId, owner, request, running, caller, crashes>>

----------------------------------------------------------------------------
(* sync_with_db *)

SyncReads(c) ==
    /\ caller[c] = Idle
    /\ c = "consumer" => changed
    /\ changed' = IF c = "consumer" THEN FALSE ELSE changed
    /\ caller' = [caller EXCEPT ![c] = [phase |-> "asked", wanted |-> Wanted]]
    /\ UNCHANGED <<conn, lastId, owner, request, begun, running, crashes>>

\* Mutant: one that has stopped itself needs no stopping.
UnwantedLive(wanted) == {i \in Held \ wanted : running[i] = "live"}

Unwanted(wanted) == Held \ wanted

\* list(self._running), once the session is closed
SyncLists(c) ==
    /\ caller[c].phase = "asked"
    /\ caller' = [caller EXCEPT ![c] =
                    [phase |-> "stopping", wanted |-> caller[c].wanted,
                     left |-> Unwanted(caller[c].wanted)]]
    /\ UNCHANGED <<conn, lastId, owner, request, begun, changed, running,
                   crashes>>

\* _stop_one pops the stream, then waits for its task.  One that the other
\* caller has popped is a KeyError: this call is over, and the consumer
\* puts its event aside.
SyncStops(c) ==
    /\ caller[c].phase = "stopping"
    /\ \E i \in caller[c].left :
         /\ running' = [running EXCEPT ![i] = "none"]
         /\ caller' = [caller EXCEPT ![c] =
                         IF running[i] = "none" THEN Idle
                         ELSE [caller[c] EXCEPT !.left = @ \ {i}]]
    /\ UNCHANGED <<conn, lastId, owner, request, begun, changed, crashes>>

\* Wanted and not held; one that has stopped itself is still held.
ToStart(c) == {i \in caller[c].wanted : running[i] = "none"}

SyncStarts(c) ==
    /\ caller[c].phase = "stopping"
    /\ caller[c].left = {}
    /\ running' = [i \in Ids |-> IF i \in ToStart(c) THEN "live" ELSE running[i]]
    /\ caller' = [caller EXCEPT ![c] = Idle]
    /\ UNCHANGED <<conn, lastId, owner, request, begun, changed, crashes>>

\* _session, _on_order: the connection is gone or not active any more.
StreamStopsItself(i) ==
    /\ running[i] = "live"
    /\ ~ActiveId(i)
    /\ running' = [running EXCEPT ![i] = "dead"]
    /\ UNCHANGED <<conn, lastId, owner, request, begun, changed, caller,
                   crashes>>

\* The process ends and starts again; the event in work is not confirmed.
Restart ==
    /\ crashes < MaxCrashes
    /\ crashes' = crashes + 1
    /\ running' = [i \in Ids |-> "none"]
    /\ changed' = (changed \/ caller["consumer"] # Idle)
    /\ caller' = [c \in Callers |-> Idle]
    /\ request' = [r \in Requests |-> Idle]
    /\ UNCHANGED <<conn, lastId, owner, begun>>

Sync(c) == SyncReads(c) \/ SyncLists(c) \/ SyncStops(c) \/ SyncStarts(c)

Next ==
    \/ \E r \in Requests, p \in Providers :
          \/ ConnectReads(r, p) \/ FakeReads(r, p) \/ VerifyReads(r, p)
          \/ \E confirm \in BOOLEAN : ActivateReads(r, p, confirm)
    \/ \E r \in Requests :
          \/ ConnectCommits(r) \/ FakeCommits(r)
          \/ ActivateCommits(r) \/ VerifyCommits(r) \/ RequestFails(r)
          \/ \E p \in Providers : PassBegins(r, p)
          \/ \E state \in {"connected", "error"} : PassEnds(r, state)
    \/ \E p \in Providers : Delete(p)
    \/ \E c \in Callers : Sync(c)
    \/ \E i \in Ids : StreamStopsItself(i)
    \/ Restart

\* Both callers are loops of the process that survive their own errors.
Spec == Init /\ [][Next]_vars /\ \A c \in Callers : WF_vars(Sync(c))

----------------------------------------------------------------------------
(* Properties *)

\* One active source at most; a stream is held only for a connection of a
\* provider that has one (sync_with_db), and rows keep their provider.
TypeOK ==
    /\ conn \in [Providers -> [id : 0..lastId, active : BOOLEAN,
                               state : {"connected", "error"}]]
    /\ Cardinality({p \in Providers : conn[p].active}) <= 1
    /\ \A p \in Providers : conn[p].id # 0 => owner[conn[p].id] = p
    /\ \A i \in Held : owner[i] \in Streamed
    /\ changed \in BOOLEAN
    /\ begun \in 0..MaxChanges
    /\ crashes \in 0..MaxCrashes

\* The stream of a connection that stays switched off or deleted ends and
\* leaves the registry, whatever the two callers do to each other.
SwitchedOffIsSilenced ==
    \A i \in Ids : (i \in Held /\ ~ActiveId(i)) ~> (i \notin Held \/ ActiveId(i))

\* The active connection gets its stream, also after a restart, unless one
\* that stopped itself is still held for it.
ActiveIsStreamed ==
    \A i \in Ids : (ActiveId(i) /\ owner[i] \in Streamed)
                       ~> (i \in Held \/ ~ActiveId(i))
=============================================================================
