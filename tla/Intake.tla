------------------------------- MODULE Intake -------------------------------
(***************************************************************************)
(* How executions of the exchange become trades (source/adapters/binance,  *)
(* app/stream.py, app/pipeline.py, trades/service.py), for one symbol of   *)
(* one connection.                                                         *)
(*                                                                         *)
(* Three transactions meet on the same rows: the stream, which brings one  *)
(* execution at a time; the reconciliation, which downloads a window; and  *)
(* the refresh of positions, which shows what is still open.  Each reads   *)
(* first and writes later; what it saved is invisible until it commits.    *)
(* A fill's number is both its id and its time.                            *)
(***************************************************************************)
EXTENDS Integers, Sequences, FiniteSets

CONSTANTS
    Quantities,   \* what one fill may do to the position
    Overlap,      \* OVERLAP: how far a pass looks back from the last fill
    MaxFills,     \* bound: executions on the exchange
    MaxFailures,  \* bound: errors of the provider during a pass
    None

\* A position that is open: its first fill, what it holds, its fills.
Positions == [first : Nat, net : Int, parts : SUBSET Nat]

ASSUME IntakeAssumption ==
    /\ Quantities \subseteq Int \ {0}
    /\ {Overlap, MaxFailures} \subseteq Nat
    /\ MaxFills \in Nat \ {0}
    /\ None \notin Positions

VARIABLES
    exchange,  \* what was executed: the signed quantity of each fill
    since,     \* ingest_from: the last fill before the connection
    wire,      \* executions the stream still has to hand over
    fills,     \* source.fills
    state,     \* source.aggregate_state
    trades,    \* trades.trades: first fill -> row
    announced, \* trades.ingested events: the trades they are about
    order,     \* the transaction of the stream
    pass,      \* the transaction of the reconciliation
    poll,      \* the transaction of the refresh of positions
    failures,
    slips      \* what has gone wrong so far, of the ways that are known

books == <<fills, state, trades, announced>>
vars  == <<exchange, since, wire, books, order, pass, poll, failures, slips>>

Ids == 1..MaxFills

Slips == {"flip", "late", "overlap", "failed", "overwritten"}

NoTrade  == [status |-> "none", parts |-> {}]
NoStates == [border |-> 0, open |-> None]
Idle     == [phase |-> "idle"]

----------------------------------------------------------------------------
(* aggregate: a position is followed from zero to zero *)

Opened(n) == [first |-> n, net |-> exchange[n], parts |-> {n}]

Closed(p, n) == [first |-> p.first, last |-> n, parts |-> p.parts \union {n}]

CrossesZero(before, after) ==
    /\ before # 0
    /\ after # 0
    /\ before > 0 <=> after < 0

\* _apply: one fill may close a position and open the next with what is left.
Apply(book, n) ==
    LET p     == book.open
        after == p.net + exchange[n]
        left  == Opened(n)
    IN  IF p = None
        THEN [book EXCEPT !.open = Opened(n)]
        ELSE IF CrossesZero(p.net, after)
        THEN [done |-> book.done \union {Closed(p, n)},
              open |-> [left EXCEPT !.net = after]]
        ELSE IF after = 0
        THEN [done |-> book.done \union {Closed(p, n)}, open |-> None]
        ELSE [book EXCEPT !.open = [p EXCEPT !.net = after,
                                             !.parts = @ \union {n}]]

\* aggregate, _deduplicated, _ordered: the set in the order of time and id.
Aggregate(known) ==
    LET upTo[n \in 0..MaxFills] ==
          IF n = 0 THEN [done |-> {}, open |-> None]
          ELSE IF n \in known THEN Apply(upTo[n - 1], n) ELSE upTo[n - 1]
    IN  upTo[MaxFills]

Highest(S, default) ==
    CHOOSE m \in S \union {default} : \A n \in S \union {default} : n <= m

\* Mutant: a fill older than the border does not lead to a full rebuild.
BorderKept(fresh, st) == st.border

\* A fill at or before the border has the position rebuilt from nothing.
Border(fresh, st) ==
    IF \E n \in fresh : n <= st.border THEN 0 ELSE st.border

\* fills_after: what was executed after the last closed zero.
After(known, border) == {n \in known : n > border}

\* Mutant: the border moves past the position that is still open.
RebuildPastOpen(known, fresh, st) ==
    LET border == Border(fresh, st)
        used   == After(known, border)
        book   == Aggregate(used)
    IN  IF used = {} THEN [state |-> st, done |-> {}]
        ELSE [state |-> [border |-> Highest(used, border), open |-> book.open],
              done |-> book.done]

\* _rebuild: what follows the last closed zero is put together again.
Rebuild(known, fresh, st) ==
    LET border == Border(fresh, st)
        used   == After(known, border)
        book   == Aggregate(used)
    IN  IF used = {} THEN [state |-> st, done |-> {}]
        ELSE [state |->
                [border |-> Highest({d.last : d \in book.done}, border),
                 open |-> book.open],
              done |-> book.done]

----------------------------------------------------------------------------
(* ingest_batch: one row per first fill *)

\* Mutant: a closed trade is taken as a new one when it comes again.
AdmitAgain(row, item) == item

\* _ingest_one: an open row lives, a closed one is left alone.
Admit(row, item) == IF row.status = "closed" THEN row ELSE item

\* The batch of a pass: the trades it has closed, and perhaps the open one.
Batch(done, open, live) ==
    [n \in Ids |->
        IF \E d \in done : d.first = n
        THEN [status |-> "closed",
              parts |-> (CHOOSE d \in done : d.first = n).parts]
        ELSE IF live /\ open # None /\ open.first = n
        THEN [status |-> "open", parts |-> open.parts]
        ELSE NoTrade]

\* Mutant: a trade that was open is not announced when it closes.
AnnounceNew(batch) ==
    announced \union {n \in Ids : /\ batch[n].status = "closed"
                                  /\ trades[n] = NoTrade}

\* TRADES_INGESTED: for a row that is closed and was not.
Announce(batch) ==
    announced \union {n \in Ids : /\ batch[n].status = "closed"
                                  /\ trades[n].status # "closed"}

Ingest(batch) ==
    /\ trades' = [n \in Ids |-> IF batch[n] = NoTrade THEN trades[n]
                                ELSE Admit(trades[n], batch[n])]
    /\ announced' = Announce(batch)

Net ==
    LET upTo[n \in 0..Len(exchange)] ==
          IF n = 0 THEN 0 ELSE upTo[n - 1] + exchange[n]
    IN  upTo[Len(exchange)]

Live == Net # 0

----------------------------------------------------------------------------

Init ==
    /\ exchange \in {<<>>} \union {<<q>> : q \in Quantities}
    /\ since = Len(exchange)
    /\ wire = <<>>
    /\ fills = {}
    /\ state = NoStates
    /\ trades = [n \in Ids |-> NoTrade]
    /\ announced = {}
    /\ order = Idle
    /\ pass = Idle
    /\ poll = Idle
    /\ failures = 0
    /\ slips = {}

\* events, _session: an execution comes over the open socket, and between
\* two sockets it is never heard of.
Heard(n) == {wire, Append(wire, n)}

Execute ==
    /\ Len(exchange) < MaxFills
    /\ \E q \in Quantities : exchange' = Append(exchange, q)
    /\ wire' \in Heard(Len(exchange) + 1)
    /\ UNCHANGED <<since, books, order, pass, poll, failures, slips>>

----------------------------------------------------------------------------
(* What a transaction that saves fills does, between its start and commit *)

\* save_fills: a fill that is there is passed over, the new ones come back.
Inserted(window) == window \ fills

\* It works on the committed rows and its own.
Built(window) ==
    LET fresh == Inserted(window)
        out   == Rebuild(fills \union fresh, fresh, state)
    IN  [phase |-> "built", fresh |-> fresh, state |-> out.state,
         done |-> out.done, live |-> Live, base |-> <<fills, state>>,
         late |-> Border(fresh, state) < state.border, clash |-> FALSE]

\* An insert of a fill another transaction has inserted waits for its end.
Waits(other, wanted) == other.phase = "built" /\ other.fresh \cap wanted # {}

\* The known ways in which what tx commits may be wrong.
SlipsOf(tx) ==
    {s \in {"flip", "late", "overlap"} :
        \/ s = "flip" /\ \E d \in tx.done :
              \/ tx.state.open # None /\ tx.state.open.first = d.last
              \/ \E e \in tx.done : e.first = d.last
        \/ s = "late" /\ tx.late
        \/ s = "overlap" /\ tx.base # <<fills, state>>}

Save(tx) ==
    /\ fills' = fills \union tx.fresh
    /\ state' = tx.state

----------------------------------------------------------------------------
(* The stream: _on_order, accept_fills *)

StreamBegins ==
    /\ order = Idle
    /\ wire # <<>>
    /\ ~Waits(pass, {Head(wire)})
    /\ wire' = Tail(wire)
    /\ order' = IF Inserted({Head(wire)}) = {} THEN Idle
                ELSE Built({Head(wire)})
    /\ UNCHANGED <<exchange, since, books, pass, poll, failures, slips>>

\* Only closed trades are taken in here; the row lock of the state orders
\* this against a pass.
StreamCommits ==
    /\ order.phase = "built"
    /\ Save(order)
    /\ Ingest(Batch(order.done, None, FALSE))
    /\ slips' = slips \union SlipsOf(order)
    /\ order' = Idle
    /\ UNCHANGED <<exchange, since, wire, pass, poll, failures>>

\* The row it inserts has meanwhile been inserted by the refresh: the
\* unique key fails, the transaction with the fill is rolled back.
StreamAborts ==
    /\ order.phase = "built"
    /\ order.clash
    /\ order' = Idle
    /\ UNCHANGED <<exchange, since, wire, books, pass, poll, failures, slips>>

----------------------------------------------------------------------------
(* The reconciliation: sync, _run_sync, fetch_trades *)

\* _window_start: all since the connection, then only the tail.
InWindow(n) ==
    /\ n > since
    /\ fills # {} => n + Overlap >= Highest(fills, 0)

\* _user_trades: the pages are joined, a row is a fill of its own id.
UserTrades == {n \in Ids : n <= Len(exchange) /\ InWindow(n)}

PassDownloads ==
    /\ pass = Idle
    /\ pass' = [phase |-> "got", window |-> UserTrades]
    /\ UNCHANGED <<exchange, since, wire, books, order, poll, failures, slips>>

PassRebuilds ==
    /\ pass.phase = "got"
    /\ ~Waits(order, pass.window)
    /\ pass' = Built(pass.window)
    /\ UNCHANGED <<exchange, since, wire, books, order, poll, failures, slips>>

\* ingest_batch takes the closed trades and, of a live position, the open one.
PassCommits ==
    /\ pass.phase = "built"
    /\ Save(pass)
    /\ Ingest(Batch(pass.done, pass.state.open, pass.live))
    /\ slips' = slips \union SlipsOf(pass)
    /\ pass' = Idle
    /\ UNCHANGED <<exchange, since, wire, order, poll, failures>>

\* The provider refuses while the window is downloaded: nothing is written.
PassFails ==
    /\ pass.phase = "got"
    /\ failures < MaxFailures
    /\ failures' = failures + 1
    /\ pass' = Idle
    /\ UNCHANGED <<exchange, since, wire, books, order, poll, slips>>

\* The provider refuses the positions, after the rebuild: the error is to be
\* recorded, so what the pass has written by then is committed.
PassFailsLate ==
    /\ pass.phase = "built"
    /\ failures < MaxFailures
    /\ failures' = failures + 1
    /\ Save(pass)
    /\ slips' = slips \union SlipsOf(pass)
                      \union (IF pass.done # {} THEN {"failed"} ELSE {})
    /\ pass' = Idle
    /\ UNCHANGED <<exchange, since, wire, trades, announced, order, poll>>

\* As StreamAborts.
PassAborts ==
    /\ pass.phase = "built"
    /\ pass.clash
    /\ pass' = Idle
    /\ UNCHANGED <<exchange, since, wire, books, order, poll, failures, slips>>

----------------------------------------------------------------------------
(* The refresh of positions: refresh_positions, fetch_open_trades *)

PollAsks ==
    /\ poll = Idle
    /\ Live
    /\ poll' = [phase |-> "asked"]
    /\ UNCHANGED <<exchange, since, wire, books, order, pass, failures, slips>>

\* by_external: the row whose key is the first fill, as it stands.
ByExternal(position) == trades[position.first]

\* fetch_open_trades: what the saved state knows of the open position.
PollReads ==
    /\ poll.phase = "asked"
    /\ poll' = IF state.open = None \/ ByExternal(state.open).status = "closed"
               THEN Idle
               ELSE [phase |-> "read", item |-> state.open,
                     found |-> ByExternal(state.open).status]
    /\ UNCHANGED <<exchange, since, wire, books, order, pass, failures, slips>>

\* The insert fails on a row that is there by now.
PollInserts ==
    /\ poll.phase = "read"
    /\ poll.found = "none"
    /\ LET n == poll.item.first
           Hit(tx) == tx.phase = "built" /\ \E d \in tx.done : d.first = n
           Clash(tx) == IF Hit(tx) /\ trades[n] = NoTrade
                        THEN [tx EXCEPT !.clash = TRUE] ELSE tx
       IN  /\ trades' = IF trades[n] = NoTrade
                        THEN [trades EXCEPT ![n] = [status |-> "open",
                                                    parts |-> poll.item.parts]]
                        ELSE trades
           /\ order' = Clash(order)
           /\ pass' = Clash(pass)
    /\ poll' = Idle
    /\ UNCHANGED <<exchange, since, wire, fills, state, announced, failures,
                   slips>>

\* The update writes the numbers only; whether the row is open is not among
\* them, and is not looked at again.
PollUpdates ==
    /\ poll.phase = "read"
    /\ poll.found = "open"
    /\ LET n == poll.item.first
       IN  /\ trades' = [trades EXCEPT ![n].parts = poll.item.parts]
           /\ slips' = IF trades[n].status = "closed"
                       THEN slips \union {"overwritten"} ELSE slips
    /\ poll' = Idle
    /\ UNCHANGED <<exchange, since, wire, fills, state, announced, order, pass,
                   failures>>

Next ==
    \/ Execute
    \/ StreamBegins \/ StreamCommits \/ StreamAborts
    \/ PassDownloads \/ PassRebuilds \/ PassCommits
    \/ PassFails \/ PassFailsLate \/ PassAborts
    \/ PollAsks \/ PollReads \/ PollInserts \/ PollUpdates

Spec == Init /\ [][Next]_vars

\* Passes are run every ten minutes; a transaction that began comes to an end.
FairSpec ==
    /\ Spec
    /\ WF_vars(PassDownloads)
    /\ WF_vars(PassRebuilds)
    /\ WF_vars(PassCommits \/ PassAborts)
    /\ WF_vars(StreamCommits \/ StreamAborts)

----------------------------------------------------------------------------
(* Properties *)

\* The rows have the shape the code gives them; a row holds its own first
\* fill, an open position is not flat and starts after the border (or at the
\* fill that crossed zero).
TypeOK ==
    /\ exchange \in Seq(Quantities) /\ Len(exchange) <= MaxFills
    /\ since \in 0..1
    /\ fills \subseteq since + 1..Len(exchange)
    /\ state.border \in {0} \union fills
    /\ state.open # None => /\ state.open \in Positions
                            /\ state.open.net # 0
                            /\ state.open.first >= state.border
                            /\ state.open.parts \subseteq fills
    /\ \A n \in Ids : /\ trades[n].status \in {"none", "open", "closed"}
                      /\ trades[n].status # "none" => n \in trades[n].parts
    /\ announced \subseteq Ids
    /\ failures \in 0..MaxFailures
    /\ slips \subseteq Slips

\* Every round trip of the saved executions has its closed trade, in whatever
\* order the stream and the passes brought them, unless a fill turned the
\* position over, two transactions worked on the same position at once, or a
\* pass failed between its two halves (_rebuild's promise that a late fill
\* finds its place).
RoundTripsAreTraded ==
    slips \cap {"flip", "overlap", "failed"} = {} =>
        \A d \in Aggregate(fills).done : trades[d.first].status = "closed"

\* And there is no other closed trade, and it holds exactly the fills of its
\* round trip, unless a late fill changed a trade already closed or the
\* refresh wrote over it (the trades are a derivative of the fills).
TradesMatchFills ==
    slips = {} =>
        {<<n, trades[n].parts>> : n \in {m \in Ids : trades[m].status = "closed"}}
      = {<<d.first, d.parts>> : d \in Aggregate(fills).done}

\* The engine hears of a trade once it is closed and only then, whichever of
\* the three transactions closed or opened its row (_ingest_one).
ClosedIsAnnounced ==
    announced = {n \in Ids : trades[n].status = "closed"}

\* A closed trade is not opened again and its result stays, however often the
\* round trip is put together again; only the refresh may write over it.
ClosedTradeStays ==
    [][\A n \in Ids : trades[n].status = "closed" =>
          /\ trades'[n].status = "closed"
          /\ trades'[n] = trades[n] \/ "overwritten" \in slips']_vars

\* A round trip of the saved executions is traded in the end.
RoundTripsComeThrough ==
    \A n \in Ids :
        (\E d \in Aggregate(fills).done : d.first = n)
            ~> trades[n].status = "closed"
=============================================================================
