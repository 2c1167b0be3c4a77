---------------------------- MODULE RuleJournal ----------------------------
(***************************************************************************)
(* The rule engine of one trading day: the counters, the conditions, and   *)
(* the journal of evaluations by which a rule fires once for a cause.      *)
(* Passes over the day run in sessions of their own under READ COMMITTED:  *)
(* the reconcile, the stream, the marking consumer and the refresh of      *)
(* positions may all walk the day at the same time.                        *)
(*                                                                         *)
(* A trade is named by the minute it closes in, which is the order of the  *)
(* walk; percents are integers.                                            *)
(***************************************************************************)
EXTENDS Integers, FiniteSets, FiniteSetsExt

CONSTANTS
    Horizon,        \* minutes of the day; trade t closes in minute t
    NumRules,       \* user rules, in the order of their creation
    Offered,        \* conditions the editor may save: sets of groups
    Polls,          \* minutes in which positions may be refreshed
    Outcomes,       \* account_return_pct of each trade, as the day may go
    Unrealized,     \* unrealized_pct a refresh of positions may find
    Significance,   \* significance_pct of the settings
    Sessions,
    MaxOverlaps,    \* bound: passes that begin while another runs
    Unknown         \* NULL: the source gives no such number

Trades == 1..Horizon
Rules  == 1..NumRules

ASSUME JournalAssumption ==
    /\ Horizon \in Nat /\ NumRules \in Nat /\ Significance \in Nat
    /\ MaxOverlaps \in Nat
    /\ Polls \subseteq 0..Horizon
    /\ Outcomes \subseteq [Trades -> Int]
    /\ Unrealized \subseteq Int
    /\ Unknown \notin Int

VARIABLES
    now,        \* the minute
    ret,        \* what each trade returns
    stored,     \* closed trades of the day, committed
    rule,       \* rows of rules
    journal,    \* rows of evaluations by rule and trigger reference
    cache,      \* the row of day_counters
    session,    \* passes under way
    overlaps,   \* history: passes that began while another ran
    late        \* history: a trade came after one that closed later

vars == <<now, ret, stored, rule, journal, cache, session, overlaps, late>>

----------------------------------------------------------------------------
(* Counters of the day *)

Zero == [loss_streak |-> 0, equity_pct |-> 0, peak_pct |-> 0, drawdown_pct |-> 0,
         loss_sum_pct |-> 0, significant_trades |-> 0, all_trades |-> 0,
         last_trade_id |-> 0, unrealized_pct |-> Unknown,
         drawdown_full_pct |-> Unknown]

Abs(n) == IF n < 0 THEN -n ELSE n
IsSignificant(t) == Abs(ret[t]) >= Significance

\* Mutant: dust ends a streak like a gain.
ApplyDustEnds(c, t) ==
    LET equity == c.equity_pct + ret[t]
        peak   == Max({c.peak_pct, equity})
    IN [c EXCEPT !.all_trades = @ + 1,
                 !.equity_pct = equity,
                 !.peak_pct = peak,
                 !.drawdown_pct = peak - equity,
                 !.loss_sum_pct = IF equity < 0 THEN -equity ELSE 0,
                 !.significant_trades = IF IsSignificant(t) THEN @ + 1 ELSE @,
                 !.loss_streak = IF IsSignificant(t) /\ ret[t] < 0 THEN @ + 1 ELSE 0,
                 !.last_trade_id = t]

\* The peak starts from zero; dust neither continues nor ends a streak.
Apply(c, t) ==
    LET equity == c.equity_pct + ret[t]
        peak   == Max({c.peak_pct, equity})
    IN [c EXCEPT !.all_trades = @ + 1,
                 !.equity_pct = equity,
                 !.peak_pct = peak,
                 !.drawdown_pct = peak - equity,
                 !.loss_sum_pct = IF equity < 0 THEN -equity ELSE 0,
                 !.significant_trades = IF IsSignificant(t) THEN @ + 1 ELSE @,
                 !.loss_streak = CASE ~IsSignificant(t) -> @
                                   [] IsSignificant(t) /\ ret[t] < 0 -> @ + 1
                                   [] OTHER -> 0,
                 !.last_trade_id = t]

\* The walk over the trades of the day in the order they closed, up to t.
CountersAt(facts, t) ==
    LET upTo[i \in 0..Horizon] ==
            IF i = 0 THEN Zero
            ELSE IF i \in facts THEN Apply(upTo[i - 1], i) ELSE upTo[i - 1]
    IN upTo[t]

WithUnrealized(c, u) ==
    IF u = Unknown
    THEN [c EXCEPT !.unrealized_pct = Unknown, !.drawdown_full_pct = Unknown]
    ELSE LET current == c.equity_pct + u
         IN [c EXCEPT !.unrealized_pct = u,
                      !.drawdown_full_pct = Max({c.peak_pct, current}) - current]

----------------------------------------------------------------------------
(* Conditions: a set of groups joined by "or", a group a set of conditions *)
(* joined by "and".                                                        *)

PositionMetrics == {"unrealized_pct", "drawdown_full_pct"}

Compare(value, cmp, threshold) ==
    CASE cmp = "ge" -> value >= threshold
      [] cmp = "gt" -> value > threshold
      [] cmp = "eq" -> value = threshold
      [] cmp = "le" -> value <= threshold
      [] cmp = "lt" -> value < threshold

ConditionMet(item, c) ==
    /\ c[item.metric] # Unknown
    /\ Compare(c[item.metric], item.cmp, item.value)

Evaluate(conditions, c) ==
    \E group \in conditions : \A item \in group : ConditionMet(item, c)

UsesPositionMetric(conditions) ==
    \E group \in conditions : \E item \in group : item.metric \in PositionMetrics

----------------------------------------------------------------------------
(* State *)

TradeRef(t)     == <<"trade", t>>
PositionsRef(m) == <<"positions", m>>
Refs == {TradeRef(t) : t \in Trades} \union {PositionsRef(m) : m \in Polls}

Evaluations == [fired : BOOLEAN, met : BOOLEAN]
IsJournal(j) == DOMAIN j \subseteq Rules \X Refs /\ \A k \in DOMAIN j : j[k] \in Evaluations

NoRule == [state |-> "absent", created_at |-> 0, conditions |-> {}]
NoRows == [k \in {} |-> {}]
Idle == [at |-> "idle", kind |-> "day", batch |-> {}, facts |-> {}, conditions |-> NoRows,
         done |-> NoRows, unrealized |-> Unknown, minute |-> 0, written |-> NoRows]

TypeOK ==
    /\ now \in 0..Horizon
    /\ ret \in Outcomes
    /\ stored \subseteq 1..now
    /\ \A r \in Rules : /\ rule[r].state \in {"absent", "on", "off", "deleted"}
                        /\ rule[r].created_at \in 0..now
                        /\ rule[r].conditions \in Offered \union {{}}
    /\ IsJournal(journal)
    /\ cache.all_trades \in 0..now /\ cache.drawdown_pct \in Nat
    /\ cache.unrealized_pct \in Unrealized \union {Unknown}
    /\ \A s \in Sessions :
         /\ session[s].at \in {"idle", "read", "trades", "save"}
         /\ session[s].kind \in {"day", "positions"}
         /\ session[s].batch \subseteq session[s].facts
         /\ session[s].facts \subseteq 1..now
         /\ DOMAIN session[s].conditions \subseteq Rules
         /\ IsJournal(session[s].done) /\ IsJournal(session[s].written)
    /\ overlaps \in 0..MaxOverlaps /\ late \in BOOLEAN

Init ==
    /\ now = 0
    /\ ret \in Outcomes
    /\ stored = {}
    /\ rule = [r \in Rules |-> NoRule]
    /\ journal = NoRows
    /\ cache = Zero
    /\ session = [s \in Sessions |-> Idle]
    /\ overlaps = 0
    /\ late = FALSE

Running(s) == session[s].at # "idle"

----------------------------------------------------------------------------
(* The editor *)

Tick ==
    /\ now < Horizon
    /\ now' = now + 1
    /\ UNCHANGED <<ret, stored, rule, journal, cache, session, overlaps, late>>

SetRule(r, row) ==
    /\ rule' = [rule EXCEPT ![r] = row]
    /\ UNCHANGED <<now, ret, stored, journal, cache, session, overlaps, late>>

NewRule(c) == [state |-> "on", created_at |-> now, conditions |-> c]

CreateRule(r) ==
    /\ rule[r].state = "absent"
    /\ \A q \in Rules : q < r => rule[q].state # "absent"
    /\ \E c \in Offered : SetRule(r, NewRule(c))

\* by_id finds no rule that was deleted.
Found(r) == rule[r].state \in {"on", "off"}

PatchRule(r) ==
    /\ Found(r)
    /\ \E c \in Offered \ {rule[r].conditions} :
         SetRule(r, [rule[r] EXCEPT !.conditions = c])

ToggleRule(r) ==
    /\ Found(r)
    /\ SetRule(r, [rule[r] EXCEPT !.state = IF @ = "on" THEN "off" ELSE "on"])

DeleteRule(r) ==
    /\ Found(r)
    /\ SetRule(r, [rule[r] EXCEPT !.state = "deleted"])

EditRule(r) == PatchRule(r) \/ ToggleRule(r) \/ DeleteRule(r)

----------------------------------------------------------------------------
(* A pass over the day *)

\* The batch is inserted and the facts of the day read.  A trade two sources
\* bring at once is inserted by one of them; the other waits for its commit.
Begin(s, kind, batch, u) ==
    /\ ~Running(s)
    /\ (\E o \in Sessions : Running(o)) => overlaps < MaxOverlaps
    /\ batch \subseteq 1..now \ stored
    /\ \A o \in Sessions : session[o].batch \intersect batch = {}
    /\ session' = [session EXCEPT ![s] =
                     [Idle EXCEPT !.at = "read", !.kind = kind, !.batch = batch,
                                  !.facts = stored \union batch,
                                  !.unrealized = u,
                                  !.minute = IF kind = "positions" THEN now ELSE 0]]
    /\ overlaps' = IF \E o \in Sessions : Running(o) THEN overlaps + 1 ELSE overlaps
    /\ UNCHANGED <<now, ret, stored, rule, journal, cache, late>>

\* Reconcile or stream with new trades; a marking that changed brings none.
BeginDay(s) == \E batch \in SUBSET (1..now) : Begin(s, "day", batch, Unknown)

RefreshPositions(s) ==
    /\ now \in Polls
    /\ \E u \in Unrealized \union {Unknown} : Begin(s, "positions", {}, u)

\* active_user_rules and evaluations_of_day.
ReadJournal(s) ==
    /\ session[s].at = "read"
    /\ LET active == {r \in Rules : rule[r].state = "on"}
       IN session' = [session EXCEPT
            ![s].at = "trades",
            ![s].conditions = [r \in active |-> rule[r].conditions],
            ![s].done = journal]
    /\ UNCHANGED <<now, ret, stored, rule, journal, cache, overlaps, late>>

\* Mutant: a rule looks at trades that closed before it was written.
SubjectsRetro(s, r) == session[s].facts

\* A trade older than the rule does not concern it.
Subjects(s, r) == {t \in session[s].facts : t >= rule[r].created_at}

\* Mutant: only the last trade of the day is judged, by the day's total.
UnjudgedTotal(s, r) ==
    {t \in Subjects(s, r) : /\ <<r, TradeRef(t)>> \notin DOMAIN session[s].done
                            /\ \A p \in session[s].facts : p <= t}

Unjudged(s, r) ==
    {t \in Subjects(s, r) : <<r, TradeRef(t)>> \notin DOMAIN session[s].done}

MetNow(s, r, t) == Evaluate(session[s].conditions[r], CountersAt(session[s].facts, t))

\* Mutant: what the journal says of earlier trades is not looked at.
WasMetForgotten(s, r, t) ==
    LET earlier == {p \in Unjudged(s, r) : p < t}
    IN earlier # {} /\ MetNow(s, r, Max(earlier))

\* The state of the condition before t: of a trade judged earlier, what the
\* journal says of it.
WasMet(s, r, t) ==
    LET earlier == {p \in Subjects(s, r) : p < t}
        last == Max(earlier)
        key == <<r, TradeRef(last)>>
    IN /\ earlier # {}
       /\ IF key \in DOMAIN session[s].done THEN session[s].done[key].met
          ELSE MetNow(s, r, last)

\* Mutant: the second of two equal inserts overwrites the first.
InsertedUpsert(rows) == rows

\* record_evaluation, on_conflict_do_nothing: a row that is there is left alone.
Inserted(rows) == [k \in DOMAIN rows \ DOMAIN journal |-> rows[k]]

\* The journal with the rows of a transaction.
With(j, rows) ==
    [k \in DOMAIN j \union DOMAIN rows |-> IF k \in DOMAIN rows THEN rows[k] ELSE j[k]]

\* An insert waits for a session that holds its key uncommitted.  All passes
\* insert in one order, by trade and rule, so a pass that has inserted some
\* of its rows and waits for another keeps nobody from committing.
Free(s, keys) == \A o \in Sessions \ {s} : keys \intersect DOMAIN session[o].written = {}

\* Mutant: an ordinary pass knows of no open position.
KeptWiped(s) == Unknown

\* KEEP: a pass that knows nothing of positions saves what is stored.
Kept(s) == cache.unrealized_pct

Due(s) ==
    UNION {{<<r, TradeRef(t)>> : t \in Unjudged(s, r)} : r \in DOMAIN session[s].conditions}

Verdicts(s) ==
    [k \in Due(s) |->
        LET met == MetNow(s, k[1], k[2][2])
        IN [fired |-> met /\ ~WasMet(s, k[1], k[2][2]), met |-> met]]

\* The walk over the trades; an ordinary pass then reads what it has to keep.
JudgeTrades(s) ==
    /\ session[s].at = "trades"
    /\ Free(s, Due(s))
    /\ LET unrealized == IF session[s].kind = "day" THEN Kept(s) ELSE session[s].unrealized
       IN session' = [session EXCEPT
            ![s] = [@ EXCEPT !.at = "save",
                             !.written = Inserted(Verdicts(s)),
                             !.unrealized = unrealized]]
    /\ UNCHANGED <<now, ret, stored, rule, journal, cache, overlaps, late>>

Counters(s) ==
    WithUnrealized(CountersAt(session[s].facts, Horizon), session[s].unrealized)

\* A refresh that found a percentage is a cause of its own, once a minute, for
\* the rules that depend on positions.  The state before it is that of the
\* last trade.
PositionRows(s) ==
    LET Key(r) == <<r, PositionsRef(session[s].minute)>>
        due == {r \in DOMAIN session[s].conditions :
                  /\ session[s].kind = "positions"
                  /\ session[s].unrealized # Unknown
                  /\ UsesPositionMetric(session[s].conditions[r])
                  /\ Key(r) \notin DOMAIN session[s].done}
    IN [k \in {Key(r) : r \in due} |->
          LET met == Evaluate(session[s].conditions[k[1]], Counters(s))
          IN [fired |-> met /\ ~WasMet(s, k[1], Horizon + 1), met |-> met]]

\* The row of the day is written whole, and the transaction commits: a pass
\* that waits for another to commit its row overwrites it afterwards.
SaveCounters(s) ==
    /\ session[s].at = "save"
    /\ stored' = stored \union session[s].batch
    /\ journal' = With(With(journal, session[s].written), Inserted(PositionRows(s)))
    /\ cache' = Counters(s)
    /\ late' = (late \/ \E t \in session[s].batch, p \in stored : t < p)
    /\ session' = [session EXCEPT ![s] = Idle]
    /\ UNCHANGED <<now, ret, rule, overlaps>>

\* An error or the death of the process: nothing of the pass remains.
Fail(s) ==
    /\ Running(s)
    /\ session' = [session EXCEPT ![s] = Idle]
    /\ UNCHANGED <<now, ret, stored, rule, journal, cache, overlaps, late>>

PassStep(s) == ReadJournal(s) \/ JudgeTrades(s) \/ SaveCounters(s)

Next ==
    \/ Tick
    \/ \E r \in Rules : CreateRule(r) \/ EditRule(r)
    \/ \E s \in Sessions : BeginDay(s) \/ RefreshPositions(s) \/ PassStep(s) \/ Fail(s)

Spec == Init /\ [][Next]_vars

----------------------------------------------------------------------------
(* Properties *)

Significant(facts) == {t \in facts : IsSignificant(t)}
Sum(facts)  == MapThenSumSet(LAMBDA t : ret[t], facts)
Peak(facts) == Max({0} \union {Sum({p \in facts : p <= t}) : t \in facts})
Streak(facts) ==
    Cardinality({t \in Significant(facts) :
                   \A p \in Significant(facts) : p >= t => ret[p] < 0})

\* The cached counters are those of the trades stored, as one would define
\* them without the walk, whatever order the trades came in, as long as
\* no two passes overlapped (the cache rests on
\* the trades, rules/engine/counters.py).
CountersOfTrades ==
    overlaps = 0 =>
        /\ cache.equity_pct = Sum(stored)
        /\ cache.peak_pct = Peak(stored)
        /\ cache.drawdown_pct = Peak(stored) - Sum(stored)
        /\ cache.loss_sum_pct = Max({0, -Sum(stored)})
        /\ cache.loss_streak = Streak(stored)
        /\ cache.significant_trades = Cardinality(Significant(stored))
        /\ cache.all_trades = Cardinality(stored)

TradeRows(r) == {t \in Trades : <<r, TradeRef(t)>> \in DOMAIN journal}
TradeRow(r, t) == journal[<<r, TradeRef(t)>>]

\* A rule fires at a trade exactly if its condition is met there and was not
\* at the last trade before it that the rule was judged at, through edits,
\* switching off and on, and passes that fail; unless a trade came late or
\* passes overlap, whose walks have seen different trades.
FiresOnRise ==
    overlaps = 0 /\ ~late =>
        \A r \in Rules : \A t \in TradeRows(r) :
            LET earlier == {p \in TradeRows(r) : p < t}
                wasMet == earlier # {} /\ TradeRow(r, Max(earlier)).met
            IN TradeRow(r, t).fired = (TradeRow(r, t).met /\ ~wasMet)

\* No rule fires at a trade that closed before the rule was written.
NoFiringInRetrospect ==
    \A r \in Rules : \A t \in TradeRows(r) : t >= rule[r].created_at

\* What was once judged is never judged otherwise, and no row disappears,
\* also when overlapping passes judge one trade by different facts.
JournalIsFrozen ==
    [][\A k \in DOMAIN journal : k \in DOMAIN journal' /\ journal'[k] = journal[k]]_vars

\* A pass that commits leaves no trade of its walk unjudged by any rule it
\* read, whoever wrote the row.
EveryTradeIsJudged ==
    [][\A s \in Sessions : SaveCounters(s) =>
         \A r \in DOMAIN session[s].conditions : \A t \in session[s].facts :
            t >= rule[r].created_at => <<r, TradeRef(t)>> \in DOMAIN journal']_vars

\* "An ordinary pass has no right to wipe" the stored unrealized percentage
\* (run_day of rules/service.py): only a refresh of positions changes it, as
\* long as passes do not overlap.
KeepsUnrealized ==
    [][overlaps = 0 /\ cache'.unrealized_pct # cache.unrealized_pct =>
         \E s \in Sessions : session[s].kind = "positions" /\ SaveCounters(s)]_vars

============================================================================
