# A TLA+ model of the emotional diary service

The service reads a trader's trades from an exchange account, counts them against the
trader's own rules and, when a rule fires, locks the trader out for the rest of the
trading day or until the unlock conditions are met. What is promised to the trader is a
history that is never rewritten: an incident is open, then kept or breached, once and
for all. Around this core stand the pipeline that makes trades out of executions, the
diary with its series of kept days, and a bot that tells the trader and a trusted contact
what happened and takes the contact's consent.

This directory models that code, model-checks it with TLC and proves with TLAPS, for
every value of the constants, each safety invariant and each action property that the
passing runs check, and the refinement of the abstract promise.

## The system

| Part | Code (below `src/src/eds`) | State it keeps | Operations |
| --- | --- | --- | --- |
| Engine pass | `app/engine.py` | none of its own | `run_day`, `refresh_lock`, `after_ingest`, `today_block` |
| Incidents and locks | `modules/incidents` | `incidents`, `locks`, `lock_reviews`, `lock_confirmations` | `open_from_firing`, `open_fact`, `record_breach`, `settle`, `submit_review`, `request_buddy`, `confirm_by_buddy` |
| System rules | `app/system_rules.py`, `app/retro.py` | rows of the rule journal | SR-1 (violation tag), SR-2 (trade under a lock), SR-3 (no admission), SR-4 (reminder), late tags |
| Rule engine | `modules/rules` | rules with versions, journal of evaluations, counters of the day | `run_day`, editor |
| Trades | `modules/trades` | trades with trading day, tags, marking | `ingest_batch`, `mark_by_user`, `remark_all` |
| Pipeline | `app/pipeline.py`, `app/scheduler.py`, `app/stream.py` | reconcile runs, streams of a process | `sync`, `refresh_positions`, the background loops |
| Event bus | `platform/bus.py` | `outbox`, `cursors`, `dead_letters` | `publish`, `Consumer.step` |
| Daybook | `modules/daybook` | trading days, checks, entries, reviews | `submit`, `close_session`, `upsert_entry`, `submit_review` |
| Streaks | `modules/streaks`, `app/streaks.py` | marks of days, state of the series | `apply_facts`, `recompute`, `freeze` |
| Notifications | `modules/notifications`, `app/notify.py` | outbound queue, Telegram link, trusted contact | `notify`, `dispatch`, `complete_link`, `confirm_contact`, `request_removal` |
| Telegram | `notifications/telegram`, `app/bot.py` | offset of the poller | polling, commands, the button that lifts a lock, the sending loop |
| Sources | `modules/source` | connections, accounts, fills, state of the aggregation | `connect`, `activate`, `verify`, `delete`, Binance adapter |
| Screen stream | `app/ui_stream.py` | queues and recent events in memory | `subscribe`, `publish`, `replay` |
| Identity | `modules/identity`, `platform/auth.py` | users, sessions, settings | login, settings with the observation mode |

How they interact. Executions arrive by a pass of `sync`, by the stream or by a button; one
transaction stores the trades and runs the engine over every day they touch. The
engine calls the rule engine, the system rules, the retro check and the incidents
module in a fixed order. Requests (the Today screen, the review form, the contact's
button) and the bus consumers touch the same rows from sessions of their own. Whatever
changes publishes an event in its own transaction; consumers notify, recompute and
update screens. The daybook and the streaks have no clock: a finished day is closed and
counted when a page is read.

What is hard about it:

- several sessions work on one lock, and only row locks, one unique index and two freeze
  triggers keep them apart;
- nothing ends a lock at the day boundary but the next reader;
- trades, tags and admissions arrive late, for days that are over;
- three transactions build one position's trades, each reading first and writing later;
- ids of the outbox are drawn at the insert and become visible at the commit;
- handlers commit apart from the cursor, updates apart from the offset, messages apart
  from their rows: a crash in between repeats what was done.

`PROJECT.json` lists every hazard at its line with the properties that would catch it.

## The modules

| Module | Models |
| --- | --- |
| `LockLifecycle` | incidents, locks and the engine pass: one trader, a clock, every operation |
| `LockPromise`, `LockRefinement` | the abstract promise to the trader; the mapping of `LockLifecycle` to it |
| `LockSessions` | the same lock code one SQL statement at a time, in overlapping sessions |
| `RuleJournal` | the rule engine of a day: counters, conditions, journal, editor |
| `Outbox` | the event bus: writers, consumers of several processes, crashes |
| `Intake` | executions to trades: aggregation, reconciliation, stream, refresh |
| `Sources` | connections and the registry of streams |
| `Diary` | days, checks, reviews, entries, marks and the series |
| `Messenger` | what the bot says: gate, queue, batch, retries |
| `Telegram` | what the bot hears: poller, links, trusted contact, consent |
| `MC...` | values of constants a `.cfg` cannot write |
| `...Proofs` | the theorems about the module of that name |

### LockLifecycle

| Model | Code |
| --- | --- |
| `now`, `DayOf`, `WindowEnd` | the clock and `contracts/trading_time.py` (a window ends a second before the day) |
| `trade` | rows of `trades` with their marking, and trades of the exchange not yet seen |
| `incident`, `lock` | rows of `incidents` and `locks`; review, confirmation and last request are fields of the lock row |
| `pass` | the engine transaction under way: phase, day, days left |
| `remarked` | trades with a `MARKING_CHANGED` event the bus has still to handle |
| `shadow`, `admitted` | observation mode of the settings; days whose check let the trader in |
| `Sync`, `MarkTrade`, `RefreshPositions`, `OnMarkingChanged` | entry points that start a pass |
| `FireRule`, `EndFiring`, `TagInWindow`, `TagTooLate`, `EndTags`, `CheckAdmission`, `EndDay` | the phases of `run_day`, in its order |
| `RemarkAll` | `remark_all` by the consumer of a changed tag dictionary: marks and events, no pass |
| `TodayRead`, `ActiveLockRead`, `SubmitReview`, `RequestBuddy`, `ConfirmByBuddy` | requests |

An incident is named by what caused it: `<<rule, trade>>` or `<<rule, minute>>`,
`<<SR1, trade>>`, `<<SR2, trade>>`, `<<SR3, day>>`. This is the unique key of the code's
journal of evaluations (user, rule, trigger reference), which is why an incident is
recorded once. `cover` is the lock an incident recorded under a running lock waits for.
Which trade makes a rule fire is left open, so the model covers every set of conditions.
A changed dictionary marks any trades that are known, closed ones and those with an
incident among them, in a transaction of its own. Their incidents come with the consumer of
the events (`OnMarkingChanged`), which may handle one twice; an event it has given up stays
in `remarked` and is never handled. A batch that gives a trade tags it had before publishes
no event, since its key is taken, but passes over the day itself.
A pass is a sequence of steps of one transaction: nothing else moves the rows while it
runs (`Idle` guards the other actions). What happens when transactions do overlap is the
subject of `LockSessions`: passes, reviews and reads under READ COMMITTED, with row locks,
the index `one_active_lock`, the freeze triggers of migration 0009 and deadlock
detection. There a row is its committed value, the value its owner has written, and the
owner.

### RuleJournal

| Model | Code |
| --- | --- |
| `Apply`, `CountersAt`, `WithUnrealized` | `engine/counters.py`: the walk over the trades, open positions |
| `Evaluate`, `ConditionMet`, `Compare` | `engine/evaluate.py`; a condition is a set of groups, joined by "or" |
| `rule`, `journal`, `cache` | rows of `rules`, `evaluations` and `day_counters` |
| `ret`, `stored`, `now` | what each trade returns, the trades of the day committed so far, the minute |
| `session` | a pass in its own transaction: what it has read and written |
| `CreateRule`, `PatchRule`, `ToggleRule`, `DeleteRule` | the editor |
| `BeginDay`, `RefreshPositions` | the callers of `engine.run_day`: a batch, the marking consumer, the minute's positions |
| `ReadJournal`, `JudgeTrades`, `SaveCounters`, `Fail` | `run_day` of `rules/service.py` between its reads and its commit |

A trade is named by the minute it closes in, which is the order of the walk. The journal
is a function from rule and trigger reference, its unique key; an insert waits for a
session that holds the same key (`Free`) and leaves a row that is there alone
(`Inserted`). The conditions a rule may be given are a constant.

### Outbox

`publish` and `Consumer.step`: a writer takes an id, may lose its dedup key to another,
commits or not; a worker locks the cursor (`SKIP LOCKED`), takes a batch, handles each
event in a session of its own, sets a failing one aside, moves the cursor. `OrderedSpec`
adds that writers commit in the order of their ids, which the code does not see to.

### Intake

| Model | Code |
| --- | --- |
| `exchange`, `wire` | what was executed, what the stream still has to hand over; a fill's number is its id and its time |
| `fills`, `state`, `trades`, `announced` | `source.fills`, `source.aggregate_state`, `trades.trades`, `trades.ingested` events |
| `Apply`, `Aggregate` | `adapters/binance/aggregate.py`: a position from zero to zero, with flips |
| `order` | the transaction of an execution of the stream (`app/stream.py`) |
| `pass` | the reconciliation: window, fills, border, closed trades, then positions |
| `poll` | the minute's refresh of positions |
| `slips` | history variable: which of the known ways a round trip can get lost has occurred |

### Sources

`conn` is the table of connections; a request reads, asks the provider or not, and commits
later; `running` is `StreamRegistry._running`; `caller` holds the two callers of
`sync_with_db`, the minute loop and the consumer of `SOURCE_CONNECTION_CHANGED`, which do
not wait for each other. A stream that finds its connection gone stops itself and stays
in the registry.

### Diary

| Model | Code |
| --- | --- |
| `day`, `entry`, `mark`, `series` | rows of `trading_days` with their review, of `entries`, `day_marks` and `streaks.state` |
| `facts` | what trades and incidents say of a day; trades and tags change those of past days |
| `request` | a transaction that counts, with what it has read and is about to write |
| `OnDayChanged`, `MarkTrade`, `Recount`, `ReadUnfinished` and `CloseFinished`, `SubmitReview`, `PutEntry` | the callers of `refresh`: consumer and pages, the trader's mark, late tags, the main page, review, entry |
| `Gather` | the rows of its own are written, the facts read (`facts_for`) |
| `Compare`, `Write` | `apply_facts`: reads the marks, writes those that differ; then the series is read |
| `Count`, `Commit` | `recompute`: reads all marks and counts; writes the series; the transaction ends |
| `AskFreeze`, `Freeze` | the reads of a freeze; its writes |
| `stale` | a page closed a day over one that was closed since it read it |
| `overtaken` | the last to commit had read the series before another committed |

Under READ COMMITTED nobody waits for a reader, so transactions that count may overlap at
each of these steps, the day boundary among them. Row locks are held from the first write of
a row to the commit. A mark or a column that does not change is not written (`Keep`, `Same`),
as SQLAlchemy's UPDATE names only the columns that do. Late tags read the series before they
count and go on with that object. Three things are one step each: the selects of
`facts_for`, which read tables nobody else in the module derives anything from; the reads of
a freeze; and its writes, because it writes the row of the series first and holds it, and
every other transaction that counts has to write that row before it commits. The row of the
series is there from the start. A check is one step, as one that finds a day to close is
always refused.

### Messenger and Telegram

`Messenger`: an event of the bus, possibly repeated, writes its messages under dedup keys,
through the gate (observation mode, switch, channel, chat); `sender` is the dispatch
under way: a batch is sent one by one and saved at its end. `reached` records what each
chat got. `Telegram`: chats send updates, the poller takes the unconfirmed ones and
handles each in a transaction that reads a row and then writes it; the trader's requests
go on meanwhile. `handled`, `bound`, `asked` and `lifter` are history variables that the
properties speak about.

Operators with a comment that begins `Mutant:` are faulty variants, each of the
definition after it; no specification uses them.

## The runs

| Run | Question | Result |
| --- | --- | --- |
| `lock_probe` | consistency of locks and incidents, the frozen history and the refinement, with a user rule, position refreshes, the day boundary and the observation mode | holds |
| `lock_ends` | no lock is lifted before its conditions, every lock ends, every breach leaves its incident, and every violation its incident or an event that still waits | holds |
| `outbox_ordered` | delivery, repeats and dedup keys when writers commit in the order of their ids | holds |
| `outbox_gap` | delivery as the code has it, with commits in any order | violated |
| `sessions` | verdicts of overlapping sessions, reviews that end their lock | holds |
| `journal` | the counters are those of the trades, rules fire on the rise of their condition and never for the past, no verdict changes, no trade is passed over | holds |
| `telegram` | codes are used once, locks are lifted by consent, removals wait, repeats are explained by restarts | holds |
| `messenger` | one recipient, repeats explained by lost answers and crashes, every message settled | holds |
| `diary` | the series against its definition, the past stays, each but for a transaction that was overtaken; reviews that shut the trader out can be given, no check passes over one that is owed | holds |
| `intake` | closed trades are exactly the round trips, each announced once | holds |
| `intake_lost` | a round trip that is saved becomes a trade | violated |
| `sources` | streams follow the active connection | holds |

The two violations are disagreements of the code with its own documentation, quoted in
`PROJECT.json`:

- *Gap.* An event whose writer commits after a later id was read is never handled, where
  the bus promises delivery at least once.
- *Lost round trip.* A pass stores the fills and moves the border of the aggregation past
  the round trips it closed before it asks for the positions; when that request fails the
  transaction is committed without the trades, and no later pass looks before the border.

### Bounds

- *Locks.* `Horizon = 5` gives two days of three moments, the last of each past its window:
  a late batch, a lock that outlives its day unread and a tag on either side of the boundary
  all occur. One trade and one other cause (a refresh of positions, or a tag) suffice: a
  lock needs one cause to start and one trade to be breached.
- *Sessions.* Two passes that both fire, one of which sees the trade, a review and a read:
  every pair of kinds meets, and a cycle of waits can have three members. The three
  invariants are proved for any number.
- *Outbox.* Four writers, two with one key and one of an unwanted type, batches of two (so
  that a batch ends before the events do), two processes and one crash.
- *Journal.* Three trades whose sum crosses the threshold, falls below it and crosses it
  again, with dust in the middle; one rule that may change between a condition on trades
  and one on positions, one minute with a refresh, two sessions, one pass that begins while
  another runs. Three trades are the fewest on which a rule can fire twice.
- *Telegram.* Two chats, one lock, one link code and two invitations, two updates, each
  delay shorter than the clock's horizon, one failure and one crash: the second update
  competes with the repeated first one, and an invitation can be replaced by another.
- *Messenger.* One message to each channel, two attempts, two chats, one lost answer and
  one crash; the batch holds both messages, so a crash between them occurs.
- *Diary.* Three days, the last of which never ends; two transactions, the fewest that
  overlap; entries editable for a day. A trade, a violation and a breach of a lock may be
  told of the first day; an entry and a freeze may come on each of the first two, and a check
  on each day, granted on the first two. `OfOneKind` bounds the combinations: TLC goes on
  from the states of checks, sessions and reviews without entries and freezes (`OfReviews`;
  once a lock was breached, with one transaction at a time), and from those of entries,
  freezes and the series in which only the first day has a trade and a check
  (`OfTheSeries`). Among the latter a freeze is written over at the boundary, the best
  series falls and a series is left that does not fit. It is the longest run, of about
  three minutes.
- *Intake.* Up to four fills of one lot or two: a position opens, grows, closes exactly and
  turns over, and a second round trip follows the first. A pass looks back one fill,
  so older ones fall out of its window; one failure of the exchange.
- *Sources.* Two providers, one of them with a stream, two overlapping requests, three ids
  and four changes: a connection is deleted, made anew and switched while the registry is
  being brought in line; one restart.

Symmetry is used where it is sound: sessions, requests and chats are interchangeable, and
the runs with symmetry check invariants and action properties, no liveness. Deadlock
checking is off because the systems may rest: the clock ends, writers, requests and
sessions are done, the bounds on changes are used up.

What the conditions of properties leave out is said at the property: overlapping passes
(`overlaps = 0`) and late trades in `CountersOfTrades` and `FiresOnRise`, two requests
that close one day over each other in `PendingReviewIsOpen` (`stale`), a transaction that
was overtaken in `SeriesIsUnbroken` and `HistoryIsKept` (`overtaken`, `fresh`), and the slips
of `Intake`, each of which is a disagreement listed below.

### Fairness

- `LockLifecycle!FairSpec`: time goes on, a transaction that began goes on to its end, and
  the Today screen is open (`TodayPage` asks once a minute). The last is needed: no process
  ends a lock, only a reader does.
- `Outbox!FairOrderedSpec`: some process of the consumer goes on, as `Consumer.run` loops
  also after an exception.
- `Messenger!FairSpec`: the sending loop goes on, also after a crash.
- `Intake!FairSpec`: the scheduler's passes go on and their steps end.
- `Sources!Spec`: both callers of `sync_with_db` are loops that survive their own errors.

Nothing is assumed of the trader, the contact, the exchange or Telegram.

### Disagreements without a run

Met while modelling; each is a comment, a text or an evident intention the code does not
keep.

- An incident recorded under a running lock is closed with it only if it is of the same
  trading day; another stays open for ever (`incidents/service.py:465`).
- Reading the active lock settles it without looking for trades under it
  (`incidents/api.py:161`).
- When a review lifts the lock between two statements of a pass, the pass records the
  trade but no breach (`app/engine.py:175`).
- A pass that began before a refresh of positions committed writes the old percentage over
  the new one (`rules/service.py:561`).
- A rule on open positions fires again every minute: the state before a refresh is looked
  up at the last trade, where position metrics are unknown (`rules/service.py:573`).
- `after_ingest` says that a day that is over starts no lock; `_start_lock` does start one,
  and the same pass expires it (`app/engine.py:193`).
- A reminder the Today screen has claimed is sent by nobody (`app/system_rules.py:431`).
- What `verify` found wrong with a key is overwritten by the next pass
  (`app/pipeline.py:158`).
- What a turning fill leaves over is lost at the next rebuild, whose border is that fill
  (`aggregate.py:288`).
- A fill that comes after its trade was closed leaves the trade as it was, or a second one
  beside it (`trades/service.py`).
- Two transactions on one position overwrite each other's state of the aggregation
  (`source/repo.py:644`), and a refresh of positions the result of a trade just closed
  (`trades/service.py:145`).
- Fills older than the overlap are not fetched once the stream has brought a newer one
  (`source.py:384`).
- A stream that stopped itself stays in the registry and is not started again
  (`app/stream.py:133`); two callers that stop one stream meet a `KeyError`
  (`app/stream.py:207`).
- Two failing updates in one batch repeat for ever, and a failed update is lost when the
  next one moves the offset (`poller.py:111`).
- Two requests that close one day over each other ask again for a review already given
  (`daybook/service.py:325`).
- Two transactions that count at a time: the slower one writes a series that does not fit
  the marks until the next count (`streaks/service.py:67`), may put a lower best over a
  higher one (`streaks/service.py:72`), and, with the marks it read before, writes over a
  freeze of the day that has just ended (`streaks/service.py:55`), which the docstring above
  it says is left alone.

## The proofs

For every value of the constants that satisfies the named assumptions of its module:

| Module | Theorem | Says |
| --- | --- | --- |
| `LockLifecycle` | `TypeCorrect` | the type invariant |
| | `OneLockAtATime` | one active lock at most |
| | `OneVerdict` | a lock and its incident tell one verdict |
| | `SharedVerdict` | an incident that waited for a lock of its day has its verdict |
| | `FrozenHistory` | decided incidents and ended locks never change |
| | `LiftOnConditions` | a lifted lock met each condition before its day ended |
| | `BreachesCount` | a trade under a lock is recorded against it, in time |
| | `TagsRecorded` | a marked violation leaves its incident, or its event still waits |
| | `PromiseKept` | `LockLifecycle` implements `LockPromise` |
| `LockSessions` | `LocksAreAlone`, `VerdictsStayOne` | the first and the third of these for any number of overlapping sessions |
| | `ReviewsEndLocks` | a review that was taken has ended its lock, none is lifted without |
| | `TypeCorrect` | the type invariant |
| `RuleJournal` | `VerdictsAreNotInRetrospect` | no rule has a verdict on a trade older than itself |
| | `VerdictsStand` | no row of the journal is changed or disappears |
| | `NoTradeIsPassedOver` | a pass that commits leaves its trades judged by its rules |
| | `PassesContinue` | the invariant of passes that meet nobody, on which the next two rest |
| | `RulesFireOnRise` | they fire a rule at a trade exactly if its condition rises there |
| | `CountersAreOfTrades` | they leave the counters of the day's trades |
| | `UnrealizedIsKept` | over trades, they leave the percentage of open positions as it is |
| | `TypeCorrect` | the type invariant, also while passes overlap |
| `Outbox` | `TypeCorrect`, `KeysArePublishedOnce`, `RepeatsAreCrashes` | types; one event for a key; repeats need crashes |
| | `OrderedIsDelivered` | with ordered commits no wanted event is left behind |
| `Telegram` | `TypeCorrect`, `RemovalWaits`, `RepeatsAreRestarts` | types; a removal takes its day; an update is repeated only after a restart |
| | `CodesAreUsedOnce`, `LiftsAreConsented` | a code binds one chat; a lock is lifted only by a contact who accepted |
| `Diary` | `PendingReviewsCanBeGiven`, `AdmissionsFollowReviews` | reviews that shut out can be given; admissions follow them |
| | `SeriesCountsKeptDays` | the series is the unbroken run of kept days, unless the last to commit was overtaken |
| | `PastIsKept` | a lower best, a freeze undone need a transaction that was overtaken; entries past their time stay |
| | `TypeCorrect` | the type invariant |
| `Intake` | `ClosedTradesAreAnnounced`, `ClosedTradesStay` | closed trades are announced, and stay closed |
| | `BooksAreRight` | the saved border and position stand for the walk over all fills |
| | `RoundTripsBecomeTrades` | short of three named slips, a saved round trip has its closed trade |
| | `TradesAreRoundTrips` | short of any slip, closed trades are the round trips, fill by fill |
| | `TypeCorrect` | the type invariant |
| `Messenger` | `TypeCorrect` | the type invariant |
| | `OneRecipientEach` | a message never reaches two chats, however often it is tried |
| | `RepeatsAreAccounted` | each delivery too many cost a lost answer or a crash |

*Locks.* `Effect` classifies steps by what they do to incidents and locks: nothing, a rule
fires, a fact is stated, the contact is asked, or the active lock is judged and settled.
`StepEffect` shows that each action of `Next` is one of these, and the rest is proved about
the five. The inductive invariant is

    IInv == TypeOK /\ OneActiveLock /\ VerdictsAgree /\ Covered

`Covered` is the strengthening. `CoveredSharesVerdict` is not inductive: when the lock
ends, the incidents waiting for it must still be open, have a lock that really exists,
and have no lock of their own, or settling one lock would rewrite an incident that
belongs to another. The frozen history needs the invariant too: only `IInv` says that the
row a step writes was empty and no lock hung on it. That breaches and violations are
recorded is a matter of time: `Timely` says that no trade lies in the future, no pass takes
a day to come and no lock is of a day later than its start; with `BreachRows`, an SR-2 row
is of its trade's own day, which then is the lock's. `TagsAwaited` says that a tag without
an incident has an event to come or is still ahead of the pass that looks at its day. The refinement maps the holder to the
active lock and the verdict to the incident's outcome; each effect is then a step of the
promise or a stutter.

*Sessions.* `VerdictsAgree` is about committed rows and says nothing of the rows in hand.
`Consistent` adds what each session sees: the lock and its incident agree in its eyes
(`View`), but between the two writes of a close (`HalfClosed`), when it owns the lock row;
what it has read is still so (`Knows`); a decided value is never written over, and a
new lock and its incident are in one hand until they are committed (`RowInOrder`). A
step that writes only rows nobody else has in hand does not disturb the others
(`OthersUndisturbed`), so each action is looked at through its own session's eyes. At a
commit the pair the session saw is put in place; a session that owns one of the two rows
cannot have decided otherwise. `OneContended`, at most one row is active or may become
so, is what the unique index keeps. For the reviews, `ReviewsInOrder` follows a review from
hand to commit: while a session holds one it is on its way to end the lock (`Holds`), and
who sees a lock lifted, or is about to lift it, sees its review (`Lifts`).

*Journal.* The difficulty is the time between a pass's inserts and its commit. The
invariant says that what a session has written is of trades and rules it read and is nobody
else's (`WritesAreItsOwn`), which the wait for equal keys keeps up; that a walk that ended
has left a row for each of its trades (`WalkIsComplete`); and that rows belong to rules
that were written (`RowsHaveRules`). None of that depends on what the counters are.

The other half of the module does, and speaks of passes that overlap no other. `RInv`
says that what such a pass has read is what is stored (`SoloReads`), that from the minute a
rule was written to the last trade it was judged at no trade is unjudged (`Unbroken`), and
that a row says "fired" exactly where the condition holds at its trade and not at the one
judged before, for the rows stored (`RisesStored`) and with the rows in hand
(`RisesPending`). The walk of the counters is a recursive function over minutes; that its
value is the sum, peak, streak and number of the trades up to a minute, and so what the
cache holds (`CacheCounts`), goes by induction over the minutes. When passes overlap, the
last to commit writes the count of the trades it has seen, so what is left for the types
is that the cache is always the count of some trades of the day (`CacheIsAWalk`), whose
drawdown is never negative.

*Outbox.* Delivery rests on three facts about a consumer at work: a row that is still open
has an id ahead of the cursor (`OpenRowsAreAhead`, where ordered commits are used), the
batch in hand holds the first rows after the cursor (`BatchIsFirst`), and what the worker
has passed is dealt with (`PassedIsDealtWith`).

*Telegram.* `OneChatPerCode` is strengthened to the row of the link or of the contact: a
code that is alive has bound nobody (`CodesOnce`). `LiftedByConsent` needs that who may
consent is a chat an invitation was bound to, also while a handler has read a contact
that is being removed (`Consent`).

*Diary.* `Order` says which days may be open, closed and reviewed relative to today
(`DaysInOrder`) and that the days a transaction is to close or review are so still, or closed
by now (`Backed`). For the series, `SeriesInOrder` says that the row holds what the walk over
the present marks comes to unless the last to commit was overtaken, and `Fresh` says what a
transaction knows that has not been overtaken: the series it read is the one that is stored,
what it has counted fits the marks it will leave, and no mark it writes is frozen. A commit
takes that knowledge from all others (`Finish`). A lemma shows that the walk counts the days
kept since the last that was not, by induction over the days. That the best series
does not fall needs that the longest run is a number, for the code compares it with the best
so far. The types bound it: a run is of days that have ended, and a transaction plans no more
freezes than its month has left, whatever another has written since. `EntriesInOrder` says
that a transaction with an entry in hand came in time for it, if there was one.

*Intake.* For single rows, `Announced` adds the types of trades: each of the three
transactions writes a row and announces it in one step. That trades are the round trips
is about the books as a whole. `Aggregate` walks over all fills; a transaction walks
only over those behind the saved border, from the saved position. The lemmas say that the
walk depends on nothing but the fills it meets (`SameFill`), that a place where the
position is flat cuts it in two independent halves (`WalkSplits`), and that a rebuild from
such a place finds the round trips behind it, no more and no fewer (`RebuildFinds`). The invariant `BInv`
then says that each transaction holds what it built from what it had read
(`Transactions`), that the border is such a place as long as no fill crossed zero, no
reading was overtaken and no pass failed half-way (`BooksInOrder`), and, while no slip at
all has occurred, that trades and round trips agree fill by fill (`TradesInOrder`). Of a
fill that crosses zero the border keeps nothing, and after a failed pass the border is
beyond a round trip without a trade: the argument ends where the code's does. What survives
every slip is in the types (`Sound`): the border is a saved fill, the open position is not
flat and begins behind it, and nothing is from before the connection.

*Messenger.* No message is twice in the queue (`NoRepeats`), what is queued has a chat and an
attempt left (`RowsSendable`), and a message of the batch in hand is tried once and keeps
its chat in the row that will be saved (`BatchHolds`), so it went where its row says
(`ReachedItsChat`). A delivery the service knows of, saved or about to be, is one; any other
is covered by the answers lost and the crashes so far (`DeliveriesCounted`).

Induction over data is done inside the proofs, without the library's schemes: if a statement
about numbers failed, the set of its counterexamples would have a least element
(`NatLessThanWellFounded`, `WFMin`), and the step from its predecessor refutes it.

### Only model-checked

- Liveness: `LockEnds`, `Delivered`, `QueuedIsSettled`, `SwitchedOffIsSilenced`,
  `ActiveIsStreamed`, and the violated `RoundTripsComeThrough`. Fairness is a statement about `ENABLED`, which the provers do not handle. `Sources` states
  nothing but liveness and has no theorems for that reason; its `TypeOK` describes the state
  and holds in the instance of that run.
- The counterexample of `outbox_gap` is a behaviour; there is nothing to prove about it.

## Not modelled

- The screen stream: memory of one process that may lose anything, because a tab reads the
  whole screen again.
- The wording of incidents and messages, templates, HTTP and JSON, the assembly of
  responses, cryptography, logging, configuration and the React screens. Of the web client
  only the poll of the Today page is used, as fairness.
- Login, its limits and sessions; of the settings only the observation mode and the
  switches of the bot are modelled.
- The TMM and the test adapters, the mapping of fields of the exchange, the listen key, the
  back-off of a broken stream, accounts, the tag dictionary and the journal of reconcile
  runs. A trade's numbers are abstract but in `RuleJournal`, where the counters are the
  subject.
- The pool of database connections and the processes' entry points.

That every session of `LockSessions` ends is not stated. Sessions do come to wait for each
other in a circle, and PostgreSQL's detector, which `ResolveDeadlock` stands for, fails one of
them: no order in which the code takes its locks does.

What a next step would add: the TMM adapter with its unique key that a missing market
evades, the queue of a screen, and the limits of login.
