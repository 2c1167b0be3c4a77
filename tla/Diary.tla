------------------------------- MODULE Diary --------------------------------
(***************************************************************************)
(* The day of the trader and the series of kept days                       *)
(* (modules/daybook, modules/streaks, app/streaks.py): the check before    *)
(* the session, the session, the review after it, the entry, the mark of a *)
(* finished day and the series read off the marks.                         *)
(*                                                                         *)
(* Nothing runs at the boundary of a day: a finished session is closed and *)
(* the marks are counted when a page is read.  Trades come late and are    *)
(* marked late, behind the back of what was already counted.               *)
(*                                                                         *)
(* Whoever counts, a page, a request or the bus consumer, does so in a     *)
(* transaction under READ COMMITTED: it reads the facts, then the marks,   *)
(* writes those that differ, reads the series, then all the marks, and     *)
(* writes what it computed.  Plain reads take no lock, so two that count   *)
(* at a time may write over each other.  A row that is written stays with  *)
(* its transaction until the commit; whoever else writes it waits.         *)
(***************************************************************************)
EXTENDS Integers, FiniteSets

CONSTANTS
    LastDay,            \* bound: the days are 0..LastDay
    Happens,            \* bound: day -> what trades and incidents may tell
    Writes,             \* bound: day -> entries the trader may write
    Checks,             \* bound: day -> verdicts its check may come to
    Freezable,          \* bound: days the trader may ask to freeze
    MonthOf,            \* day -> month
    EditableDays,       \* EDITABLE_HOURS, in days past the day's end
    FreezesPerMonth,
    Requests            \* transactions that may overlap

Days == 0..LastDay

ASSUME DiaryAssumption ==
    /\ {LastDay, EditableDays, FreezesPerMonth} \subseteq Nat
    /\ Happens \in [Days -> SUBSET {"traded", "violated", "breached"}]
    /\ Writes \in [Days -> SUBSET {"empty", "filled"}]
    /\ Checks \in [Days -> SUBSET {"granted", "denied"}]
    /\ Freezable \subseteq Days
    /\ MonthOf \in [Days -> Nat]
    /\ \A d, e \in Days : d <= e => MonthOf[d] <= MonthOf[e]

VARIABLES
    today,
    day,        \* Days -> daybook.trading_days, with the review's row
    facts,      \* Days -> what trades and incidents say of the day
    entry,      \* Days -> the entry of the day
    mark,       \* Days -> streaks.day_marks
    series,     \* streaks.state
    request,    \* Requests -> what it has read and is about to write
    stale,      \* a request wrote over a day that was closed since it read it
    overtaken   \* the series the last to commit had read was committed over

rows   == <<day, facts, entry>>
ghosts == <<stale, overtaken>>
vars   == <<today, rows, mark, series, request, ghosts>>

Reasons == {"frozen", "ok", "no_check", "breach", "violation", "no_review",
            "no_entry"}
Months  == {MonthOf[d] : d \in Days}
NoMonth == -1

\* admission: red opens the session as green does.  reviewed: the row of
\* session_reviews, which review repeats.
DayRow == [admission : {"none", "granted", "denied"}, opened : BOOLEAN,
           closed : BOOLEAN, review : {"none", "pending", "done"},
           reviewed : BOOLEAN]

EmptyDay == [admission |-> "none", opened |-> FALSE, closed |-> FALSE,
             review |-> "none", reviewed |-> FALSE]

NoSeries == [current |-> 0, best |-> 0, month |-> NoMonth, used |-> 0]

\* A mark or a column that a transaction does not write.
Same == -1
Keep == "keep"
KeepAll == [d \in Days |-> Keep]

\* A transaction: what it does, how far it is, the day it took for today, the
\* days whose rows it writes itself, the entry it writes; the marks it found,
\* then those it writes; the series it read, then the columns it writes;
\* which of these two reads are still what is committed.
RequestRow ==
    [op : {"none", "refresh", "close", "review", "entry", "freeze"},
     at : {"idle", "begun", "gathered", "compared", "written", "counted"},
     on : Days, days : SUBSET Days, text : {"none", "empty", "filled"},
     marks : [Days -> Reasons \union {"none", Keep}],
     current : {Same} \union 0..LastDay, best : {Same} \union 0..LastDay,
     month : Months \union {NoMonth}, used : 0..FreezesPerMonth,
     fresh : SUBSET {"marks", "series"}]

Ready == [op |-> "none", at |-> "idle", on |-> 0, days |-> {}, text |-> "none",
          marks |-> KeepAll, current |-> Same, best |-> Same,
          month |-> NoMonth, used |-> 0, fresh |-> {}]

TypeOK ==
    /\ today \in Days
    /\ day \in [Days -> DayRow]
    /\ \A d \in Days : /\ day[d].opened <=> day[d].admission = "granted"
                       /\ day[d].closed => day[d].opened
                       /\ day[d].review = "done" => day[d].reviewed
    /\ facts \in [Days -> {"quiet", "traded", "violated", "breached"}]
    /\ entry \in [Days -> {"none", "empty", "filled"}]
    /\ mark \in [Days -> Reasons \union {"none"}]
    /\ \A d \in Days : mark[d] \in {"none", "frozen"} \/ d < today
    /\ series \in [current : 0..LastDay, best : 0..LastDay,
                   month : Months \union {NoMonth}, used : 0..FreezesPerMonth]
    /\ request \in [Requests -> RequestRow]
    /\ \A r \in Requests :
        /\ request[r].on <= today
        /\ \A d \in Days : request[r].marks[d] # Keep => d < today
    /\ stale \in BOOLEAN
    /\ overtaken \in BOOLEAN

Init ==
    /\ today = 0
    /\ day = [d \in Days |-> EmptyDay]
    /\ facts = [d \in Days |-> "quiet"]
    /\ entry = [d \in Days |-> "none"]
    /\ mark = [d \in Days |-> "none"]
    /\ series = NoSeries
    /\ request = [r \in Requests |-> Ready]
    /\ stale = FALSE
    /\ overtaken = FALSE

----------------------------------------------------------------------------
(* Rows of a transaction *)

\* The rows of days and entries a transaction has written and holds.
Held(s) ==
    IF s.at \in {"idle", "begun"} THEN {}
    ELSE {IF s.op = "entry" THEN "entry" ELSE "day"} \X s.days

\* _close: a closed session asks for its review.
Closed(dayRow) ==
    [dayRow EXCEPT !.closed = TRUE,
                   !.review = IF @ = "none" THEN "pending" ELSE @]

\* _close by a page that read the review as not yet asked for.
ClosedUnasked(dayRow) == [dayRow EXCEPT !.closed = TRUE, !.review = "pending"]

\* save_review, with the day it is of.
Reviewed(dayRow) == [dayRow EXCEPT !.reviewed = TRUE, !.review = "done"]

\* The days and the entries with what the transaction has written to them.
DaysOf(s) ==
    [d \in Days |-> IF d \notin s.days      THEN day[d]
                    ELSE IF s.op = "close"  THEN ClosedUnasked(day[d])
                    ELSE IF s.op = "review" THEN Reviewed(day[d])
                    ELSE day[d]]

EntriesOf(s) ==
    [d \in Days |-> IF d \in s.days /\ s.op = "entry" THEN s.text ELSE entry[d]]

----------------------------------------------------------------------------
(* Marks and series *)

\* day_summaries and breach_counts, of a day: what is told of it is the
\* heaviest of what happened.
Traded(f)   == f # "quiet"
Violated(f) == f = "violated"
Breached(f) == f = "breached"

\* mark_of: the heaviest reason first; a day off the market counts when its
\* entry is written and is no mark at all otherwise.
MarkOf(dayRow, f, e) ==
    LET traded == Traded(f)
        active == traded \/ dayRow.opened \/ dayRow.admission # "none"
    IN  CASE ~active /\ e = "filled"                       -> "ok"
          [] ~active /\ e # "filled"                       -> "none"
          [] active /\ traded /\ dayRow.admission # "granted" -> "no_check"
          [] active /\ dayRow.admission = "granted" /\ Breached(f)
                                                           -> "breach"
          [] active /\ dayRow.admission = "granted" /\ Violated(f)
                                                           -> "violation"
          [] active /\ dayRow.admission = "granted" /\ f = "traded"
               /\ dayRow.review # "done"                   -> "no_review"
          [] OTHER -> IF e = "filled" THEN "ok" ELSE "no_entry"

\* facts_for and mark_of: what the transaction makes of the finished days of
\* its window.
Found(s, window) ==
    [d \in Days |-> IF d \in window /\ d < s.on
                    THEN MarkOf(DaysOf(s)[d], facts[d], EntriesOf(s)[d])
                    ELSE Keep]

\* Mutant: the freeze is counted over like any other mark.
FrozenNever(d) == FALSE

\* marked_days: the marks that stand.
Frozen(d) == mark[d] = "frozen"

\* apply_facts: a frozen day is left alone, and a mark that stands already.
Differing(found) ==
    [d \in Days |-> IF Frozen(d) \/ found[d] = mark[d] THEN Keep ELSE found[d]]

Touched(s) == {d \in Days : s.marks[d] # Keep}

\* marks_of: the committed marks under those the transaction has written.
MarksOf(s) ==
    [d \in Days |-> IF s.marks[d] = Keep THEN mark[d] ELSE s.marks[d]]

\* Mutant: a frozen day breaks the series.
StepFreezeless(run, m) ==
    CASE m = "none" -> run
      [] m = "ok"   -> run + 1
      [] OTHER      -> 0

\* One mark more: neutral days are passed over.
Step(run, m) ==
    CASE m \in {"none", "frozen"} -> run
      [] m = "ok"                 -> run + 1
      [] OTHER                    -> 0

\* The runs that end with each day, oldest first: the last one is the current
\* series, the longest the best.
Runs(marks) ==
    LET run[n \in 0..LastDay + 1] ==
            IF n = 0 THEN 0 ELSE Step(run[n - 1], marks[n - 1])
    IN  run

Current(marks) == Runs(marks)[LastDay + 1]

Longest(marks) ==
    LET run == Runs(marks)
    IN  CHOOSE n \in 0..LastDay + 1 :
            /\ \E i \in 0..LastDay + 1 : run[i] = n
            /\ \A i \in 0..LastDay + 1 : run[i] <= n

Best(best, marks) == IF Longest(marks) > best THEN Longest(marks) ELSE best

\* An UPDATE names the columns whose value is another than was read.
Changed(read, value) == IF value = read THEN Same ELSE value
Updated(column, change) == IF change = Same THEN column ELSE change

----------------------------------------------------------------------------
(* The day *)

NextDay ==
    /\ today < LastDay
    /\ today' = today + 1
    /\ UNCHANGED <<rows, mark, series, request, ghosts>>

Open(d) == day[d].opened /\ ~day[d].closed
Unfinished == {d \in Days : d < today /\ Open(d)}

ClosedDays(days) == [d \in Days |-> IF d \in days THEN Closed(day[d])
                                                  ELSE day[d]]

\* oldest_pending_review, of any earlier day.
ReviewWaits(dayRows) ==
    \E d \in Days : d < today /\ dayRows[d].review = "pending"

\* save_check, with the day it is of: a verdict that is no denial opens the
\* session.
Checked(dayRow, verdict) ==
    [dayRow EXCEPT !.admission = verdict, !.opened = (verdict = "granted")]

\* submit: refused while a review waits and once the check is made.
Submit(dayRows, verdict) ==
    /\ ~ReviewWaits(dayRows)
    /\ dayRows[today].admission = "none"
    /\ day' = [dayRows EXCEPT ![today] = Checked(@, verdict)]

\* Mutant: the check does not close the days that have ended.
SubmitCheckOpen(verdict) ==
    /\ Submit(day, verdict)
    /\ UNCHANGED <<today, facts, entry, mark, series, request, ghosts>>

\* submit_check: the finished days are closed first.
SubmitCheck(verdict) ==
    /\ Submit(ClosedDays(Unfinished), verdict)
    /\ UNCHANGED <<today, facts, entry, mark, series, request, ghosts>>

\* close_session: today's, by hand (no lock being active).
CloseByHand ==
    /\ Open(today)
    /\ day' = ClosedDays({today})

CloseSession ==
    /\ CloseByHand
    /\ UNCHANGED <<today, facts, entry, mark, series, request, ghosts>>

\* What trades and incidents say of a day changes: a trade arrives, a tag
\* marks it or is taken off, a breach of a lock is recorded.
NewFacts(d, f) ==
    /\ d <= today
    /\ facts[d] # f
    /\ facts[d] # "breached"
    /\ facts' = [facts EXCEPT ![d] = f]
    /\ UNCHANGED <<today, day, entry, mark, series, request, ghosts>>

\* remark_all: a changed dictionary of tags marks the trades of all the days
\* again, by the tags they carry.
RemarkAll ==
    /\ \E days \in SUBSET {d \in Days : facts[d] \in {"traded", "violated"}} :
        /\ days # {}
        /\ facts' = [d \in Days |-> IF d \notin days THEN facts[d]
                                  ELSE IF Violated(facts[d]) THEN "traded"
                                  ELSE "violated"]
        /\ \A d \in days : facts'[d] \in Happens[d]
    /\ UNCHANGED <<today, day, entry, mark, series, request, ghosts>>

----------------------------------------------------------------------------
(* Transactions that count: how they begin *)

Advance(r, s) == request' = [request EXCEPT ![r] = s]

\* The rows of its own are written and the facts read.
Gather(r, s, window) ==
    LET t == [s EXCEPT !.at = "gathered", !.marks = Found(s, window),
                       !.on = IF s.op = "entry" THEN @ ELSE 0]
    IN  /\ \A q \in Requests \ {r} : Held(request[q]) \intersect Held(t) = {}
        /\ Advance(r, t)
        /\ UNCHANGED <<today, rows, mark, series, ghosts>>

Idle(r) == request[r].op = "none"
Begun(op, days) == [Ready EXCEPT !.op = op, !.at = "begun", !.on = today,
                                 !.days = days]

\* on_day_changed, the page of the series, the main page with no day to close.
OnDayChanged(r) ==
    /\ Idle(r)
    /\ Gather(r, Begun("refresh", {}), Days)

\* mark_trade counts the day of the trade, whose mark is a fact by now.
MarkTrade(r, d) ==
    /\ Idle(r)
    /\ Traded(facts[d])
    /\ Gather(r, Begun("refresh", {}), {d})

\* recount, of the days since a trade was tagged; of all the days when that is
\* today.  It has read the series before and holds what it read.
Recount(r, d) ==
    /\ Idle(r)
    /\ Traded(facts[d])
    /\ Gather(r, [Begun("refresh", {}) EXCEPT !.current = series.current,
                                              !.best = series.best,
                                              !.fresh = {"series"}],
              {e \in Days : d <= e \/ d = today})

\* The main page finds the finished days whose session is open ...
ReadUnfinished(r) ==
    /\ Idle(r)
    /\ Unfinished # {}
    /\ Advance(r, Begun("close", Unfinished))
    /\ UNCHANGED <<today, rows, mark, series, ghosts>>

\* ... and closes them: it read the review as "none".
CloseFinished(r) ==
    /\ request[r].op = "close" /\ request[r].at = "begun"
    /\ Gather(r, request[r], Days)

\* Mutant: a review of a session that still runs is taken.
ReviewEarly(d) == day[d].opened /\ ~day[d].reviewed

\* submit_review: once, for a session that has been closed.
Review(d) == day[d].closed /\ ~day[d].reviewed

\* post_review
SubmitReview(r, d) ==
    /\ Idle(r)
    /\ Review(d)
    /\ Gather(r, Begun("review", {d}), Days)

\* entry_of
Written(d) == entry[d] # "none"

\* An entry that exists is closed 48 hours after its day.
Editable(d) == today <= d + EditableDays

\* upsert_entry: not of the future.
UpsertEntry(d) == d <= today /\ (Written(d) => Editable(d))

\* put_entry counts that one day.
PutEntry(r, d, text) ==
    /\ Idle(r)
    /\ UpsertEntry(d)
    /\ Gather(r, [Begun("entry", {d}) EXCEPT !.text = text], {d})

----------------------------------------------------------------------------
(* Transactions that count: how they go on *)

\* apply_facts reads the marks ...
Compare(r) ==
    LET s == request[r]
    IN  /\ s.at = "gathered"
        /\ Advance(r, [s EXCEPT !.at = "compared",
                                !.marks = Differing(s.marks),
                                !.fresh = @ \union {"marks"}])
        /\ UNCHANGED <<today, rows, mark, series, ghosts>>

\* ... and writes those that differ, whatever they have become; recompute
\* reads the series, unless the transaction holds what it read before.
Write(r) ==
    LET s == request[r]
        reads == s.current = Same
    IN  /\ s.at = "compared"
        /\ \A q \in Requests \ {r} :
              request[q].at \in {"written", "counted"} =>
                  Touched(request[q]) \intersect Touched(s) = {}
        /\ Advance(r, [s EXCEPT
              !.at = "written",
              !.current = IF reads THEN series.current ELSE @,
              !.best = IF reads THEN series.best ELSE @,
              !.fresh = IF reads THEN @ \union {"series"} ELSE @])
        /\ UNCHANGED <<today, rows, mark, series, ghosts>>

\* recompute, always over all the marks.
Count(r) ==
    LET s == request[r]
        marks == MarksOf(s)
    IN  /\ s.at = "written"
        /\ Advance(r, [s EXCEPT
              !.at = "counted",
              !.current = Changed(@, Current(marks)),
              !.best = Changed(@, Best(@, marks))])
        /\ UNCHANGED <<today, rows, mark, series, ghosts>>

\* The transaction ends; what the others have read has changed.
Finish(r) ==
    /\ request' = [q \in Requests |->
         IF q = r THEN Ready ELSE [request[q] EXCEPT !.fresh = {}]]
    /\ overtaken' = ("series" \notin request[r].fresh)

ClosesOver(s) == s.op = "close" /\ \E d \in s.days : day[d].closed

Commit(r) ==
    LET s == request[r]
    IN  /\ s.at = "counted"
        /\ day' = DaysOf(s)
        /\ entry' = EntriesOf(s)
        /\ mark' = MarksOf(s)
        /\ series' = [series EXCEPT !.current = Updated(@, s.current),
                                    !.best = Updated(@, s.best)]
        /\ stale' = (stale \/ ClosesOver(s))
        /\ Finish(r)
        /\ UNCHANGED <<today, facts>>

\* An error, or a row that would be waited for in a circle: all is undone.
Fail(r) ==
    /\ ~Idle(r)
    /\ Advance(r, Ready)
    /\ UNCHANGED <<today, rows, mark, series, ghosts>>

----------------------------------------------------------------------------
(* The freeze *)

\* freezes_left counts by the month of the request.
UsedIn(month, used, d) == IF month = MonthOf[d] THEN used ELSE 0

\* freeze: a day that is not past, without violations, not frozen yet.
AskFreeze(r, d) ==
    /\ Idle(r)
    /\ d >= today
    /\ ~Violated(facts[d])
    /\ ~Frozen(d)
    /\ UsedIn(series.month, series.used, today) < FreezesPerMonth
    /\ Advance(r, [Begun("freeze", {d}) EXCEPT
          !.current = series.current, !.best = series.best,
          !.month = series.month, !.used = series.used,
          !.fresh = {"marks", "series"}])
    /\ UNCHANGED <<today, rows, mark, series, ghosts>>

\* The series is written first and so stays with the transaction: nobody
\* commits between its writes and its end.
Freeze(r) ==
    LET s == request[r]
        used == UsedIn(s.month, s.used, s.on) + 1
    IN  /\ s.op = "freeze"
        /\ \A q \in Requests \ {r} :
              request[q].at \in {"written", "counted"} =>
                  Touched(request[q]) \intersect s.days = {}
        /\ mark' = [d \in Days |-> IF d \in s.days THEN "frozen" ELSE mark[d]]
        /\ series' =
             [current |-> Updated(series.current,
                                  Changed(s.current, Current(mark'))),
              best    |-> Updated(series.best,
                                  Changed(s.best, Best(s.best, mark'))),
              month   |-> Updated(series.month,
                                  Changed(s.month, MonthOf[s.on])),
              used    |-> Updated(series.used, Changed(s.used, used))]
        /\ Finish(r)
        /\ UNCHANGED <<today, rows, stale>>

Begin(r) ==
    \/ OnDayChanged(r) \/ ReadUnfinished(r)
    \/ \E d \in Days :
        \/ MarkTrade(r, d) \/ Recount(r, d) \/ SubmitReview(r, d)
        \/ d \in Freezable /\ AskFreeze(r, d)
        \/ \E text \in Writes[d] \ {entry[d]} : PutEntry(r, d, text)

GoOn(r) ==
    \/ CloseFinished(r) \/ Compare(r) \/ Write(r) \/ Count(r) \/ Commit(r)
    \/ Freeze(r) \/ Fail(r)

Next ==
    \/ NextDay
    \/ \E verdict \in Checks[today] : SubmitCheck(verdict)
    \/ CloseSession
    \/ \E d \in Days : \E f \in Happens[d] : NewFacts(d, f)
    \/ RemarkAll
    \/ \E r \in Requests : Begin(r) \/ GoOn(r)

Spec == Init /\ [][Next]_vars

----------------------------------------------------------------------------
(* Properties *)

\* ТЗ 5.4: whoever has not reviewed a session gets no admission later on --
\* though the day that has ended is closed only by the next page that is read.
CheckAfterReviews ==
    [][\A d \in Days :
           day[d].admission = "none" /\ day'[d].admission # "none"
               => \A e \in Days : e < d /\ day[e].opened => day[e].reviewed]_day

\* A review that is asked for can be given, so that it does not shut the
\* trader out for good -- unless two requests closed the day over each other.
PendingReviewIsOpen ==
    ~stale => \A d \in Days : day[d].review = "pending" => ~day[d].reviewed

\* The series is the number of days kept since the last one that was not;
\* days off and frozen days neither break it nor lengthen it.  A transaction
\* that another overtook between its read of the series and its commit may
\* write a number that does not fit; the next one that is not makes it good.
SeriesIsUnbroken ==
    ~overtaken =>
    series.current =
        Cardinality({d \in Days : mark[d] = "ok" /\
                         \A e \in Days : e > d => mark[e] \in
                             {"ok", "none", "frozen"}})

\* The past is not rewritten: the best series never falls, a freeze is not
\* undone, an entry changes only by a request that came within its 48 hours.
\* But the best series may fall to a transaction that another overtook between
\* its read and its commit, and a freeze to one that had read the marks before
\* the day was frozen and that counts it as a day that has ended.
HistoryIsKept ==
    [][/\ ~overtaken' => series'.best >= series.best
       /\ \A d \in Days :
           /\ mark[d] = "frozen" /\ mark'[d] # "frozen"
                  => \E r \in Requests : /\ request[r].at = "counted"
                                         /\ "marks" \notin request[r].fresh
                                         /\ request[r].marks[d] # Keep
           /\ entry[d] # "none" /\ entry'[d] # entry[d]
                  => \E r \in Requests : /\ request[r].op = "entry"
                                         /\ d \in request[r].days
                                         /\ request[r].on <= d + EditableDays
       ]_<<entry, mark, series>>

=============================================================================
