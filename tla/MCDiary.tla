------------------------------ MODULE MCDiary -------------------------------
(***************************************************************************)
(* A finite instance of the diary.  The last day is in a month of its own. *)
(***************************************************************************)
EXTENDS Diary, TLC

MCMonthOf == [d \in Days |-> IF d = LastDay THEN 1 ELSE 0]

MCHappens == [d \in Days |-> IF d = 0 THEN {"traded", "violated", "breached"}
                                      ELSE {}]
MCWrites  == [d \in Days |-> IF d = LastDay THEN {} ELSE {"filled"}]
MCChecks  == [d \in Days |-> IF d = LastDay THEN {"denied"} ELSE {"granted"}]

\* Checks, sessions and reviews of every day, without entries and freezes;
\* once a lock has been breached, one transaction at a time.
OfReviews ==
    /\ \A d \in Days : entry[d] = "none" /\ mark[d] # "frozen"
    /\ \A r \in Requests : request[r].op \notin {"entry", "freeze"}
    /\ Breached(facts[0]) => \E r \in Requests : \A q \in Requests \ {r} : Idle(q)

\* Entries, freezes and marks, with a trade and a check on the first day only.
OfTheSeries ==
    /\ \A d \in Days : /\ d > 0 => day[d].admission = "none"
                       /\ ~Violated(facts[d]) /\ ~Breached(facts[d])
                       /\ mark[d] \notin {"violation", "breach"}
    /\ \A r \in Requests : \A d \in Days :
           request[r].marks[d] \notin {"violation", "breach"}

\* bound: TLC goes on from the states of either kind.
OfOneKind == OfReviews \/ OfTheSeries

EveryRequest == Permutations(Requests)
=============================================================================
