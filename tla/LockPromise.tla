---------------------------- MODULE LockPromise ----------------------------
(***************************************************************************)
(* What the trader is promised about locks, without rules, trades or       *)
(* clocks: at most one lock holds at a time; each lock holds once; its     *)
(* verdict is open while nothing has been decided, becomes "breached" at   *)
(* most once and then stays; a lock that is released unbreached was kept.  *)
(***************************************************************************)
CONSTANTS Locks, None

VARIABLES
    holder,     \* the lock that holds, or None
    verdict     \* Locks -> verdict, "none" for a lock that never held

Verdicts == {"none", "open", "kept", "breached"}

PromiseInit ==
    /\ holder = None
    /\ verdict = [i \in Locks |-> "none"]

Start(i) ==
    /\ holder = None
    /\ verdict[i] = "none"
    /\ holder' = i
    /\ verdict' = [verdict EXCEPT ![i] = "open"]

Break ==
    /\ holder \in Locks
    /\ verdict[holder] = "open"
    /\ verdict' = [verdict EXCEPT ![holder] = "breached"]
    /\ UNCHANGED holder

\* The lock is released; a breach may come to light in the same step.
Release(breach) ==
    /\ holder \in Locks
    /\ holder' = None
    /\ verdict' = [verdict EXCEPT ![holder] =
                     IF @ = "breached" \/ breach THEN "breached" ELSE "kept"]

PromiseNext ==
    \/ \E i \in Locks : Start(i)
    \/ Break
    \/ \E breach \in BOOLEAN : Release(breach)

Promise == PromiseInit /\ [][PromiseNext]_<<holder, verdict>>
=============================================================================
