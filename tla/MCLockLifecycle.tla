-------------------------- MODULE MCLockLifecycle --------------------------
(***************************************************************************)
(* Finite instances of the lock model: days of three moments, of which the  *)
(* last one is past the end of the day's window.                           *)
(***************************************************************************)
EXTENDS LockRefinement

DayLength == 3

MCDayOf     == [m \in 0..Horizon |-> m \div DayLength]
MCWindowEnd == [d \in {m \div DayLength : m \in 0..Horizon} |->
                   DayLength * d + DayLength - 1]

\* The trader's rules ask for a review and the trusted contact, the tag
\* trigger for a timer that has no minutes: its lock lasts until the day ends.
ContactRules == [r \in Rules \union {SR1} |->
                    IF r = SR1 THEN {"timer", "review"} ELSE {"timer", "buddy"}]

\* A lock of a rule of the trader's own lasts a minute and needs a review.
TimerRules == [r \in Rules \union {SR1} |-> {"timer", "review"}]

OneMinute == [r \in Rules \union {SR1} |-> IF r = SR1 THEN Unset ELSE 1]
=============================================================================
