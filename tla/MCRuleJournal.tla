--------------------------- MODULE MCRuleJournal ---------------------------
(* Conditions of the editor for model checking. *)
EXTENDS RuleJournal, TLC

LossSum3  == {{[metric |-> "loss_sum_pct", cmp |-> "ge", value |-> 3]}}
FullDraw4 == {{[metric |-> "drawdown_full_pct", cmp |-> "ge", value |-> 4]}}

MCOffered == {LossSum3, FullDraw4}
MCOutcomes == {<<-3, 1, -2>>}
MCUnrealized == {-4}
Perms == Permutations(Sessions)
=============================================================================
