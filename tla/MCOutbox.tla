------------------------------ MODULE MCOutbox ------------------------------
(* Finite instances of Outbox: two of the writers share a dedup key, one     *)
(* publishes an event of a type the consumer does not take.                  *)
EXTENDS Outbox

CONSTANTS a, b, c, d

MCKeyOf == [t \in {a, b, c, d} |-> IF t \in {a, b} THEN "same" ELSE t]
MCKeys  == {"same", c, d}
=============================================================================
