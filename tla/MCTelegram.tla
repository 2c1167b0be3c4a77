----------------------------- MODULE MCTelegram -----------------------------
(***************************************************************************)
(* Finite instances of the bot's side of Telegram.                         *)
(***************************************************************************)
EXTENDS Telegram, TLC

OneCode  == [k \in Kinds |-> 1]
TwoCodes == [k \in Kinds |-> IF k = "link" THEN 1 ELSE 2]

EveryChat == Permutations(Chats)
=============================================================================
