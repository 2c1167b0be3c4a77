---------------------------- MODULE MCMessenger -----------------------------
(***************************************************************************)
(* A finite instance of the outbound queue: an incident with a signal for  *)
(* the trusted contact, and a trade that is left unmarked.                 *)
(***************************************************************************)
EXTENDS Messenger

CONSTANTS incident, unmarked, signal, reminder

MCMessagesOf == [e \in {incident, unmarked} |->
                    IF e = incident THEN {signal} ELSE {reminder}]
MCChannel    == [m \in Messages |-> IF m = signal THEN "buddy" ELSE "self"]
=============================================================================
