------------------------------ MODULE MCIngest ------------------------------
(* A small instance of Ingest for TLC: one message after the other of every *)
(* kind, the one that ends the process last, since no message behind it is *)
(* ever reached.                                                           *)
EXTENDS Ingest

EveryKind == <<"readings", "refused", "nothing", "readings", "raises">>
=============================================================================
