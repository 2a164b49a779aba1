------------------------------ MODULE MCIssuer -------------------------------
(***************************************************************************)
(* An instance of Issuer for TLC.  One identifier of the first number of   *)
(* the first day is taken beforehand, so that a request can meet one to    *)
(* four collisions, and succeed after any of them but the last.  On the    *)
(* second day there are none.                                              *)
(***************************************************************************)
EXTENDS Issuer

CONSTANT x1

TakenBefore == [day : {0}, seq : {1}, tail : {x1}]
=============================================================================
