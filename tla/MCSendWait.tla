------------------------------- MODULE MCSendWait -------------------------------
(***************************************************************************)
(* A small instance of SendWait for TLC.                                   *)
(***************************************************************************)
EXTENDS SendWait

CONSTANTS c1, c2
================================================================================
