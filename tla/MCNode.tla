------------------------------- MODULE MCNode -------------------------------
(* Small instances of Node for TLC.                                         *)
EXTENDS Node, TLC

CONSTANTS c1, o1

Single == o1 :> c1
=============================================================================
