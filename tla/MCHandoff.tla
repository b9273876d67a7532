------------------------------ MODULE MCHandoff ------------------------------
(* A small instance of Handoff: files of one unit or of two, so that either
   limit of a group may be the one that closes it.                          *)
EXTENDS Handoff

MCSizesOf == [t \in Times |-> {1, 2}]
==============================================================================
