----------------------------- MODULE MCNetwork -----------------------------
(***************************************************************************)
(* Instances of Network for TLC.                                           *)
(***************************************************************************)
EXTENDS NetworkProperties, TLC

CONSTANT p1         \* a peer
=============================================================================
