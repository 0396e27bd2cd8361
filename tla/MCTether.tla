------------------------------- MODULE MCTether -------------------------------
(* Instances of Tether for TLC.                                            *)
EXTENDS Tether
===============================================================================
