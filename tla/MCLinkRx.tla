------------------------------ MODULE MCLinkRx ------------------------------
(* Instances of LinkRx for TLC.                                            *)
EXTENDS LinkRx
=============================================================================
