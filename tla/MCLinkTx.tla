------------------------------ MODULE MCLinkTx ------------------------------
(* Instances of LinkTx for TLC.                                            *)
EXTENDS LinkTx
=============================================================================
