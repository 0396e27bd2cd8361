------------------------------- MODULE MCDhcp -------------------------------
(* Instances of Dhcp for TLC.                                              *)
EXTENDS Dhcp

\* An OFFER may carry no address at all: handle() does not reject it.
AnyOffer == Addr \cup {Unspec}

=============================================================================
