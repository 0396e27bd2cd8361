------------------------------ MODULE MCSession ------------------------------
(* Instances of Session for TLC.                                           *)
EXTENDS Session, TLC

CONSTANTS a1, a2, d1, u1, u2

\* Two addresses of one subnet: replacing the tunnel reuses its route.
SameSubnet == a1 :> d1 @@ a2 :> d1

OneAddress == a1 :> d1

\* A renewal that changes the resolver, another address, and one that comes
\* without a router.
FourLeases ==
  [ip : {a1}, router : {TRUE}, dns : BOOLEAN]
    \cup {[ip |-> a2, router |-> r, dns |-> r] : r \in BOOLEAN}

AnyLease == Lease
==============================================================================
