---------------------------- MODULE MCContainment ----------------------------
(* Instances of Containment for TLC.                                       *)
EXTENDS Containment

CONSTANTS a1, a2, u1  \* two addresses of the read filter, one of the upload filter

Conf(n, u, m) == [nas |-> n, upload |-> u, mode |-> m]

\* The read filter moves from a1 to a2, uploads are switched on and off, and
\* .env may still hold a placeholder.
SomeConfigs == {Conf(a1, u1, "on"), Conf(a2, u1, "off"), Conf(NoAddress, u1, "auto")}

\* What wg0.conf of earlier releases installed, for the read bridge only.
Legacy == <<[Allow("read", a1) EXCEPT !.owner = "other"], Drop("other", "read", "any")>>

SomeChains == {<<>>, <<Legacy[1], Alien, Legacy[2]>>}
==============================================================================
