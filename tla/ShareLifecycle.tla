--------------------------- MODULE ShareLifecycle ---------------------------
(***************************************************************************)
(* What immich-share promises about a share, without its calls, processes  *)
(* and hosts: a link lives once, the registry forgets it only when it is   *)
(* over, the tool ends only links it created or recorded, and Caddy never  *)
(* has a route for any other link.                                         *)
(***************************************************************************)
EXTENDS Naturals

CONSTANT Keys

VARIABLES
    life,    \* of each key: its link is not "made" yet, "live", or "over"
    maker,   \* who created it: "none" yet, the "cli" or an Immich "user"
    known,   \* keys in the registry
    owned,   \* keys that were ever in it
    public,  \* keys with a snippet on the VPS or a route in the running Caddy
    users    \* changes that users made in Immich's own interface

lifecycleVars == <<life, maker, known, owned, public, users>>

Init ==
    /\ life = [k \in Keys |-> "none"]
    /\ maker = [k \in Keys |-> "none"]
    /\ known = {}
    /\ owned = {}
    /\ public = {}
    /\ users = 0

Make(k, who) ==
    /\ life[k] = "none"
    /\ life' = [life EXCEPT ![k] = "live"]
    /\ maker' = [maker EXCEPT ![k] = who]
    /\ users' = IF who = "user" THEN users + 1 ELSE users
    /\ UNCHANGED <<known, owned, public>>

\* open and adopt record a link, which a user may have deleted meanwhile.
Own(k) ==
    /\ life[k] # "none"
    /\ known' = known \cup {k}
    /\ owned' = owned \cup {k}
    /\ UNCHANGED <<life, maker, public, users>>

\* The tool deletes a link, and may forget it in the same step.
Revoke(k) ==
    /\ life[k] = "live"
    /\ k \in owned \/ maker[k] = "cli"
    /\ life' = [life EXCEPT ![k] = "over"]
    /\ known' \in {known, known \ {k}}
    /\ UNCHANGED <<maker, owned, public, users>>

\* A user deletes a link.
Withdraw(k) ==
    /\ life[k] = "live"
    /\ life' = [life EXCEPT ![k] = "over"]
    /\ users' = users + 1
    /\ UNCHANGED <<maker, known, owned, public>>

Forget ==
    /\ known' \subseteq known
    /\ \A k \in known \ known' : life[k] = "over"
    /\ UNCHANGED <<life, maker, owned, public, users>>

Publish ==
    /\ public' \subseteq owned
    /\ UNCHANGED <<life, maker, known, owned, users>>

Next ==
    \/ \E k \in Keys : \/ \E who \in {"cli", "user"} : Make(k, who)
                       \/ Own(k) \/ Revoke(k) \/ Withdraw(k)
    \/ Forget
    \/ Publish

Spec == Init /\ [][Next]_lifecycleVars
=============================================================================
