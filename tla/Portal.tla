------------------------------- MODULE Portal -------------------------------
(***************************************************************************)
(* What immich-share controls from afar: the shared links of the Immich    *)
(* server, the Caddy snippets of the VPS with the configuration the        *)
(* running Caddy has loaded from them, and the forward on the NAS.  The    *)
(* classes Immich and Edge of src/immich-share reach them by HTTP requests *)
(* and by commands run through ssh; every such call may fail, before or    *)
(* after it took effect, and an ssh command may outlive its client.        *)
(***************************************************************************)
EXTENDS Naturals, FiniteSets

CONSTANTS
    Keys,         \* the share keys Immich hands out, each at most once
    EternalKeys,  \* those it gives to links created without an expiry
    Globals,      \* the name of the shared snippet, 00-globals.caddy
    MaxFaults,    \* bound: remote or local calls that fail
    MaxLate,      \* bound: commands still running on a host, their client gone
    MaxMeddles    \* bound: links created or deleted in Immich's own interface

ASSUME KeysAssumption ==
    /\ EternalKeys \subseteq Keys
    /\ Globals \notin Keys
ASSUME BoundsAssumption ==
    /\ MaxFaults \in Nat
    /\ MaxLate \in Nat
    /\ MaxMeddles \in Nat

\* A snippet is named after its share: the key stands for "<key>.caddy".
Names == Keys \cup {Globals}

\* "bad": a file the upload left truncated, which Caddy refuses to parse.
Contents == {"absent", "good", "bad"}

VARIABLES
    links,    \* keys of the links that exist in Immich
    past,     \* keys whose expiry date has passed
    origin,   \* who created each key: "none" yet, the "cli" or an Immich "user"
    disk,     \* contents of each snippet in shares_dir
    running,  \* snippets in the configuration the running Caddy serves
    forward,  \* is the NAS forward enabled
    late,     \* commands that will still take effect though nobody waits
    faults,   \* calls that failed so far
    meddles   \* changes made in Immich's interface so far

immichVars == <<links, past, origin>>
edgeVars == <<disk, running, forward>>

-----------------------------------------------------------------------------
(* Commands that the Edge sends to a host.                                 *)

FileOps == {"cat", "rm", "mv"}  \* upload a snippet, remove some, restore a backup
EdgeOp == [do : FileOps \cup {"reload", "on", "off"}, names : SUBSET Names, content : Contents]

WriteOp(n) == [do |-> "cat", names |-> {n}, content |-> "good"]
RemoveOp(S) == [do |-> "rm", names |-> S, content |-> "absent"]
RestoreOp(n, c) == [do |-> "mv", names |-> {n}, content |-> c]
ReloadOp == [do |-> "reload", names |-> {}, content |-> "absent"]
ForwardOp(on) == [do |-> IF on THEN "on" ELSE "off", names |-> {}, content |-> "absent"]

Installed == {n \in Names : disk[n] # "absent"}
Parses == \A n \in Names : disk[n] # "bad"

\* Caddy refuses to load a configuration that does not parse.
Works(o) == o.do = "reload" => Parses

Apply(o) ==
    /\ disk' = IF o.do \in FileOps
                 THEN [n \in Names |-> IF n \in o.names THEN o.content ELSE disk[n]]
                 ELSE disk
    /\ running' = IF o.do = "reload" THEN Installed ELSE running
    /\ forward' = IF o.do \in {"on", "off"} THEN o.do = "on" ELSE forward

\* What a command cut short may have done: rm of some of the files, cat of a
\* part of the snippet (the mv then installs it truncated).
Partly(o) ==
    CASE o.do = "rm" -> {RemoveOp(S) : S \in SUBSET o.names}
      [] o.do = "cat" -> {o, [o EXCEPT !.content = "bad"]}
      [] OTHER -> {o}

Fault ==
    /\ faults < MaxFaults
    /\ faults' = faults + 1

\* The command runs and exits with status zero.
Succeeds(o) ==
    /\ Works(o)
    /\ Apply(o)
    /\ UNCHANGED <<late, faults>>

\* It exits with a failure: Caddy refused, or the connection was lost before
\* the command ran, while it ran, or with the command left running.
Errs(o) ==
    \/ /\ ~Works(o)
       /\ UNCHANGED <<edgeVars, late, faults>>
    \/ /\ Fault
       /\ UNCHANGED <<edgeVars, late>>
    \/ /\ Fault
       /\ \E q \in Partly(o) : Works(q) /\ Apply(q)
       /\ UNCHANGED late
    \/ /\ Fault
       /\ Cardinality(late) < MaxLate
       /\ \E q \in Partly(o) : late' = late \cup {q}
       /\ UNCHANGED edgeVars

-----------------------------------------------------------------------------
(* Requests to the Immich API.                                             *)

Fresh == {k \in Keys : origin[k] = "none"}

\* DELETE of a link: an error for one that is no longer there.
Deletes(k) ==
    /\ k \in links
    /\ links' = links \ {k}
    /\ UNCHANGED <<past, origin, faults>>

DeleteErrs(k) ==
    \/ /\ k \notin links
       /\ UNCHANGED <<immichVars, faults>>
    \/ /\ Fault
       /\ links' \in {links, links \ {k}}
       /\ UNCHANGED <<past, origin>>

-----------------------------------------------------------------------------
(* What happens without immich-share.                                      *)

\* The clock passes the expiry date of a link.
Expire(k) ==
    /\ k \notin past \cup EternalKeys
    /\ origin[k] # "none"
    /\ past' = past \cup {k}
    /\ UNCHANGED <<links, origin, edgeVars, late, faults, meddles>>

\* Somebody creates or deletes a link in the interface of Immich.
UserCreate(k) ==
    /\ meddles < MaxMeddles
    /\ k \in Fresh
    /\ meddles' = meddles + 1
    /\ links' = links \cup {k}
    /\ origin' = [origin EXCEPT ![k] = "user"]
    /\ UNCHANGED <<past, edgeVars, late, faults>>

UserDelete(k) ==
    /\ meddles < MaxMeddles
    /\ k \in links
    /\ meddles' = meddles + 1
    /\ links' = links \ {k}
    /\ UNCHANGED <<past, origin, edgeVars, late, faults>>

\* The Caddy container restarts and loads what is on disk, if it parses.
CaddyRestart ==
    /\ running' = IF Parses THEN Installed ELSE {}
    /\ running' # running
    /\ UNCHANGED <<immichVars, disk, forward, late, faults, meddles>>

\* A command whose client is gone takes effect.
Land(o) ==
    /\ o \in late
    /\ late' = late \ {o}
    /\ IF Works(o) THEN Apply(o) ELSE UNCHANGED edgeVars
    /\ UNCHANGED <<immichVars, faults, meddles>>

-----------------------------------------------------------------------------
PortalTypeOK ==
    /\ links \subseteq Keys
    /\ past \subseteq Keys
    /\ origin \in [Keys -> {"none", "cli", "user"}]
    /\ disk \in [Names -> Contents]
    /\ running \subseteq Names
    /\ forward \in BOOLEAN
    /\ late \subseteq EdgeOp
    /\ faults \in Nat
    /\ meddles \in Nat

PortalInit ==
    /\ links = {}
    /\ past = {}
    /\ origin = [k \in Keys |-> "none"]
    /\ disk = [n \in Names |-> "absent"]
    /\ running = {}
    /\ forward = FALSE
    /\ late = {}
    /\ faults = 0
    /\ meddles = 0
=============================================================================
