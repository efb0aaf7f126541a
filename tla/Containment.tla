----------------------------- MODULE Containment -----------------------------
(***************************************************************************)
(* vps/containment/immich-share-containment.sh: the oneshot that replaces  *)
(* its rules in DOCKER-USER one iptables command at a time, while other    *)
(* users share the chain, commands fail and firewall reloads flush it.     *)
(***************************************************************************)
EXTENDS Naturals, Sequences, SequencesExt, FiniteSetsExt

CONSTANTS
    Runs,         \* invocations of the script that may exist at one time
    Addresses,    \* filter addresses that .env may name
    NoAddress,    \* a placeholder, or nothing, in .env
    Configs,      \* what .env may hold: [nas, upload, mode]
    FirstChains,  \* what DOCKER-USER may hold before the first run
    MaxRemovals,  \* the 256 of remove_owned_rules
    MaxFaults,    \* bound: commands that fail, and runs killed
    MaxMeddles    \* bound: flushes and rules of others

VARIABLES
    exists,   \* does the chain exist
    jump,     \* does FORWARD jump to it
    chain,    \* its rules, in order
    config,   \* the .env file
    granted,  \* history: the addresses each bridge was ever let through to
    pc, loc,  \* where each run is, and its shell variables
    faults, meddles

fwVars == <<exists, jump, chain>>
vars == <<fwVars, config, granted, pc, loc, faults, meddles>>

Bridges == {"read", "upload"}  \* immich-tunnel, immich-uptun

-----------------------------------------------------------------------------
(* Rules, and the packets they tell apart.                                 *)

Rules == [owner : {"tag", "stage", "other"}, from : Bridges \cup {"any", "nobody"},
          to : {"wg0", "any"}, dst : Addresses \cup {"any"}, verdict : {"ACCEPT", "DROP"}]
Packets(b) == [from : {b}, to : {"wg0", "wan"}, dst : Addresses \cup {"else"}]

ASSUME ContainmentAssumption ==
    /\ NoAddress \notin Addresses /\ "any" \notin Addresses
    /\ Configs \subseteq [nas : Addresses \cup {NoAddress}, upload : Addresses \cup {NoAddress},
                         mode : {"on", "off", "auto"}]
    /\ FirstChains \subseteq Seq(Rules)

Allow(b, a) == [owner |-> "tag", from |-> b, to |-> "wg0", dst |-> a, verdict |-> "ACCEPT"]
Drop(owner, b, to) == [owner |-> owner, from |-> b, to |-> to, dst |-> "any", verdict |-> "DROP"]

\* A rule of another user of the chain, about none of this traffic.
Alien == Drop("other", "nobody", "any")

Owned(r) == r.owner = "tag" \/ (r.owner = "other" /\ r.from \in Bridges)
Staged(r) == r.owner = "stage"

Guards == <<Drop("stage", "read", "any"), Drop("stage", "upload", "any")>>

\* load_config: is the upload edge on, and is the configuration usable.
Uploads(c) == c.mode # "off" /\ c.upload # NoAddress
Usable(c) == c.nas # NoAddress /\ (c.mode = "on" => c.upload # NoAddress)

Allowlist(c) ==
    <<Allow("read", c.nas)>> \o (IF Uploads(c) THEN <<Allow("upload", c.upload)>> ELSE <<>>)
NewRules(c) ==
    Allowlist(c) \o <<Drop("tag", "any", "wg0"),
                      Drop("tag", "read", "any"), Drop("tag", "upload", "any")>>

-----------------------------------------------------------------------------
(* Control flow of a run: apply or remove.                                 *)

Blank == [act |-> "none", new |-> <<>>, todo |-> <<>>, index |-> 0, position |-> 1,
          removed |-> 0, seen |-> 0]

Goto(r, l, new) ==
    /\ pc' = [pc EXCEPT ![r] = l]
    /\ loc' = [loc EXCEPT ![r] = new]

Go(r, l) == Goto(r, l, loc[r])
Exit(r) == Goto(r, "idle", Blank)

Fault ==
    /\ faults < MaxFaults
    /\ faults' = faults + 1

\* set -e: a command that fails ends the run.
Dies(r) ==
    /\ Exit(r)
    /\ UNCHANGED fwVars

Start(r, act) ==
    /\ pc[r] = "idle"
    /\ Goto(r, IF act = "apply" THEN "load" ELSE "probe",
            [Blank EXCEPT !.act = act, !.seen = meddles])
    /\ UNCHANGED <<fwVars, config, granted, faults, meddles>>

Load(r) ==
    /\ pc[r] = "load"
    /\ IF Usable(config)
         THEN /\ Goto(r, "new", [loc[r] EXCEPT !.new = NewRules(config), !.todo = Guards])
              /\ granted' = [b \in Bridges |-> granted[b] \cup
                               {x.dst : x \in {y \in ToSet(Allowlist(config)) : y.from = b}}]
         ELSE Exit(r) /\ UNCHANGED granted
    /\ UNCHANGED <<fwVars, config, faults, meddles>>

\* iptables -N, its failure ignored.
NewChain(r) ==
    /\ pc[r] = "new"
    /\ Go(r, "jump")
    /\ \/ exists' = TRUE /\ UNCHANGED faults
       \/ Fault /\ UNCHANGED exists
    /\ UNCHANGED <<jump, chain, config, granted, meddles>>

\* iptables -C FORWARD, or else -I.
Jump(r) ==
    /\ pc[r] = "jump"
    /\ \/ exists /\ jump' = TRUE /\ Go(r, "guard") /\ UNCHANGED <<exists, chain, faults>>
       \/ ((~exists /\ UNCHANGED faults) \/ Fault) /\ Dies(r)
    /\ UNCHANGED <<config, granted, meddles>>

\* iptables -I: fails without the chain or beyond its end.
InsertRule(r, i, rule, Ok) ==
    /\ LET fits == exists /\ i <= Len(chain) + 1
       IN \/ /\ fits
             /\ chain' = InsertAt(chain, i, rule)
             /\ Ok
             /\ UNCHANGED <<exists, jump, faults>>
          \/ ((~fits /\ UNCHANGED faults) \/ Fault) /\ Dies(r)
    /\ UNCHANGED <<config, granted, meddles>>

\* Mutant: the guards are not installed.
GuardSkipped(r) ==
    /\ pc[r] = "guard"
    /\ Go(r, "probe")
    /\ UNCHANGED <<fwVars, config, granted, faults, meddles>>

\* install_stage_guards
Guard(r) ==
    /\ pc[r] = "guard"
    /\ LET rest == Tail(loc[r].todo)
       IN InsertRule(r, 1, Head(loc[r].todo),
            Goto(r, IF rest = <<>> THEN "probe" ELSE "guard", [loc[r] EXCEPT !.todo = rest]))

-----------------------------------------------------------------------------
(* remove_owned_rules and remove_stage_rules: list, pick an index, delete  *)
(* that index.  A listing that fails looks like one that found nothing.    *)

Stripped(r) ==
    IF loc[r].act = "apply"
      THEN Goto(r, "insert", [loc[r] EXCEPT !.todo = loc[r].new, !.position = 1])
      ELSE Go(r, "findStage")

Probe(r) ==
    /\ pc[r] = "probe"
    /\ \/ exists /\ Go(r, "find") /\ UNCHANGED faults
       \/ ((~exists /\ UNCHANGED faults) \/ Fault) /\ Stripped(r)
    /\ UNCHANGED <<fwVars, config, granted, meddles>>

\* Mutant: the staged rules are skipped without being counted.
UncountedIndex == SelectInSeq(SelectSeq(chain, LAMBDA x : ~Staged(x)), Owned)
OwnedIndex == SelectInSeq(chain, Owned)

Find(r) ==
    /\ pc[r] = "find"
    /\ LET i == OwnedIndex
       IN \/ i # 0 /\ Goto(r, "delete", [loc[r] EXCEPT !.index = i]) /\ UNCHANGED faults
          \/ ((i = 0 /\ UNCHANGED faults) \/ Fault) /\ Stripped(r)
    /\ UNCHANGED <<fwVars, config, granted, meddles>>

\* iptables -D of an index: whatever rule is there now.
DeleteRule(r, Ok) ==
    /\ \/ /\ loc[r].index <= Len(chain)
          /\ chain' = RemoveAt(chain, loc[r].index)
          /\ Ok
          /\ UNCHANGED <<exists, jump, faults>>
       \/ ((loc[r].index > Len(chain) /\ UNCHANGED faults) \/ Fault) /\ Dies(r)
    /\ UNCHANGED <<config, granted, meddles>>

Delete(r) ==
    /\ pc[r] = "delete"
    /\ LET count == loc[r].removed + 1
       IN DeleteRule(r, IF count <= MaxRemovals
                          THEN Goto(r, "find", [loc[r] EXCEPT !.removed = count, !.index = 0])
                          ELSE Exit(r))

\* Mutant: every rule goes to the top.
InsertFirst(r) ==
    /\ pc[r] = "insert"
    /\ LET rest == Tail(loc[r].todo)
       IN InsertRule(r, 1, Head(loc[r].todo),
            Goto(r, IF rest = <<>> THEN "findStage" ELSE "insert", [loc[r] EXCEPT !.todo = rest]))

Insert(r) ==
    /\ pc[r] = "insert"
    /\ LET rest == Tail(loc[r].todo)
       IN InsertRule(r, loc[r].position, Head(loc[r].todo),
            Goto(r, IF rest = <<>> THEN "findStage" ELSE "insert",
                 [loc[r] EXCEPT !.todo = rest, !.position = @ + 1]))

FindStage(r) ==
    /\ pc[r] = "findStage"
    /\ LET i == SelectInSeq(chain, Staged)
       IN \/ i # 0 /\ Goto(r, "deleteStage", [loc[r] EXCEPT !.index = i]) /\ UNCHANGED faults
          \/ ((i = 0 /\ UNCHANGED faults) \/ Fault) /\ Go(r, "done")
    /\ UNCHANGED <<fwVars, config, granted, meddles>>

DeleteStage(r) ==
    /\ pc[r] = "deleteStage"
    /\ DeleteRule(r, Goto(r, "findStage", [loc[r] EXCEPT !.index = 0]))

Leave(r) ==
    /\ pc[r] = "done"
    /\ Exit(r)
    /\ UNCHANGED <<fwVars, config, granted, faults, meddles>>

Kill(r) ==
    /\ pc[r] # "idle"
    /\ Fault
    /\ Dies(r)
    /\ UNCHANGED <<config, granted, meddles>>

-----------------------------------------------------------------------------
(* What others do to the firewall and to .env.                             *)

Meddle ==
    /\ meddles < MaxMeddles
    /\ meddles' = meddles + 1
    /\ UNCHANGED <<config, granted, pc, loc, faults>>

\* ufw reload, ufw disable
Flush ==
    /\ Meddle
    /\ exists' \in BOOLEAN
    /\ jump' = FALSE
    /\ chain' = <<>>

\* Docker makes sure of its chain and of the jump when it starts.
DockerStart ==
    /\ ~jump
    /\ exists' = TRUE
    /\ jump' = TRUE
    /\ UNCHANGED <<chain, config, granted, pc, loc, faults, meddles>>

\* Another user of the chain inserts a rule on top.
AlienInsert ==
    /\ exists
    /\ Meddle
    /\ chain' = InsertAt(chain, 1, Alien)
    /\ UNCHANGED <<exists, jump>>

EditConfig ==
    /\ config' \in Configs \ {config}
    /\ UNCHANGED <<fwVars, granted, pc, loc, faults, meddles>>

-----------------------------------------------------------------------------
Step(r) ==
    \/ Load(r) \/ NewChain(r) \/ Jump(r) \/ Guard(r)
    \/ Probe(r) \/ Find(r) \/ Delete(r) \/ Insert(r)
    \/ FindStage(r) \/ DeleteStage(r) \/ Leave(r)

Init ==
    /\ exists = TRUE
    /\ jump = TRUE
    /\ chain \in FirstChains
    /\ config \in Configs
    /\ granted = [b \in Bridges |-> {}]
    /\ pc = [r \in Runs |-> "idle"]
    /\ loc = [r \in Runs |-> Blank]
    /\ faults = 0
    /\ meddles = 0

Next ==
    \/ \E r \in Runs : Start(r, "apply") \/ Start(r, "remove") \/ Step(r) \/ Kill(r)
    \/ Flush \/ DockerStart \/ AlienInsert \/ EditConfig

Spec == Init /\ [][Next]_vars

-----------------------------------------------------------------------------
Matches(x, p) == x.from \in {"any", p.from} /\ x.to \in {"any", p.to} /\ x.dst \in {"any", p.dst}

\* The packet passes unless the first rule that matches it is a DROP.
Passes(p) ==
    ~ /\ jump
      /\ \E i \in DOMAIN chain : /\ chain[i].verdict = "DROP"
                                 /\ Matches(chain[i], p)
                                 /\ \A j \in 1 .. (i - 1) : ~Matches(chain[j], p)

\* The two bridges reach nothing but filters they were once granted.
Contained ==
    \A b \in Bridges : \A p \in Packets(b) : Passes(p) => p.to = "wg0" /\ p.dst \in granted[b]

\* No other bridge reaches the tunnel.
TunnelClosed == \A p \in Packets("public") : p.to = "wg0" => ~Passes(p)

\* A flush, a remove, or a run that others disturbed between two commands.
Undone ==
    \/ ~jump'
    \/ \E r \in Runs : loc[r].act = "remove" \/ (pc[r] # "idle" /\ loc[r].seen # meddles)

(* "A failed update leaves the bridges closed": once both bridges are      *)
(* contained they stay so through every later run, wherever it is killed   *)
(* or one of its commands fails, until a remove, a flush, or a rule that   *)
(* another user inserts between a run's listing and its deletion.          *)
StaysContained == [][Contained /\ ~Undone => Contained']_fwVars

(* When apply reports success, and nobody else touched the firewall        *)
(* meanwhile, the traffic that passes is exactly what the configuration it *)
(* read allows, whatever older runs left in the chain and even if one of   *)
(* its listings failed.                                                    *)
ApplyExact ==
    \A r \in Runs : pc[r] = "done" /\ loc[r].act = "apply" /\ loc[r].seen = meddles =>
        /\ TunnelClosed
        /\ \A b \in Bridges : \A p \in Packets(b) :
             Passes(p) <=> p.to = "wg0" /\ Allow(b, p.dst) \in ToSet(loc[r].new)

(* A run that nobody disturbs deletes one of its own rules, and none of    *)
(* another user: the index that it found still names that rule.            *)
UndisturbedSparesOthers ==
    [][\A r \in Runs : pc[r] \in {"delete", "deleteStage"} /\ pc'[r] # pc[r]
         /\ loc[r].seen = meddles /\ chain' # chain =>
           \E i \in DOMAIN chain : /\ Owned(chain[i]) \/ Staged(chain[i])
                                  /\ chain' = RemoveAt(chain, i)]_vars

(* The script "fails closed during partial updates", and "no other bridge  *)
(* may forward to wg0 at all": the tunnel once closed stays closed.        *)
StaysTunnelClosed == [][TunnelClosed /\ ~Undone => TunnelClosed']_fwVars
=============================================================================
