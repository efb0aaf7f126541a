---------------------------- MODULE ShareCommands ----------------------------
(***************************************************************************)
(* The commands of src/immich-share that change what is shared: open,      *)
(* close, sweep, sync and adopt, each a process that holds the exclusive   *)
(* lock of the registry from its first call to its last, and list, which   *)
(* holds the shared lock.  A process may be killed between any two calls.  *)
(***************************************************************************)
EXTENDS Portal

CONSTANTS
    Procs,     \* processes that run the CLI: a terminal, the timer, the monitor
    Prefixes,  \* what an operator may type for a key: the keys that start with it
    NoKey,     \* no share is being worked on
    MaxKills   \* bound: processes killed

ASSUME CommandsAssumption ==
    /\ NoKey \notin Names
    /\ \A S \in Prefixes : S \subseteq Keys
    /\ MaxKills \in Nat

VARIABLES
    registry,  \* keys in managed-shares.json
    recorded,  \* history: keys that were ever in it
    fate,      \* history: how the open of each key ended, when it did not succeed
    pc,        \* the next call of each process
    loc,       \* the local variables of each process
    kills      \* processes killed so far

localVars == <<registry, recorded>>
vars == <<immichVars, edgeVars, late, faults, meddles, localVars, fate, pc, loc, kills>>

Commands == {"open", "close", "sweep", "sync", "adopt", "list"}

ListSteps == {"list", "listSnippets", "listed"}
Verdicts == {"opened", "done", "closed", "listed"}
RollbackSteps == {"undoKey", "undoGlobals", "undoReload", "undoForward", "undoLink"}
OpenSteps == {"open", "create", "add", "unadd", "opened"}
PublishSteps == {"enable", "write", "validate", "restore", "reload"}
Labels == {"idle", "survey", "remove", "disable", "revoke", "purge", "forget", "converge"}
          \cup Commands \cup OpenSteps \cup PublishSteps \cup RollbackSteps
          \cup ListSteps \cup Verdicts

Locals == [cmd : Commands \cup {"none"},
           key : Keys \cup {NoKey},     \* the share being opened, closed or adopted
           prior : BOOLEAN,             \* open: was another managed share active
           todo : SUBSET Keys,          \* shares still to visit
           due : SUBSET Keys,           \* history: what a sweep read as expired
           gone : SUBSET Keys,          \* shares whose links were deleted
           active : SUBSET Keys,        \* the active managed links
           stale : SUBSET Names,        \* the snippets to remove
           name : Names,                \* the snippet being written
           backup : Contents,           \* what it held before
           warned : BOOLEAN,            \* a rollback step "needs attention"
           orphans : SUBSET Keys]       \* list: links seen, then the orphan snippets

Blank == [cmd |-> "none", key |-> NoKey, prior |-> FALSE, todo |-> {}, due |-> {},
          gone |-> {}, active |-> {}, stale |-> {}, name |-> Globals, backup |-> "absent",
          warned |-> FALSE, orphans |-> {}]

-----------------------------------------------------------------------------
(* Control flow of a process.                                              *)

Goto(p, l, r) ==
    /\ pc' = [pc EXCEPT ![p] = l]
    /\ loc' = [loc EXCEPT ![p] = r]

Go(p, l) == Goto(p, l, loc[p])

\* die() or the end of main: the lock is released.
Exit(p) == Goto(p, "idle", Blank)

\* The lock is held from Enter to Exit.
Holds(p) == pc[p] # "idle"
Mutating(p) == Holds(p) /\ pc[p] \notin ListSteps

\* Mutant: every link of Immich is taken for one of ours.
EveryLink == links
Owned == registry \cap links

\* Mutant: whatever Immich lists is active.
EveryLiveLink == links \ past
Active == Owned \ past

\* A call to the Edge, which die()s unless it succeeds.
Call(p, o, Ok, Ko) ==
    /\ \/ Succeeds(o) /\ Ok
       \/ Errs(o) /\ Ko
    /\ UNCHANGED <<immichVars, meddles, localVars, fate, kills>>

\* Where die() leads: an open rolls back, every other command ends.
Die(p) == IF loc[p].cmd = "open" THEN Go(p, "undoKey") ELSE Exit(p)

\* A failed read, or a failed write of the registry: the command ends.
DiesReading(p) ==
    /\ Fault
    /\ Exit(p)
    /\ UNCHANGED <<immichVars, edgeVars, late, meddles, localVars, fate, kills>>

\* Mutant: expired shares are forgotten before they are deleted.
ForgetExpired ==
    /\ registry' = Active
    /\ UNCHANGED <<immichVars, edgeVars, late, faults, meddles, recorded, fate, kills>>

\* managed_links: the owned links, forgetting those that Immich no longer lists.
ManagedLinks ==
    /\ registry' = Owned
    /\ UNCHANGED <<immichVars, edgeVars, late, faults, meddles, recorded, fate, kills>>

Unchanged == UNCHANGED <<immichVars, edgeVars, late, meddles, localVars, fate, kills>>

-----------------------------------------------------------------------------
(* main: take the lock.                                                    *)

\* Mutant: list takes no lock.
NoSharedLock(c) == c = "list" \/ \A q \in Procs : ~Mutating(q)

\* The exclusive lock excludes everybody, the shared one those that mutate.
LockFree(c) == \A q \in Procs : IF c = "list" THEN ~Mutating(q) ELSE ~Holds(q)

Enter(p, c) ==
    /\ pc[p] = "idle"
    /\ LockFree(c)
    /\ Goto(p, c, [Blank EXCEPT !.cmd = c])
    /\ UNCHANGED faults
    /\ Unchanged

Leave(p) ==
    /\ pc[p] \in Verdicts
    /\ Exit(p)
    /\ UNCHANGED faults
    /\ Unchanged

-----------------------------------------------------------------------------
(* open                                                                    *)

\* find_album may refuse before managed_links, the TTL or the password after it.
OpenRead(p) ==
    /\ pc[p] = "open"
    /\ \/ ManagedLinks /\ Goto(p, "create", [loc[p] EXCEPT !.prior = Active # {}])
       \/ ManagedLinks /\ Exit(p)
       \/ UNCHANGED faults /\ Exit(p) /\ Unchanged

\* An open fails and leaves its link alive, in no registry.
Strands(p, k) ==
    /\ fate' = [fate EXCEPT ![k] = "stranded"]
    /\ Exit(p)

\* The answer may be lost after the link was made, the key with it, or may
\* hold a key that check_key refuses.
CreateLink(p) ==
    /\ pc[p] = "create"
    /\ \/ \E k \in Fresh \ EternalKeys :
            /\ links' = links \cup {k}
            /\ origin' = [origin EXCEPT ![k] = "cli"]
            /\ \/ Goto(p, "add", [loc[p] EXCEPT !.key = k]) /\ UNCHANGED <<faults, fate>>
               \/ Fault /\ Strands(p, k)
       \/ /\ Fault \/ (Fresh \ EternalKeys = {} /\ UNCHANGED faults)
          /\ Exit(p)
          /\ UNCHANGED <<links, origin, fate>>
    /\ UNCHANGED <<past, edgeVars, late, meddles, localVars, kills>>

\* registry.add, of open and of adopt.  In open an Exception deletes the link;
\* the SystemExit of a registry that cannot be read is not one.
Record(p) ==
    /\ pc[p] = "add"
    /\ LET k == loc[p].key
           Adds == registry' = registry \cup {k} /\ recorded' = recorded \cup {k}
       IN \/ /\ Adds
             /\ UNCHANGED <<faults, fate>>
             /\ IF loc[p].cmd = "open"
                  THEN Goto(p, "enable", [loc[p] EXCEPT !.todo = {k}])
                  ELSE Go(p, "sync")
          \/ /\ Adds \/ UNCHANGED localVars
             /\ Fault
             /\ IF loc[p].cmd = "open" THEN Go(p, "unadd") ELSE Exit(p)
             /\ UNCHANGED fate
          \/ /\ Fault
             /\ IF loc[p].cmd = "open" THEN Strands(p, k) ELSE Exit(p) /\ UNCHANGED fate
             /\ UNCHANGED localVars
    /\ UNCHANGED <<immichVars, edgeVars, late, meddles, kills>>

Unadd(p) ==
    /\ pc[p] = "unadd"
    /\ LET k == loc[p].key
       IN \/ Deletes(k) /\ fate' = [fate EXCEPT ![k] = "failed"]
          \/ DeleteErrs(k) /\ fate' = [fate EXCEPT ![k] = "warned"]
    /\ Exit(p)
    /\ UNCHANGED <<edgeVars, late, meddles, localVars, kills>>

EnableForward(p) ==
    /\ pc[p] = "enable"
    /\ Call(p, ForwardOp(TRUE), Go(p, "write"), Die(p))

-----------------------------------------------------------------------------
(* write_snippet: install, validate, restore                               *)

Write(p) ==
    /\ pc[p] = "write"
    /\ LET n == loc[p].name
       IN Call(p, WriteOp(n), Goto(p, "validate", [loc[p] EXCEPT !.backup = disk[n]]), Die(p))

\* Mutant: open forgets to reload Caddy.
NoReload(p) == IF loc[p].cmd = "open" THEN "opened" ELSE "survey"
AfterSnippets(p) == IF loc[p].cmd = "open" THEN "reload" ELSE "survey"

\* The globals come first, then each share; an open has only its own.
NextSnippet(p) ==
    LET done == [loc[p] EXCEPT !.name = Globals, !.backup = "absent"]
    IN IF loc[p].todo = {}
         THEN Goto(p, AfterSnippets(p), done)
         ELSE \E k \in loc[p].todo :
                Goto(p, "write", [done EXCEPT !.name = k, !.todo = @ \ {k}])

Validate(p) ==
    /\ pc[p] = "validate"
    /\ \/ Parses /\ NextSnippet(p) /\ UNCHANGED faults
       \/ (Fault \/ (~Parses /\ UNCHANGED faults)) /\ Go(p, "restore")
    /\ Unchanged

\* The result of the restoring command is not looked at.
Restore(p) ==
    /\ pc[p] = "restore"
    /\ Call(p, RestoreOp(loc[p].name, loc[p].backup), Die(p), Die(p))

-----------------------------------------------------------------------------
(* The end of open, sync and _sync_portal: remove what is stale, reload,   *)
(* and disable the forward when nothing is active.                         *)

Regenerating(p) == loc[p].cmd \in {"sync", "adopt"} /\ loc[p].active # {}

Finish(p) == IF loc[p].active = {} THEN "disable" ELSE "done"

\* Mutants: nothing is stale while a share is active; the globals never are.
KeepAll(active) == IF active = {} THEN {} ELSE Names
KeepGlobals(active) == active \cup {Globals}
\* Without an active link the globals are stale too.
Keep(active) == IF active = {} THEN {} ELSE active \cup {Globals}

\* Mutant: a survey that finds nothing stale is the end.
SettledAtOnce(p) == "done"
Settled(p) == IF Regenerating(p) THEN "reload" ELSE Finish(p)

\* list_snippets
Survey(p) ==
    /\ pc[p] = "survey"
    /\ LET stale == Installed \ Keep(loc[p].active)
           next == IF stale # {} THEN "remove" ELSE Settled(p)
       IN \/ Goto(p, next, [loc[p] EXCEPT !.stale = stale]) /\ UNCHANGED faults /\ Unchanged
          \/ DiesReading(p)

Remove(p) ==
    /\ pc[p] = "remove"
    /\ Call(p, RemoveOp(loc[p].stale), Go(p, "reload"), Exit(p))

Reload(p) ==
    /\ pc[p] = "reload"
    /\ Call(p, ReloadOp, Go(p, IF loc[p].cmd = "open" THEN "opened" ELSE Finish(p)), Die(p))

Disable(p) ==
    /\ pc[p] = "disable"
    /\ Call(p, ForwardOp(FALSE), Go(p, "closed"), Exit(p))

-----------------------------------------------------------------------------
(* Rollback of an open: a failing step is reported and the next is tried,  *)
(* but the three VPS steps are one.                                        *)

Warn(p, l) == Goto(p, l, [loc[p] EXCEPT !.warned = TRUE])
\* Mutant: the forward is switched off whatever else is shared.
AlwaysForwardOff(p) == "undoForward"
AfterVps(p) == IF loc[p].prior THEN "undoLink" ELSE "undoForward"

\* Mutant: the snippet is removed and Caddy left as it is.
UndoKeyOnly(p) ==
    /\ pc[p] = "undoKey"
    /\ Call(p, RemoveOp({loc[p].key}), Go(p, AfterVps(p)), Warn(p, AfterVps(p)))

UndoKey(p) ==
    /\ pc[p] = "undoKey"
    /\ Call(p, RemoveOp({loc[p].key}),
            Go(p, IF loc[p].prior THEN "undoReload" ELSE "undoGlobals"), Warn(p, AfterVps(p)))

UndoGlobals(p) ==
    /\ pc[p] = "undoGlobals"
    /\ Call(p, RemoveOp({Globals}), Go(p, "undoReload"), Warn(p, AfterVps(p)))

UndoReload(p) ==
    /\ pc[p] = "undoReload"
    /\ Call(p, ReloadOp, Go(p, AfterVps(p)), Warn(p, AfterVps(p)))

UndoForward(p) ==
    /\ pc[p] = "undoForward"
    /\ Call(p, ForwardOp(FALSE), Go(p, "undoLink"), Warn(p, "undoLink"))

\* Only a share whose link is deleted is forgotten; the write may fail.
UndoLink(p) ==
    /\ pc[p] = "undoLink"
    /\ LET k == loc[p].key
           ending == IF loc[p].warned THEN "warned" ELSE "failed"
       IN \/ /\ Deletes(k)
             /\ registry' = registry \ {k}
             /\ fate' = [fate EXCEPT ![k] = ending]
          \/ /\ k \in links
             /\ Fault
             /\ links' = links \ {k}
             /\ fate' = [fate EXCEPT ![k] = ending]
             /\ UNCHANGED <<past, origin, registry>>
          \/ /\ DeleteErrs(k)
             /\ fate' = [fate EXCEPT ![k] = "warned"]
             /\ UNCHANGED registry
    /\ Exit(p)
    /\ UNCHANGED <<edgeVars, late, meddles, recorded, kills>>

-----------------------------------------------------------------------------
(* close and sweep                                                         *)

\* The typed prefix must match one owned link.
CloseRead(p) ==
    /\ pc[p] = "close"
    /\ \/ /\ \E S \in Prefixes :
               \/ \E k \in S \cap Owned :
                    /\ S \cap Owned = {k}
                    /\ Goto(p, "revoke", [loc[p] EXCEPT !.key = k])
               \/ (\A k \in S : S \cap Owned # {k}) /\ Exit(p)
          /\ UNCHANGED faults
          /\ Unchanged
       \/ DiesReading(p)

Revoke(p) ==
    /\ pc[p] = "revoke"
    /\ LET k == loc[p].key
       IN \/ Deletes(k) /\ Goto(p, "forget", [loc[p] EXCEPT !.gone = {k}])
          \/ DeleteErrs(k) /\ Exit(p)
    /\ UNCHANGED <<edgeVars, late, meddles, localVars, fate, kills>>

\* Mutant: the sweep asks for the active links only.
SweepActive(p) ==
    /\ pc[p] = "sweep"
    /\ \/ ManagedLinks /\ Goto(p, "purge", [loc[p] EXCEPT !.todo = Active, !.due = Owned \cap past])
       \/ DiesReading(p)

SweepRead(p) ==
    /\ pc[p] = "sweep"
    /\ \/ ManagedLinks /\ Goto(p, "purge", [loc[p] EXCEPT !.todo = Owned, !.due = Owned \cap past])
       \/ DiesReading(p)

\* Visit the managed links and delete the expired ones; the first error ends
\* the sweep.
Purge(p) ==
    /\ pc[p] = "purge"
    /\ \/ loc[p].todo = {} /\ Go(p, "forget") /\ UNCHANGED <<immichVars, faults>>
       \/ \E k \in loc[p].todo :
            LET rest == [loc[p] EXCEPT !.todo = @ \ {k}]
            IN \/ /\ k \notin past
                  /\ Goto(p, "purge", rest)
                  /\ UNCHANGED <<immichVars, faults>>
               \/ /\ k \in past
                  /\ \/ Deletes(k) /\ Goto(p, "purge", [rest EXCEPT !.gone = @ \cup {k}])
                     \/ DeleteErrs(k) /\ Exit(p)
    /\ UNCHANGED <<edgeVars, late, meddles, localVars, fate, kills>>

\* registry.remove of the shares whose links were deleted.
Forget(p) ==
    /\ pc[p] = "forget"
    /\ \/ /\ registry' = registry \ loc[p].gone
          /\ Goto(p, "converge", [loc[p] EXCEPT !.gone = {}])
          /\ UNCHANGED <<immichVars, edgeVars, late, faults, meddles, recorded, fate, kills>>
       \/ registry \cap loc[p].gone # {} /\ DiesReading(p)

\* _sync_portal: what is still active.
Converge(p) ==
    /\ pc[p] = "converge"
    /\ \/ ManagedLinks /\ Goto(p, "survey", [loc[p] EXCEPT !.active = Active])
       \/ DiesReading(p)

-----------------------------------------------------------------------------
(* sync and adopt                                                          *)

SyncRead(p) ==
    /\ pc[p] = "sync"
    /\ \/ /\ ManagedLinks
          /\ Goto(p, IF Active = {} THEN "survey" ELSE "enable",
                  [loc[p] EXCEPT !.active = Active, !.todo = Active])
       \/ DiesReading(p)

\* The typed prefix must match one link of Immich, alive and with an expiry.
AdoptRead(p) ==
    /\ pc[p] = "adopt"
    /\ \/ /\ \E S \in Prefixes :
               \/ \E k \in S \cap links :
                    /\ S \cap links = {k}
                    /\ k \notin past \cup EternalKeys
                    /\ Goto(p, "add", [loc[p] EXCEPT !.key = k])
               \/ (\A k \in S \ (past \cup EternalKeys) : S \cap links # {k}) /\ Exit(p)
          /\ UNCHANGED faults
          /\ Unchanged
       \/ DiesReading(p)

-----------------------------------------------------------------------------
(* list: the links are read first, the snippets last.                      *)

ListLinks(p) ==
    /\ pc[p] = "list"
    /\ \/ /\ Goto(p, "listSnippets", [loc[p] EXCEPT !.orphans = links])
          /\ UNCHANGED faults
          /\ Unchanged
       \/ DiesReading(p)

ListSnippets(p) ==
    /\ pc[p] = "listSnippets"
    /\ \/ /\ Goto(p, "listed",
                  [loc[p] EXCEPT !.orphans = (Installed \ {Globals}) \ loc[p].orphans])
          /\ UNCHANGED faults
          /\ Unchanged
       \/ DiesReading(p)

-----------------------------------------------------------------------------
(* The process is killed; the command it was waiting for, or about to      *)
(* send, may have reached its host.                                        *)

Doing(p) ==
    LET here == loc[p] IN
    CASE pc[p] = "enable" -> {ForwardOp(TRUE)}
      [] pc[p] = "write" -> {WriteOp(here.name)}
      [] pc[p] = "restore" -> {RestoreOp(here.name, here.backup)}
      [] pc[p] = "remove" -> {RemoveOp(here.stale)}
      [] pc[p] = "undoKey" -> {RemoveOp({here.key})}
      [] pc[p] = "undoGlobals" -> {RemoveOp({Globals})}
      [] pc[p] \in {"reload", "undoReload"} -> {ReloadOp}
      [] pc[p] \in {"disable", "undoForward"} -> {ForwardOp(FALSE)}
      [] OTHER -> {}

Kill(p) ==
    /\ pc[p] # "idle"
    /\ kills < MaxKills
    /\ kills' = kills + 1
    /\ Exit(p)
    /\ fate' = IF loc[p].cmd = "open" /\ loc[p].key # NoKey /\ pc[p] # "opened"
                 THEN [fate EXCEPT ![loc[p].key] = "killed"]
                 ELSE fate
    /\ \/ UNCHANGED late
       \/ /\ Cardinality(late) < MaxLate
          /\ \E o \in Doing(p) : \E q \in Partly(o) : late' = late \cup {q}
    /\ UNCHANGED <<immichVars, edgeVars, faults, meddles, localVars>>

-----------------------------------------------------------------------------
Open(p) == OpenRead(p) \/ CreateLink(p) \/ Record(p) \/ Unadd(p) \/ EnableForward(p)
Snippet(p) == Write(p) \/ Validate(p) \/ Restore(p)
Converging(p) == Survey(p) \/ Remove(p) \/ Reload(p) \/ Disable(p)
Rollback(p) == UndoKey(p) \/ UndoGlobals(p) \/ UndoReload(p) \/ UndoForward(p) \/ UndoLink(p)
Close(p) == CloseRead(p) \/ Revoke(p)
Sweep(p) == SweepRead(p) \/ Purge(p) \/ Forget(p) \/ Converge(p)
Sync(p) == SyncRead(p) \/ AdoptRead(p)
List(p) == ListLinks(p) \/ ListSnippets(p)

\* What a process that holds the lock does next.
Work(p) ==
    \/ Open(p) \/ Snippet(p) \/ Converging(p) \/ Rollback(p)
    \/ Close(p) \/ Sweep(p) \/ Sync(p) \/ List(p) \/ Leave(p)

Environment ==
    /\ \/ \E k \in Keys : Expire(k) \/ UserCreate(k) \/ UserDelete(k)
       \/ CaddyRestart
       \/ \E o \in late : Land(o)
    /\ UNCHANGED <<localVars, fate, pc, loc, kills>>

Init ==
    /\ PortalInit
    /\ registry = {}
    /\ recorded = {}
    /\ fate = [k \in Keys |-> "none"]
    /\ pc = [p \in Procs |-> "idle"]
    /\ loc = [p \in Procs |-> Blank]
    /\ kills = 0

Next ==
    \/ \E p \in Procs : \/ \E c \in Commands : Enter(p, c)
                        \/ Work(p)
                        \/ Kill(p)
    \/ Environment

Spec == Init /\ [][Next]_vars

-----------------------------------------------------------------------------
(* Fairness.  A process that runs is scheduled and its calls return; a     *)
(* link's expiry date comes; a command left on a host ends.  The timer     *)
(* starts a sweep every 900 seconds and flock() grants the lock in the     *)
(* end, as the commands that compete for it come only now and then.  It    *)
(* prefers no waiting writer, so readers that overlap for ever would keep  *)
(* every sweep out: they are assumed to pause.                             *)
Fairness ==
    /\ \A p \in Procs : WF_vars(Work(p))
    /\ \A k \in Keys : WF_vars(Environment /\ Expire(k))
    /\ WF_vars(Environment /\ \E o \in late : Land(o))
    /\ \A p \in Procs : SF_vars(Enter(p, "sweep"))
    /\ []<>(\A p \in Procs : pc[p] \notin ListSteps)

FairSpec == Spec /\ Fairness

-----------------------------------------------------------------------------
(* Every variable, and every local of a process, keeps its type.           *)
TypeOK ==
    /\ PortalTypeOK
    /\ registry \subseteq Keys
    /\ recorded \subseteq Keys
    /\ fate \in [Keys -> {"none", "failed", "stranded", "warned", "killed"}]
    /\ pc \in [Procs -> Labels]
    /\ loc \in [Procs -> Locals]
    /\ kills \in Nat

(* A share that was ever recorded stays in the registry as long as its     *)
(* link exists: no sequence of failing, killed or racing commands loses    *)
(* the ownership a later sweep needs to revoke it (managed_links, and the  *)
(* order delete_link, registry.remove of close, sweep and the rollback).   *)
OwnershipKept == recorded \cap links \subseteq registry

(* Caddy is only ever given snippets of shares recorded in the registry:   *)
(* SETUP.md says of sync that "it never publishes an unrelated Immich      *)
(* link".  Holds whatever call fails, lands late or is interrupted.        *)
OnlyRecordedPublished == Installed \cup running \subseteq recorded \cup {Globals}

(* Why the two properties above hold whatever happens: the inductive       *)
(* invariant.  A key in the registry was recorded, and one recorded or     *)
(* live was handed out; a process only works on recorded shares, whatever  *)
(* it writes or has left to be written, and only forgets links that are    *)
(* gone; what it deletes is recorded or was created by its own open.       *)
Handed == {k \in Keys : origin[k] # "none"}

SafeOp(o) ==
    \/ o.do # "cat" /\ o.content = "absent"
    \/ o.names \subseteq recorded \cup {Globals}

LocalOK(l, r) ==
    /\ r.todo \cup r.active \subseteq recorded
    /\ r.gone \subseteq Handed \ links
    /\ r.name \in recorded \cup {Globals}
    /\ l \in {"add", "unadd"} =>
         r.key \in Handed /\ (r.cmd = "open" => origin[r.key] = "cli")
    /\ l = "unadd" => r.cmd = "open"
    /\ l \in RollbackSteps \cup {"revoke"} => r.key \in recorded
    /\ r.cmd = "open" =>
         /\ l \in OpenSteps \cup PublishSteps \cup RollbackSteps
         /\ l \in PublishSteps => r.key \in recorded

IInv ==
    /\ TypeOK
    /\ registry \subseteq recorded
    /\ recorded \cup links \subseteq Handed
    /\ OwnershipKept
    /\ OnlyRecordedPublished
    /\ \A o \in late : SafeOp(o)
    /\ \A p \in Procs : LocalOK(pc[p], loc[p])

(* A link somebody made in Immich and that was never adopted is deleted by *)
(* nobody but them ("neither published nor deleted by sync, close, or      *)
(* sweep"): only a user's own change makes it disappear.                   *)
ForeignUntouched ==
    [][\A k \in links \ links' :
         origin[k] = "user" /\ k \notin recorded => meddles' = meddles + 1]_vars

(* "A reported failure must not become public after a later Caddy reload": *)
(* once an open has reported a failure that it rolled back, without a      *)
(* warning that the rollback needs attention, its link, its snippet and    *)
(* its route are gone, and nothing that runs later brings one of them      *)
(* back.  An open that lost the answer of create_link, or could not read   *)
(* the registry, reports a failure and leaves its link alive: that share   *)
(* gets neither snippet nor route, unless it is adopted and so recorded.   *)
FailedOpenStaysPrivate ==
    \A k \in Keys :
        /\ fate[k] = "failed" => k \notin links
        /\ fate[k] = "failed" \/ (fate[k] = "stranded" /\ k \notin recorded) =>
             disk[k] = "absent" /\ k \notin running

(* Every route that Caddy serves for a live share has what it needs: the   *)
(* shared snippet in the same configuration and the NAS forward.  Excepted *)
(* are the shares whose open is still running, or was killed, or warned    *)
(* about its rollback, or failed.                                          *)
ActiveRoutesServed ==
    \A k \in running \cap Active :
        \/ Globals \in running /\ forward
        \/ fate[k] \notin {"none", "stranded"}
        \/ \E p \in Procs : loc[p].cmd = "open" /\ loc[p].key = k

(* When open reports success, the share is served now and will be after a  *)
(* restart of Caddy, and the sweep knows it (unless it expired or was      *)
(* deleted in Immich meanwhile).                                           *)
OpenSucceedsWhole ==
    \A p \in Procs : pc[p] = "opened" =>
        LET k == loc[p].key
        IN /\ {k, Globals} \subseteq running
           /\ disk[k] = "good" /\ disk[Globals] = "good"
           /\ forward
           /\ k \in registry

(* When close ends without an error, neither a link, a registry entry nor  *)
(* an installed snippet of the share is left.                              *)
CloseRevokes ==
    \A p \in Procs : pc[p] \in {"done", "closed"} /\ loc[p].cmd = "close" =>
        LET k == loc[p].key
        IN k \notin links \cup registry \cup Installed

(* When sweep ends without an error, nothing is left of the shares that    *)
(* had expired when it read the links: no link, no registry entry and no   *)
(* installed snippet, though it stops at the first call that fails.        *)
SweepRevokes ==
    \A p \in Procs : pc[p] \in {"done", "closed"} /\ loc[p].cmd = "sweep" =>
        loc[p].due \cap (links \cup registry \cup Installed) = {}

(* When sync or adopt ends with shares active, Caddy serves all of them    *)
(* and nothing else, now and after a restart, and the forward is on.  The  *)
(* adopted share is one of them unless it has expired or was deleted in    *)
(* Immich meanwhile.                                                       *)
SyncSucceedsWhole ==
    \A p \in Procs : pc[p] = "done" /\ loc[p].cmd \in {"sync", "adopt"} =>
        LET here == loc[p]
        IN /\ Active \subseteq here.active
           /\ here.cmd = "adopt" /\ here.key \in links \ past => here.key \in here.active
           /\ Installed = here.active \cup {Globals} /\ running = Installed
           /\ Parses
           /\ forward

(* What succeeds is there: a command that publishes reports success only   *)
(* of what Caddy serves, now and after a restart.                          *)
SucceedsWhole == OpenSucceedsWhole /\ SyncSucceedsWhole

(* What is revoked is gone: a close or a sweep that ends without an error  *)
(* leaves nothing of the shares that it was to revoke.                     *)
RevokesWhole == CloseRevokes /\ SweepRevokes

(* An orphan snippet that list reports ("link removed from Immich") really *)
(* has no link: the shared lock keeps an open from slipping between the    *)
(* reading of the links and that of the snippets.                          *)
OrphanMeansNoLink ==
    \A p \in Procs : pc[p] = "listed" => loc[p].orphans \cap links = {}

(* "Portal fully closed (no public attack surface).": when sweep, close or *)
(* sync says so, no route is installed, none is served and the forward is  *)
(* off.                                                                    *)
FullyClosedIsClosed ==
    \A p \in Procs : pc[p] = "closed" => Installed = {} /\ running = {} /\ ~forward

(* ... and it is true as long as no call has failed and no process was     *)
(* killed, whatever commands ran in whatever order before: no survey may   *)
(* overlook a route that an earlier command left behind.                   *)
ClosedUnlessFailed == faults = 0 /\ kills = 0 => FullyClosedIsClosed

(* "previous snippet restored, running Caddy unchanged": when that is said *)
(* the snippet on the VPS is again what it was before the write.           *)
RestoreRestores ==
    [][\A p \in Procs : pc[p] = "restore" /\ pc'[p] # "restore" =>
         disk'[loc[p].name] = loc[p].backup]_vars

(* The registry's lock "prevents concurrent monitor, cron, and terminal    *)
(* mutations": while a command that changes things holds it, no command    *)
(* left behind by another one takes effect.                                *)
MutationsSerialized ==
    [][(\E p \in Procs : Mutating(p)) => late \subseteq late']_vars

(* Every managed link that has expired is deleted in the end.              *)
ExpiredIsRevoked ==
    \A k \in Keys : k \in registry \cap past ~> k \notin links

(* When no share can be opened any more, every share ends: the sweeps      *)
(* leave no snippet installed and the forward off, for good.               *)
PortalEmpties == <>[](Installed = {} /\ ~forward)

-----------------------------------------------------------------------------
(* What the commands implement, all calls, failures and kills taken away.  *)
LifeOf(k) ==
    CASE origin[k] = "none" -> "none"
      [] k \in links -> "live"
      [] OTHER -> "over"

Lifecycle == INSTANCE ShareLifecycle WITH
    life <- [k \in Keys |-> LifeOf(k)],
    maker <- origin,
    known <- registry,
    owned <- recorded,
    public <- (Installed \cup running) \ {Globals},
    users <- meddles

(* Whatever fails, is interrupted or lands late, each step of a command is *)
(* a step of the life of the shares: a link ends once and for all, only    *)
(* links that ended are forgotten, only links of the tool are ended by it  *)
(* and only recorded ones have a route.                                    *)
KeepsLifecycle == Lifecycle!Spec
=============================================================================
