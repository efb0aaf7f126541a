------------------------ MODULE ShareLifecycle_proofs ------------------------
(***************************************************************************)
(* ShareCommands implements ShareLifecycle, for any keys, processes and    *)
(* bounds: by the inductive invariant every call of a command, every       *)
(* failure and every kill is a step of the abstract life of the shares, or *)
(* leaves it as it is.                                                     *)
(***************************************************************************)
EXTENDS ShareCommands_proofs

-----------------------------------------------------------------------------
(* The abstract step behind each kind of change.                           *)

\* Nothing changes but what is on the VPS: perhaps a publication.
LEMMA QuietPublishes ==
    ASSUME IInv', UNCHANGED <<links, origin, registry, recorded, meddles>>
    PROVE  Lifecycle!Publish
<1>1. [k \in Keys |-> LifeOf(k)]' = [k \in Keys |-> LifeOf(k)]
  BY DEF LifeOf
<1>2. ((Installed \cup running) \ {Globals})' \subseteq recorded
  BY DEF IInv, OnlyRecordedPublished
<1> QED BY <1>1, <1>2 DEF Lifecycle!Publish

\* The registry forgets links that exist no more.
LEMMA ForgetsOver ==
    ASSUME IInv, UNCHANGED <<links, origin, recorded, meddles, disk, running>>,
           registry' \subseteq registry,
           \A k \in registry \ registry' : k \notin links
    PROVE  Lifecycle!Forget
<1>1. [k \in Keys |-> LifeOf(k)]' = [k \in Keys |-> LifeOf(k)]
  BY DEF LifeOf
<1>2. ASSUME NEW k \in registry \ registry' PROVE [x \in Keys |-> LifeOf(x)][k] = "over"
  <2>1. k \in Keys /\ origin[k] # "none"
    BY <1>2 DEF IInv, Handed, TypeOK
  <2> QED BY <1>2, <2>1 DEF LifeOf
<1>3. ((Installed \cup running) \ {Globals})' = (Installed \cup running) \ {Globals}
  BY DEF Installed
<1> QED BY <1>1, <1>2, <1>3 DEF Lifecycle!Forget

\* A link comes into being.
LEMMA MakesLive ==
    ASSUME IInv, NEW k \in Fresh, NEW who \in {"cli", "user"},
           links' = links \cup {k}, origin' = [origin EXCEPT ![k] = who],
           meddles' = IF who = "user" THEN meddles + 1 ELSE meddles,
           UNCHANGED <<registry, recorded, disk, running>>
    PROVE  Lifecycle!Make(k, who)
<1>1. /\ k \in Keys \ links /\ origin[k] = "none"
      /\ origin \in [Keys -> {"none", "cli", "user"}]
  BY DEF Fresh, IInv, Handed, TypeOK, PortalTypeOK
<1>2. ASSUME NEW x \in Keys PROVE LifeOf(x)' = IF x = k THEN "live" ELSE LifeOf(x)
  <2>1. CASE x = k
    <3>1. origin'[x] # "none" /\ x \in links'
      BY <1>1, <2>1
    <3> QED BY <2>1, <3>1 DEF LifeOf
  <2>2. CASE x # k
    <3>1. origin'[x] = origin[x] /\ (x \in links' <=> x \in links)
      BY <1>1, <2>2
    <3> QED BY <2>2, <3>1 DEF LifeOf
  <2> QED BY <2>1, <2>2
<1>3. [x \in Keys |-> LifeOf(x)]' = [[x \in Keys |-> LifeOf(x)] EXCEPT ![k] = "live"]
  BY <1>1, <1>2
<1>4. [x \in Keys |-> LifeOf(x)][k] = "none"
  BY <1>1 DEF LifeOf
<1>5. ((Installed \cup running) \ {Globals})' = (Installed \cup running) \ {Globals}
  BY DEF Installed
<1> QED BY <1>3, <1>4, <1>5 DEF Lifecycle!Make

\* A live link is over once it is deleted.
LEMMA EndsOne ==
    ASSUME IInv, NEW k \in links, links' = links \ {k}, UNCHANGED <<origin, disk, running>>
    PROVE  /\ k \in Keys
           /\ [x \in Keys |-> LifeOf(x)][k] = "live"
           /\ [x \in Keys |-> LifeOf(x)]' = [[x \in Keys |-> LifeOf(x)] EXCEPT ![k] = "over"]
           /\ ((Installed \cup running) \ {Globals})' = (Installed \cup running) \ {Globals}
<1>1. k \in Keys /\ origin[k] # "none"
  BY DEF IInv, Handed
<1>2. \A x \in Keys : LifeOf(x)' = IF x = k THEN "over" ELSE LifeOf(x)
  BY <1>1 DEF LifeOf
<1>3. [x \in Keys |-> LifeOf(x)]' = [[x \in Keys |-> LifeOf(x)] EXCEPT ![k] = "over"]
  BY <1>1, <1>2
<1>4. [x \in Keys |-> LifeOf(x)][k] = "live"
  BY <1>1 DEF LifeOf
<1> QED BY <1>1, <1>3, <1>4 DEF Installed

\* The tool deletes a link of its own, and may forget it at once.
LEMMA RevokesOwn ==
    ASSUME IInv, NEW k \in links, links' = links \ {k},
           origin[k] = "cli" \/ k \in recorded,
           registry' \in {registry, registry \ {k}},
           UNCHANGED <<origin, recorded, meddles, disk, running>>
    PROVE  Lifecycle!Next
<1>1. Lifecycle!Revoke(k)
  BY EndsOne DEF Lifecycle!Revoke
<1> QED BY <1>1, EndsOne DEF Lifecycle!Next

-----------------------------------------------------------------------------
(* The steps of a command.                                                 *)

\* managed_links, or the failure of the read.
LEMMA ReadsForget ==
    ASSUME IInv, IInv', ManagedLinks \/ Unchanged
    PROVE  Lifecycle!Next
<1>1. CASE ManagedLinks
  BY <1>1, ForgetsOver DEF ManagedLinks, Owned, immichVars, edgeVars, Lifecycle!Next
<1>2. CASE Unchanged
  BY <1>2, QuietPublishes DEF Unchanged, immichVars, localVars, Lifecycle!Next
<1> QED BY <1>1, <1>2

LEMMA CreateLinkLife ==
    ASSUME IInv, IInv', NEW p \in Procs, CreateLink(p)
    PROVE  Lifecycle!Next
<1>1. CASE UNCHANGED <<links, origin>>
  BY <1>1, QuietPublishes DEF CreateLink, localVars, Lifecycle!Next
<1>2. ASSUME NEW k \in Fresh \ EternalKeys, links' = links \cup {k},
             origin' = [origin EXCEPT ![k] = "cli"]
      PROVE  Lifecycle!Next
  <2>1. Lifecycle!Make(k, "cli")
    BY <1>2, MakesLive DEF CreateLink, localVars, edgeVars
  <2> QED BY <2>1 DEF Fresh, Lifecycle!Next
<1> QED BY <1>1, <1>2 DEF CreateLink

LEMMA RecordLife ==
    ASSUME IInv, IInv', NEW p \in Procs, Record(p)
    PROVE  Lifecycle!Next
<1>0. UNCHANGED <<immichVars, edgeVars, meddles>>
  BY DEF Record
<1>1. CASE UNCHANGED localVars
  BY <1>0, <1>1, QuietPublishes DEF immichVars, localVars, Lifecycle!Next
<1>2. CASE /\ registry' = registry \cup {loc[p].key}
           /\ recorded' = recorded \cup {loc[p].key}
  <2>1. loc[p].key \in Keys /\ origin[loc[p].key] # "none"
    BY Here DEF Record, LocalOK, Handed
  <2>2. [x \in Keys |-> LifeOf(x)][loc[p].key] # "none"
    BY <2>1 DEF LifeOf
  <2>3. [x \in Keys |-> LifeOf(x)]' = [x \in Keys |-> LifeOf(x)]
    BY <1>0 DEF LifeOf, immichVars
  <2>4. ((Installed \cup running) \ {Globals})' = (Installed \cup running) \ {Globals}
    BY <1>0 DEF Installed, edgeVars
  <2>5. Lifecycle!Own(loc[p].key)
    BY <1>0, <1>2, <2>2, <2>3, <2>4 DEF Lifecycle!Own, immichVars
  <2> QED BY <2>1, <2>5 DEF Lifecycle!Next
<1> QED BY <1>1, <1>2 DEF Record

\* The steps that delete at most one link and leave the registry alone, or
\* forget that one.
LEMMA DeletionLife ==
    ASSUME IInv, IInv', NEW p \in Procs, Work(p), NEW k \in Keys,
           links' \in {links, links \ {k}},
           links' = links => UNCHANGED registry,
           registry' \in {registry, registry \ {k}},
           UNCHANGED <<origin, recorded, meddles, disk, running>>
    PROVE  Lifecycle!Next
<1>1. CASE links' = links
  BY <1>1, QuietPublishes DEF Lifecycle!Next
<1>2. CASE links' # links
  <2>1. k \in links \ links' /\ links' = links \ {k}
    BY <1>2
  <2>2. origin[k] = "cli" \/ k \in recorded
    BY <2>1, OwnDeletes
  <2> QED BY <2>1, <2>2, RevokesOwn
<1> QED BY <1>1, <1>2

LEMMA DeletingLife ==
    ASSUME IInv, IInv', NEW p \in Procs, Unadd(p) \/ UndoLink(p) \/ Revoke(p) \/ Purge(p)
    PROVE  Lifecycle!Next
<1>1. Work(p)
  BY DEF Work, Open, Rollback, Close, Sweep
<1>2. loc[p] \in Locals /\ LocalOK(pc[p], loc[p])
  BY Here
<1>3. CASE Unadd(p)
  <2>1. loc[p].key \in Keys
    BY <1>2, <1>3 DEF Unadd, LocalOK, Handed
  <2> QED BY <1>1, <1>3, <2>1, DeletionLife
          DEF Unadd, Deletes, DeleteErrs, immichVars, edgeVars, localVars
<1>4. CASE UndoLink(p)
  <2>1. loc[p].key \in Keys
    BY <1>2, <1>4 DEF UndoLink, LocalOK, IInv, TypeOK, RollbackSteps
  <2>2. UNCHANGED <<origin, recorded, meddles, disk, running>>
    BY <1>4 DEF UndoLink, Deletes, DeleteErrs, immichVars, edgeVars
  <2>3. /\ links' \in {links, links \ {loc[p].key}}
        /\ registry' \in {registry, registry \ {loc[p].key}}
        /\ links' = links => UNCHANGED registry
    BY <1>4 DEF UndoLink, Deletes, DeleteErrs, immichVars
  <2> QED BY <1>1, <2>1, <2>2, <2>3, DeletionLife
<1>5. CASE Revoke(p)
  <2>1. loc[p].key \in Keys
    BY <1>2, <1>5 DEF Revoke, LocalOK, IInv, TypeOK
  <2> QED BY <1>1, <1>5, <2>1, DeletionLife
          DEF Revoke, Deletes, DeleteErrs, immichVars, edgeVars, localVars
<1>6. CASE Purge(p)
  <2>0. UNCHANGED <<edgeVars, meddles, localVars>>
    BY <1>6 DEF Purge
  <2>1. CASE UNCHANGED immichVars
    BY <2>0, <2>1, QuietPublishes DEF immichVars, localVars, Lifecycle!Next
  <2>2. ASSUME NEW k \in loc[p].todo, Deletes(k) \/ DeleteErrs(k)
        PROVE  Lifecycle!Next
    <3>1. k \in Keys
      BY <1>2 DEF Locals
    <3> QED BY <1>1, <2>0, <2>2, <3>1, DeletionLife
            DEF Deletes, DeleteErrs, immichVars, edgeVars, localVars
  <2> QED BY <1>6, <2>1, <2>2 DEF Purge
<1> QED BY <1>3, <1>4, <1>5, <1>6

LEMMA ForgetLife ==
    ASSUME IInv, IInv', NEW p \in Procs, Forget(p)
    PROVE  Lifecycle!Next
<1>1. CASE registry' = registry \ loc[p].gone /\ UNCHANGED <<immichVars, edgeVars, meddles, recorded>>
  <2>1. loc[p].gone \cap links = {}
    BY Here DEF LocalOK
  <2> QED BY <1>1, <2>1, ForgetsOver DEF immichVars, edgeVars, Lifecycle!Next
<1>2. CASE DiesReading(p)
  BY <1>2, QuietPublishes DEF DiesReading, immichVars, localVars, Lifecycle!Next
<1> QED BY <1>1, <1>2 DEF Forget

LEMMA WorkLife ==
    ASSUME IInv, IInv', NEW p \in Procs, Work(p)
    PROVE  Lifecycle!Next
<1>1. CASE CreateLink(p) \/ Record(p)
  BY <1>1, CreateLinkLife, RecordLife
<1>2. CASE Unadd(p) \/ UndoLink(p) \/ Revoke(p) \/ Purge(p)
  BY <1>2, DeletingLife
<1>3. CASE OpenRead(p) \/ SweepRead(p) \/ Converge(p) \/ SyncRead(p)
  BY <1>3, ReadsForget
     DEF OpenRead, SweepRead, Converge, SyncRead, DiesReading, Unchanged
<1>4. CASE Forget(p)
  BY <1>4, ForgetLife
<1>5. CASE EnableForward(p) \/ Snippet(p) \/ Converging(p) \/ (Rollback(p) /\ ~UndoLink(p))
  <2>1. UNCHANGED <<immichVars, localVars, meddles>>
    BY <1>5 DEF EnableForward, Snippet, Write, Validate, Restore, Converging, Survey, Remove,
                Reload, Disable, Rollback, UndoKey, UndoGlobals, UndoReload, UndoForward,
                DiesReading, Unchanged, Call
  <2> QED BY <2>1, QuietPublishes DEF immichVars, localVars, Lifecycle!Next
<1>6. CASE CloseRead(p) \/ AdoptRead(p) \/ List(p) \/ Leave(p)
  <2>1. UNCHANGED <<immichVars, localVars, meddles>>
    BY <1>6 DEF CloseRead, AdoptRead, List, ListLinks, ListSnippets, Leave, DiesReading, Unchanged
  <2> QED BY <2>1, QuietPublishes DEF immichVars, localVars, Lifecycle!Next
<1> QED BY <1>1, <1>2, <1>3, <1>4, <1>5, <1>6
        DEF Work, Open, Rollback, Close, Sweep, Sync

-----------------------------------------------------------------------------
(* The steps of everybody else, and the theorem.                           *)

LEMMA EnvironmentLife ==
    ASSUME IInv, IInv', Environment
    PROVE  Lifecycle!Next
<1>0. UNCHANGED localVars
  BY DEF Environment
<1>1. ASSUME NEW k \in Keys, UserCreate(k) PROVE Lifecycle!Next
  <2>1. Lifecycle!Make(k, "user")
    BY <1>0, <1>1, MakesLive DEF UserCreate, localVars, edgeVars
  <2> QED BY <2>1 DEF Lifecycle!Next
<1>2. ASSUME NEW k \in Keys, UserDelete(k) PROVE Lifecycle!Next
  <2>1. Lifecycle!Withdraw(k)
    BY <1>0, <1>2, EndsOne DEF UserDelete, localVars, edgeVars, Lifecycle!Withdraw
  <2> QED BY <2>1 DEF Lifecycle!Next
<1>3. CASE (\E k \in Keys : Expire(k)) \/ CaddyRestart \/ (\E o \in late : Land(o))
  <2>1. UNCHANGED <<links, origin, registry, recorded, meddles>>
    BY <1>0, <1>3 DEF Expire, CaddyRestart, Land, immichVars, localVars
  <2> QED BY <2>1, QuietPublishes DEF Lifecycle!Next
<1> QED BY <1>1, <1>2, <1>3 DEF Environment

LEMMA InitLife == Init => Lifecycle!Init
<1> SUFFICES ASSUME Init PROVE Lifecycle!Init
  OBVIOUS
<1>1. [k \in Keys |-> LifeOf(k)] = [k \in Keys |-> "none"]
  BY DEF Init, PortalInit, LifeOf
<1>2. (Installed \cup running) \ {Globals} = {}
  BY DEF Init, PortalInit, Installed
<1> QED BY <1>1, <1>2 DEF Init, PortalInit, Lifecycle!Init

LEMMA StutterLife == UNCHANGED vars => UNCHANGED Lifecycle!lifecycleVars
BY DEF vars, immichVars, edgeVars, localVars, Lifecycle!lifecycleVars, LifeOf, Installed

(* Whatever calls fail, processes are killed and commands land late, the   *)
(* commands keep to the life of the shares: no link ends twice or comes    *)
(* back, none is forgotten alive, none is ended that is not the tool's     *)
(* own, and none is published that was never recorded.                     *)
THEOREM Implementation == Spec => KeepsLifecycle
<1>1. Init => Lifecycle!Init
  BY InitLife
<1>2. IInv /\ IInv' /\ [Next]_vars => [Lifecycle!Next]_Lifecycle!lifecycleVars
  <2> SUFFICES ASSUME IInv, IInv', Next PROVE Lifecycle!Next
    BY StutterLife
  <2>1. ASSUME NEW p \in Procs, NEW c \in Commands, Enter(p, c) \/ Kill(p) PROVE Lifecycle!Next
    <3>1. UNCHANGED <<links, origin, registry, recorded, meddles>>
      BY <2>1 DEF Enter, Kill, Unchanged, immichVars, localVars
    <3> QED BY <3>1, QuietPublishes DEF Lifecycle!Next
  <2> QED BY <2>1, WorkLife, EnvironmentLife DEF Next, Commands
<1> QED BY <1>1, <1>2, Invariance, PTL DEF Spec, KeepsLifecycle, Lifecycle!Spec
=============================================================================
