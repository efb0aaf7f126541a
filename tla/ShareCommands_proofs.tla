------------------------ MODULE ShareCommands_proofs ------------------------
(***************************************************************************)
(* IInv is an inductive invariant of ShareCommands, for any keys,          *)
(* processes, prefixes and bounds; hence the types are kept, no live       *)
(* share loses its owner, Caddy only serves recorded shares, and nobody    *)
(* but a user deletes a link the tool neither created nor adopted.         *)
(***************************************************************************)
EXTENDS ShareCommands, TLAPS

-----------------------------------------------------------------------------
(* Commands sent to the edge.                                              *)

\* The commands of the model have their type.
LEMMA OpTypes ==
    /\ \A n \in Names : WriteOp(n) \in EdgeOp
    /\ \A S \in SUBSET Names : RemoveOp(S) \in EdgeOp /\ SafeOp(RemoveOp(S))
    /\ \A n \in Names, c \in Contents : RestoreOp(n, c) \in EdgeOp
    /\ ReloadOp \in EdgeOp /\ SafeOp(ReloadOp)
    /\ \A on \in BOOLEAN : ForwardOp(on) \in EdgeOp /\ SafeOp(ForwardOp(on))
<1> USE DEF EdgeOp, FileOps, Contents, SafeOp
<1>1. \A n \in Names : WriteOp(n) \in EdgeOp
  BY DEF WriteOp
<1>2. \A S \in SUBSET Names : RemoveOp(S) \in EdgeOp /\ SafeOp(RemoveOp(S))
  BY DEF RemoveOp
<1>3. \A n \in Names, c \in Contents : RestoreOp(n, c) \in EdgeOp
  BY DEF RestoreOp
<1>4. ReloadOp \in EdgeOp /\ SafeOp(ReloadOp)
  BY DEF ReloadOp
<1>5. \A on \in BOOLEAN : ForwardOp(on) \in EdgeOp /\ SafeOp(ForwardOp(on))
  BY DEF ForwardOp
<1> QED BY <1>1, <1>2, <1>3, <1>4, <1>5

\* What a command cut short did is a command that may be sent, too.
LEMMA PartlyTypes ==
    ASSUME NEW o \in EdgeOp, SafeOp(o), NEW q \in Partly(o)
    PROVE  q \in EdgeOp /\ SafeOp(q)
<1>1. CASE o.do = "rm"
  <2>1. PICK S \in SUBSET o.names : q = RemoveOp(S)
    BY <1>1 DEF Partly
  <2>2. S \in SUBSET Names
    BY DEF EdgeOp
  <2> QED BY <2>1, <2>2, OpTypes
<1>2. CASE o.do = "cat"
  <2>1. q = o \/ q = [o EXCEPT !.content = "bad"]
    BY <1>2 DEF Partly
  <2>2. [o EXCEPT !.content = "bad"] \in EdgeOp
    BY DEF EdgeOp, Contents
  <2>3. o.names \subseteq recorded \cup {Globals}
    BY <1>2 DEF SafeOp
  <2> QED BY <2>1, <2>2, <2>3 DEF SafeOp, EdgeOp
<1>3. CASE o.do \notin {"rm", "cat"}
  BY <1>3 DEF Partly
<1> QED BY <1>1, <1>2, <1>3

\* The part of IInv that speaks of the edge.
EdgeInv ==
    /\ disk \in [Names -> Contents]
    /\ running \subseteq Names
    /\ forward \in BOOLEAN
    /\ late \subseteq EdgeOp
    /\ faults \in Nat
    /\ OnlyRecordedPublished
    /\ \A o \in late : SafeOp(o)

\* A command that takes effect keeps what it installs within the recorded.
LEMMA ApplySafe ==
    ASSUME EdgeInv, NEW o \in EdgeOp, SafeOp(o), Apply(o)
    PROVE  /\ disk' \in [Names -> Contents]
           /\ running' \subseteq Names
           /\ forward' \in BOOLEAN
           /\ Installed' \cup running' \subseteq recorded \cup {Globals}
<1>1. disk' \in [Names -> Contents]
  BY DEF EdgeInv, EdgeOp, Apply
<1>2. Installed' \subseteq recorded \cup {Globals}
  BY <1>1 DEF EdgeInv, Apply, Installed, OnlyRecordedPublished, SafeOp
<1>3. running' \subseteq Names /\ running' \subseteq recorded \cup {Globals}
  BY DEF EdgeInv, Apply, Installed, OnlyRecordedPublished
<1>4. forward' \in BOOLEAN
  BY DEF EdgeInv, Apply
<1> QED BY <1>1, <1>2, <1>3, <1>4

\* So does any outcome of a call, and any command that it leaves behind.
LEMMA CallSafe ==
    ASSUME EdgeInv, NEW o \in EdgeOp, SafeOp(o), Succeeds(o) \/ Errs(o), recorded' = recorded
    PROVE  EdgeInv'
<1>1. CASE Succeeds(o)
  BY <1>1, ApplySafe DEF Succeeds, EdgeInv, OnlyRecordedPublished, SafeOp
<1>2. CASE UNCHANGED <<edgeVars, late>> /\ (UNCHANGED faults \/ Fault)
  BY <1>2 DEF edgeVars, EdgeInv, OnlyRecordedPublished, Installed, SafeOp, Fault
<1>3. CASE Fault /\ (\E q \in Partly(o) : Works(q) /\ Apply(q)) /\ UNCHANGED late
  <2>1. PICK q \in Partly(o) : Apply(q)
    BY <1>3
  <2>2. q \in EdgeOp /\ SafeOp(q)
    BY PartlyTypes
  <2> QED BY <1>3, <2>1, <2>2, ApplySafe DEF EdgeInv, OnlyRecordedPublished, SafeOp, Fault
<1>4. CASE Fault /\ (\E q \in Partly(o) : late' = late \cup {q}) /\ UNCHANGED edgeVars
  <2>1. PICK q \in Partly(o) : late' = late \cup {q}
    BY <1>4
  <2>2. q \in EdgeOp /\ SafeOp(q)
    BY PartlyTypes
  <2> QED BY <1>4, <2>1, <2>2
          DEF edgeVars, EdgeInv, OnlyRecordedPublished, Installed, SafeOp, Fault
<1> QED BY <1>1, <1>2, <1>3, <1>4 DEF Errs

-----------------------------------------------------------------------------
(* The parts of IInv, and what keeps them.                                 *)

\* The part that speaks of keys, links and the registry.
KeysInv ==
    /\ links \subseteq Keys
    /\ past \subseteq Keys
    /\ origin \in [Keys -> {"none", "cli", "user"}]
    /\ recorded \subseteq Keys
    /\ registry \subseteq recorded
    /\ recorded \cup links \subseteq Handed
    /\ OwnershipKept

\* The history variables and the counters have their type.
CountInv ==
    /\ meddles \in Nat
    /\ fate \in [Keys -> {"none", "failed", "stranded", "warned", "killed"}]
    /\ kills \in Nat

\* The part that speaks of the processes.
ProcInv ==
    /\ pc \in [Procs -> Labels]
    /\ loc \in [Procs -> Locals]
    /\ \A p \in Procs : LocalOK(pc[p], loc[p])

LEMMA IInvParts == IInv <=> KeysInv /\ EdgeInv /\ CountInv /\ ProcInv
BY DEF IInv, TypeOK, PortalTypeOK, KeysInv, EdgeInv, CountInv, ProcInv, Handed

LEMMA IInvPartsNext == IInv' <=> KeysInv' /\ EdgeInv' /\ CountInv' /\ ProcInv'
BY IInvParts, PTL

LEMMA StepLabels ==
    {"idle", "open", "create", "add", "unadd", "enable", "write", "validate", "restore",
     "reload", "opened", "undoKey", "undoGlobals", "undoReload", "undoForward", "undoLink",
     "survey", "remove", "disable", "closed", "done", "close", "revoke", "sweep", "purge",
     "forget", "converge", "sync", "adopt", "list", "listSnippets", "listed"} \subseteq Labels
BY DEF Labels, Commands, OpenSteps, PublishSteps, RollbackSteps, ListSteps, Verdicts

\* A process changes its own label and locals only.
LEMMA GotoMoves ==
    ASSUME ProcInv, NEW p \in Procs, NEW l \in Labels, NEW r \in Locals, Goto(p, l, r)
    PROVE  /\ pc' \in [Procs -> Labels]
           /\ loc' \in [Procs -> Locals]
           /\ pc'[p] = l /\ loc'[p] = r
           /\ \A q \in Procs \ {p} : pc'[q] = pc[q] /\ loc'[q] = loc[q]
BY DEF ProcInv, Goto

\* Keys are recorded and handed out for good, and their links do not return.
Grows ==
    /\ recorded \subseteq recorded'
    /\ \A k \in Handed : k \in Keys /\ origin'[k] = origin[k] /\ (k \in links' => k \in links)

\* What a process relies on outlives the steps of the others.
LEMMA LocalStays ==
    ASSUME Grows, NEW l \in Labels, NEW r \in Locals, LocalOK(l, r)
    PROVE  /\ r.todo \cup r.active \subseteq recorded'
           /\ r.gone \subseteq Handed' \ links'
           /\ r.name \in recorded' \cup {Globals}
           /\ l \in {"add", "unadd"} =>
                r.key \in Handed' /\ (r.cmd = "open" => origin'[r.key] = "cli")
           /\ l = "unadd" => r.cmd = "open"
           /\ l \in RollbackSteps \cup {"revoke"} => r.key \in recorded'
           /\ r.cmd = "open" =>
                /\ l \in OpenSteps \cup PublishSteps \cup RollbackSteps
                /\ l \in PublishSteps => r.key \in recorded'
<1>1. Handed \subseteq Handed'
  BY DEF Grows, Handed
<1> QED BY <1>1 DEF Grows, LocalOK

LEMMA OthersStay ==
    ASSUME ProcInv, Grows, NEW p \in Procs, NEW l \in Labels, NEW r \in Locals, Goto(p, l, r),
           LocalOK(pc[p], loc[p])'
    PROVE  ProcInv'
<1>1. /\ pc' \in [Procs -> Labels]
      /\ loc' \in [Procs -> Locals]
      /\ \A q \in Procs \ {p} : pc'[q] = pc[q] /\ loc'[q] = loc[q]
  BY GotoMoves
<1>2. ASSUME NEW q \in Procs \ {p} PROVE LocalOK(pc[q], loc[q])'
  <2>1. LocalOK(pc[q], loc[q]) /\ pc[q] \in Labels /\ loc[q] \in Locals
    BY DEF ProcInv
  <2>2. pc'[q] = pc[q] /\ loc'[q] = loc[q]
    BY <1>1
  <2> QED BY <2>1, <2>2, LocalStays DEF LocalOK
<1> QED BY <1>1, <1>2 DEF ProcInv

\* A move that changes nothing but the edge, and leads to a sound local state.
LEMMA QuietMove ==
    ASSUME IInv, EdgeInv', NEW p \in Procs, NEW l \in Labels, NEW r \in Locals,
           Goto(p, l, r), LocalOK(l, r),
           UNCHANGED <<immichVars, meddles, localVars, fate, kills>>
    PROVE  IInv'
<1>1. KeysInv /\ EdgeInv /\ CountInv /\ ProcInv
  BY IInvParts
<1>2. KeysInv' /\ CountInv' /\ Grows
  BY <1>1 DEF KeysInv, CountInv, Grows, immichVars, localVars, Handed, OwnershipKept
<1>3. pc'[p] = l /\ loc'[p] = r
  BY <1>1, GotoMoves
<1>4. LocalOK(pc[p], loc[p])'
  BY <1>3 DEF LocalOK, immichVars, localVars, Handed
<1>5. ProcInv'
  BY <1>1, <1>2, <1>4, OthersStay
<1> QED BY <1>2, <1>5, IInvPartsNext

\* An ended process relies on nothing.
LEMMA BlankOK == Blank \in Locals /\ LocalOK("idle", Blank) /\ "idle" \in Labels
BY DEF Blank, Locals, Commands, Contents, Names, LocalOK, OpenSteps, PublishSteps, RollbackSteps, Labels

\* EdgeInv survives a step that leaves the edge alone.
LEMMA EdgeStays ==
    ASSUME EdgeInv, UNCHANGED <<edgeVars, late, recorded>>, UNCHANGED faults \/ Fault
    PROVE  EdgeInv'
BY DEF edgeVars, EdgeInv, OnlyRecordedPublished, Installed, SafeOp, Fault

\* A command that ends without having changed anything.
LEMMA QuietExit ==
    ASSUME IInv, EdgeInv', NEW p \in Procs, Exit(p),
           UNCHANGED <<immichVars, meddles, localVars, fate, kills>>
    PROVE  IInv'
BY QuietMove, BlankOK DEF Exit

-----------------------------------------------------------------------------
(* Steps that change the edge at most.                                     *)

LEMMA Here ==
    ASSUME IInv, NEW p \in Procs
    PROVE  EdgeInv /\ pc[p] \in Labels /\ loc[p] \in Locals /\ LocalOK(pc[p], loc[p])
BY IInvParts DEF ProcInv

LEMMA ReadQuiet ==
    ASSUME IInv, UNCHANGED faults \/ Fault, Unchanged
    PROVE  EdgeInv'
BY IInvParts, EdgeStays DEF Unchanged, localVars

LEMMA CallQuiet ==
    ASSUME IInv, NEW o \in EdgeOp, SafeOp(o), Succeeds(o) \/ Errs(o), UNCHANGED localVars
    PROVE  EdgeInv'
BY IInvParts, CallSafe DEF localVars

\* die() rolls back an open whose share is recorded, or just ends.
LEMMA DieStep ==
    ASSUME IInv, EdgeInv', NEW p \in Procs, Die(p), loc[p].cmd = "open" => loc[p].key \in recorded,
           UNCHANGED <<immichVars, meddles, localVars, fate, kills>>
    PROVE  IInv'
<1>1. CASE loc[p].cmd = "open"
  <2>1. Goto(p, "undoKey", loc[p])
    BY <1>1 DEF Die, Go
  <2>2. LocalOK("undoKey", loc[p]) /\ loc[p] \in Locals /\ "undoKey" \in Labels
    BY <1>1, Here, StepLabels DEF LocalOK, OpenSteps, PublishSteps, RollbackSteps
  <2> QED BY <2>1, <2>2, QuietMove
<1>2. CASE loc[p].cmd # "open"
  BY <1>2, QuietExit DEF Die
<1> QED BY <1>1, <1>2

LEMMA DiesReadingStep ==
    ASSUME IInv, NEW p \in Procs, DiesReading(p)
    PROVE  IInv'
<1>1. EdgeInv'
  BY ReadQuiet DEF DiesReading, Unchanged
<1> QED BY <1>1, QuietExit DEF DiesReading

LEMMA EnterStep ==
    ASSUME IInv, NEW p \in Procs, NEW c \in Commands, Enter(p, c)
    PROVE  IInv'
<1>1. EdgeInv'
  BY ReadQuiet DEF Enter
<1>2. [Blank EXCEPT !.cmd = c] \in Locals /\ c \in Labels
  BY StepLabels DEF Blank, Locals, Contents, Names, Commands
<1>3. LocalOK(c, [Blank EXCEPT !.cmd = c])
  BY DEF Blank, LocalOK, OpenSteps, PublishSteps, RollbackSteps, Commands
<1> QED BY <1>1, <1>2, <1>3, QuietMove DEF Enter, Unchanged

LEMMA LeaveStep ==
    ASSUME IInv, NEW p \in Procs, Leave(p)
    PROVE  IInv'
<1>1. EdgeInv'
  BY ReadQuiet DEF Leave
<1> QED BY <1>1, QuietExit DEF Leave, Unchanged

LEMMA EnableForwardStep ==
    ASSUME IInv, NEW p \in Procs, EnableForward(p)
    PROVE  IInv'
<1>1. EdgeInv'
  BY CallQuiet, OpTypes DEF EnableForward, Call
<1>2. CASE Go(p, "write")
  <2>1. LocalOK("write", loc[p]) /\ loc[p] \in Locals /\ "write" \in Labels
    BY Here, StepLabels DEF EnableForward, LocalOK, OpenSteps, PublishSteps, RollbackSteps
  <2> QED BY <1>1, <1>2, <2>1, QuietMove DEF EnableForward, Call, Go
<1>3. CASE Die(p)
  BY <1>1, <1>3, DieStep, Here DEF EnableForward, Call, LocalOK, PublishSteps
<1> QED BY <1>2, <1>3 DEF EnableForward, Call

LEMMA WriteStep ==
    ASSUME IInv, NEW p \in Procs, Write(p)
    PROVE  IInv'
<1> DEFINE n == loc[p].name
           r == [loc[p] EXCEPT !.backup = disk[n]]
<1>1. loc[p] \in Locals /\ LocalOK("write", loc[p]) /\ n \in Names /\ disk[n] \in Contents
  BY Here DEF Write, Locals, EdgeInv
<1>2. EdgeInv'
  <2>1. WriteOp(n) \in EdgeOp
    BY <1>1, OpTypes
  <2>2. SafeOp(WriteOp(n))
    BY <1>1 DEF SafeOp, WriteOp, LocalOK
  <2> QED BY <2>1, <2>2, CallQuiet DEF Write, Call
<1>3. CASE Goto(p, "validate", r)
  <2>1. r \in Locals /\ "validate" \in Labels
    BY <1>1, StepLabels DEF Locals, Contents
  <2>2. LocalOK("validate", r)
    BY <1>1 DEF LocalOK, OpenSteps, PublishSteps, RollbackSteps, Locals
  <2> QED BY <1>2, <1>3, <2>1, <2>2, QuietMove DEF Write, Call
<1>4. CASE Die(p)
  BY <1>1, <1>2, <1>4, DieStep DEF Write, Call, LocalOK, PublishSteps
<1> QED BY <1>3, <1>4 DEF Write, Call

LEMMA ValidateStep ==
    ASSUME IInv, NEW p \in Procs, Validate(p)
    PROVE  IInv'
<1>1. EdgeInv'
  BY ReadQuiet DEF Validate
<1>2. loc[p] \in Locals /\ LocalOK("validate", loc[p])
  BY Here DEF Validate
<1> DEFINE done == [loc[p] EXCEPT !.name = Globals, !.backup = "absent"]
<1>3. done \in Locals
  BY <1>2 DEF Locals, Names, Contents
<1>4. ASSUME NEW l \in {"reload", "survey"}, Goto(p, l, done),
             l = "survey" => loc[p].cmd # "open"
      PROVE  IInv'
  <2>1. LocalOK(l, done)
    BY <1>2, <1>3, <1>4 DEF LocalOK, OpenSteps, PublishSteps, RollbackSteps, Locals
  <2> QED BY <1>1, <1>3, <1>4, <2>1, QuietMove, StepLabels DEF Validate, Unchanged
<1>5. ASSUME NEW k \in loc[p].todo, Goto(p, "write", [done EXCEPT !.name = k, !.todo = @ \ {k}])
      PROVE  IInv'
  <2> DEFINE r == [done EXCEPT !.name = k, !.todo = @ \ {k}]
  <2>1. r \in Locals /\ "write" \in Labels
    BY <1>2, <1>3, StepLabels DEF Locals, Names
  <2>2. LocalOK("write", r)
    BY <1>2, <1>3 DEF LocalOK, OpenSteps, PublishSteps, RollbackSteps, Locals
  <2> QED BY <1>1, <1>5, <2>1, <2>2, QuietMove DEF Validate, Unchanged
<1>6. CASE Go(p, "restore")
  <2>1. LocalOK("restore", loc[p]) /\ "restore" \in Labels
    BY <1>2, StepLabels DEF LocalOK, OpenSteps, PublishSteps, RollbackSteps
  <2> QED BY <1>1, <1>2, <1>6, <2>1, QuietMove DEF Validate, Unchanged, Go
<1>7. CASE NextSnippet(p)
  BY <1>4, <1>5, <1>7 DEF NextSnippet, AfterSnippets
<1> QED BY <1>6, <1>7 DEF Validate

LEMMA RestoreStep ==
    ASSUME IInv, NEW p \in Procs, Restore(p)
    PROVE  IInv'
<1> DEFINE o == RestoreOp(loc[p].name, loc[p].backup)
<1>1. loc[p] \in Locals /\ LocalOK("restore", loc[p])
  BY Here DEF Restore
<1>2. o \in EdgeOp
  BY <1>1, OpTypes DEF Locals
<1>3. SafeOp(o)
  BY <1>1 DEF SafeOp, RestoreOp, LocalOK
<1>4. EdgeInv'
  BY <1>2, <1>3, CallQuiet DEF Restore, Call
<1> QED BY <1>1, <1>4, DieStep DEF Restore, Call, LocalOK, PublishSteps
LEMMA SurveyStep ==
    ASSUME IInv, NEW p \in Procs, Survey(p)
    PROVE  IInv'
<1> DEFINE stale == Installed \ Keep(loc[p].active)
           next == IF stale # {} THEN "remove" ELSE Settled(p)
           r == [loc[p] EXCEPT !.stale = stale]
<1>1. CASE DiesReading(p)
  BY <1>1, DiesReadingStep
<1>2. CASE Goto(p, next, r) /\ UNCHANGED faults /\ Unchanged
  <2>1. loc[p] \in Locals /\ LocalOK("survey", loc[p])
    BY Here DEF Survey
  <2>2. r \in Locals /\ stale \subseteq Names
    BY <2>1 DEF Locals, Installed
  <2>3. next \in {"remove", "reload", "disable", "done"}
    BY DEF Settled, Finish
  <2>4. next = "reload" => r.cmd # "open"
    BY <2>1 DEF Settled, Regenerating, Finish, Locals
  <2>5. LocalOK(next, r)
    <3>1. /\ r.todo = loc[p].todo /\ r.active = loc[p].active /\ r.gone = loc[p].gone
          /\ r.name = loc[p].name /\ r.cmd = loc[p].cmd
      BY <2>1 DEF Locals
    <3> HIDE DEF next, r
    <3> QED BY <2>1, <2>3, <2>4, <3>1 DEF LocalOK, OpenSteps, PublishSteps, RollbackSteps
  <2>6. EdgeInv'
    BY <1>2, ReadQuiet
  <2>7. next \in Labels
    BY <2>3, StepLabels
  <2> HIDE DEF next, r
  <2> QED BY <1>2, <2>2, <2>5, <2>6, <2>7, QuietMove DEF Unchanged
<1> QED BY <1>1, <1>2 DEF Survey

LEMMA RemoveStep ==
    ASSUME IInv, NEW p \in Procs, Remove(p)
    PROVE  IInv'
<1>1. loc[p] \in Locals /\ LocalOK("remove", loc[p])
  BY Here DEF Remove
<1>2. EdgeInv'
  BY <1>1, OpTypes, CallQuiet DEF Remove, Call, Locals
<1>3. CASE Go(p, "reload")
  <2>1. LocalOK("reload", loc[p]) /\ "reload" \in Labels
    BY <1>1, StepLabels DEF LocalOK, OpenSteps, PublishSteps, RollbackSteps
  <2> QED BY <1>1, <1>2, <1>3, <2>1, QuietMove DEF Remove, Call, Go
<1>4. CASE Exit(p)
  BY <1>2, <1>4, QuietExit DEF Remove, Call
<1> QED BY <1>3, <1>4 DEF Remove, Call

LEMMA ReloadStep ==
    ASSUME IInv, NEW p \in Procs, Reload(p)
    PROVE  IInv'
<1> DEFINE l == IF loc[p].cmd = "open" THEN "opened" ELSE Finish(p)
<1>1. loc[p] \in Locals /\ LocalOK("reload", loc[p])
  BY Here DEF Reload
<1>2. EdgeInv'
  BY OpTypes, CallQuiet DEF Reload, Call
<1>3. CASE Go(p, l)
  <2>1. LocalOK(l, loc[p]) /\ l \in Labels
    BY <1>1, StepLabels DEF Finish, LocalOK, OpenSteps, PublishSteps, RollbackSteps
  <2> QED BY <1>1, <1>2, <1>3, <2>1, QuietMove DEF Reload, Call, Go
<1>4. CASE Die(p)
  BY <1>1, <1>2, <1>4, DieStep DEF Reload, Call, LocalOK, PublishSteps
<1> QED BY <1>3, <1>4 DEF Reload, Call

LEMMA DisableStep ==
    ASSUME IInv, NEW p \in Procs, Disable(p)
    PROVE  IInv'
<1>1. loc[p] \in Locals /\ LocalOK("disable", loc[p])
  BY Here DEF Disable
<1>2. EdgeInv'
  BY OpTypes, CallQuiet DEF Disable, Call
<1>3. CASE Go(p, "closed")
  <2>1. LocalOK("closed", loc[p]) /\ "closed" \in Labels
    BY <1>1, StepLabels DEF LocalOK, OpenSteps, PublishSteps, RollbackSteps
  <2> QED BY <1>1, <1>2, <1>3, <2>1, QuietMove DEF Disable, Call, Go
<1>4. CASE Exit(p)
  BY <1>2, <1>4, QuietExit DEF Disable, Call
<1> QED BY <1>3, <1>4 DEF Disable, Call

\* The rollback of an open keeps working on its recorded share.
LEMMA RollbackMove ==
    ASSUME IInv, EdgeInv', NEW p \in Procs, pc[p] \in RollbackSteps,
           NEW l \in RollbackSteps, Go(p, l) \/ Warn(p, l),
           UNCHANGED <<immichVars, meddles, localVars, fate, kills>>
    PROVE  IInv'
<1> DEFINE w == [loc[p] EXCEPT !.warned = TRUE]
<1>1. loc[p] \in Locals /\ LocalOK(pc[p], loc[p]) /\ l \in Labels
  BY Here, StepLabels DEF RollbackSteps
<1>2. LocalOK(l, loc[p])
  BY <1>1 DEF LocalOK, OpenSteps, PublishSteps, RollbackSteps
<1>3. w \in Locals /\ LocalOK(l, w)
  BY <1>1, <1>2 DEF LocalOK, Locals
<1> QED BY <1>1, <1>2, <1>3, QuietMove DEF Go, Warn

LEMMA UndoEdgeStep ==
    ASSUME IInv, NEW p \in Procs,
           UndoKey(p) \/ UndoGlobals(p) \/ UndoReload(p) \/ UndoForward(p)
    PROVE  IInv'
<1>1. pc[p] \in RollbackSteps
  BY DEF UndoKey, UndoGlobals, UndoReload, UndoForward, RollbackSteps
<1>2. loc[p].key \in Keys /\ {loc[p].key} \subseteq Names /\ {Globals} \subseteq Names
  BY <1>1, Here, IInvParts DEF LocalOK, KeysInv, Names
<1>3. EdgeInv'
  BY <1>2, OpTypes, CallQuiet DEF UndoKey, UndoGlobals, UndoReload, UndoForward, Call
<1>4. UNCHANGED <<immichVars, meddles, localVars, fate, kills>>
  BY DEF UndoKey, UndoGlobals, UndoReload, UndoForward, Call
<1>5. \E l \in RollbackSteps : Go(p, l) \/ Warn(p, l)
  <2>1. CASE UndoKey(p)
    BY <2>1 DEF UndoKey, Call, AfterVps, RollbackSteps
  <2>2. CASE UndoGlobals(p)
    BY <2>2 DEF UndoGlobals, Call, AfterVps, RollbackSteps
  <2>3. CASE UndoReload(p)
    BY <2>3 DEF UndoReload, Call, AfterVps, RollbackSteps
  <2>4. CASE UndoForward(p)
    BY <2>4 DEF UndoForward, Call, RollbackSteps
  <2> QED BY <2>1, <2>2, <2>3, <2>4
<1> QED BY <1>1, <1>3, <1>4, <1>5, RollbackMove

-----------------------------------------------------------------------------
(* Steps that read links or change the registry.                           *)

\* A move to a local state that already was sound.
LEMMA SoundMove ==
    ASSUME IInv, KeysInv', EdgeInv', CountInv', Grows,
           NEW p \in Procs, NEW l \in Labels, NEW r \in Locals, Goto(p, l, r), LocalOK(l, r)
    PROVE  IInv'
<1>1. ProcInv
  BY IInvParts
<1>2. pc'[p] = l /\ loc'[p] = r
  BY <1>1, GotoMoves
<1>3. LocalOK(pc[p], loc[p])'
  BY <1>2, LocalStays DEF LocalOK
<1>4. ProcInv'
  BY <1>1, <1>3, OthersStay
<1> QED BY <1>4, IInvPartsNext

\* A move to a local state that the step itself makes sound.
LEMMA FreshMove ==
    ASSUME IInv, KeysInv', EdgeInv', CountInv', Grows,
           NEW p \in Procs, NEW l \in Labels, NEW r \in Locals, Goto(p, l, r),
           LocalOK(pc[p], loc[p])'
    PROVE  IInv'
<1>1. ProcInv
  BY IInvParts
<1>2. ProcInv'
  BY <1>1, OthersStay
<1> QED BY <1>2, IInvPartsNext

\* managed_links only forgets shares without a link.
LEMMA ManagedMove ==
    ASSUME IInv, ManagedLinks,
           NEW p \in Procs, NEW l \in Labels, NEW r \in Locals, Goto(p, l, r), LocalOK(l, r)
    PROVE  IInv'
<1>1. KeysInv /\ EdgeInv /\ CountInv
  BY IInvParts
<1>2. KeysInv' /\ CountInv' /\ Grows
  BY <1>1 DEF ManagedLinks, KeysInv, CountInv, Grows, immichVars, Handed, OwnershipKept, Owned
<1>3. EdgeInv'
  BY <1>1, EdgeStays DEF ManagedLinks
<1> QED BY <1>2, <1>3, SoundMove

LEMMA OpenReadStep ==
    ASSUME IInv, NEW p \in Procs, OpenRead(p)
    PROVE  IInv'
<1> DEFINE r == [loc[p] EXCEPT !.prior = Active # {}]
<1>1. CASE ManagedLinks /\ Goto(p, "create", r)
  <2>1. loc[p] \in Locals /\ LocalOK("open", loc[p])
    BY Here DEF OpenRead
  <2>2. r \in Locals /\ "create" \in Labels
    BY <2>1, StepLabels DEF Locals
  <2>3. LocalOK("create", r)
    BY <2>1 DEF LocalOK, Locals, OpenSteps, PublishSteps, RollbackSteps
  <2> QED BY <1>1, <2>2, <2>3, ManagedMove
<1>2. CASE ManagedLinks /\ Exit(p)
  BY <1>2, ManagedMove, BlankOK DEF Exit
<1>3. CASE UNCHANGED faults /\ Exit(p) /\ Unchanged
  BY <1>3, ReadQuiet, QuietExit DEF Unchanged
<1> QED BY <1>1, <1>2, <1>3 DEF OpenRead

LEMMA SweepReadStep ==
    ASSUME IInv, NEW p \in Procs, SweepRead(p)
    PROVE  IInv'
<1> DEFINE r == [loc[p] EXCEPT !.todo = Owned, !.due = Owned \cap past]
<1>1. CASE ManagedLinks /\ Goto(p, "purge", r)
  <2>1. loc[p] \in Locals /\ LocalOK("sweep", loc[p])
    BY Here DEF SweepRead
  <2>2. Owned \subseteq recorded /\ Owned \in SUBSET Keys
    BY IInvParts DEF Owned, KeysInv
  <2>3. r \in Locals /\ "purge" \in Labels
    BY <2>1, <2>2, StepLabels DEF Locals
  <2>4. LocalOK("purge", r)
    BY <2>1, <2>2 DEF LocalOK, Locals, OpenSteps, PublishSteps, RollbackSteps
  <2> QED BY <1>1, <2>3, <2>4, ManagedMove
<1>2. CASE DiesReading(p)
  BY <1>2, DiesReadingStep
<1> QED BY <1>1, <1>2 DEF SweepRead

LEMMA ConvergeStep ==
    ASSUME IInv, NEW p \in Procs, Converge(p)
    PROVE  IInv'
<1> DEFINE r == [loc[p] EXCEPT !.active = Active]
<1>1. CASE ManagedLinks /\ Goto(p, "survey", r)
  <2>1. loc[p] \in Locals /\ LocalOK("converge", loc[p])
    BY Here DEF Converge
  <2>2. Active \subseteq recorded /\ Active \in SUBSET Keys
    BY IInvParts DEF Active, Owned, KeysInv
  <2>3. r \in Locals /\ "survey" \in Labels
    BY <2>1, <2>2, StepLabels DEF Locals
  <2>4. LocalOK("survey", r)
    BY <2>1, <2>2 DEF LocalOK, Locals, OpenSteps, PublishSteps, RollbackSteps
  <2> QED BY <1>1, <2>3, <2>4, ManagedMove
<1>2. CASE DiesReading(p)
  BY <1>2, DiesReadingStep
<1> QED BY <1>1, <1>2 DEF Converge

LEMMA SyncReadStep ==
    ASSUME IInv, NEW p \in Procs, SyncRead(p)
    PROVE  IInv'
<1> DEFINE l == IF Active = {} THEN "survey" ELSE "enable"
           r == [loc[p] EXCEPT !.active = Active, !.todo = Active]
<1>1. CASE ManagedLinks /\ Goto(p, l, r)
  <2>1. loc[p] \in Locals /\ LocalOK("sync", loc[p])
    BY Here DEF SyncRead
  <2>2. Active \subseteq recorded /\ Active \in SUBSET Keys
    BY IInvParts DEF Active, Owned, KeysInv
  <2>3. r \in Locals /\ l \in Labels
    BY <2>1, <2>2, StepLabels DEF Locals
  <2>4. LocalOK(l, r)
    BY <2>1, <2>2 DEF LocalOK, Locals, OpenSteps, PublishSteps, RollbackSteps
  <2> HIDE DEF l, r
  <2> QED BY <1>1, <2>3, <2>4, ManagedMove
<1>2. CASE DiesReading(p)
  BY <1>2, DiesReadingStep
<1> QED BY <1>1, <1>2 DEF SyncRead

LEMMA CloseReadStep ==
    ASSUME IInv, NEW p \in Procs, CloseRead(p)
    PROVE  IInv'
<1>1. ASSUME UNCHANGED faults, Unchanged, NEW k \in Owned,
             Goto(p, "revoke", [loc[p] EXCEPT !.key = k])
      PROVE  IInv'
  <2> DEFINE r == [loc[p] EXCEPT !.key = k]
  <2>1. loc[p] \in Locals /\ LocalOK("close", loc[p])
    BY Here DEF CloseRead
  <2>2. k \in recorded /\ k \in Keys
    BY IInvParts DEF Owned, KeysInv
  <2>3. r \in Locals /\ "revoke" \in Labels
    BY <2>1, <2>2, StepLabels DEF Locals
  <2>4. LocalOK("revoke", r)
    BY <2>1, <2>2 DEF LocalOK, Locals, OpenSteps, PublishSteps, RollbackSteps
  <2> HIDE DEF r
  <2> QED BY <1>1, <2>3, <2>4, ReadQuiet, QuietMove DEF Unchanged, r
<1>2. CASE UNCHANGED faults /\ Unchanged /\ Exit(p)
  BY <1>2, ReadQuiet, QuietExit DEF Unchanged
<1>3. CASE DiesReading(p)
  BY <1>3, DiesReadingStep
<1> QED BY <1>1, <1>2, <1>3 DEF CloseRead

LEMMA AdoptReadStep ==
    ASSUME IInv, NEW p \in Procs, AdoptRead(p)
    PROVE  IInv'
<1>1. ASSUME UNCHANGED faults, Unchanged, NEW k \in links,
             Goto(p, "add", [loc[p] EXCEPT !.key = k])
      PROVE  IInv'
  <2> DEFINE r == [loc[p] EXCEPT !.key = k]
  <2>1. loc[p] \in Locals /\ LocalOK("adopt", loc[p])
    BY Here DEF AdoptRead
  <2>2. k \in Handed /\ k \in Keys
    BY IInvParts DEF KeysInv
  <2>3. r \in Locals /\ "add" \in Labels
    BY <2>1, <2>2, StepLabels DEF Locals
  <2>4. LocalOK("add", r)
    BY <2>1, <2>2 DEF LocalOK, Locals, OpenSteps, PublishSteps, RollbackSteps
  <2> HIDE DEF r
  <2> QED BY <1>1, <2>3, <2>4, ReadQuiet, QuietMove DEF Unchanged, r
<1>2. CASE UNCHANGED faults /\ Unchanged /\ Exit(p)
  BY <1>2, ReadQuiet, QuietExit DEF Unchanged
<1>3. CASE DiesReading(p)
  BY <1>3, DiesReadingStep
<1> QED BY <1>1, <1>2, <1>3 DEF AdoptRead

LEMMA ListStep ==
    ASSUME IInv, NEW p \in Procs, List(p)
    PROVE  IInv'
<1> DEFINE orphans == (Installed \ {Globals}) \ loc[p].orphans
           seen == [loc[p] EXCEPT !.orphans = links]
           told == [loc[p] EXCEPT !.orphans = orphans]
<1>1. loc[p] \in Locals /\ LocalOK(pc[p], loc[p]) /\ links \subseteq Keys
  BY Here, IInvParts DEF KeysInv
<1>2. CASE UNCHANGED faults /\ Unchanged /\ pc[p] = "list" /\ Goto(p, "listSnippets", seen)
  <2>1. seen \in Locals /\ "listSnippets" \in Labels
    BY <1>1, StepLabels DEF Locals
  <2>2. LocalOK("listSnippets", seen)
    BY <1>1, <1>2 DEF LocalOK, Locals, OpenSteps, PublishSteps, RollbackSteps
  <2> QED BY <1>2, <2>1, <2>2, ReadQuiet, QuietMove DEF Unchanged
<1>3. CASE UNCHANGED faults /\ Unchanged /\ pc[p] = "listSnippets" /\ Goto(p, "listed", told)
  <2>1. told \in Locals /\ "listed" \in Labels
    BY <1>1, StepLabels DEF Locals, Installed, Names
  <2>2. LocalOK("listed", told)
    BY <1>1, <1>3 DEF LocalOK, Locals, OpenSteps, PublishSteps, RollbackSteps
  <2> QED BY <1>3, <2>1, <2>2, ReadQuiet, QuietMove DEF Unchanged
<1>4. CASE DiesReading(p)
  BY <1>4, DiesReadingStep
<1> QED BY <1>2, <1>3, <1>4 DEF List, ListLinks, ListSnippets

-----------------------------------------------------------------------------
(* Steps that create, record or delete a link.                             *)

LEMMA DeleteKeeps ==
    ASSUME IInv, NEW k, Deletes(k) \/ DeleteErrs(k)
    PROVE  /\ links' \subseteq links
           /\ UNCHANGED <<past, origin>>
           /\ UNCHANGED faults \/ Fault
           /\ Deletes(k) => k \notin links'
BY DEF Deletes, DeleteErrs, immichVars

\* Deleting links and forgetting deleted ones keeps the ownership.
LEMMA FewerLinks ==
    ASSUME IInv, links' \subseteq links, UNCHANGED <<past, origin, recorded>>,
           registry' \subseteq registry, (registry \ registry') \cap links' = {}
    PROVE  KeysInv' /\ Grows
<1>1. KeysInv
  BY IInvParts
<1>2. Handed' = Handed
  BY DEF Handed
<1>3. Grows
  BY <1>1 DEF Grows, KeysInv, Handed
<1>4. OwnershipKept'
  BY <1>1 DEF KeysInv, OwnershipKept
<1> QED BY <1>1, <1>2, <1>3, <1>4 DEF KeysInv

LEMMA CreateLinkStep ==
    ASSUME IInv, NEW p \in Procs, CreateLink(p)
    PROVE  IInv'
<1>1. KeysInv /\ EdgeInv /\ CountInv /\ loc[p] \in Locals /\ LocalOK("create", loc[p])
  BY IInvParts, Here DEF CreateLink
<1>2. EdgeInv' /\ CountInv'
  <2>1. UNCHANGED fate \/ \E k \in Keys : fate' = [fate EXCEPT ![k] = "stranded"]
    BY DEF CreateLink, Strands, Fresh
  <2>2. /\ UNCHANGED <<edgeVars, late, meddles, localVars, kills>>
        /\ UNCHANGED faults \/ Fault
    BY DEF CreateLink
  <2> QED BY <1>1, <2>1, <2>2, EdgeStays DEF localVars, CountInv
<1>3. ASSUME NEW k \in Fresh \ EternalKeys,
             links' = links \cup {k},
             origin' = [origin EXCEPT ![k] = "cli"]
      PROVE  KeysInv' /\ Grows /\ k \in Keys /\ k \in Handed' /\ origin'[k] = "cli"
  <2>1. k \in Keys /\ k \notin Handed /\ origin'[k] = "cli"
    BY <1>1, <1>3 DEF Fresh, Handed, KeysInv
  <2>2. Handed' = Handed \cup {k}
    BY <1>1, <1>3, <2>1 DEF Handed, KeysInv
  <2>3. UNCHANGED <<past, registry, recorded>>
    BY DEF CreateLink, localVars
  <2>4. Grows
    BY <1>1, <1>3, <2>1, <2>3 DEF Grows, Handed, KeysInv
  <2>5. KeysInv'
    BY <1>1, <1>3, <2>1, <2>2, <2>3 DEF KeysInv, OwnershipKept
  <2> QED BY <2>1, <2>2, <2>4, <2>5
<1>4. ASSUME NEW k \in Fresh \ EternalKeys,
             links' = links \cup {k},
             origin' = [origin EXCEPT ![k] = "cli"],
             Goto(p, "add", [loc[p] EXCEPT !.key = k])
      PROVE  IInv'
  <2> DEFINE r == [loc[p] EXCEPT !.key = k]
  <2>1. KeysInv' /\ Grows /\ k \in Keys /\ k \in Handed' /\ origin'[k] = "cli"
    BY <1>3, <1>4
  <2>2. r \in Locals /\ "add" \in Labels
    BY <1>1, <2>1, StepLabels DEF Locals
  <2>3. pc'[p] = "add" /\ loc'[p] = r
    BY <1>4, <2>2, GotoMoves, IInvParts
  <2>4. /\ r.todo = loc[p].todo /\ r.active = loc[p].active /\ r.gone = loc[p].gone
        /\ r.name = loc[p].name /\ r.cmd = loc[p].cmd /\ r.key = k
    BY <1>1 DEF Locals
  <2>5. /\ loc[p].todo \cup loc[p].active \subseteq recorded'
        /\ loc[p].gone \subseteq Handed' \ links'
        /\ loc[p].name \in recorded' \cup {Globals}
    BY <1>1, <2>1, LocalStays, StepLabels
  <2> HIDE DEF r
  <2>6. LocalOK(pc[p], loc[p])'
    BY <2>1, <2>3, <2>4, <2>5 DEF LocalOK, OpenSteps, PublishSteps, RollbackSteps
  <2> QED BY <1>2, <1>4, <2>1, <2>2, <2>6, FreshMove DEF r
<1>5. ASSUME NEW k \in Fresh \ EternalKeys,
             links' = links \cup {k},
             origin' = [origin EXCEPT ![k] = "cli"],
             Exit(p)
      PROVE  IInv'
  <2>1. KeysInv' /\ Grows
    BY <1>3, <1>5
  <2> QED BY <1>2, <1>5, <2>1, BlankOK, SoundMove DEF Exit
<1>6. CASE Exit(p) /\ UNCHANGED <<links, origin, fate>>
  BY <1>2, <1>6, QuietExit DEF CreateLink, immichVars
<1> QED BY <1>4, <1>5, <1>6 DEF CreateLink, Strands

LEMMA RecordStep ==
    ASSUME IInv, NEW p \in Procs, Record(p)
    PROVE  IInv'
<1> DEFINE k == loc[p].key
           Adds == registry' = registry \cup {k} /\ recorded' = recorded \cup {k}
<1>1. KeysInv /\ EdgeInv /\ CountInv /\ loc[p] \in Locals /\ LocalOK("add", loc[p])
  BY IInvParts, Here DEF Record
<1>2. k \in Handed /\ k \in Keys
  BY <1>1 DEF LocalOK, Handed
<1>3. /\ UNCHANGED <<immichVars, edgeVars, late, meddles, kills>>
      /\ UNCHANGED fate \/ fate' = [fate EXCEPT ![k] = "stranded"]
  BY DEF Record, Strands
<1>4. Adds \/ UNCHANGED localVars
  BY DEF Record
<1>5. KeysInv' /\ Grows /\ CountInv'
  BY <1>1, <1>2, <1>3, <1>4
     DEF KeysInv, CountInv, Grows, Handed, OwnershipKept, immichVars, localVars
<1>6. EdgeInv'
  <2>1. UNCHANGED faults \/ Fault
    BY DEF Record
  <2> QED BY <1>1, <1>3, <1>4, <2>1
          DEF edgeVars, localVars, EdgeInv, OnlyRecordedPublished, Installed, SafeOp, Fault
<1>7. ASSUME Adds, loc[p].cmd = "open", Goto(p, "enable", [loc[p] EXCEPT !.todo = {k}])
      PROVE  IInv'
  <2> DEFINE r == [loc[p] EXCEPT !.todo = {k}]
  <2>1. r \in Locals /\ "enable" \in Labels
    BY <1>1, <1>2, StepLabels DEF Locals
  <2>2. pc'[p] = "enable" /\ loc'[p] = r
    BY <1>7, <2>1, GotoMoves, IInvParts
  <2>3. /\ r.todo = {k} /\ r.active = loc[p].active /\ r.gone = loc[p].gone
        /\ r.name = loc[p].name /\ r.cmd = loc[p].cmd /\ r.key = k
    BY <1>1 DEF Locals
  <2>4. /\ loc[p].active \subseteq recorded'
        /\ loc[p].gone \subseteq Handed' \ links'
        /\ loc[p].name \in recorded' \cup {Globals}
        /\ k \in recorded'
    BY <1>1, <1>5, <1>7, LocalStays, StepLabels
  <2> HIDE DEF r
  <2>5. LocalOK(pc[p], loc[p])'
    BY <2>2, <2>3, <2>4 DEF LocalOK, OpenSteps, PublishSteps, RollbackSteps
  <2> QED BY <1>5, <1>6, <1>7, <2>1, <2>5, FreshMove DEF r
<1>8. ASSUME loc[p].cmd # "open", Go(p, "sync")
      PROVE  IInv'
  <2>1. LocalOK("sync", loc[p]) /\ "sync" \in Labels
    BY <1>1, <1>8, StepLabels DEF LocalOK, OpenSteps, PublishSteps, RollbackSteps
  <2> QED BY <1>1, <1>5, <1>6, <1>8, <2>1, SoundMove DEF Go
<1>9. ASSUME loc[p].cmd = "open", Go(p, "unadd")
      PROVE  IInv'
  <2>1. LocalOK("unadd", loc[p]) /\ "unadd" \in Labels
    BY <1>1, <1>9, StepLabels DEF LocalOK, OpenSteps, PublishSteps, RollbackSteps
  <2> QED BY <1>1, <1>5, <1>6, <1>9, <2>1, SoundMove DEF Go
<1>10. CASE Exit(p)
  BY <1>5, <1>6, <1>10, BlankOK, SoundMove DEF Exit
<1> QED BY <1>7, <1>8, <1>9, <1>10 DEF Record, Strands

LEMMA UnaddStep ==
    ASSUME IInv, NEW p \in Procs, Unadd(p)
    PROVE  IInv'
<1> DEFINE k == loc[p].key
<1>1. KeysInv /\ EdgeInv /\ CountInv /\ LocalOK("unadd", loc[p])
  BY IInvParts, Here DEF Unadd
<1>2. Deletes(k) \/ DeleteErrs(k)
  BY DEF Unadd
<1>3. KeysInv' /\ Grows
  BY <1>2, DeleteKeeps, FewerLinks DEF Unadd, localVars
<1>4. EdgeInv'
  BY <1>1, <1>2, DeleteKeeps, EdgeStays DEF Unadd, localVars
<1>5. CountInv'
  BY <1>1 DEF Unadd, CountInv
<1> QED BY <1>3, <1>4, <1>5, BlankOK, SoundMove DEF Unadd, Exit

LEMMA UndoLinkStep ==
    ASSUME IInv, NEW p \in Procs, UndoLink(p)
    PROVE  IInv'
<1> DEFINE k == loc[p].key
<1>1. KeysInv /\ EdgeInv /\ CountInv
  BY IInvParts
<1>2. /\ links' \subseteq links /\ UNCHANGED <<past, origin>>
      /\ UNCHANGED faults \/ Fault
      /\ UNCHANGED registry \/ (registry' = registry \ {k} /\ k \notin links')
  BY DeleteKeeps DEF UndoLink
<1>3. KeysInv' /\ Grows
  BY <1>1, <1>2, FewerLinks DEF UndoLink
<1>4. EdgeInv'
  BY <1>1, <1>2, EdgeStays DEF UndoLink
<1>5. CountInv'
  BY <1>1 DEF UndoLink, CountInv
<1> QED BY <1>3, <1>4, <1>5, BlankOK, SoundMove DEF UndoLink, Exit

\* A process that has deleted the link of k notes it down.
LEMMA DeletedMove ==
    ASSUME IInv, NEW p \in Procs, NEW k \in Keys, Deletes(k),
           NEW l \in {"forget", "purge"}, pc[p] \in {"revoke", "purge"},
           NEW T \in SUBSET loc[p].todo, NEW G \in SUBSET (loc[p].gone \cup {k}),
           Goto(p, l, [loc[p] EXCEPT !.todo = T, !.gone = G]),
           UNCHANGED <<edgeVars, late, meddles, localVars, fate, kills>>
    PROVE  IInv'
<1> DEFINE r == [loc[p] EXCEPT !.todo = T, !.gone = G]
<1>1. KeysInv /\ EdgeInv /\ CountInv /\ loc[p] \in Locals /\ LocalOK(pc[p], loc[p])
  BY IInvParts, Here
<1>2. KeysInv' /\ Grows
  BY DeleteKeeps, FewerLinks DEF localVars
<1>3. EdgeInv' /\ CountInv'
  BY <1>1, DeleteKeeps, EdgeStays DEF localVars, CountInv
<1>4. k \in Handed' \ links'
  BY <1>1 DEF Deletes, KeysInv, Handed
<1>5. r \in Locals /\ l \in Labels
  BY <1>1, StepLabels DEF Locals
<1>6. /\ r.todo = T /\ r.active = loc[p].active /\ r.gone = G
      /\ r.name = loc[p].name /\ r.cmd = loc[p].cmd
  BY <1>1 DEF Locals
<1>7. /\ loc[p].todo \cup loc[p].active \subseteq recorded'
      /\ loc[p].gone \subseteq Handed' \ links'
      /\ loc[p].name \in recorded' \cup {Globals}
  BY <1>1, <1>2, LocalStays, Here
<1>8. r.cmd # "open"
  BY <1>1, <1>6 DEF LocalOK, OpenSteps, PublishSteps, RollbackSteps
<1>9. pc'[p] = l /\ loc'[p] = r
  BY <1>5, GotoMoves, IInvParts
<1> HIDE DEF r
<1>10. LocalOK(pc[p], loc[p])'
  BY <1>4, <1>6, <1>7, <1>8, <1>9 DEF LocalOK, OpenSteps, PublishSteps, RollbackSteps
<1> QED BY <1>2, <1>3, <1>5, <1>10, FreshMove DEF r

\* A command that ends because the deletion failed.
LEMMA DeleteFails ==
    ASSUME IInv, NEW p \in Procs, NEW k \in Keys, DeleteErrs(k), Exit(p),
           UNCHANGED <<edgeVars, late, meddles, localVars, fate, kills>>
    PROVE  IInv'
<1>1. KeysInv /\ EdgeInv /\ CountInv
  BY IInvParts
<1>2. KeysInv' /\ Grows
  BY DeleteKeeps, FewerLinks DEF localVars
<1>3. EdgeInv' /\ CountInv'
  BY <1>1, DeleteKeeps, EdgeStays DEF localVars, CountInv
<1> QED BY <1>2, <1>3, BlankOK, SoundMove DEF Exit

LEMMA RevokeStep ==
    ASSUME IInv, NEW p \in Procs, Revoke(p)
    PROVE  IInv'
<1> DEFINE k == loc[p].key
           r == [loc[p] EXCEPT !.gone = {k}]
           T == loc[p].todo
<1>1. loc[p] \in Locals /\ k \in Keys
  BY Here, IInvParts DEF Revoke, LocalOK, KeysInv
<1>2. CASE Deletes(k) /\ Goto(p, "forget", r)
  <2>1. r = [loc[p] EXCEPT !.todo = T, !.gone = {k}]
    BY <1>1 DEF Locals
  <2> HIDE DEF r, k, T
  <2>2. Goto(p, "forget", [loc[p] EXCEPT !.todo = T, !.gone = {k}])
    BY <1>2, <2>1
  <2>3. T \in SUBSET loc[p].todo /\ {k} \in SUBSET (loc[p].gone \cup {k})
    BY DEF T
  <2> QED BY <1>1, <1>2, <2>2, <2>3, DeletedMove DEF Revoke
<1>3. CASE DeleteErrs(k) /\ Exit(p)
  BY <1>1, <1>3, DeleteFails DEF Revoke
<1> QED BY <1>2, <1>3 DEF Revoke

LEMMA PurgeStep ==
    ASSUME IInv, NEW p \in Procs, Purge(p)
    PROVE  IInv'
<1>1. loc[p] \in Locals /\ LocalOK("purge", loc[p]) /\ EdgeInv
  BY Here DEF Purge
<1>2. UNCHANGED <<edgeVars, late, meddles, localVars, fate, kills>>
  BY DEF Purge
<1>3. CASE Go(p, "forget") /\ UNCHANGED <<immichVars, faults>>
  <2>1. LocalOK("forget", loc[p]) /\ "forget" \in Labels
    BY <1>1, StepLabels DEF LocalOK, OpenSteps, PublishSteps, RollbackSteps
  <2>2. EdgeInv'
    BY <1>1, <1>2, <1>3, EdgeStays DEF localVars
  <2> QED BY <1>1, <1>2, <1>3, <2>1, <2>2, QuietMove DEF Go
<1>4. ASSUME NEW k \in loc[p].todo, UNCHANGED <<immichVars, faults>>,
             Goto(p, "purge", [loc[p] EXCEPT !.todo = @ \ {k}])
      PROVE  IInv'
  <2> DEFINE rest == [loc[p] EXCEPT !.todo = @ \ {k}]
  <2>1. rest \in Locals /\ "purge" \in Labels
    BY <1>1, StepLabels DEF Locals
  <2>2. LocalOK("purge", rest)
    BY <1>1 DEF LocalOK, Locals, OpenSteps, PublishSteps, RollbackSteps
  <2>3. EdgeInv'
    BY <1>1, <1>2, <1>4, EdgeStays DEF localVars
  <2> QED BY <1>2, <1>4, <2>1, <2>2, <2>3, QuietMove
<1>5. ASSUME NEW k \in loc[p].todo, Deletes(k),
             Goto(p, "purge", [[loc[p] EXCEPT !.todo = @ \ {k}] EXCEPT !.gone = @ \cup {k}])
      PROVE  IInv'
  <2> DEFINE T == loc[p].todo \ {k}
             G == loc[p].gone \cup {k}
  <2>1. [[loc[p] EXCEPT !.todo = @ \ {k}] EXCEPT !.gone = @ \cup {k}]
          = [loc[p] EXCEPT !.todo = T, !.gone = G]
    BY <1>1 DEF Locals
  <2>2. T \in SUBSET loc[p].todo /\ G \in SUBSET (loc[p].gone \cup {k}) /\ k \in Keys
    BY <1>1 DEF Locals
  <2>3. Goto(p, "purge", [loc[p] EXCEPT !.todo = T, !.gone = G])
    BY <1>5, <2>1
  <2> HIDE DEF T, G
  <2> QED BY <1>2, <1>5, <2>2, <2>3, DeletedMove DEF Purge
<1>6. ASSUME NEW k \in loc[p].todo, DeleteErrs(k), Exit(p)
      PROVE  IInv'
  <2>1. k \in Keys
    BY <1>1 DEF Locals
  <2> QED BY <1>2, <1>6, <2>1, DeleteFails
<1> QED BY <1>3, <1>4, <1>5, <1>6 DEF Purge

LEMMA ForgetStep ==
    ASSUME IInv, NEW p \in Procs, Forget(p)
    PROVE  IInv'
<1> DEFINE r == [loc[p] EXCEPT !.gone = {}]
<1>1. CASE DiesReading(p)
  BY <1>1, DiesReadingStep
<1>2. CASE /\ registry' = registry \ loc[p].gone
           /\ Goto(p, "converge", r)
           /\ UNCHANGED <<immichVars, edgeVars, late, faults, meddles, recorded, fate, kills>>
  <2>1. EdgeInv /\ CountInv /\ loc[p] \in Locals /\ LocalOK("forget", loc[p])
    BY IInvParts, Here DEF Forget
  <2>2. loc[p].gone \cap links = {}
    BY <2>1 DEF LocalOK
  <2>3. KeysInv' /\ Grows
    BY <1>2, <2>2, FewerLinks DEF immichVars
  <2>4. EdgeInv' /\ CountInv'
    BY <1>2, <2>1, EdgeStays DEF CountInv
  <2>5. r \in Locals /\ "converge" \in Labels
    BY <2>1, StepLabels DEF Locals
  <2>6. LocalOK("converge", r)
    BY <2>1 DEF LocalOK, Locals, OpenSteps, PublishSteps, RollbackSteps
  <2> QED BY <1>2, <2>3, <2>4, <2>5, <2>6, SoundMove
<1> QED BY <1>1, <1>2 DEF Forget

-----------------------------------------------------------------------------
(* Kills, and what happens without immich-share.                           *)

\* What a killed process leaves running may be sent.
LEMMA DoingSafe ==
    ASSUME IInv, NEW p \in Procs, NEW o \in Doing(p)
    PROVE  o \in EdgeOp /\ SafeOp(o)
<1>1. loc[p] \in Locals /\ LocalOK(pc[p], loc[p]) /\ KeysInv
  BY Here, IInvParts
<1>2. CASE pc[p] = "write" /\ o = WriteOp(loc[p].name)
  BY <1>1, <1>2, OpTypes DEF Locals, LocalOK, SafeOp, WriteOp
<1>3. CASE pc[p] = "restore" /\ o = RestoreOp(loc[p].name, loc[p].backup)
  BY <1>1, <1>3, OpTypes DEF Locals, LocalOK, SafeOp, RestoreOp
<1>4. CASE pc[p] = "undoKey" /\ o = RemoveOp({loc[p].key})
  <2>1. {loc[p].key} \in SUBSET Names
    BY <1>1, <1>4 DEF LocalOK, RollbackSteps, KeysInv, Names
  <2> QED BY <1>4, <2>1, OpTypes
<1>5. CASE o \in {RemoveOp(loc[p].stale), RemoveOp({Globals})}
  BY <1>1, <1>5, OpTypes DEF Locals, Names
<1>6. CASE o \in {ReloadOp, ForwardOp(TRUE), ForwardOp(FALSE)}
  BY <1>6, OpTypes
<1> QED BY <1>2, <1>3, <1>4, <1>5, <1>6 DEF Doing

LEMMA KillStep ==
    ASSUME IInv, NEW p \in Procs, Kill(p)
    PROVE  IInv'
<1>1. KeysInv /\ EdgeInv /\ CountInv /\ loc[p] \in Locals
  BY IInvParts, Here
<1>2. KeysInv' /\ Grows
  BY FewerLinks DEF Kill, immichVars, localVars
<1>3. CountInv'
  <2>1. loc[p].key # NoKey => loc[p].key \in Keys
    BY <1>1 DEF Locals
  <2> QED BY <1>1, <2>1 DEF Kill, CountInv
<1>4. EdgeInv'
  <2>1. CASE UNCHANGED late
    BY <1>1, <2>1, EdgeStays DEF Kill, localVars
  <2>2. CASE \E o \in Doing(p) : \E q \in Partly(o) : late' = late \cup {q}
    <3>0. PICK o \in Doing(p) : \E q \in Partly(o) : late' = late \cup {q}
      BY <2>2
    <3>1. PICK q \in Partly(o) : late' = late \cup {q}
      BY <3>0
    <3>2. q \in EdgeOp /\ SafeOp(q)
      BY DoingSafe, PartlyTypes
    <3> QED BY <1>1, <3>1, <3>2
            DEF Kill, edgeVars, localVars, EdgeInv, OnlyRecordedPublished, Installed, SafeOp
  <2> QED BY <2>1, <2>2 DEF Kill
<1> QED BY <1>2, <1>3, <1>4, BlankOK, SoundMove DEF Kill, Exit

\* Processes that do not move keep their local states sound.
LEMMA AllStay ==
    ASSUME ProcInv, Grows, UNCHANGED <<pc, loc>>
    PROVE  ProcInv'
<1>1. ASSUME NEW q \in Procs PROVE LocalOK(pc[q], loc[q])'
  BY LocalStays DEF ProcInv, LocalOK
<1> QED BY <1>1 DEF ProcInv

LEMMA EnvironmentStep ==
    ASSUME IInv, Environment
    PROVE  IInv'
<1>1. KeysInv /\ EdgeInv /\ CountInv /\ ProcInv
  BY IInvParts
<1>2. UNCHANGED <<registry, recorded, fate, pc, loc, kills>>
  BY DEF Environment, localVars
<1>3. KeysInv' /\ Grows /\ EdgeInv' /\ CountInv'
  <2>1. ASSUME NEW k \in Keys, Expire(k)
        PROVE  KeysInv' /\ Grows /\ EdgeInv' /\ CountInv'
    <3>1. EdgeInv' /\ CountInv'
      BY <1>1, <1>2, <2>1, EdgeStays DEF Expire, CountInv
    <3>2. KeysInv' /\ Grows
      BY <1>1, <1>2, <2>1 DEF Expire, KeysInv, Grows, Handed, OwnershipKept
    <3> QED BY <3>1, <3>2
  <2>2. ASSUME NEW k \in Keys, UserCreate(k)
        PROVE  KeysInv' /\ Grows /\ EdgeInv' /\ CountInv'
    <3>1. EdgeInv' /\ CountInv'
      BY <1>1, <1>2, <2>2, EdgeStays DEF UserCreate, CountInv
    <3>2. k \notin Handed /\ Handed' = Handed \cup {k}
      BY <1>1, <2>2 DEF UserCreate, Fresh, Handed, KeysInv
    <3>3. Grows
      BY <1>1, <1>2, <2>2, <3>2 DEF UserCreate, Grows, KeysInv, Handed
    <3>4. KeysInv'
      BY <1>1, <1>2, <2>2, <3>2 DEF UserCreate, KeysInv, OwnershipKept
    <3> QED BY <3>1, <3>3, <3>4
  <2>3. ASSUME NEW k \in Keys, UserDelete(k)
        PROVE  KeysInv' /\ Grows /\ EdgeInv' /\ CountInv'
    <3>1. EdgeInv' /\ CountInv'
      BY <1>1, <1>2, <2>3, EdgeStays DEF UserDelete, CountInv
    <3>2. KeysInv' /\ Grows
      BY <1>2, <2>3, FewerLinks DEF UserDelete
    <3> QED BY <3>1, <3>2
  <2>4. CASE CaddyRestart
    <3>1. KeysInv' /\ Grows /\ CountInv'
      BY <1>1, <1>2, <2>4, FewerLinks DEF CaddyRestart, immichVars, CountInv
    <3>2. EdgeInv'
      BY <1>1, <1>2, <2>4
         DEF CaddyRestart, EdgeInv, OnlyRecordedPublished, Installed, SafeOp
    <3> QED BY <3>1, <3>2
  <2>5. ASSUME NEW o \in late, Land(o)
        PROVE  KeysInv' /\ Grows /\ EdgeInv' /\ CountInv'
    <3>1. KeysInv' /\ Grows /\ CountInv'
      BY <1>1, <1>2, <2>5, FewerLinks DEF Land, immichVars, CountInv
    <3>2. o \in EdgeOp /\ SafeOp(o)
      BY <1>1 DEF EdgeInv
    <3>0. late' = late \ {o} /\ UNCHANGED <<recorded, faults>>
      BY <1>2, <2>5 DEF Land
    <3>3. CASE Apply(o)
      <4>1. /\ disk' \in [Names -> Contents] /\ running' \subseteq Names /\ forward' \in BOOLEAN
            /\ Installed' \cup running' \subseteq recorded \cup {Globals}
        BY <1>1, <3>2, <3>3, ApplySafe
      <4> QED BY <1>1, <3>0, <3>1, <4>1 DEF EdgeInv, OnlyRecordedPublished, SafeOp
    <3>4. CASE UNCHANGED edgeVars
      BY <1>1, <3>0, <3>1, <3>4
         DEF edgeVars, EdgeInv, OnlyRecordedPublished, Installed, SafeOp
    <3> QED BY <2>5, <3>1, <3>3, <3>4 DEF Land
  <2> QED BY <2>1, <2>2, <2>3, <2>4, <2>5 DEF Environment
<1>4. ProcInv'
  BY <1>1, <1>2, <1>3, AllStay
<1> QED BY <1>3, <1>4, IInvPartsNext

-----------------------------------------------------------------------------
(* The invariant and what follows from it.                                 *)

LEMMA InitIInv == Init => IInv
<1> SUFFICES ASSUME Init PROVE KeysInv /\ EdgeInv /\ CountInv /\ ProcInv
  BY IInvParts
<1>1. KeysInv /\ CountInv
  BY DEF Init, PortalInit, KeysInv, CountInv, Handed, OwnershipKept
<1>2. EdgeInv
  BY DEF Init, PortalInit, EdgeInv, OnlyRecordedPublished, Installed, Names, Contents
<1>3. ProcInv
  BY BlankOK DEF Init, ProcInv
<1> QED BY <1>1, <1>2, <1>3

LEMMA StutterIInv == IInv /\ UNCHANGED vars => IInv'
<1> SUFFICES ASSUME IInv, UNCHANGED vars PROVE IInv'
  OBVIOUS
<1>1. KeysInv /\ EdgeInv /\ CountInv /\ ProcInv
  BY IInvParts
<1>2. KeysInv' /\ CountInv' /\ Grows
  BY <1>1, FewerLinks DEF vars, immichVars, localVars, CountInv
<1>3. EdgeInv'
  BY <1>1, EdgeStays DEF vars, localVars
<1>4. ProcInv'
  BY <1>1, <1>2, AllStay DEF vars
<1> QED BY <1>2, <1>3, <1>4, IInvPartsNext

LEMMA WorkStep ==
    ASSUME IInv, NEW p \in Procs, Work(p)
    PROVE  IInv'
<1>1. CASE Open(p)
  BY <1>1, OpenReadStep, CreateLinkStep, RecordStep, UnaddStep, EnableForwardStep DEF Open
<1>2. CASE Snippet(p)
  BY <1>2, WriteStep, ValidateStep, RestoreStep DEF Snippet
<1>3. CASE Converging(p)
  BY <1>3, SurveyStep, RemoveStep, ReloadStep, DisableStep DEF Converging
<1>4. CASE Rollback(p)
  BY <1>4, UndoEdgeStep, UndoLinkStep DEF Rollback
<1>5. CASE Close(p)
  BY <1>5, CloseReadStep, RevokeStep DEF Close
<1>6. CASE Sweep(p)
  BY <1>6, SweepReadStep, PurgeStep, ForgetStep, ConvergeStep DEF Sweep
<1>7. CASE Sync(p)
  BY <1>7, SyncReadStep, AdoptReadStep DEF Sync
<1>8. CASE List(p) \/ Leave(p)
  BY <1>8, ListStep, LeaveStep
<1> QED BY <1>1, <1>2, <1>3, <1>4, <1>5, <1>6, <1>7, <1>8 DEF Work

(* Whatever the commands do, fail to do or leave behind, the inductive     *)
(* invariant holds: the core of every safety claim about the registry.     *)
THEOREM Invariance == Spec => []IInv
<1>1. Init => IInv
  BY InitIInv
<1>2. IInv /\ [Next]_vars => IInv'
  BY EnterStep, WorkStep, KillStep, EnvironmentStep, StutterIInv DEF Next
<1> QED BY <1>1, <1>2, PTL DEF Spec

(* The variables and the locals of every process keep their types.         *)
THEOREM TypeCorrectness == Spec => []TypeOK
<1>1. IInv => TypeOK
  BY DEF IInv
<1> QED BY <1>1, Invariance, PTL

(* No live share that was ever recorded loses its owner, so that a later   *)
(* sweep can still revoke it.                                              *)
THEOREM Ownership == Spec => []OwnershipKept
<1>1. IInv => OwnershipKept
  BY DEF IInv
<1> QED BY <1>1, Invariance, PTL

(* Caddy is only ever given, and only ever serves, snippets of recorded    *)
(* shares: no unrelated Immich link is published.                          *)
THEOREM Publication == Spec => []OnlyRecordedPublished
<1>1. IInv => OnlyRecordedPublished
  BY DEF IInv
<1> QED BY <1>1, Invariance, PTL

\* What the steps of a command delete is recorded, or was created by it.
LEMMA OwnDeletes ==
    ASSUME IInv, NEW p \in Procs, Work(p), NEW k \in links \ links'
    PROVE  origin[k] = "cli" \/ k \in recorded
<1>1. loc[p] \in Locals /\ LocalOK(pc[p], loc[p])
  BY Here
<1>2. CASE Unadd(p)
  BY <1>1, <1>2 DEF Unadd, Deletes, DeleteErrs, immichVars, LocalOK
<1>3. CASE UndoLink(p)
  BY <1>1, <1>3 DEF UndoLink, Deletes, DeleteErrs, immichVars, LocalOK, RollbackSteps
<1>4. CASE Revoke(p)
  BY <1>1, <1>4 DEF Revoke, Deletes, DeleteErrs, immichVars, LocalOK
<1>5. CASE Purge(p)
  BY <1>1, <1>5 DEF Purge, Deletes, DeleteErrs, immichVars, LocalOK
<1>6. CASE CreateLink(p)
  BY <1>6 DEF CreateLink
<1>7. CASE Open(p) /\ ~Unadd(p) /\ ~CreateLink(p)
  BY <1>7 DEF Open, OpenRead, ManagedLinks, Unchanged, Record, EnableForward, Call, immichVars
<1>8. CASE Snippet(p) \/ Converging(p)
  BY <1>8 DEF Snippet, Write, Validate, Restore, Converging, Survey, Remove, Reload, Disable,
              DiesReading, Unchanged, Call, immichVars
<1>9. CASE Rollback(p) /\ ~UndoLink(p)
  BY <1>9 DEF Rollback, UndoKey, UndoGlobals, UndoReload, UndoForward, Call, immichVars
<1>10. CASE CloseRead(p) \/ (Sweep(p) /\ ~Purge(p))
  BY <1>10 DEF CloseRead, Sweep, SweepRead, Forget, Converge, ManagedLinks, DiesReading,
               Unchanged, immichVars
<1>11. CASE Sync(p) \/ List(p) \/ Leave(p)
  BY <1>11 DEF Sync, SyncRead, AdoptRead, List, ListLinks, ListSnippets, Leave, ManagedLinks,
               DiesReading, Unchanged, immichVars
<1> QED BY <1>2, <1>3, <1>4, <1>5, <1>6, <1>7, <1>8, <1>9, <1>10, <1>11
        DEF Work, Rollback, Close, Sweep

(* A link that a user created and nobody adopted is deleted by users only. *)
THEOREM Neighbours == Spec => ForeignUntouched
<1> DEFINE Kept == \A k \in links \ links' :
                     origin[k] = "user" /\ k \notin recorded => meddles' = meddles + 1
<1>1. IInv /\ Next => Kept
  <2> SUFFICES ASSUME IInv, Next PROVE Kept
    OBVIOUS
  <2>1. ASSUME NEW p \in Procs, Work(p) PROVE Kept
    BY <2>1, OwnDeletes
  <2>2. ASSUME NEW p \in Procs, NEW c \in Commands, Enter(p, c) \/ Kill(p) PROVE Kept
    BY <2>2 DEF Enter, Kill, Unchanged, immichVars
  <2>3. CASE Environment
    BY <2>3 DEF Environment, Expire, UserCreate, UserDelete, CaddyRestart, Land, immichVars
  <2> QED BY <2>1, <2>2, <2>3 DEF Next, Commands
<1>2. IInv /\ [Next]_vars => [Kept]_vars
  BY <1>1
<1> QED BY <1>2, Invariance, PTL DEF Spec, ForeignUntouched
=============================================================================
