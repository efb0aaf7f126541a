------------------------- MODULE ShareReports_proofs -------------------------
(***************************************************************************)
(* What the commands of ShareCommands report is true, for any keys,        *)
(* processes and bounds: by the exclusion of the lock, what a process has  *)
(* read, removed and written stays so until it has reported.               *)
(***************************************************************************)
EXTENDS ShareCommands_proofs, FiniteSetTheorems

-----------------------------------------------------------------------------
(* The lock, and the calls of each command.                                *)

\* Who changes things is alone with the lock.
Exclusive == \A p, q \in Procs : Mutating(p) /\ Holds(q) => p = q

EndSteps == {"survey", "remove", "reload", "disable", "done", "closed"}
SyncSteps == {"sync"} \cup PublishSteps \cup EndSteps

StepsOf(cmd) ==
    CASE cmd = "none" -> {"idle"}
      [] cmd = "open" -> OpenSteps \cup PublishSteps \cup RollbackSteps
      [] cmd = "close" -> {"close", "revoke", "forget", "converge"} \cup EndSteps
      [] cmd = "sweep" -> {"sweep", "purge", "forget", "converge"} \cup EndSteps
      [] cmd = "sync" -> SyncSteps
      [] cmd = "adopt" -> {"adopt", "add"} \cup SyncSteps
      [] cmd = "list" -> ListSteps
      [] OTHER -> {}

ControlInv ==
    /\ Exclusive
    /\ \A p \in Procs : pc[p] \in StepsOf(loc[p].cmd)
    /\ \A p \in Procs : pc[p] = "idle" => loc[p] = Blank

-----------------------------------------------------------------------------
(* What a process knows of the links: nobody but it takes one away from the*)
(* registry or adds one while it holds the lock.                           *)

\* Of a list, in general.
ListOK(l, r) ==
    /\ l = "listSnippets" => recorded \cap links \subseteq r.orphans
    /\ l = "listed" => r.orphans \subseteq Handed \ links

\* Of a close, in general.
CloseOK(l, r) ==
    r.cmd = "close" =>
        /\ l = "revoke" => r.key \in recorded
        /\ l = "forget" => r.gone = {r.key}
        /\ l \in {"converge"} \cup EndSteps => r.key \in Handed \ (links \cup registry)
        /\ l \in EndSteps => r.key \notin r.active

\* Of an open, in general.
OwnOK(l, r) ==
    r.cmd = "open" =>
        IF l \in {"open", "create"}
          THEN r.key = NoKey
          ELSE /\ r.key \in Handed
               /\ fate[r.key] = "none"
               /\ l = "add" => r.key \notin recorded
               /\ l \in PublishSteps \cup {"opened"} => r.key \in registry

\* Of a sweep, in general.
SweepOK(l, r) ==
    r.cmd = "sweep" =>
        /\ r.due \subseteq Handed
        /\ l = "purge" => r.due \subseteq past \cap (r.todo \cup r.gone)
        /\ l = "forget" => r.due \subseteq r.gone
        /\ l \in {"converge"} \cup EndSteps => r.due \cap (links \cup registry) = {}
        /\ l \in EndSteps => r.due \cap r.active = {}

\* Of an adopt, in general.
AdoptOK(l, r) == r.cmd = "adopt" /\ l \in SyncSteps => r.key \in recorded

\* An open whose failure was reported had handed out its key.
FateOK == \A k \in Keys : fate[k] # "none" => k \in Handed
FailedGone == \A k \in Keys : fate[k] = "failed" => k \notin links

KnownOK(l, r) ==
    ListOK(l, r) /\ CloseOK(l, r) /\ OwnOK(l, r) /\ SweepOK(l, r) /\ AdoptOK(l, r)

KnownInv == FateOK /\ FailedGone /\ \A p \in Procs : KnownOK(pc[p], loc[p])

-----------------------------------------------------------------------------
(* What it knows of the edge, if no command was left behind.               *)
NoneLeft == late = {}

\* What it writes are no shares whose open failed.
PrivateOK(l, r) ==
    /\ \A k \in r.todo \cup r.active \cup {r.name} : k # Globals => fate[k] # "failed"
    /\ r.cmd = "open" =>
        /\ l \in {"add", "unadd", "enable"} => disk[r.key] = "absent" /\ r.key \notin running
        /\ ~r.warned /\ l \in {"undoGlobals", "undoReload", "undoForward", "undoLink"} =>
             disk[r.key] = "absent"
        /\ ~r.warned /\ l \in {"undoForward", "undoLink"} => r.key \notin running

FailedPrivate ==
    \A k \in Keys : fate[k] = "failed" => k \notin links /\ disk[k] = "absent" /\ k \notin running

PrivateInv == FailedPrivate /\ \A p \in Procs : PrivateOK(pc[p], loc[p])

\* An open writes the globals and then its own snippet.
WholeOK(l, r) ==
    r.cmd = "open" =>
        /\ l \in {"enable", "write", "validate", "restore"} =>
             (r.name = Globals /\ r.todo = {r.key}) \/ (r.name = r.key /\ r.todo = {})
        /\ l = "enable" => r.name = Globals
        /\ l \in {"write", "validate"} /\ r.name = r.key => disk[Globals] = "good"
        /\ l = "validate" => disk[r.name] = "good"
        /\ l \in {"write", "validate", "restore", "reload", "opened"} => forward
        /\ l \in {"reload", "opened"} => disk[r.key] = "good" /\ disk[Globals] = "good" /\ Parses
        /\ l = "opened" => {r.key, Globals} \subseteq running

\* A sync or adopt uploads the globals and then every active share, and keeps
\* what it has uploaded.
SyncOK(l, r) ==
    LET Uploaded(S) == \A n \in (r.active \cup {Globals}) \ S : disk[n] = "good"
    IN r.cmd \in {"sync", "adopt"} =>
         /\ l = "done" => r.active # {}
         /\ r.active # {} =>
             /\ l = "enable" => r.todo = r.active
             /\ l = "write" => Uploaded(r.todo \cup {r.name})
             /\ l = "validate" => Uploaded(r.todo)
             /\ l \in {"survey", "remove", "reload", "done"} => Uploaded({}) /\ forward
             /\ l = "done" => running = Installed

\* A survey overlooks nothing, and a removal removes all of it.
SurveyOK(l, r) ==
    /\ l = "remove" => r.stale = Installed \ Keep(r.active)
    /\ r.cmd # "open" /\ l \in {"reload", "disable", "done", "closed"} => Installed \subseteq Keep(r.active)
    /\ l \in {"disable", "closed"} => r.active = {}
    /\ l = "closed" => ~forward

\* An open that failed, was killed or warned answers for its share, and so
\* does one that is still running.
Ended(k) == fate[k] \notin {"none", "stranded"}
Excused(k) ==
    \/ Ended(k)
    \/ \E p \in Procs : loc[p].cmd = "open" /\ loc[p].key = k

\* What is active has what it needs, in the files and in the running Caddy.
ServedInv ==
    /\ \A k \in Installed \cap Active : Excused(k) \/ (Globals \in Installed /\ forward)
    /\ ActiveRoutesServed

\* A process knows everything that is active, and writes the globals first.
ServedOK(l, r) ==
    /\ l \in Commands \cup {"create", "add", "enable"} => r.name = Globals
    /\ l \in {"undoGlobals", "undoForward"} => ~r.prior
    /\ r.cmd # "open" /\ l \in PublishSteps \cup EndSteps => Active \subseteq r.active
    /\ r.cmd = "open" /\ l # "open" /\ ~r.prior => Active \subseteq {r.key}
    /\ l \in {"write", "validate", "restore"} =>
        /\ forward
        /\ r.name # Globals => Globals \in Installed
    /\ l = "validate" => Globals \in Installed
    /\ l \in {"validate", "restore"} /\ r.name = Globals /\ r.backup = "absent" =>
        \A k \in Installed \cap Active : Excused(k)

ReportInv ==
    /\ PrivateInv
    /\ ServedInv
    /\ \A p \in Procs :
        /\ WholeOK(pc[p], loc[p]) /\ SyncOK(pc[p], loc[p])
        /\ SurveyOK(pc[p], loc[p]) /\ ServedOK(pc[p], loc[p])

-----------------------------------------------------------------------------
(* What is more as long as nothing has failed.                             *)
NothingFailed == faults = 0 /\ kills = 0

\* Somebody is about to make the running Caddy agree with the files.
Reloads(p) ==
    \/ pc[p] \in {"write", "validate", "remove", "reload"}
    \/ pc[p] = "survey" /\ Regenerating(p)

WritingSteps == {"enable", "write", "validate"}

CleanInv ==
    /\ late = {}
    /\ Parses
    /\ \A p \in Procs : pc[p] \notin {"restore", "unadd"} \cup RollbackSteps
    /\ \A p \in Procs : loc[p].cmd # "open" /\ pc[p] \in WritingSteps => loc[p].active # {}
    /\ (\A p \in Procs : ~Reloads(p)) => running = Installed

-----------------------------------------------------------------------------
(* The lock.                                                               *)

\* Whoever changes things finds everybody else at rest.
LEMMA Alone ==
    ASSUME ControlInv, NEW p \in Procs, Mutating(p)
    PROVE  \A q \in Procs \ {p} : pc[q] = "idle" /\ loc[q] = Blank
BY DEF ControlInv, Exclusive, Mutating, Holds

\* A step of a process is one of its own only.
OnlyOf(p) == \A q \in Procs \ {p} : pc'[q] = pc[q] /\ loc'[q] = loc[q]

\* The next call of a command is one of its calls, or the command ends.
Proceeds(p) ==
    \/ pc'[p] \in StepsOf(loc[p].cmd) \ {"idle"} /\ loc'[p].cmd = loc[p].cmd
    \/ pc'[p] = "idle" /\ loc'[p] = Blank

\* A command is a list from its first call to its last, or at none.
LEMMA Lists ==
    ASSUME IInv, ControlInv, NEW p \in Procs
    PROVE  /\ pc[p] \in ListSteps <=> loc[p].cmd = "list"
           /\ pc[p] = "idle" <=> loc[p].cmd = "none"
<1>1. pc[p] \in StepsOf(loc[p].cmd) /\ loc[p].cmd \in Commands \cup {"none"}
  BY Here DEF ControlInv, Locals
<1> QED BY <1>1 DEF StepsOf, Commands, ListSteps, OpenSteps, PublishSteps, RollbackSteps,
        SyncSteps, EndSteps

\* A process that proceeds with the lock keeps the exclusion.
LEMMA ControlMove ==
    ASSUME IInv, ControlInv, NEW p \in Procs, Holds(p), OnlyOf(p), Proceeds(p)
    PROVE  ControlInv'
<1>1. pc'[p] \in StepsOf(loc'[p].cmd) /\ (pc'[p] = "idle" => loc'[p] = Blank)
  BY DEF Proceeds, StepsOf, Blank
<1>2. Mutating(p)' => Mutating(p)
  <2>1. pc'[p] \in ListSteps <=> loc'[p].cmd = "list"
    BY <1>1, Here DEF Proceeds, StepsOf, Commands, ListSteps, OpenSteps, PublishSteps,
        RollbackSteps, SyncSteps, EndSteps, Blank, Locals
  <2> QED BY <2>1, Lists DEF Proceeds, Mutating, Holds
<1>3. Exclusive'
  BY <1>2 DEF OnlyOf, ControlInv, Exclusive, Mutating, Holds
<1> QED BY <1>1, <1>3 DEF OnlyOf, ControlInv

\* The lock lets nobody in who could disturb its holder.
LEMMA EnterControl ==
    ASSUME IInv, ControlInv, NEW p \in Procs, NEW c \in Commands, Enter(p, c)
    PROVE  ControlInv'
<1>1. OnlyOf(p) /\ pc'[p] = c /\ loc'[p] = [Blank EXCEPT !.cmd = c]
  BY IInvParts DEF Enter, Goto, ProcInv, OnlyOf
<1>2. pc'[p] \in StepsOf(loc'[p].cmd) /\ pc'[p] # "idle"
  BY <1>1 DEF Blank, Commands, StepsOf, OpenSteps, SyncSteps, ListSteps
<1>3. ASSUME c # "list" PROVE \A q \in Procs : ~Holds(q)
  BY <1>3 DEF Enter, LockFree
<1>4. ASSUME c = "list" PROVE \A q \in Procs : ~Mutating(q)
  BY <1>4 DEF Enter, LockFree
<1>5. c = "list" => pc'[p] \in ListSteps
  BY <1>1 DEF ListSteps
<1>6. Exclusive'
  BY <1>1, <1>3, <1>4, <1>5 DEF OnlyOf, ControlInv, Exclusive, Mutating, Holds
<1> QED BY <1>1, <1>2, <1>6 DEF OnlyOf, ControlInv

\* Where die() leads.
Dies(p) ==
    IF loc[p].cmd = "open"
      THEN pc'[p] = "undoKey" /\ loc'[p] = loc[p]
      ELSE pc'[p] = "idle" /\ loc'[p] = Blank

Moves(p, l, r) == pc'[p] = l /\ loc'[p] = r

\* How a process moves on.
LEMMA GotoMove ==
    ASSUME IInv, NEW p \in Procs
    PROVE  /\ \A l, r : Goto(p, l, r) => Moves(p, l, r)
           /\ \A l : Go(p, l) => Moves(p, l, loc[p])
           /\ \A l : Warn(p, l) => Moves(p, l, [loc[p] EXCEPT !.warned = TRUE])
           /\ Exit(p) => Moves(p, "idle", Blank)
           /\ Die(p) => Dies(p)
BY IInvParts DEF ProcInv, Goto, Go, Warn, Exit, Die, Dies, Moves

\* The step that validates a snippet.
LEMMA ValidateMoves ==
    ASSUME IInv, NEW p \in Procs, Validate(p)
    PROVE  \/ /\ Parses /\ loc[p].todo = {}
              /\ Moves(p, AfterSnippets(p), [loc[p] EXCEPT !.name = Globals, !.backup = "absent"])
           \/ /\ Parses
              /\ \E k \in loc[p].todo :
                   Moves(p, "write", [loc[p] EXCEPT !.name = k, !.backup = "absent",
                                                    !.todo = loc[p].todo \ {k}])
           \/ Moves(p, "restore", loc[p])
<1> DEFINE done == [loc[p] EXCEPT !.name = Globals, !.backup = "absent"]
<1>1. ASSUME NEW k
      PROVE  [done EXCEPT !.name = k, !.todo = @ \ {k}]
               = [loc[p] EXCEPT !.name = k, !.backup = "absent", !.todo = loc[p].todo \ {k}]
  BY Here DEF Locals
<1>2. CASE NextSnippet(p) /\ Parses
  <2>1. CASE loc[p].todo = {}
    BY <1>2, <2>1, GotoMove DEF NextSnippet
  <2>2. CASE loc[p].todo # {}
    <3>1. PICK k \in loc[p].todo : Goto(p, "write", [done EXCEPT !.name = k, !.todo = @ \ {k}])
      BY <1>2, <2>2 DEF NextSnippet
    <3> HIDE DEF done
    <3>2. Goto(p, "write", [loc[p] EXCEPT !.name = k, !.backup = "absent",
                                          !.todo = loc[p].todo \ {k}])
      BY <1>1, <3>1
    <3> QED BY <1>2, <3>2, GotoMove
  <2> QED BY <2>1, <2>2
<1> QED BY <1>2, GotoMove DEF Validate

\* Each call of a command is followed by one of the same command, or its end.
LEMMA WorkProceeds ==
    ASSUME IInv, ControlInv, NEW p \in Procs, Work(p)
    PROVE  Holds(p) /\ OnlyOf(p) /\ Proceeds(p)
<1>1. /\ pc \in [Procs -> Labels] /\ loc \in [Procs -> Locals]
      /\ pc[p] \in StepsOf(loc[p].cmd) /\ loc[p].cmd \in Commands \cup {"none"}
      /\ pc[p] = "unadd" => loc[p].cmd = "open"
  BY IInvParts, Here DEF ProcInv, ControlInv, Locals, LocalOK
<1> USE <1>1 DEF Goto, Go, Exit, Die, Warn, OnlyOf, Proceeds, Holds, StepsOf, Commands,
        ListSteps, OpenSteps, PublishSteps, RollbackSteps, SyncSteps, EndSteps, Verdicts
<1>2. CASE OpenRead(p)
  BY <1>2 DEF OpenRead, Locals
<1>3. CASE CreateLink(p)
  BY <1>3 DEF CreateLink, Strands, Locals
<1>4. CASE Record(p)
  BY <1>4 DEF Record, Strands, Locals
<1>5. CASE Unadd(p)
  BY <1>5 DEF Unadd
<1>6. CASE EnableForward(p)
  BY <1>6 DEF EnableForward, Call
<1>7. CASE Write(p)
  BY <1>7 DEF Write, Call, Locals
<1>8. CASE Validate(p)
  <2>1. OnlyOf(p) /\ pc[p] = "validate"
    BY <1>8 DEF Validate, NextSnippet
  <2>2. Proceeds(p)
    BY <1>8, ValidateMoves, <2>1 DEF Moves, AfterSnippets, Locals
  <2> QED BY <2>1, <2>2
<1>9. CASE Restore(p)
  BY <1>9 DEF Restore, Call
<1>10. CASE Survey(p)
  BY <1>10 DEF Survey, Settled, Finish, DiesReading, Locals
<1>11. CASE Remove(p)
  BY <1>11 DEF Remove, Call
<1>12. CASE Reload(p)
  BY <1>12 DEF Reload, Call, Finish
<1>13. CASE Disable(p)
  BY <1>13 DEF Disable, Call
<1>14. CASE UndoKey(p) \/ UndoGlobals(p)
  BY <1>14 DEF UndoKey, UndoGlobals, AfterVps, Call, Locals
<1>15. CASE UndoReload(p) \/ UndoForward(p)
  <2>1. CASE UndoReload(p)
    BY <2>1 DEF UndoReload, AfterVps, Call, Locals
  <2>2. CASE UndoForward(p)
    <3>1. loc[p].cmd = "open"
      BY <2>2 DEF UndoForward
    <3>2. Go(p, "undoLink") \/ Warn(p, "undoLink")
      BY <2>2 DEF UndoForward, Call
    <3> QED BY <3>1, <3>2 DEF Locals
  <2> QED BY <1>15, <2>1, <2>2
<1>16. CASE UndoLink(p) \/ Leave(p)
  BY <1>16 DEF UndoLink, Leave
<1>17. CASE Close(p)
  BY <1>17 DEF Close, CloseRead, Revoke, DiesReading, Locals
<1>18. CASE SweepRead(p)
  BY <1>18 DEF SweepRead, DiesReading, Locals
<1>22. CASE Purge(p)
  <2>1. loc[p] \in Locals /\ "purge" \in StepsOf(loc[p].cmd) /\ pc[p] = "purge"
    BY <1>22 DEF Purge
  <2>2. ASSUME NEW k \in loc[p].todo, Goto(p, "purge", [loc[p] EXCEPT !.todo = @ \ {k}])
        PROVE  OnlyOf(p) /\ Proceeds(p)
    BY <2>1, <2>2 DEF Locals
  <2>3. ASSUME NEW k \in loc[p].todo,
               Goto(p, "purge", [[loc[p] EXCEPT !.todo = @ \ {k}] EXCEPT !.gone = @ \cup {k}])
        PROVE  OnlyOf(p) /\ Proceeds(p)
    <3>1. [[loc[p] EXCEPT !.todo = @ \ {k}] EXCEPT !.gone = @ \cup {k}].cmd = loc[p].cmd
      BY DEF Locals
    <3> QED BY <2>1, <2>3, <3>1
  <2>4. CASE Go(p, "forget") \/ Exit(p)
    BY <1>22, <2>4 DEF Purge
  <2> QED BY <2>1, <2>2, <2>3, <2>4, <1>22 DEF Purge
<1>19. CASE Forget(p) \/ Converge(p)
  BY <1>19 DEF Forget, Converge, DiesReading, Locals
<1>20. CASE SyncRead(p)
  <2>1. loc[p].cmd \in {"sync", "adopt"} /\ pc[p] = "sync"
    BY <1>20 DEF SyncRead
  <2>2. CASE DiesReading(p)
    BY <2>1, <2>2 DEF DiesReading
  <2>3. CASE ~DiesReading(p)
    <3>1. PICK l \in {"survey", "enable"} :
            Goto(p, l, [loc[p] EXCEPT !.active = Active, !.todo = Active])
      BY <1>20, <2>3 DEF SyncRead
    <3> QED BY <2>1, <3>1 DEF Locals
  <2> QED BY <2>2, <2>3
<1>23. CASE AdoptRead(p)
  BY <1>23 DEF AdoptRead, DiesReading, Locals
<1>21. CASE List(p)
  BY <1>21 DEF List, ListLinks, ListSnippets, DiesReading, Locals
<1> QED BY <1>2, <1>3, <1>4, <1>5, <1>6, <1>7, <1>8, <1>9, <1>10, <1>11, <1>12, <1>13, <1>14,
           <1>15, <1>16, <1>17, <1>18, <1>19, <1>20, <1>21, <1>22, <1>23
        DEF Work, Open, Snippet, Converging, Rollback, Sweep, Sync


\* The next call of a process says which step it takes.
LEMMA WorkPlaces ==
    ASSUME NEW p \in Procs, Work(p)
    PROVE  /\ pc[p] = "open" => OpenRead(p)
           /\ pc[p] = "create" => CreateLink(p)
           /\ pc[p] = "add" => Record(p)
           /\ pc[p] = "unadd" => Unadd(p)
           /\ pc[p] = "enable" => EnableForward(p)
           /\ pc[p] = "write" => Write(p)
           /\ pc[p] = "validate" => Validate(p)
           /\ pc[p] = "restore" => Restore(p)
           /\ pc[p] = "survey" => Survey(p)
           /\ pc[p] = "remove" => Remove(p)
           /\ pc[p] = "reload" => Reload(p)
           /\ pc[p] = "disable" => Disable(p)
           /\ pc[p] = "undoKey" => UndoKey(p)
           /\ pc[p] = "undoGlobals" => UndoGlobals(p)
           /\ pc[p] = "undoReload" => UndoReload(p)
           /\ pc[p] = "undoForward" => UndoForward(p)
           /\ pc[p] = "undoLink" => UndoLink(p)
           /\ pc[p] = "close" => CloseRead(p)
           /\ pc[p] = "revoke" => Revoke(p)
           /\ pc[p] = "sweep" => SweepRead(p)
           /\ pc[p] = "purge" => Purge(p)
           /\ pc[p] = "forget" => Forget(p)
           /\ pc[p] = "converge" => Converge(p)
           /\ pc[p] = "sync" => SyncRead(p)
           /\ pc[p] = "adopt" => AdoptRead(p)
           /\ pc[p] = "list" => ListLinks(p)
           /\ pc[p] = "listSnippets" => ListSnippets(p)
           /\ pc[p] \in Verdicts => Leave(p)
<1> DEFINE here == pc[p]
<1>1. Open(p) => /\ here \in {"open", "create", "add", "unadd", "enable"}
                 /\ here = "open" => OpenRead(p)
                 /\ here = "create" => CreateLink(p)
                 /\ here = "add" => Record(p)
                 /\ here = "unadd" => Unadd(p)
                 /\ here = "enable" => EnableForward(p)
  BY DEF Open, OpenRead, CreateLink, Record, Strands, Unadd, EnableForward
<1>2. Snippet(p) => /\ here \in {"write", "validate", "restore"}
                    /\ here = "write" => Write(p)
                    /\ here = "validate" => Validate(p)
                    /\ here = "restore" => Restore(p)
  BY DEF Snippet, Write, Validate, Restore
<1>3. Converging(p) => /\ here \in {"survey", "remove", "reload", "disable"}
                       /\ here = "survey" => Survey(p)
                       /\ here = "remove" => Remove(p)
                       /\ here = "reload" => Reload(p)
                       /\ here = "disable" => Disable(p)
  BY DEF Converging, Survey, Remove, Reload, Disable
<1>4. Rollback(p) => /\ here \in {"undoKey", "undoGlobals", "undoReload", "undoForward", "undoLink"}
                     /\ here = "undoKey" => UndoKey(p)
                     /\ here = "undoGlobals" => UndoGlobals(p)
                     /\ here = "undoReload" => UndoReload(p)
                     /\ here = "undoForward" => UndoForward(p)
                     /\ here = "undoLink" => UndoLink(p)
  BY DEF Rollback, UndoKey, UndoGlobals, UndoReload, UndoForward, UndoLink
<1>5. Close(p) \/ Sweep(p) =>
        /\ here \in {"close", "revoke", "sweep", "purge", "forget", "converge"}
        /\ here = "close" => CloseRead(p)
        /\ here = "revoke" => Revoke(p)
        /\ here = "sweep" => SweepRead(p)
        /\ here = "purge" => Purge(p)
        /\ here = "forget" => Forget(p)
        /\ here = "converge" => Converge(p)
  BY DEF Close, Sweep, CloseRead, Revoke, SweepRead, Purge, Forget, Converge
<1>6. Sync(p) \/ List(p) \/ Leave(p) =>
        /\ here \in {"sync", "adopt", "list", "listSnippets"} \cup Verdicts
        /\ here = "sync" => SyncRead(p)
        /\ here = "adopt" => AdoptRead(p)
        /\ here = "list" => ListLinks(p)
        /\ here = "listSnippets" => ListSnippets(p)
        /\ here \in Verdicts => Leave(p)
  BY DEF Sync, List, SyncRead, AdoptRead, ListLinks, ListSnippets, Leave, Verdicts
<1> HIDE DEF here
<1>7. here = pc[p]
  BY DEF here
<1> QED BY <1>1, <1>2, <1>3, <1>4, <1>5, <1>6, <1>7 DEF Work, Verdicts

-----------------------------------------------------------------------------
(* What a process knows of the links stays true while it holds the lock.   *)

\* A process at rest claims nothing.
LEMMA RestKnown ==
    ASSUME NEW q \in Procs, pc'[q] = "idle", loc'[q] = Blank
    PROVE  KnownOK(pc[q], loc[q])'
BY DEF KnownOK, ListOK, CloseOK, OwnOK, SweepOK, AdoptOK, Blank

\* The commands that rely on links: all but sync.
LEMMA KnownByCommand ==
    ASSUME IInv, ControlInv, NEW p \in Procs, Work(p), pc'[p] # "idle",
           loc[p].cmd = "open" => OwnOK(pc[p], loc[p])',
           loc[p].cmd = "close" => CloseOK(pc[p], loc[p])',
           loc[p].cmd = "sweep" => SweepOK(pc[p], loc[p])',
           loc[p].cmd = "adopt" => AdoptOK(pc[p], loc[p])',
           loc[p].cmd = "list" => ListOK(pc[p], loc[p])'
    PROVE  KnownOK(pc[p], loc[p])'
<1>1. pc'[p] \in StepsOf(loc[p].cmd) /\ loc'[p].cmd = loc[p].cmd
  BY WorkProceeds DEF Proceeds
<1>2. loc[p].cmd # "list" => ListOK(pc[p], loc[p])'
  BY <1>1, Here DEF ListOK, StepsOf, OpenSteps, PublishSteps, RollbackSteps, SyncSteps, EndSteps,
        Locals, Commands
<1> QED BY <1>1, <1>2 DEF KnownOK, CloseOK, OwnOK, SweepOK, AdoptOK

-----------------------------------------------------------------------------
(* Which steps change what.                                                *)

EdgeSteps == {"enable", "write", "restore", "remove", "reload", "disable",
              "undoKey", "undoGlobals", "undoReload", "undoForward"}

\* What the call a process makes may change at all.
LEMMA WorkChanges ==
    ASSUME NEW p \in Procs, Work(p)
    PROVE  /\ UNCHANGED <<past, meddles, kills>>
           /\ pc[p] \notin {"create", "unadd", "undoLink", "revoke", "purge"} =>
                UNCHANGED <<links, origin>>
           /\ pc[p] # "create" => links' \subseteq links /\ UNCHANGED origin
           /\ pc[p] \notin {"open", "add", "undoLink", "sweep", "forget", "converge", "sync"} =>
                UNCHANGED registry
           /\ pc[p] # "add" => registry' \subseteq registry /\ UNCHANGED recorded
           /\ pc[p] \notin {"create", "add", "unadd", "undoLink"} => UNCHANGED fate
           /\ pc[p] \notin EdgeSteps => UNCHANGED <<edgeVars, late>>
<1> USE DEF immichVars, localVars, EdgeSteps, Unchanged, DiesReading, ManagedLinks, Owned,
            Deletes, DeleteErrs
<1>1. CASE Open(p)
  BY <1>1 DEF Open, OpenRead, CreateLink, Record, Strands, Unadd, EnableForward, Call
<1>2. CASE Snippet(p)
  BY <1>2 DEF Snippet, Write, Validate, Restore, Call
<1>3. CASE Converging(p)
  BY <1>3 DEF Converging, Survey, Remove, Reload, Disable, Call
<1>4. CASE Rollback(p)
  BY <1>4 DEF Rollback, UndoKey, UndoGlobals, UndoReload, UndoForward, UndoLink, Call
<1>5. CASE Close(p)
  BY <1>5 DEF Close, CloseRead, Revoke
<1>6. CASE Sweep(p)
  BY <1>6 DEF Sweep, SweepRead, Purge, Forget, Converge
<1>7. CASE Sync(p)
  BY <1>7 DEF Sync, SyncRead, AdoptRead
<1>8. CASE List(p) \/ Leave(p)
  BY <1>8 DEF List, ListLinks, ListSnippets, Leave, Verdicts
<1> QED BY <1>1, <1>2, <1>3, <1>4, <1>5, <1>6, <1>7, <1>8 DEF Work

\* A share stays handed out, its link, once gone, does not return, and what
\* has expired stays expired.
KeysMove == /\ Handed \subseteq Handed'
            /\ links' \cap Handed \subseteq links
            /\ past \subseteq past'

\* A call hands out keys and deletes links; it brings no link back.
LEMMA WorkKeys ==
    ASSUME IInv, NEW p \in Procs, Work(p)
    PROVE  KeysMove
<1>1. CASE pc[p] = "create"
  <2>1. KeysInv /\ past' = past
    BY IInvParts, WorkChanges
  <2>2. CASE \E k \in Fresh : links' = links \cup {k} /\ origin' = [origin EXCEPT ![k] = "cli"]
    BY <2>1, <2>2 DEF Fresh, Handed, KeysMove, KeysInv
  <2>3. CASE UNCHANGED <<links, origin>>
    BY <2>1, <2>3 DEF Handed, KeysMove
  <2> QED BY <1>1, <2>2, <2>3, WorkPlaces DEF CreateLink, Strands
<1>2. CASE pc[p] # "create"
  BY <1>2, WorkChanges DEF Handed, KeysMove
<1> QED BY <1>1, <1>2

\* An open that strands its share had no fate before, and ends.
LEMMA WorkStrands ==
    ASSUME IInv, ControlInv, KnownInv, NEW p \in Procs, Work(p), pc[p] \in {"create", "add"}
    PROVE  \/ UNCHANGED fate
           \/ /\ pc'[p] = "idle" /\ loc[p].cmd = "open"
              /\ \E k \in Keys : /\ fate[k] = "none" /\ k \in Handed'
                                /\ fate' = [fate EXCEPT ![k] = "stranded"]
<1>1. /\ pc \in [Procs -> Labels] /\ OwnOK(pc[p], loc[p]) /\ FateOK
      /\ fate \in [Keys -> {"none", "failed", "stranded", "warned", "killed"}]
      /\ origin \in [Keys -> {"none", "cli", "user"}]
  BY IInvParts DEF ProcInv, KnownInv, KnownOK, CountInv, KeysInv
<1>2. CASE pc[p] = "create"
  <2>1. CreateLink(p)
    BY <1>2, WorkPlaces
  <2>2. loc[p].cmd = "open"
    BY <1>2, Here DEF ControlInv, StepsOf, SyncSteps, EndSteps, ListSteps, PublishSteps
  <2>3. CASE UNCHANGED fate
    BY <2>3
  <2>4. CASE ~(UNCHANGED fate)
    <3>1. PICK k \in Fresh : origin' = [origin EXCEPT ![k] = "cli"] /\ Strands(p, k)
      BY <2>1, <2>4 DEF CreateLink
    <3>2. k \in Keys /\ fate[k] = "none" /\ k \in Handed'
      BY <1>1, <3>1 DEF Fresh, FateOK, Handed
    <3> QED BY <1>1, <2>2, <3>1, <3>2 DEF Strands, Exit, Goto
  <2> QED BY <2>3, <2>4
<1>3. CASE pc[p] = "add"
  <2>1. Record(p) /\ UNCHANGED origin
    BY <1>3, WorkPlaces, WorkChanges
  <2>2. loc[p].cmd = "open" => loc[p].key \in Handed /\ fate[loc[p].key] = "none"
    BY <1>1, <1>3 DEF OwnOK
  <2>3. UNCHANGED fate \/ (loc[p].cmd = "open" /\ Strands(p, loc[p].key))
    BY <2>1 DEF Record
  <2> QED BY <1>1, <2>1, <2>2, <2>3 DEF Strands, Exit, Goto, Handed
<1> QED BY <1>2, <1>3

\* No open ends in failure but in the last steps of its rollback.
LEMMA EndedStays ==
    ASSUME IInv, ControlInv, KnownInv, NEW p \in Procs, Work(p), pc[p] \notin {"unadd", "undoLink"}
    PROVE  \A k \in Keys : (fate'[k] = "failed" <=> fate[k] = "failed") /\ (Ended(k)' <=> Ended(k))
<1>1. fate \in [Keys -> {"none", "failed", "stranded", "warned", "killed"}]
  BY IInvParts DEF CountInv
<1>2. \/ UNCHANGED fate
      \/ \E k \in Keys : fate[k] = "none" /\ fate' = [fate EXCEPT ![k] = "stranded"]
  BY WorkChanges, WorkStrands
<1> QED BY <1>1, <1>2 DEF Ended

\* How opens ended stays true, whatever a process does.
LEMMA WorkFates ==
    ASSUME IInv, ControlInv, KnownInv, NEW p \in Procs, Work(p)
    PROVE  FateOK' /\ FailedGone'
<1>1. FateOK /\ FailedGone /\ KeysMove /\ fate \in [Keys -> {"none", "failed", "stranded", "warned", "killed"}]
  BY IInvParts, WorkKeys DEF KnownInv, CountInv
<1>2. CASE pc[p] \notin {"unadd", "undoLink"}
  <2>1. \A k \in Keys : fate'[k] = "failed" <=> fate[k] = "failed"
    BY <1>2, EndedStays
  <2>2. \A k \in Keys : fate'[k] # "none" => fate[k] # "none" \/ k \in Handed'
    BY <1>1, <1>2, WorkChanges, WorkStrands
  <2> QED BY <1>1, <2>1, <2>2 DEF FateOK, FailedGone, KeysMove
<1>3. CASE pc[p] \in {"unadd", "undoLink"}
  <2> DEFINE k == loc[p].key
  <2>1. k \in Handed /\ Handed' = Handed /\ links' \subseteq links
    BY <1>3, WorkChanges, Here DEF Handed, KnownInv, KnownOK, OwnOK, RollbackSteps, OpenSteps,
          PublishSteps, ControlInv, LocalOK, StepsOf, SyncSteps, EndSteps, ListSteps
  <2>2. \/ \E f \in {"warned", "failed"} : fate' = [fate EXCEPT ![k] = f] /\ k \notin links'
        \/ fate' = [fate EXCEPT ![k] = "warned"]
    BY <1>3, WorkPlaces DEF Unadd, UndoLink, Deletes
  <2> QED BY <1>1, <2>1, <2>2 DEF FateOK, FailedGone
<1> QED BY <1>2, <1>3

\* Of the steps of an open that work on the edge.
LEMMA OpenQuiet ==
    ASSUME IInv, ControlInv, KnownInv, NEW p \in Procs, Work(p), loc[p].cmd = "open",
           UNCHANGED <<links, origin, registry, recorded, fate>>,
           pc[p] \in PublishSteps \cup (RollbackSteps \ {"undoLink"}), pc'[p] # "idle"
    PROVE  OwnOK(pc[p], loc[p])'
<1>1. /\ pc \in [Procs -> Labels] /\ loc \in [Procs -> Locals] /\ OwnOK(pc[p], loc[p])
      /\ loc[p].key \in Handed /\ fate[loc[p].key] = "none"
      /\ pc[p] \in PublishSteps => loc[p].key \in registry
  BY IInvParts DEF ProcInv, KnownInv, KnownOK, OwnOK, PublishSteps, RollbackSteps
<1>2. /\ loc'[p].key = loc[p].key
      /\ pc'[p] \in PublishSteps \cup RollbackSteps \cup {"opened"}
      /\ pc[p] \in RollbackSteps => pc'[p] \in RollbackSteps
  <2> USE <1>1 DEF Goto, Go, Exit, Die, Warn, PublishSteps, RollbackSteps
  <2>1. CASE EnableForward(p)
    BY <2>1 DEF EnableForward, Call
  <2>2. CASE Write(p)
    BY <2>2 DEF Write, Call, Locals
  <2>3. CASE Validate(p)
    BY <2>3, ValidateMoves DEF Validate, Moves, AfterSnippets, Locals
  <2>4. CASE Restore(p)
    BY <2>4 DEF Restore, Call
  <2>5. CASE Reload(p)
    BY <2>5 DEF Reload, Call
  <2>6. CASE UndoKey(p) \/ UndoGlobals(p) \/ UndoReload(p)
    BY <2>6 DEF UndoKey, UndoGlobals, UndoReload, AfterVps, Call, Locals
  <2>7. CASE UndoForward(p)
    <3>1. Go(p, "undoLink") \/ Warn(p, "undoLink")
      BY <2>7 DEF UndoForward, Call
    <3> QED BY <3>1 DEF Locals
  <2> QED BY <2>1, <2>2, <2>3, <2>4, <2>5, <2>6, <2>7, WorkPlaces
<1> QED BY <1>1, <1>2 DEF OwnOK, PublishSteps, RollbackSteps, Handed

\* Of all the steps of an open.
LEMMA OpenKnown ==
    ASSUME IInv, ControlInv, KnownInv, NEW p \in Procs, Work(p), loc[p].cmd = "open",
           pc'[p] # "idle"
    PROVE  OwnOK(pc[p], loc[p])'
<1>1. /\ pc \in [Procs -> Labels] /\ loc \in [Procs -> Locals] /\ OwnOK(pc[p], loc[p])
      /\ pc[p] \in OpenSteps \cup PublishSteps \cup RollbackSteps
      /\ FateOK /\ recorded \subseteq Handed
      /\ origin \in [Keys -> {"none", "cli", "user"}]
  BY IInvParts DEF ProcInv, KnownInv, KnownOK, ControlInv, StepsOf, KeysInv
<1>2. CASE pc[p] = "open"
  <2>1. OpenRead(p)
    BY <1>2, WorkPlaces
  <2>2. pc'[p] = "create" /\ loc'[p].key = loc[p].key /\ loc'[p].cmd = "open"
    BY <2>1, <1>1 DEF OpenRead, Goto, Exit, Locals
  <2> QED BY <1>1, <1>2, <2>2 DEF OwnOK
<1>3. CASE pc[p] = "create"
  <2>1. CreateLink(p)
    BY <1>3, WorkPlaces
  <2>2. PICK k \in Fresh : /\ origin' = [origin EXCEPT ![k] = "cli"] /\ UNCHANGED <<fate, recorded>>
                           /\ Goto(p, "add", [loc[p] EXCEPT !.key = k])
    BY <2>1, <1>1 DEF CreateLink, Strands, Exit, Goto, localVars
  <2>3. pc'[p] = "add" /\ loc'[p].key = k /\ loc'[p].cmd = "open"
    BY <2>2, <1>1 DEF Goto, Locals
  <2>4. k \in Handed' /\ k \notin recorded' /\ fate'[k] = "none"
    BY <2>2, <1>1 DEF Handed, Fresh, FateOK
  <2> QED BY <2>3, <2>4 DEF OwnOK, PublishSteps
<1>4. CASE pc[p] = "add"
  <2>1. Record(p) /\ UNCHANGED <<fate, origin>>
    BY <1>4, WorkPlaces, WorkChanges, WorkStrands
  <2>2. /\ loc'[p].key = loc[p].key
        /\ \/ pc'[p] = "enable" /\ loc[p].key \in registry'
           \/ pc'[p] = "unadd"
    BY <2>1, <1>1 DEF Record, Strands, Exit, Goto, Go, Locals
  <2> QED BY <1>1, <1>4, <2>1, <2>2 DEF OwnOK, PublishSteps, Handed
<1>5. CASE pc[p] \in {"unadd", "undoLink", "opened"}
  BY <1>1, <1>5, WorkPlaces DEF Unadd, UndoLink, Leave, Exit, Goto, Verdicts
<1>6. CASE pc[p] \in PublishSteps \cup (RollbackSteps \ {"undoLink"})
  BY <1>6, OpenQuiet, WorkChanges DEF PublishSteps, RollbackSteps
<1> QED BY <1>1, <1>2, <1>3, <1>4, <1>5, <1>6 DEF OpenSteps

\* The last calls of a command but an open.
LEMMA EndKeeps ==
    ASSUME IInv, NEW p \in Procs, Work(p), loc[p].cmd # "open", pc[p] \in EndSteps, pc'[p] # "idle"
    PROVE  /\ UNCHANGED <<origin, links, registry, recorded>>
           /\ loc'[p].key = loc[p].key /\ loc'[p].active = loc[p].active
           /\ loc'[p].due = loc[p].due /\ loc'[p].cmd = loc[p].cmd
           /\ pc'[p] \in EndSteps
<1>1. /\ pc \in [Procs -> Labels] /\ loc \in [Procs -> Locals]
      /\ UNCHANGED <<origin, links, registry, recorded>>
  BY IInvParts, WorkChanges DEF ProcInv, EndSteps
<1>2. /\ loc'[p].key = loc[p].key /\ loc'[p].active = loc[p].active
      /\ loc'[p].due = loc[p].due /\ loc'[p].cmd = loc[p].cmd
      /\ pc'[p] \in EndSteps
  <2> USE <1>1 DEF Goto, Go, Exit, Die, EndSteps
  <2>1. CASE Survey(p)
    BY <2>1 DEF Survey, Settled, Finish, DiesReading, Locals
  <2>2. CASE Remove(p) \/ Disable(p)
    BY <2>2 DEF Remove, Disable, Call
  <2>3. CASE Reload(p)
    BY <2>3 DEF Reload, Finish, Call
  <2>4. CASE Leave(p)
    BY <2>4 DEF Leave
  <2> QED BY <2>1, <2>2, <2>3, <2>4, WorkPlaces DEF Verdicts
<1> QED BY <1>1, <1>2

\* Of all the steps of a close.
LEMMA CloseKnown ==
    ASSUME IInv, ControlInv, KnownInv, NEW p \in Procs, Work(p), loc[p].cmd = "close",
           pc'[p] # "idle"
    PROVE  CloseOK(pc[p], loc[p])'
<1>1. /\ pc \in [Procs -> Labels] /\ loc \in [Procs -> Locals] /\ CloseOK(pc[p], loc[p])
      /\ pc[p] \in {"close", "revoke", "forget", "converge"} \cup EndSteps
      /\ LocalOK(pc[p], loc[p]) /\ registry \subseteq recorded /\ recorded \subseteq Handed
  BY IInvParts DEF ProcInv, KnownInv, KnownOK, ControlInv, StepsOf, KeysInv
<1>2. CASE pc[p] = "close"
  <2>1. CloseRead(p) /\ recorded' = recorded
    BY <1>2, WorkPlaces, WorkChanges
  <2>2. pc'[p] = "revoke" /\ loc'[p].key \in recorded
    BY <2>1, <1>1 DEF CloseRead, DiesReading, Goto, Exit, Locals, Owned
  <2> QED BY <2>1, <2>2 DEF CloseOK, EndSteps
<1>3. CASE pc[p] = "revoke"
  <2>1. pc'[p] = "forget" /\ loc'[p].key = loc[p].key /\ loc'[p].gone = {loc[p].key}
    BY <1>1, <1>3, WorkPlaces DEF Revoke, Goto, Exit, Locals
  <2> QED BY <2>1 DEF CloseOK, EndSteps
<1>4. CASE pc[p] = "forget"
  <2>1. Forget(p) /\ UNCHANGED <<origin, links>>
    BY <1>4, WorkPlaces, WorkChanges
  <2>2. pc'[p] = "converge" /\ loc'[p].key = loc[p].key /\ registry' = registry \ loc[p].gone
    BY <2>1, <1>1 DEF Forget, DiesReading, Goto, Exit, Locals
  <2>3. loc[p].gone = {loc[p].key} /\ loc[p].key \in Handed \ links
    BY <1>1, <1>4 DEF CloseOK, LocalOK
  <2> QED BY <2>1, <2>2, <2>3 DEF CloseOK, EndSteps, Handed
<1>5. CASE pc[p] = "converge"
  <2>1. Converge(p) /\ UNCHANGED <<origin, links>> /\ registry' \subseteq registry
    BY <1>5, WorkPlaces, WorkChanges
  <2>2. pc'[p] = "survey" /\ loc'[p].key = loc[p].key /\ loc'[p].active = Active
    BY <2>1, <1>1 DEF Converge, DiesReading, Goto, Exit, Locals
  <2> QED BY <1>1, <1>5, <2>1, <2>2 DEF CloseOK, EndSteps, Handed, Active, Owned
<1>6. CASE pc[p] \in EndSteps
  BY <1>1, <1>6, EndKeeps DEF CloseOK, Handed, EndSteps
<1> QED BY <1>1, <1>2, <1>3, <1>4, <1>5, <1>6

\* A sweep that visits a share keeps it in mind or has deleted it.
LEMMA PurgeKnown ==
    ASSUME IInv, NEW p \in Procs, Purge(p), loc[p].cmd = "sweep", SweepOK(pc[p], loc[p]),
           pc'[p] # "idle"
    PROVE  SweepOK(pc[p], loc[p])'
<1>1. /\ pc \in [Procs -> Labels] /\ loc \in [Procs -> Locals] /\ loc[p] \in Locals
      /\ UNCHANGED <<past, origin>> /\ pc[p] = "purge"
  BY IInvParts DEF ProcInv, Purge, immichVars, Deletes, DeleteErrs
<1>2. /\ loc[p].due \subseteq Handed
      /\ loc[p].due \subseteq past \cap (loc[p].todo \cup loc[p].gone)
  BY <1>1 DEF SweepOK
<1>3. CASE loc[p].todo = {} /\ Go(p, "forget")
  BY <1>1, <1>2, <1>3 DEF Go, Goto, SweepOK, EndSteps, Handed
<1>4. ASSUME NEW k \in loc[p].todo,
             \/ k \notin past /\ Goto(p, "purge", [loc[p] EXCEPT !.todo = @ \ {k}])
             \/ Goto(p, "purge", [[loc[p] EXCEPT !.todo = @ \ {k}] EXCEPT !.gone = @ \cup {k}])
      PROVE  SweepOK(pc[p], loc[p])'
  <2> DEFINE r == [loc[p] EXCEPT !.todo = @ \ {k}]
             s == [r EXCEPT !.gone = @ \cup {k}]
  <2>1. r.todo = loc[p].todo \ {k} /\ r.gone = loc[p].gone /\ r.due = loc[p].due
    BY <1>1 DEF Locals
  <2>2. s.todo = loc[p].todo \ {k} /\ s.gone = loc[p].gone \cup {k} /\ s.due = loc[p].due
    BY <1>1 DEF Locals
  <2>3. pc'[p] = "purge" /\ ((k \notin past /\ loc'[p] = r) \/ loc'[p] = s)
    BY <1>1, <1>4 DEF Goto
  <2> HIDE DEF r, s
  <2>4. /\ loc'[p].due = loc[p].due
        /\ loc[p].due \subseteq past \cap (loc'[p].todo \cup loc'[p].gone)
    BY <1>2, <2>1, <2>2, <2>3
  <2> QED BY <1>1, <1>2, <2>3, <2>4 DEF SweepOK, EndSteps, Handed
<1> QED BY <1>1, <1>3, <1>4 DEF Purge, Exit, Goto

\* Of all the steps of a sweep.
LEMMA SweepKnown ==
    ASSUME IInv, ControlInv, KnownInv, NEW p \in Procs, Work(p), loc[p].cmd = "sweep",
           pc'[p] # "idle"
    PROVE  SweepOK(pc[p], loc[p])'
<1>1. /\ pc \in [Procs -> Labels] /\ loc \in [Procs -> Locals] /\ SweepOK(pc[p], loc[p])
      /\ pc[p] \in {"sweep", "purge", "forget", "converge"} \cup EndSteps
      /\ LocalOK(pc[p], loc[p]) /\ registry \subseteq recorded /\ recorded \subseteq Handed
  BY IInvParts DEF ProcInv, KnownInv, KnownOK, ControlInv, StepsOf, KeysInv
<1>2. CASE pc[p] = "sweep"
  <2>1. SweepRead(p) /\ UNCHANGED <<past, origin>>
    BY <1>2, WorkPlaces, WorkChanges
  <2>2. /\ pc'[p] = "purge"
        /\ loc'[p] = [loc[p] EXCEPT !.todo = Owned, !.due = Owned \cap past]
    BY <2>1, <1>1 DEF SweepRead, DiesReading, Goto, Exit
  <2>3. loc'[p].todo = Owned /\ loc'[p].due = Owned \cap past
    BY <2>2, <1>1 DEF Locals
  <2> QED BY <1>1, <2>1, <2>2, <2>3 DEF SweepOK, EndSteps, Owned, Handed
<1>3. CASE pc[p] = "purge"
  BY <1>1, <1>3, WorkPlaces, PurgeKnown
<1>4. CASE pc[p] = "forget"
  <2>1. Forget(p) /\ UNCHANGED <<origin, links>>
    BY <1>4, WorkPlaces, WorkChanges
  <2>2. pc'[p] = "converge" /\ loc'[p].due = loc[p].due /\ registry' = registry \ loc[p].gone
    BY <2>1, <1>1 DEF Forget, DiesReading, Goto, Exit, Locals
  <2>3. loc[p].due \subseteq loc[p].gone /\ loc[p].gone \subseteq Handed \ links
    BY <1>1, <1>4 DEF SweepOK, LocalOK
  <2> QED BY <2>1, <2>2, <2>3 DEF SweepOK, EndSteps, Handed
<1>5. CASE pc[p] = "converge"
  <2>1. Converge(p) /\ UNCHANGED <<origin, links>> /\ registry' \subseteq registry
    BY <1>5, WorkPlaces, WorkChanges
  <2>2. pc'[p] = "survey" /\ loc'[p].due = loc[p].due /\ loc'[p].active = Active
    BY <2>1, <1>1 DEF Converge, DiesReading, Goto, Exit, Locals
  <2>3. loc[p].due \cap (links \cup registry) = {} /\ loc[p].due \subseteq Handed
    BY <1>1, <1>5 DEF SweepOK
  <2> QED BY <2>1, <2>2, <2>3 DEF SweepOK, EndSteps, Handed, Active, Owned
<1>6. CASE pc[p] \in EndSteps
  BY <1>1, <1>6, EndKeeps DEF SweepOK, Handed, EndSteps
<1> QED BY <1>1, <1>2, <1>3, <1>4, <1>5, <1>6

\* Of all the steps of an adopt.
LEMMA AdoptKnown ==
    ASSUME IInv, ControlInv, KnownInv, NEW p \in Procs, Work(p), loc[p].cmd = "adopt",
           pc'[p] # "idle"
    PROVE  AdoptOK(pc[p], loc[p])'
<1>1. /\ pc \in [Procs -> Labels] /\ loc \in [Procs -> Locals] /\ AdoptOK(pc[p], loc[p])
      /\ pc[p] \in {"adopt", "add", "sync"} \cup PublishSteps \cup EndSteps
      /\ PublishSteps \cup EndSteps \subseteq SyncSteps /\ "sync" \in SyncSteps
  BY IInvParts DEF ProcInv, KnownInv, KnownOK, ControlInv, StepsOf, SyncSteps
<1>2. CASE pc[p] = "adopt"
  <2>1. pc'[p] = "add"
    BY <1>1, <1>2, WorkPlaces DEF AdoptRead, DiesReading, Goto, Exit
  <2> QED BY <2>1 DEF AdoptOK, SyncSteps, PublishSteps, EndSteps
<1>3. CASE pc[p] = "add"
  <2>1. loc'[p].key = loc[p].key /\ recorded' = recorded \cup {loc[p].key}
    BY <1>1, <1>3, WorkPlaces DEF Record, Strands, Go, Goto, Exit
  <2> QED BY <2>1 DEF AdoptOK
<1>4. CASE pc[p] \in {"sync"} \cup PublishSteps \cup EndSteps
  <2>1. recorded' = recorded /\ loc[p].key \in recorded
    BY <1>1, <1>4, WorkChanges DEF AdoptOK, PublishSteps, EndSteps
  <2>2. loc'[p].key = loc[p].key
    <3>1. CASE pc[p] = "sync"
      <4>1. loc'[p] = [loc[p] EXCEPT !.active = Active, !.todo = Active]
        BY <1>1, <3>1, WorkPlaces DEF SyncRead, DiesReading, Goto, Exit
      <4> QED BY <1>1, <4>1 DEF Locals
    <3>2. CASE pc[p] \in {"enable", "restore"}
      BY <1>1, <3>2, WorkPlaces DEF EnableForward, Restore, Call, Go, Goto, Exit, Die
    <3>3. CASE pc[p] = "write"
      BY <1>1, <3>3, WorkPlaces DEF Write, Call, Goto, Exit, Die, Locals
    <3>4. CASE pc[p] = "validate"
      BY <1>1, <3>4, WorkPlaces, ValidateMoves DEF Moves, Locals
    <3>5. CASE pc[p] \in EndSteps
      BY <3>5, EndKeeps
    <3> QED BY <1>4, <3>1, <3>2, <3>3, <3>4, <3>5 DEF PublishSteps, EndSteps
  <2> QED BY <2>1, <2>2 DEF AdoptOK
<1> QED BY <1>1, <1>2, <1>3, <1>4

\* Of all the steps of a list.
LEMMA ListKnown ==
    ASSUME IInv, ControlInv, KnownInv, NEW p \in Procs, Work(p), loc[p].cmd = "list",
           pc'[p] # "idle"
    PROVE  ListOK(pc[p], loc[p])'
<1>1. /\ pc \in [Procs -> Labels] /\ loc \in [Procs -> Locals] /\ ListOK(pc[p], loc[p])
      /\ pc[p] \in ListSteps /\ recorded \subseteq Handed
      /\ Installed \subseteq recorded \cup {Globals}
  BY IInvParts DEF ProcInv, KnownInv, KnownOK, ControlInv, StepsOf, KeysInv, EdgeInv,
        OnlyRecordedPublished
<1>2. UNCHANGED <<origin, links, recorded>>
  BY <1>1, WorkChanges DEF ListSteps
<1>3. CASE pc[p] = "list"
  <2>1. pc'[p] = "listSnippets" /\ loc'[p].orphans = links
    BY <1>1, <1>3, WorkPlaces DEF ListLinks, DiesReading, Goto, Exit, Locals
  <2> QED BY <1>2, <2>1 DEF ListOK
<1>4. CASE pc[p] = "listSnippets"
  <2>1. pc'[p] = "listed" /\ loc'[p].orphans = (Installed \ {Globals}) \ loc[p].orphans
    BY <1>1, <1>4, WorkPlaces DEF ListSnippets, DiesReading, Goto, Exit, Locals
  <2> QED BY <1>1, <1>2, <1>4, <2>1 DEF ListOK, Handed
<1>5. CASE pc[p] = "listed"
  BY <1>1, <1>5, WorkPlaces DEF Leave, Exit, Goto, Verdicts
<1> QED BY <1>1, <1>3, <1>4, <1>5 DEF ListSteps

\* What a process knows outlives the steps that leave its claims alone.
LEMMA KnownStays ==
    ASSUME IInv, KeysMove, UNCHANGED <<registry, recorded, fate>>, NEW q \in Procs,
           KnownOK(pc[q], loc[q]), pc'[q] = pc[q], loc'[q] = loc[q]
    PROVE  KnownOK(pc[q], loc[q])'
<1>1. recorded \subseteq Handed
  BY IInvParts DEF KeysInv
<1>2. ListOK(pc[q], loc[q])'
  BY <1>1 DEF KnownOK, ListOK, KeysMove
<1>3. CloseOK(pc[q], loc[q])'
  BY <1>1 DEF KnownOK, CloseOK, KeysMove
<1>4. OwnOK(pc[q], loc[q])'
  BY DEF KnownOK, OwnOK, KeysMove
<1>5. SweepOK(pc[q], loc[q])' /\ AdoptOK(pc[q], loc[q])'
  BY DEF KnownOK, SweepOK, AdoptOK, KeysMove
<1> QED BY <1>2, <1>3, <1>4, <1>5 DEF KnownOK

\* A call keeps what each process knows of the links.
LEMMA WorkKnown ==
    ASSUME IInv, ControlInv, KnownInv, NEW p \in Procs, Work(p)
    PROVE  KnownInv'
<1>1. Holds(p) /\ OnlyOf(p) /\ Proceeds(p)
  BY WorkProceeds
<1>2. KnownOK(pc[p], loc[p])'
  <2>1. CASE pc'[p] = "idle"
    BY <1>1, <2>1, RestKnown DEF Proceeds, StepsOf
  <2>2. CASE pc'[p] # "idle"
    BY <2>2, KnownByCommand, OpenKnown, CloseKnown, SweepKnown, AdoptKnown, ListKnown
  <2> QED BY <2>1, <2>2
<1>3. ASSUME NEW q \in Procs \ {p} PROVE KnownOK(pc[q], loc[q])'
  <2>1. CASE Mutating(p)
    BY <1>1, <2>1, Alone, RestKnown DEF OnlyOf
  <2>2. CASE ~Mutating(p)
    <3>1. UNCHANGED <<registry, recorded, fate>>
      BY <1>1, <2>2, WorkChanges DEF Mutating, ListSteps
    <3> QED BY <1>1, <3>1, WorkKeys, KnownStays DEF KnownInv, OnlyOf
  <2> QED BY <2>1, <2>2
<1> QED BY <1>2, <1>3, WorkFates DEF KnownInv

\* A command that starts knows nothing yet.
LEMMA EnterKnown ==
    ASSUME IInv, KnownInv, NEW p \in Procs, NEW c \in Commands, Enter(p, c)
    PROVE  KnownInv'
<1>1. /\ pc'[p] = c /\ loc'[p] = [Blank EXCEPT !.cmd = c]
      /\ \A q \in Procs \ {p} : pc'[q] = pc[q] /\ loc'[q] = loc[q]
      /\ UNCHANGED <<links, past, origin, registry, recorded, fate>>
  BY IInvParts DEF Enter, Goto, ProcInv, Unchanged, immichVars, localVars
<1>2. KeysMove /\ FateOK' /\ FailedGone'
  BY <1>1 DEF KeysMove, Handed, KnownInv, FateOK, FailedGone
<1>3. KnownOK(pc[p], loc[p])'
  <2>1. ListOK(pc[p], loc[p])' /\ CloseOK(pc[p], loc[p])' /\ OwnOK(pc[p], loc[p])'
    BY <1>1 DEF ListOK, CloseOK, OwnOK, Blank, Commands, EndSteps, PublishSteps
  <2>2. SweepOK(pc[p], loc[p])' /\ AdoptOK(pc[p], loc[p])'
    BY <1>1 DEF SweepOK, AdoptOK, Blank, Commands, EndSteps, PublishSteps, SyncSteps
  <2> QED BY <2>1, <2>2 DEF KnownOK
<1> QED BY <1>1, <1>2, <1>3, KnownStays DEF KnownInv

\* What a killed process knew is lost, what the others know is not.
LEMMA KillKnown ==
    ASSUME IInv, ControlInv, KnownInv, NEW p \in Procs, Kill(p)
    PROVE  KnownInv'
<1>1. /\ pc'[p] = "idle" /\ loc'[p] = Blank /\ OnlyOf(p) /\ Holds(p)
      /\ UNCHANGED <<links, past, origin, registry, recorded>>
  BY IInvParts DEF Kill, Exit, Goto, ProcInv, immichVars, localVars, OnlyOf, Holds
<1>2. KeysMove
  BY <1>1 DEF KeysMove, Handed
<1>3. \/ fate' = fate
      \/ /\ fate' = [fate EXCEPT ![loc[p].key] = "killed"]
         /\ loc[p].cmd = "open" /\ loc[p].key # NoKey
  BY DEF Kill
<1>4. FateOK' /\ FailedGone'
  <2>1. loc[p].cmd = "open" /\ loc[p].key # NoKey => loc[p].key \in Handed
    BY DEF KnownInv, KnownOK, OwnOK
  <2>2. fate \in [Keys -> {"none", "failed", "stranded", "warned", "killed"}] /\ Handed' = Handed
    BY <1>1, IInvParts DEF CountInv, Handed
  <2> QED BY <1>1, <1>3, <2>1, <2>2 DEF KnownInv, FateOK, FailedGone
<1>5. ASSUME NEW q \in Procs \ {p} PROVE KnownOK(pc[q], loc[q])'
  <2>1. CASE Mutating(p)
    BY <1>1, <2>1, Alone, RestKnown DEF OnlyOf
  <2>2. CASE ~Mutating(p)
    BY <1>1, <1>2, <1>3, <2>2, Lists, KnownStays DEF KnownInv, OnlyOf, Mutating
  <2> QED BY <2>1, <2>2
<1> QED BY <1>1, <1>4, <1>5, RestKnown DEF KnownInv

\* What happens without immich-share gives no link a second life.
LEMMA EnvironmentKeys ==
    ASSUME IInv, Environment
    PROVE  KeysMove
<1>1. KeysInv
  BY IInvParts
<1>2. ASSUME NEW k \in Keys, UserCreate(k) PROVE KeysMove
  BY <1>1, <1>2 DEF UserCreate, Fresh, Handed, KeysMove, KeysInv
<1>3. ASSUME NEW k \in Keys, Expire(k) \/ UserDelete(k) PROVE KeysMove
  BY <1>3 DEF Expire, UserDelete, Handed, KeysMove
<1>4. CASE CaddyRestart \/ \E o \in late : Land(o)
  BY <1>4 DEF CaddyRestart, Land, immichVars, Handed, KeysMove
<1> QED BY <1>2, <1>3, <1>4 DEF Environment

\* Users, clocks and late commands leave that knowledge true.
LEMMA EnvironmentKnown ==
    ASSUME IInv, KnownInv, Environment \/ UNCHANGED vars
    PROVE  KnownInv'
<1>1. KeysMove
  BY EnvironmentKeys DEF vars, immichVars, KeysMove, Handed
<1>2. UNCHANGED <<registry, recorded, fate, pc, loc>>
  BY DEF Environment, vars, localVars
<1>3. FateOK' /\ FailedGone'
  BY <1>1, <1>2 DEF KnownInv, FateOK, FailedGone, KeysMove
<1> QED BY <1>1, <1>2, <1>3, KnownStays DEF KnownInv

-----------------------------------------------------------------------------
(* What a call does to the edge, if no command is left behind.             *)

\* What a call does to the edge when it leaves no command behind.
LEMMA CallDoes ==
    ASSUME NEW o \in EdgeOp, late' = {}
    PROVE  /\ Succeeds(o) => Works(o) /\ Apply(o)
           /\ Errs(o) => UNCHANGED edgeVars \/ \E q \in Partly(o) : Works(q) /\ Apply(q)
BY DEF Succeeds, Errs

\* An upload that fails may have left a truncated snippet.
LEMMA WriteDoes ==
    ASSUME EdgeInv, NEW n \in Names, late' = {}
    PROVE  /\ Succeeds(WriteOp(n)) =>
                disk' = [disk EXCEPT ![n] = "good"] /\ UNCHANGED <<running, forward>>
           /\ Errs(WriteOp(n)) =>
                /\ \E c \in {"good", "bad", disk[n]} : disk' = [disk EXCEPT ![n] = c]
                /\ UNCHANGED <<running, forward>>
<1> DEFINE o == WriteOp(n)
<1>1. o \in EdgeOp /\ o.do = "cat" /\ o.names = {n} /\ o.content = "good"
  BY OpTypes DEF WriteOp
<1>2. disk \in [Names -> Contents]
  BY DEF EdgeInv
<1>3. ASSUME Apply(o) PROVE disk' = [disk EXCEPT ![n] = "good"] /\ UNCHANGED <<running, forward>>
  BY <1>1, <1>2, <1>3 DEF Apply, FileOps
<1>4. ASSUME NEW q \in Partly(o), Apply(q)
      PROVE  \E c \in {"good", "bad"} : disk' = [disk EXCEPT ![n] = c] /\ UNCHANGED <<running, forward>>
  <2>1. q = o \/ q = [o EXCEPT !.content = "bad"]
    BY <1>1 DEF Partly
  <2>2. q.do = "cat" /\ q.names = {n} /\ q.content \in {"good", "bad"}
    BY <1>1, <2>1 DEF EdgeOp
  <2> QED BY <1>2, <1>4, <2>2 DEF Apply, FileOps
<1>5. UNCHANGED edgeVars => disk' = [disk EXCEPT ![n] = disk[n]] /\ UNCHANGED <<running, forward>>
  BY <1>2 DEF edgeVars
<1> QED BY <1>1, <1>3, <1>4, <1>5, CallDoes

\* A removal that fails may have removed some of the files.
LEMMA RemoveDoes ==
    ASSUME EdgeInv, NEW S \in SUBSET Names, late' = {}
    PROVE  /\ Succeeds(RemoveOp(S)) =>
                /\ disk' = [m \in Names |-> IF m \in S THEN "absent" ELSE disk[m]]
                /\ UNCHANGED <<running, forward>>
           /\ Errs(RemoveOp(S)) =>
                /\ \E T \in SUBSET S : disk' = [m \in Names |-> IF m \in T THEN "absent" ELSE disk[m]]
                /\ UNCHANGED <<running, forward>>
<1> DEFINE Removed(T) == /\ disk' = [m \in Names |-> IF m \in T THEN "absent" ELSE disk[m]]
                         /\ UNCHANGED <<running, forward>>
<1>1. disk \in [Names -> Contents]
  BY DEF EdgeInv
<1>2. ASSUME NEW T \in SUBSET Names, Apply(RemoveOp(T)) PROVE Removed(T)
  BY <1>2 DEF Apply, RemoveOp, FileOps
<1>3. Partly(RemoveOp(S)) = {RemoveOp(T) : T \in SUBSET S}
  BY DEF Partly, RemoveOp
<1>4. UNCHANGED edgeVars => Removed({})
  BY <1>1 DEF edgeVars
<1>5. RemoveOp(S) \in EdgeOp
  BY OpTypes
<1>6. Succeeds(RemoveOp(S)) => Removed(S)
  BY <1>2, <1>5, CallDoes
<1>7. ASSUME Errs(RemoveOp(S)) PROVE \E T \in SUBSET S : Removed(T)
  <2>1. UNCHANGED edgeVars \/ \E q \in Partly(RemoveOp(S)) : Apply(q)
    BY <1>5, <1>7, CallDoes
  <2>2. UNCHANGED edgeVars \/ \E T \in SUBSET S : Apply(RemoveOp(T))
    BY <1>3, <2>1
  <2> HIDE DEF Removed
  <2> QED BY <1>2, <1>4, <2>2
<1> QED BY <1>6, <1>7

\* A restored backup is put back whole or not at all.
LEMMA RestoreDoes ==
    ASSUME EdgeInv, NEW n \in Names, NEW c \in Contents, late' = {},
           Succeeds(RestoreOp(n, c)) \/ Errs(RestoreOp(n, c))
    PROVE  /\ disk' \in {disk, [disk EXCEPT ![n] = c]}
           /\ UNCHANGED <<running, forward>>
<1>1. RestoreOp(n, c) \in EdgeOp /\ Partly(RestoreOp(n, c)) = {RestoreOp(n, c)}
  BY OpTypes DEF Partly, RestoreOp
<1>2. UNCHANGED edgeVars \/ Apply(RestoreOp(n, c))
  BY <1>1, CallDoes
<1> QED BY <1>2 DEF Apply, RestoreOp, FileOps, edgeVars, EdgeInv

\* A reload loads what parses.
LEMMA ReloadDoes ==
    ASSUME late' = {}
    PROVE  /\ Succeeds(ReloadOp) => Parses /\ running' = Installed /\ UNCHANGED <<disk, forward>>
           /\ Errs(ReloadOp) =>
                /\ running' = running \/ (Parses /\ running' = Installed)
                /\ UNCHANGED <<disk, forward>>
<1>1. ReloadOp \in EdgeOp /\ Partly(ReloadOp) = {ReloadOp}
  BY OpTypes DEF Partly, ReloadOp
<1>2. Works(ReloadOp) /\ Apply(ReloadOp) =>
        Parses /\ running' = Installed /\ UNCHANGED <<disk, forward>>
  BY DEF Works, Apply, ReloadOp, FileOps
<1> QED BY <1>1, <1>2, CallDoes DEF edgeVars

\* The forward is switched, or left as it was.
LEMMA ForwardDoes ==
    ASSUME NEW on \in BOOLEAN, late' = {}
    PROVE  /\ Succeeds(ForwardOp(on)) => forward' = on /\ UNCHANGED <<disk, running>>
           /\ Errs(ForwardOp(on)) => forward' \in {forward, on} /\ UNCHANGED <<disk, running>>
<1>1. ForwardOp(on) \in EdgeOp /\ Partly(ForwardOp(on)) = {ForwardOp(on)}
  BY OpTypes DEF Partly, ForwardOp
<1>2. Apply(ForwardOp(on)) => forward' = on /\ UNCHANGED <<disk, running>>
  BY DEF Apply, ForwardOp, FileOps
<1> QED BY <1>1, <1>2, CallDoes DEF edgeVars

-----------------------------------------------------------------------------
(* Who answers for a share.                                                *)

\* While a process changes things, no other one is opening a share.
LEMMA Answers ==
    ASSUME IInv, ControlInv, NEW p \in Procs, Mutating(p), OnlyOf(p), NEW k \in Keys
    PROVE  /\ Excused(k) <=> Ended(k) \/ (loc[p].cmd = "open" /\ loc[p].key = k)
           /\ Excused(k)' <=> Ended(k)' \/ (loc'[p].cmd = "open" /\ loc'[p].key = k)
<1>1. \A q \in Procs \ {p} : loc[q].cmd = "none" /\ loc'[q].cmd = "none"
  BY Alone DEF OnlyOf, Blank
<1> QED BY <1>1 DEF Excused

\* The active shares: reading the links forgets none of them, and only a
\* process that records a share adds one.
LEMMA ActiveMove ==
    ASSUME IInv, NEW p \in Procs, Work(p), pc[p] # "add"
    PROVE  Active' \subseteq Active
<1>1. CASE pc[p] = "create"
  <2>1. UNCHANGED <<registry, past>> /\ registry \cap Fresh = {}
    BY <1>1, WorkChanges, IInvParts DEF KeysInv, Handed, Fresh
  <2> QED BY <1>1, <2>1, WorkPlaces DEF CreateLink, Strands, Active, Owned
<1>2. CASE pc[p] # "create"
  BY <1>2, WorkChanges DEF Active, Owned
<1> QED BY <1>1, <1>2

\* managed_links forgets no active share.
LEMMA ManagedActive ==
    ASSUME ManagedLinks
    PROVE  Active' = Active
BY DEF ManagedLinks, Active, Owned, immichVars

\* What is recorded while it has a link comes without a route.
LEMMA RecordActive ==
    ASSUME IInv, NEW p \in Procs, Record(p)
    PROVE  /\ Active' \subseteq Active \cup {loc[p].key}
           /\ loc[p].key \in Active' \ Active => loc[p].key \notin Installed \cup running
<1>1. UNCHANGED <<links, past, disk, running>> /\ registry' \subseteq registry \cup {loc[p].key}
  BY DEF Record, Strands, immichVars, edgeVars, localVars
<1>2. recorded \cap links \subseteq registry /\ Installed \cup running \subseteq recorded \cup {Globals}
  BY IInvParts DEF KeysInv, EdgeInv, OwnershipKept, OnlyRecordedPublished
<1>3. links \subseteq Keys
  BY IInvParts DEF KeysInv
<1> QED BY <1>1, <1>2, <1>3, KeysAssumption DEF Active, Owned

-----------------------------------------------------------------------------
(* The steps that work on the edge, as moves of the process together with  *)
(* what becomes of the edge.                                               *)

Removes(S) == disk' = [m \in Names |-> IF m \in S THEN "absent" ELSE disk[m]]

\* The step that enables the forward.
LEMMA EnableMoves ==
    ASSUME IInv, late' = {}, NEW p \in Procs, EnableForward(p)
    PROVE  /\ UNCHANGED <<disk, running>>
           /\ \/ forward' /\ Moves(p, "write", loc[p])
              \/ (forward => forward') /\ Dies(p)
<1>1. forward \in BOOLEAN
  BY Here DEF EdgeInv
<1> QED BY <1>1, ForwardDoes, GotoMove DEF EnableForward, Call

\* The step that uploads a snippet.
LEMMA WriteMoves ==
    ASSUME IInv, late' = {}, NEW p \in Procs, Write(p)
    PROVE  /\ UNCHANGED <<running, forward>>
           /\ \/ /\ disk' = [disk EXCEPT ![loc[p].name] = "good"]
                 /\ Moves(p, "validate", [loc[p] EXCEPT !.backup = disk[loc[p].name]])
              \/ /\ \E c \in {"good", "bad", disk[loc[p].name]} :
                      disk' = [disk EXCEPT ![loc[p].name] = c]
                 /\ Dies(p)
<1>1. EdgeInv /\ loc[p].name \in Names
  BY Here DEF Locals
<1> QED BY <1>1, WriteDoes, GotoMove DEF Write, Call

\* The step that restores what it replaced.
LEMMA RestoreMoves ==
    ASSUME IInv, late' = {}, NEW p \in Procs, Restore(p)
    PROVE  /\ UNCHANGED <<running, forward>>
           /\ disk' \in {disk, [disk EXCEPT ![loc[p].name] = loc[p].backup]}
           /\ Dies(p)
<1>1. EdgeInv /\ loc[p].name \in Names /\ loc[p].backup \in Contents
  BY Here DEF Locals
<1> QED BY <1>1, RestoreDoes, GotoMove DEF Restore, Call

\* The step that lists the snippets.
LEMMA SurveyMoves ==
    ASSUME IInv, NEW p \in Procs, Survey(p)
    PROVE  \/ LET stale == Installed \ Keep(loc[p].active)
              IN Moves(p, IF stale # {} THEN "remove" ELSE Settled(p), [loc[p] EXCEPT !.stale = stale])
           \/ Moves(p, "idle", Blank)
BY GotoMove DEF Survey, DiesReading

\* The step that removes the stale ones.
LEMMA RemoveMoves ==
    ASSUME IInv, late' = {}, NEW p \in Procs, Remove(p)
    PROVE  /\ UNCHANGED <<running, forward>>
           /\ \/ Removes(loc[p].stale) /\ Moves(p, "reload", loc[p])
              \/ (\E T \in SUBSET loc[p].stale : Removes(T)) /\ Moves(p, "idle", Blank)
<1>1. EdgeInv /\ loc[p].stale \in SUBSET Names
  BY Here DEF Locals
<1> QED BY <1>1, RemoveDoes, GotoMove DEF Remove, Call, Removes

\* The step that reloads Caddy.
LEMMA ReloadMoves ==
    ASSUME IInv, late' = {}, NEW p \in Procs, Reload(p)
    PROVE  /\ UNCHANGED <<disk, forward>>
           /\ \/ /\ Parses /\ running' = Installed
                 /\ Moves(p, IF loc[p].cmd = "open" THEN "opened" ELSE Finish(p), loc[p])
              \/ running' \in {running, Installed} /\ Dies(p)
BY ReloadDoes, GotoMove DEF Reload, Call

\* The step that disables the forward.
LEMMA DisableMoves ==
    ASSUME IInv, late' = {}, NEW p \in Procs, Disable(p)
    PROVE  /\ UNCHANGED <<disk, running>>
           /\ (~forward' /\ Moves(p, "closed", loc[p])) \/ Moves(p, "idle", Blank)
BY ForwardDoes, GotoMove DEF Disable, Call

Warned(p, l) == Moves(p, l, [loc[p] EXCEPT !.warned = TRUE])

\* The rollback that removes the snippet of the share.
LEMMA UndoKeyMoves ==
    ASSUME IInv, late' = {}, NEW p \in Procs, UndoKey(p)
    PROVE  /\ UNCHANGED <<running, forward>>
           /\ \/ /\ Removes({loc[p].key})
                 /\ Moves(p, IF loc[p].prior THEN "undoReload" ELSE "undoGlobals", loc[p])
              \/ (\E T \in SUBSET {loc[p].key} : Removes(T)) /\ Warned(p, AfterVps(p))
<1>1. EdgeInv /\ {loc[p].key} \in SUBSET Names
  BY Here, IInvParts DEF UndoKey, LocalOK, RollbackSteps, KeysInv, Names
<1> QED BY <1>1, RemoveDoes, GotoMove DEF UndoKey, Call, Removes, Warned

\* The rollback that removes the globals.
LEMMA UndoGlobalsMoves ==
    ASSUME IInv, late' = {}, NEW p \in Procs, UndoGlobals(p)
    PROVE  /\ UNCHANGED <<running, forward>>
           /\ \/ Removes({Globals}) /\ Moves(p, "undoReload", loc[p])
              \/ (\E T \in SUBSET {Globals} : Removes(T)) /\ Warned(p, AfterVps(p))
<1>1. EdgeInv /\ {Globals} \in SUBSET Names
  BY Here DEF Names
<1> QED BY <1>1, RemoveDoes, GotoMove DEF UndoGlobals, Call, Removes, Warned

\* The rollback that reloads Caddy.
LEMMA UndoReloadMoves ==
    ASSUME IInv, late' = {}, NEW p \in Procs, UndoReload(p)
    PROVE  /\ UNCHANGED <<disk, forward>>
           /\ \/ running' = Installed /\ Moves(p, AfterVps(p), loc[p])
              \/ running' \in {running, Installed} /\ Warned(p, AfterVps(p))
BY ReloadDoes, GotoMove DEF UndoReload, Call, Warned

\* The rollback that disables the forward.
LEMMA UndoForwardMoves ==
    ASSUME IInv, late' = {}, NEW p \in Procs, UndoForward(p)
    PROVE  /\ UNCHANGED <<disk, running>>
           /\ Moves(p, "undoLink", loc[p]) \/ Warned(p, "undoLink")
BY ForwardDoes, GotoMove DEF UndoForward, Call, Warned

-----------------------------------------------------------------------------
(* What an open that succeeds and a survey rely on.                        *)

\* A process keeps to its command.
LEMMA KeepsCommand ==
    ASSUME IInv, ControlInv, NEW p \in Procs, Work(p), pc'[p] # "idle"
    PROVE  pc'[p] \in StepsOf(loc[p].cmd) /\ loc'[p].cmd = loc[p].cmd
BY WorkProceeds DEF Proceeds

\* An open writes, validates and loads both of its snippets.
LEMMA OpenWhole ==
    ASSUME IInv, ControlInv, KnownInv, ReportInv, late' = {}, NEW p \in Procs, Work(p),
           loc[p].cmd = "open", pc'[p] # "idle"
    PROVE  WholeOK(pc[p], loc[p])'
<1>1. /\ loc[p] \in Locals /\ disk \in [Names -> Contents] /\ KeysInv
      /\ WholeOK(pc[p], loc[p]) /\ ServedOK(pc[p], loc[p]) /\ OwnOK(pc[p], loc[p])
      /\ pc[p] \in OpenSteps \cup PublishSteps \cup RollbackSteps
  BY IInvParts, Here DEF EdgeInv, ReportInv, KnownInv, KnownOK, ControlInv, StepsOf
<1>2. pc[p] \notin {"open", "create"} => loc[p].key \in Keys \cap Names /\ loc[p].key # Globals
  BY <1>1, KeysAssumption DEF OwnOK, Handed, Names
<1>3. CASE pc[p] \in {"open", "create", "unadd", "undoLink", "opened"}
  <2>1. pc'[p] \in {"create", "add", "idle"}
    <3> USE IInvParts DEF ProcInv, Goto, Exit
    <3>1. CASE OpenRead(p) \/ CreateLink(p)
      BY <3>1 DEF OpenRead, CreateLink, Strands
    <3>2. CASE Unadd(p) \/ UndoLink(p) \/ Leave(p)
      BY <3>2 DEF Unadd, UndoLink, Leave
    <3> QED BY <1>3, <3>1, <3>2, WorkPlaces DEF Verdicts
  <2> QED BY <2>1 DEF WholeOK
<1>4. CASE pc[p] = "add"
  <2>1. Record(p)
    BY <1>4, WorkPlaces
  <2>2. \/ Moves(p, "enable", [loc[p] EXCEPT !.todo = {loc[p].key}])
        \/ Moves(p, "unadd", loc[p])
        \/ Moves(p, "idle", Blank)
    BY <2>1, GotoMove DEF Record, Strands
  <2> QED BY <1>1, <1>4, <2>2 DEF WholeOK, ServedOK, Moves, Locals
<1>5. CASE pc[p] = "enable"
  <2>1. EnableForward(p)
    BY <1>5, WorkPlaces
  <2>2. UNCHANGED <<disk, running>> /\ ((forward' /\ Moves(p, "write", loc[p])) \/ Dies(p))
    BY <2>1, EnableMoves
  <2>3. CASE forward' /\ Moves(p, "write", loc[p])
    BY <1>1, <1>2, <1>5, <2>2, <2>3 DEF WholeOK, Moves
  <2>4. CASE Dies(p)
    BY <2>4 DEF WholeOK, Dies
  <2> QED BY <2>2, <2>3, <2>4
<1>6. CASE pc[p] = "write"
  <2>1. Write(p)
    BY <1>6, WorkPlaces
  <2>2. CASE Dies(p)
    BY <2>2 DEF WholeOK, Dies
  <2>3. CASE /\ UNCHANGED <<running, forward>> /\ disk' = [disk EXCEPT ![loc[p].name] = "good"]
             /\ Moves(p, "validate", [loc[p] EXCEPT !.backup = disk[loc[p].name]])
    <3>1. /\ pc'[p] = "validate" /\ loc'[p].cmd = loc[p].cmd /\ loc'[p].key = loc[p].key
          /\ loc'[p].name = loc[p].name /\ loc'[p].todo = loc[p].todo /\ loc[p].name \in Names
      BY <1>1, <2>3 DEF Moves, Locals
    <3> QED BY <1>1, <1>2, <1>6, <2>3, <3>1 DEF WholeOK, Names
  <2> QED BY <2>1, <2>2, <2>3, WriteMoves
<1>7. CASE pc[p] = "validate"
  <2>1. Validate(p) /\ UNCHANGED <<disk, running, forward>>
    BY <1>7, WorkPlaces, WorkChanges DEF EdgeSteps, edgeVars
  <2>2. CASE loc[p].todo = {} /\ Parses
             /\ Moves(p, AfterSnippets(p), [loc[p] EXCEPT !.name = Globals, !.backup = "absent"])
    BY <1>1, <1>7, <2>1, <2>2 DEF WholeOK, AfterSnippets, Moves, Locals, Parses
  <2>3. CASE \E k \in loc[p].todo :
               Moves(p, "write", [loc[p] EXCEPT !.name = k, !.backup = "absent",
                                                !.todo = loc[p].todo \ {k}])
    BY <1>1, <1>2, <1>7, <2>1, <2>3 DEF WholeOK, Moves, Locals
  <2>4. CASE Moves(p, "restore", loc[p])
    BY <1>1, <1>7, <2>1, <2>4 DEF WholeOK, Moves
  <2> QED BY <2>1, <2>2, <2>3, <2>4, ValidateMoves
<1>8. CASE pc[p] = "restore"
  <2>1. Restore(p)
    BY <1>8, WorkPlaces
  <2> USE <2>1, RestoreMoves
  <2> QED BY <1>1, <1>8 DEF WholeOK, Dies
<1>9. CASE pc[p] = "reload"
  <2>1. Reload(p)
    BY <1>9, WorkPlaces
  <2>2. CASE Dies(p)
    BY <2>2 DEF WholeOK, Dies
  <2>3. CASE UNCHANGED <<disk, forward>> /\ running' = Installed /\ Moves(p, "opened", loc[p])
    <3>1. {loc[p].key, Globals} \subseteq Installed
      BY <1>1, <1>2, <1>9 DEF WholeOK, Installed, Names
    <3> QED BY <1>1, <1>9, <2>3, <3>1 DEF WholeOK, Moves, Parses
  <2> QED BY <2>1, <2>2, <2>3, ReloadMoves
<1>10. CASE pc[p] \in {"undoKey", "undoGlobals", "undoReload", "undoForward"}
  <2>1. pc'[p] \in RollbackSteps
    BY <1>10, WorkPlaces, GotoMove DEF UndoKey, UndoGlobals, UndoReload, UndoForward, AfterVps,
          Call, Moves, RollbackSteps
  <2> QED BY <2>1 DEF WholeOK, RollbackSteps
<1> QED BY <1>1, <1>3, <1>4, <1>5, <1>6, <1>7, <1>8, <1>9, <1>10
        DEF OpenSteps, PublishSteps, RollbackSteps

\* The end of a command begins with a survey.
LEMMA EndFrom ==
    ASSUME IInv, ControlInv, NEW p \in Procs, Work(p), loc[p].cmd # "open", pc[p] \notin EndSteps
    PROVE  pc'[p] \notin {"remove", "reload", "disable", "done", "closed"}
<1>1. /\ pc \in [Procs -> Labels] /\ loc[p].cmd # "open" /\ pc[p] \notin EndSteps
      /\ pc[p] = "unadd" => loc[p].cmd = "open"
  BY IInvParts, Here DEF ProcInv, LocalOK
<1> USE <1>1 DEF Goto, Go, Exit, Die, Warn, EndSteps
<1>2. CASE OpenRead(p) \/ CreateLink(p)
  BY <1>2 DEF OpenRead, CreateLink, Strands
<1>3. CASE Record(p) \/ Unadd(p) \/ EnableForward(p)
  BY <1>3 DEF Record, Strands, Unadd, EnableForward, Call
<1>4. CASE Snippet(p)
  BY <1>4 DEF Snippet, Write, Validate, NextSnippet, AfterSnippets, Restore, Call
<1>5. CASE Converging(p)
  BY <1>5 DEF Converging, Survey, Remove, Reload, Disable
<1>6. CASE Rollback(p)
  BY <1>6 DEF Rollback, UndoKey, UndoGlobals, UndoReload, UndoForward, UndoLink, AfterVps, Call
<1>7. CASE Close(p)
  BY <1>7 DEF Close, CloseRead, Revoke, DiesReading
<1>8. CASE Sweep(p)
  BY <1>8 DEF Sweep, SweepRead, Purge, Forget, Converge, DiesReading
<1>9. CASE Sync(p)
  BY <1>9 DEF Sync, SyncRead, AdoptRead, DiesReading
<1>10. CASE List(p) \/ Leave(p)
  BY <1>10 DEF List, ListLinks, ListSnippets, Leave, DiesReading
<1> QED BY <1>2, <1>3, <1>4, <1>5, <1>6, <1>7, <1>8, <1>9, <1>10 DEF Work, Open

\* What the other commands leave installed is what they mean to keep.
LEMMA OtherSurvey ==
    ASSUME IInv, ControlInv, ReportInv, late' = {}, NEW p \in Procs, Work(p),
           loc[p].cmd # "open", pc'[p] # "idle"
    PROVE  SurveyOK(pc[p], loc[p])'
<1>1. /\ loc[p] \in Locals /\ disk \in [Names -> Contents] /\ loc'[p].cmd = loc[p].cmd
      /\ SurveyOK(pc[p], loc[p])
  BY IInvParts, Here, KeepsCommand DEF EdgeInv, ReportInv
<1>2. CASE pc[p] = "survey"
  <2>1. Survey(p) /\ Installed' = Installed
    BY <1>2, WorkPlaces, WorkChanges DEF EdgeSteps, edgeVars, Installed
  <2> DEFINE stale == Installed \ Keep(loc[p].active)
             r == [loc[p] EXCEPT !.stale = stale]
  <2>2. Moves(p, IF stale # {} THEN "remove" ELSE Settled(p), r)
    BY <1>1, <2>1, SurveyMoves DEF Moves
  <2>3. r.active = loc[p].active /\ r.stale = stale /\ r.cmd = loc[p].cmd
    BY <1>1 DEF Locals
  <2>4. stale = {} => Installed \subseteq Keep(loc[p].active)
    OBVIOUS
  <2> HIDE DEF r, stale
  <2>5. /\ loc'[p].active = loc[p].active
        /\ \/ pc'[p] = "remove" /\ loc'[p].stale = stale
           \/ stale = {} /\ pc'[p] = Settled(p)
    BY <2>2, <2>3 DEF Moves
  <2>6. /\ Settled(p) \in {"reload", "disable", "done"}
        /\ Settled(p) = "disable" => loc[p].active = {}
    BY DEF Settled, Finish
  <2>7. CASE pc'[p] = "remove" /\ loc'[p].stale = stale
    <3>1. Keep(loc[p].active)' = Keep(loc[p].active)
      BY <2>5 DEF Keep
    <3> QED BY <2>1, <2>5, <2>7, <3>1 DEF SurveyOK, stale
  <2>8. CASE stale = {} /\ pc'[p] = Settled(p)
    <3>1. Keep(loc[p].active)' = Keep(loc[p].active)
      BY <2>5 DEF Keep
    <3> QED BY <2>1, <2>4, <2>5, <2>6, <2>8, <3>1 DEF SurveyOK
  <2> QED BY <2>5, <2>7, <2>8
<1>3. CASE pc[p] = "remove"
  <2>1. Removes(loc[p].stale) /\ pc'[p] = "reload" /\ loc'[p] = loc[p]
    BY <1>3, WorkPlaces, RemoveMoves DEF Moves
  <2>2. Installed' \subseteq Installed \ loc[p].stale
    BY <2>1 DEF Removes, Installed
  <2> QED BY <1>1, <1>3, <2>1, <2>2 DEF SurveyOK, Keep
<1>4. CASE pc[p] = "reload"
  <2>1. /\ UNCHANGED <<disk, forward>> /\ loc'[p] = loc[p] /\ pc'[p] \in {"disable", "done"}
        /\ pc'[p] = "disable" => loc[p].active = {}
    BY <1>4, WorkPlaces, ReloadMoves DEF Moves, Dies, Finish
  <2> QED BY <1>1, <1>4, <2>1 DEF SurveyOK, Keep, Installed
<1>5. CASE pc[p] = "disable"
  BY <1>1, <1>5, WorkPlaces, DisableMoves DEF SurveyOK, Keep, Installed, Moves
<1>6. CASE pc[p] \in {"done", "closed"}
  BY <1>6, WorkPlaces, GotoMove DEF Leave, Verdicts, Moves
<1>7. CASE pc[p] \notin EndSteps
  BY <1>7, EndFrom DEF SurveyOK
<1> QED BY <1>2, <1>3, <1>4, <1>5, <1>6, <1>7 DEF EndSteps

\* What a sync that has ended well left is what it read as active.
LEMMA Synced ==
    ASSUME NEW r \in Locals, r.cmd \in {"sync", "adopt"}, SyncOK("done", r), SurveyOK("done", r),
           disk \in [Names -> Contents]
    PROVE  /\ Installed = r.active \cup {Globals} /\ Parses
           /\ running = Installed /\ forward
<1>1. /\ r.active # {} /\ forward /\ running = Installed
      /\ \A n \in r.active \cup {Globals} : disk[n] = "good"
  BY DEF SyncOK
<1>2. Installed \subseteq r.active \cup {Globals}
  BY <1>1 DEF SurveyOK, Keep
<1>3. r.active \cup {Globals} \subseteq Names
  BY DEF Locals, Names
<1> QED BY <1>1, <1>2, <1>3 DEF Installed, Parses

\* A sync or adopt uploads, validates and loads what is active.
LEMMA SyncWhole ==
    ASSUME IInv, ControlInv, ReportInv, late' = {}, NEW p \in Procs, Work(p),
           loc[p].cmd \in {"sync", "adopt"}, pc'[p] # "idle"
    PROVE  SyncOK(pc[p], loc[p])'
<1>1. /\ loc[p] \in Locals /\ disk \in [Names -> Contents] /\ loc[p].active \subseteq Keys
      /\ SyncOK(pc[p], loc[p]) /\ SurveyOK(pc[p], loc[p]) /\ ServedOK(pc[p], loc[p])
      /\ pc[p] \in {"adopt", "add", "sync"} \cup PublishSteps \cup EndSteps
      /\ loc[p].cmd # "open"
  BY IInvParts, Here DEF EdgeInv, ReportInv, ControlInv, StepsOf, SyncSteps, Locals
<1>2. CASE pc[p] \in {"adopt", "add"}
  <2>1. pc'[p] \in {"add", "sync"}
    <3>1. CASE pc[p] = "adopt"
      BY <3>1, WorkPlaces, GotoMove DEF AdoptRead, DiesReading, Moves
    <3>2. CASE pc[p] = "add"
      BY <1>1, <3>2, WorkPlaces, GotoMove DEF Record, Strands, Moves
    <3> QED BY <1>2, <3>1, <3>2
  <2> QED BY <2>1 DEF SyncOK
<1>3. CASE pc[p] = "sync"
  <2>1. Moves(p, IF Active = {} THEN "survey" ELSE "enable",
              [loc[p] EXCEPT !.active = Active, !.todo = Active])
    <3>1. SyncRead(p)
      BY <1>3, WorkPlaces
    <3>2. ~DiesReading(p)
      BY GotoMove DEF DiesReading, Moves
    <3> QED BY <3>1, <3>2, GotoMove DEF SyncRead
  <2>2. loc'[p].active = Active /\ loc'[p].todo = Active
    BY <1>1, <2>1 DEF Moves, Locals
  <2>3. IF loc'[p].active = {} THEN pc'[p] = "survey" ELSE pc'[p] = "enable"
    BY <2>1, <2>2 DEF Moves
  <2> QED BY <2>2, <2>3 DEF SyncOK
<1>4. CASE pc[p] = "enable"
  <2>1. UNCHANGED <<disk, running>> /\ Moves(p, "write", loc[p])
    BY <1>1, <1>4, WorkPlaces, EnableMoves DEF Dies
  <2>2. loc[p].active # {} => loc[p].todo = loc[p].active
    BY <1>1, <1>4 DEF SyncOK
  <2>3. loc[p].name = Globals
    BY <1>1, <1>4 DEF ServedOK
  <2>4. loc[p].active # {} =>
          (loc[p].active \cup {Globals}) \ (loc[p].todo \cup {loc[p].name}) = {}
    BY <2>2, <2>3
  <2> QED BY <2>1, <2>4 DEF SyncOK, Moves
<1>5. CASE pc[p] = "write"
  <2>1. /\ disk' = [disk EXCEPT ![loc[p].name] = "good"]
        /\ Moves(p, "validate", [loc[p] EXCEPT !.backup = disk[loc[p].name]])
    BY <1>1, <1>5, WorkPlaces, WriteMoves DEF Dies
  <2>2. /\ pc'[p] = "validate" /\ loc'[p].todo = loc[p].todo /\ loc'[p].active = loc[p].active
        /\ loc[p].name \in Names /\ loc[p].active \cup {Globals} \subseteq Names
    BY <1>1, <2>1 DEF Moves, Locals, Names
  <2>3. loc[p].active # {} =>
          \A n \in (loc[p].active \cup {Globals}) \ (loc[p].todo \cup {loc[p].name}) : disk[n] = "good"
    BY <1>1, <1>5 DEF SyncOK
  <2>4. loc[p].active # {} =>
          \A n \in (loc[p].active \cup {Globals}) \ loc[p].todo : disk'[n] = "good"
    BY <1>1, <2>1, <2>2, <2>3
  <2> QED BY <2>2, <2>4 DEF SyncOK
<1>6. CASE pc[p] = "validate"
  <2>1. Validate(p) /\ UNCHANGED <<disk, running, forward>>
    BY <1>6, WorkPlaces, WorkChanges DEF EdgeSteps, edgeVars
  <2>2. /\ forward
        /\ loc[p].active # {} =>
             \A n \in (loc[p].active \cup {Globals}) \ loc[p].todo : disk[n] = "good"
    BY <1>1, <1>6 DEF SyncOK, ServedOK
  <2>3. CASE loc[p].todo = {}
             /\ Moves(p, "survey", [loc[p] EXCEPT !.name = Globals, !.backup = "absent"])
    <3>1. pc'[p] = "survey" /\ loc'[p].active = loc[p].active
      BY <1>1, <2>3 DEF Moves, Locals
    <3> QED BY <2>1, <2>2, <2>3, <3>1 DEF SyncOK
  <2>4. ASSUME NEW k \in loc[p].todo,
               Moves(p, "write", [loc[p] EXCEPT !.name = k, !.backup = "absent",
                                                !.todo = loc[p].todo \ {k}])
        PROVE  SyncOK(pc[p], loc[p])'
    <3>1. /\ pc'[p] = "write" /\ loc'[p].active = loc[p].active
          /\ loc'[p].todo \cup {loc'[p].name} = loc[p].todo
      BY <1>1, <2>4 DEF Moves, Locals
    <3> QED BY <2>1, <2>2, <3>1 DEF SyncOK
  <2>5. CASE Moves(p, "restore", loc[p])
    BY <2>5 DEF SyncOK, Moves
  <2> QED BY <1>1, <2>1, <2>3, <2>4, <2>5, ValidateMoves DEF AfterSnippets
<1>7. CASE pc[p] = "restore"
  BY <1>1, <1>7, WorkPlaces, RestoreMoves DEF Dies
<1>8. CASE pc[p] = "survey"
  <2>1. UNCHANGED <<disk, running, forward>>
    BY <1>8, WorkChanges DEF EdgeSteps, edgeVars
  <2>2. Moves(p, IF Installed \ Keep(loc[p].active) # {} THEN "remove" ELSE Settled(p),
              [loc[p] EXCEPT !.stale = Installed \ Keep(loc[p].active)])
    BY <1>8, WorkPlaces, SurveyMoves DEF Moves
  <2>3. loc'[p].active = loc[p].active /\ pc'[p] \in {"remove", Settled(p)}
    BY <1>1, <2>2 DEF Moves, Locals
  <2>4. Settled(p) = IF loc[p].active = {} THEN "disable" ELSE "reload"
    BY DEF Settled, Regenerating, Finish
  <2> QED BY <1>1, <1>8, <2>1, <2>3, <2>4 DEF SyncOK
<1>9. CASE pc[p] = "remove"
  <2>1. /\ UNCHANGED <<running, forward>> /\ Removes(loc[p].stale)
        /\ pc'[p] = "reload" /\ loc'[p] = loc[p]
    BY <1>9, WorkPlaces, RemoveMoves DEF Moves
  <2>2. loc[p].active # {} => loc[p].stale \cap (loc[p].active \cup {Globals}) = {}
    BY <1>1, <1>9 DEF SurveyOK, Keep
  <2>3. loc[p].active \cup {Globals} \subseteq Names
    BY <1>1 DEF Names
  <2>4. loc[p].active # {} => \A n \in loc[p].active \cup {Globals} : disk'[n] = disk[n]
    BY <2>1, <2>2, <2>3 DEF Removes
  <2> QED BY <1>1, <1>9, <2>1, <2>4 DEF SyncOK
<1>10. CASE pc[p] = "reload"
  <2>1. UNCHANGED <<disk, forward>> /\ running' = Installed /\ Moves(p, Finish(p), loc[p])
    BY <1>1, <1>10, WorkPlaces, ReloadMoves DEF Dies
  <2>2. Installed' = Installed
    BY <2>1 DEF Installed
  <2> QED BY <1>1, <1>10, <2>1, <2>2 DEF SyncOK, Moves, Finish
<1>11. CASE pc[p] \in {"disable", "done", "closed"}
  <2>1. pc'[p] = "closed"
    <3>1. CASE pc[p] = "disable"
      BY <3>1, WorkPlaces, DisableMoves DEF Moves
    <3>2. CASE pc[p] \in {"done", "closed"}
      BY <3>2, WorkPlaces, GotoMove DEF Leave, Verdicts, Moves
    <3> QED BY <1>11, <3>1, <3>2
  <2> QED BY <2>1 DEF SyncOK
<1> QED BY <1>1, <1>2, <1>3, <1>4, <1>5, <1>6, <1>7, <1>8, <1>9, <1>10, <1>11
        DEF PublishSteps, EndSteps

\* The lemmas above, of any command.
LEMMA WorkWhole ==
    ASSUME IInv, ControlInv, KnownInv, ReportInv, late' = {}, NEW p \in Procs, Work(p),
           pc'[p] # "idle"
    PROVE  WholeOK(pc[p], loc[p])' /\ SyncOK(pc[p], loc[p])' /\ SurveyOK(pc[p], loc[p])'
<1> SUFFICES WholeOK(pc[p], loc[p])' /\ SurveyOK(pc[p], loc[p])'
  BY SyncWhole, KeepsCommand DEF SyncOK
<1>1. CASE loc[p].cmd = "open"
  <2>1. pc'[p] \in OpenSteps \cup PublishSteps \cup RollbackSteps /\ loc'[p].cmd = "open"
    BY <1>1, KeepsCommand DEF StepsOf
  <2>2. SurveyOK(pc[p], loc[p])'
    BY <2>1 DEF SurveyOK, OpenSteps, PublishSteps, RollbackSteps
  <2> QED BY <1>1, <2>2, OpenWhole
<1>2. CASE loc[p].cmd # "open"
  BY <1>2, OtherSurvey, KeepsCommand DEF WholeOK
<1> QED BY <1>1, <1>2

-----------------------------------------------------------------------------
(* A share whose open failed stays private.                                *)

\* Most steps leave a process with the names it had, or with none.
KeepsNames(p) ==
    \/ /\ loc'[p].todo = loc[p].todo /\ loc'[p].active = loc[p].active
       /\ loc'[p].name = loc[p].name
    \/ loc'[p] = Blank

\* Most calls leave the shares a process works on alone.
LEMMA NamesKept ==
    ASSUME IInv, NEW p \in Procs, Work(p),
           pc[p] \notin {"add", "validate", "purge", "sweep", "converge", "sync"}
    PROVE  KeepsNames(p)
<1>1. pc \in [Procs -> Labels] /\ loc \in [Procs -> Locals]
  BY IInvParts DEF ProcInv
<1> USE <1>1 DEF Goto, Go, Exit, Die, Warn, KeepsNames, Locals, DiesReading, Call
<1>2. CASE OpenRead(p) \/ CreateLink(p)
  BY <1>2 DEF OpenRead, CreateLink, Strands
<1>3. CASE Unadd(p) \/ EnableForward(p) \/ UndoLink(p) \/ Leave(p)
  BY <1>3 DEF Unadd, EnableForward, UndoLink, Leave
<1>4. CASE Write(p) \/ Restore(p)
  BY <1>4 DEF Write, Restore
<1>5. CASE Survey(p)
  BY <1>5 DEF Survey
<1>6. CASE Remove(p) \/ Reload(p) \/ Disable(p)
  BY <1>6 DEF Remove, Reload, Disable
<1>7. CASE UndoKey(p) \/ UndoGlobals(p)
  BY <1>7 DEF UndoKey, UndoGlobals
<1>8. CASE UndoReload(p)
  BY <1>8 DEF UndoReload
<1>12. CASE UndoForward(p)
  <2>1. Go(p, "undoLink") \/ Warn(p, "undoLink")
    BY <1>12 DEF UndoForward
  <2> QED BY <2>1
<1>9. CASE CloseRead(p) \/ Revoke(p)
  BY <1>9 DEF CloseRead, Revoke
<1>10. CASE Forget(p) \/ AdoptRead(p)
  BY <1>10 DEF Forget, AdoptRead
<1>11. CASE List(p)
  BY <1>11 DEF List, ListLinks, ListSnippets
<1> QED BY <1>2, <1>3, <1>4, <1>5, <1>6, <1>7, <1>8, <1>9, <1>10, <1>11, <1>12
        DEF Work, Open, Snippet, Converging, Rollback, Close, Sweep, Sync, Record, Strands, Validate,
            Purge, SweepRead, Converge, SyncRead

\* What a process is about to write it knew before, or has just read.
NamesOf(r) == r.todo \cup r.active \cup {r.name}

\* A process takes up no shares but those it owns.
LEMMA WorkNames ==
    ASSUME IInv, ControlInv, NEW p \in Procs, Work(p)
    PROVE  /\ NamesOf(loc'[p]) \subseteq
                NamesOf(loc[p]) \cup {Globals} \cup Owned
                  \cup (IF loc[p].cmd = "open" /\ pc[p] = "add" THEN {loc[p].key} ELSE {})
           /\ pc[p] \in {"unadd", "undoLink"} => loc'[p] = Blank
<1>1. pc \in [Procs -> Labels] /\ loc \in [Procs -> Locals] /\ loc[p] \in Locals
  BY IInvParts DEF ProcInv
<1>2. pc[p] \in {"unadd", "undoLink"} => loc'[p] = Blank
  BY <1>1, WorkPlaces DEF Unadd, UndoLink, Exit, Goto
<1>3. CASE KeepsNames(p)
  BY <1>2, <1>3 DEF KeepsNames, NamesOf, Blank
<1>4. CASE pc[p] = "add"
  <2>1. \/ loc[p].cmd = "open" /\ loc'[p] = [loc[p] EXCEPT !.todo = {loc[p].key}]
        \/ loc'[p] \in {loc[p], Blank}
    BY <1>1, <1>4, WorkPlaces DEF Record, Strands, Goto, Go, Exit
  <2> QED BY <1>1, <1>4, <2>1 DEF NamesOf, Blank, Locals
<1>5. CASE pc[p] = "validate"
  <2>1. \/ loc'[p] = [loc[p] EXCEPT !.name = Globals, !.backup = "absent"]
        \/ \E k \in loc[p].todo : loc'[p] = [loc[p] EXCEPT !.name = k, !.backup = "absent",
                                                           !.todo = loc[p].todo \ {k}]
        \/ loc'[p] = loc[p]
    BY <1>5, WorkPlaces, ValidateMoves DEF Moves
  <2>2. CASE loc'[p] = [loc[p] EXCEPT !.name = Globals, !.backup = "absent"]
    BY <1>1, <1>5, <2>2 DEF NamesOf, Locals
  <2>3. ASSUME NEW k \in loc[p].todo,
               loc'[p] = [loc[p] EXCEPT !.name = k, !.backup = "absent", !.todo = loc[p].todo \ {k}]
        PROVE  NamesOf(loc'[p]) \subseteq NamesOf(loc[p])
    <3>1. loc'[p].name = k /\ loc'[p].todo = loc[p].todo \ {k} /\ loc'[p].active = loc[p].active
      BY <1>1, <2>3 DEF Locals
    <3> QED BY <2>3, <3>1 DEF NamesOf
  <2> QED BY <1>5, <2>1, <2>2, <2>3
<1>6. CASE pc[p] = "purge"
  <2>1. Purge(p)
    BY <1>6, WorkPlaces
  <2>2. ASSUME NEW k \in loc[p].todo,
               \/ Goto(p, "purge", [loc[p] EXCEPT !.todo = @ \ {k}])
               \/ Goto(p, "purge", [[loc[p] EXCEPT !.todo = @ \ {k}] EXCEPT !.gone = @ \cup {k}])
        PROVE  loc'[p].todo \subseteq loc[p].todo /\ loc'[p].active = loc[p].active
                 /\ loc'[p].name = loc[p].name
    <3> DEFINE r == [loc[p] EXCEPT !.todo = @ \ {k}]
               s == [r EXCEPT !.gone = @ \cup {k}]
    <3>1. r.todo \subseteq loc[p].todo /\ r.active = loc[p].active /\ r.name = loc[p].name
      BY <1>1 DEF Locals
    <3>2. s.todo \subseteq loc[p].todo /\ s.active = loc[p].active /\ s.name = loc[p].name
      BY <1>1 DEF Locals
    <3> HIDE DEF r, s
    <3>3. loc'[p] = r \/ loc'[p] = s
      BY <1>1, <2>2 DEF Goto, r, s
    <3> QED BY <3>1, <3>2, <3>3
  <2>3. CASE Go(p, "forget") \/ Exit(p)
    BY <1>1, <1>6, <2>3 DEF Go, Exit, Goto, NamesOf, Blank
  <2> QED BY <1>6, <2>1, <2>2, <2>3 DEF Purge, NamesOf
<1>7. CASE pc[p] \in {"sweep", "converge", "sync"}
  <2>1. Active \subseteq Owned
    BY DEF Active
  <2>2. \/ loc'[p] = [loc[p] EXCEPT !.todo = Owned, !.due = Owned \cap past]
        \/ loc'[p] = [loc[p] EXCEPT !.active = Active]
        \/ loc'[p] = [loc[p] EXCEPT !.active = Active, !.todo = Active]
        \/ loc'[p] = Blank
    BY <1>1, <1>7, WorkPlaces DEF SweepRead, Converge, SyncRead, DiesReading, Goto, Exit
  <2>3. \/ loc'[p].todo = Owned /\ loc'[p].active = loc[p].active /\ loc'[p].name = loc[p].name
        \/ loc'[p].todo = loc[p].todo /\ loc'[p].active = Active /\ loc'[p].name = loc[p].name
        \/ loc'[p].todo = Active /\ loc'[p].active = Active /\ loc'[p].name = loc[p].name
        \/ KeepsNames(p)
    BY <1>1, <2>2 DEF KeepsNames, Locals
  <2> QED BY <1>3, <1>7, <2>1, <2>3 DEF NamesOf
<1> QED BY <1>3, <1>4, <1>5, <1>6, <1>7, NamesKept

Unfailed(r) == \A k \in NamesOf(r) : k # Globals => fate[k] # "failed"

\* None of the shares a process works on has failed to open.
LEMMA WorkUnfailed ==
    ASSUME IInv, ControlInv, KnownInv, ReportInv, NEW p \in Procs, Work(p)
    PROVE  Unfailed(loc[p])'
<1>1. CASE pc[p] \in {"unadd", "undoLink"}
  BY <1>1, WorkNames DEF Unfailed, NamesOf, Blank
<1>2. CASE pc[p] \notin {"unadd", "undoLink"}
  <2>1. \A k \in Keys : fate'[k] = "failed" <=> fate[k] = "failed"
    BY <1>2, EndedStays
  <2>2. Unfailed(loc[p])
    BY DEF ReportInv, PrivateInv, PrivateOK, Unfailed, NamesOf
  <2>3. \A k \in Owned : fate[k] # "failed"
    BY IInvParts DEF KnownInv, FailedGone, Owned, KeysInv
  <2>4. loc[p].cmd = "open" /\ pc[p] = "add" => fate[loc[p].key] # "failed"
    BY DEF KnownInv, KnownOK, OwnOK
  <2>5. \A k \in NamesOf(loc'[p]) : k # Globals =>
            \/ k \in NamesOf(loc[p]) \/ k \in Owned
            \/ (loc[p].cmd = "open" /\ pc[p] = "add" /\ k = loc[p].key)
    BY WorkNames
  <2>6. \A k \in NamesOf(loc'[p]) : k # Globals => k \in Keys
    <3>1. loc[p] \in Locals /\ Owned \subseteq Keys
      BY Here, IInvParts DEF KeysInv, Owned
    <3>2. loc[p].cmd = "open" /\ pc[p] = "add" => loc[p].key \in Keys
      BY DEF KnownInv, KnownOK, OwnOK, Handed
    <3>3. \A k \in NamesOf(loc[p]) : k # Globals => k \in Keys
      BY <3>1 DEF Locals, NamesOf, Names
    <3> QED BY <2>5, <3>1, <3>2, <3>3
  <2>7. \A k \in NamesOf(loc'[p]) : k # Globals => fate[k] # "failed"
    BY <2>2, <2>3, <2>4, <2>5 DEF Unfailed
  <2> QED BY <2>1, <2>6, <2>7 DEF Unfailed, NamesOf
<1> QED BY <1>1, <1>2

\* A call leaves the shares whose open failed private.
LEMMA WorkPrivate ==
    ASSUME IInv, ControlInv, KnownInv, ReportInv, late' = {}, NEW p \in Procs, Work(p)
    PROVE  FailedPrivate'
<1> SUFFICES ASSUME NEW k \in Keys, fate'[k] = "failed"
             PROVE  disk'[k] = "absent" /\ k \notin running'
  BY WorkFates DEF FailedPrivate, FailedGone
<1>1. /\ loc[p] \in Locals /\ disk \in [Names -> Contents] /\ k \in Names /\ k # Globals
      /\ Unfailed(loc[p]) /\ PrivateOK(pc[p], loc[p])
  BY IInvParts, Here, KeysAssumption DEF EdgeInv, ReportInv, PrivateInv, PrivateOK, Unfailed, NamesOf, Names
<1>2. fate[k] = "failed" => disk[k] = "absent" /\ k \notin running
  BY DEF ReportInv, PrivateInv, FailedPrivate
<1>3. CASE pc[p] \in {"unadd", "undoLink"}
  <2>1. UNCHANGED edgeVars
    BY <1>3, WorkChanges DEF EdgeSteps
  <2>2. loc[p].cmd = "open"
    BY <1>3, Here DEF LocalOK, ControlInv, StepsOf, SyncSteps, EndSteps, ListSteps, PublishSteps
  <2>3. fate[k] = "failed" \/ (k = loc[p].key /\ (pc[p] = "undoLink" => ~loc[p].warned))
    <3>1. fate \in [Keys -> {"none", "failed", "stranded", "warned", "killed"}]
      BY IInvParts DEF CountInv
    <3> QED BY <1>3, <3>1, WorkPlaces DEF Unadd, UndoLink
  <2> QED BY <1>1, <1>2, <1>3, <2>1, <2>2, <2>3 DEF PrivateOK, edgeVars
<1>4. CASE pc[p] \notin {"unadd", "undoLink"}
  <2>1. disk[k] = "absent" /\ k \notin running
    BY <1>2, <1>4, EndedStays
  <2>2. fate[k] = "failed"
    BY <1>4, EndedStays
  <2>3. CASE pc[p] \notin EdgeSteps
    BY <2>1, <2>3, WorkChanges DEF edgeVars
  <2>4. CASE pc[p] = "enable"
    BY <2>1, <2>4, WorkPlaces, EnableMoves
  <2>5. CASE pc[p] = "write"
    <3>1. Write(p) /\ k # loc[p].name
      BY <1>1, <2>2, <2>5, WorkPlaces DEF Unfailed, NamesOf
    <3> QED BY <1>1, <2>1, <3>1, WriteMoves
  <2>6. CASE pc[p] = "restore"
    <3>1. Restore(p) /\ k # loc[p].name
      BY <1>1, <2>2, <2>6, WorkPlaces DEF Unfailed, NamesOf
    <3> QED BY <1>1, <2>1, <3>1, RestoreMoves
  <2>7. CASE pc[p] = "remove"
    <3>1. Remove(p)
      BY <2>7, WorkPlaces
    <3> QED BY <1>1, <2>1, <3>1, RemoveMoves DEF Removes
  <2>8. CASE pc[p] \in {"reload", "undoReload"}
    <3>1. UNCHANGED disk /\ running' \in {running, Installed}
      BY <2>8, WorkPlaces, ReloadMoves, UndoReloadMoves
    <3> QED BY <2>1, <3>1 DEF Installed
  <2>9. CASE pc[p] \in {"disable", "undoForward"}
    BY <2>1, <2>9, WorkPlaces, DisableMoves, UndoForwardMoves
  <2>10. CASE pc[p] \in {"undoKey", "undoGlobals"}
    <3>1. running' = running /\ \E T : Removes(T)
      BY <2>10, WorkPlaces, UndoKeyMoves, UndoGlobalsMoves
    <3> QED BY <1>1, <2>1, <3>1 DEF Removes
  <2> QED BY <2>3, <2>4, <2>5, <2>6, <2>7, <2>8, <2>9, <2>10 DEF EdgeSteps
<1> QED BY <1>3, <1>4

\* What an open knows of its own snippet.
LEMMA WorkSnippet ==
    ASSUME IInv, ControlInv, KnownInv, ReportInv, late' = {}, NEW p \in Procs, Work(p)
    PROVE  PrivateOK(pc[p], loc[p])'
<1>1. Unfailed(loc[p])'
  BY WorkUnfailed
<1>2. CASE pc'[p] = "idle" \/ loc[p].cmd # "open"
  <2>1. loc'[p].cmd # "open"
    BY <1>2, WorkProceeds DEF Proceeds, StepsOf, Blank
  <2> QED BY <1>1, <2>1 DEF PrivateOK, Unfailed, NamesOf
<1>3. CASE pc'[p] # "idle" /\ loc[p].cmd = "open"
  <2>1. /\ loc[p] \in Locals /\ disk \in [Names -> Contents] /\ PrivateOK(pc[p], loc[p])
        /\ pc[p] \in OpenSteps \cup PublishSteps \cup RollbackSteps
        /\ OwnOK(pc[p], loc[p]) /\ KeysInv
    BY <1>3, Here, IInvParts
       DEF EdgeInv, ReportInv, PrivateInv, ControlInv, StepsOf, KnownInv, KnownOK
  <2>2. SUFFICES /\ pc'[p] \in {"add", "unadd", "enable"} =>
                      disk'[loc'[p].key] = "absent" /\ loc'[p].key \notin running'
                 /\ ~loc'[p].warned /\ pc'[p] \in {"undoGlobals", "undoReload", "undoForward", "undoLink"} =>
                      disk'[loc'[p].key] = "absent"
                 /\ ~loc'[p].warned /\ pc'[p] \in {"undoForward", "undoLink"} =>
                      loc'[p].key \notin running'
    BY <1>1 DEF PrivateOK, Unfailed, NamesOf
  <2>3. CASE pc[p] = "create"
    <3>1. CreateLink(p)
      BY <2>3, WorkPlaces
    <3>2. PICK k \in Fresh : Goto(p, "add", [loc[p] EXCEPT !.key = k]) /\ UNCHANGED edgeVars
      BY <1>3, <3>1, GotoMove DEF CreateLink, Strands, Moves
    <3>3. pc'[p] = "add" /\ loc'[p].key = k
      BY <2>1, <3>2, GotoMove DEF Moves, Locals
    <3>4. k \notin Installed \cup running /\ k \in Names
      BY <2>1, <3>2, IInvParts, KeysAssumption
         DEF EdgeInv, OnlyRecordedPublished, KeysInv, Handed, Fresh, Names
    <3> QED BY <3>2, <3>3, <3>4 DEF Installed, edgeVars
  <2>4. CASE pc[p] = "add"
    <3>1. Record(p) /\ UNCHANGED edgeVars
      BY <2>4, WorkPlaces, WorkChanges DEF EdgeSteps
    <3>2. pc'[p] \in {"enable", "unadd"} /\ loc'[p].key = loc[p].key
      <4>1. CASE Goto(p, "enable", [loc[p] EXCEPT !.todo = {loc[p].key}])
        BY <2>1, <4>1, GotoMove DEF Moves, Locals
      <4>2. CASE Go(p, "unadd")
        BY <4>2, GotoMove DEF Moves
      <4> QED BY <1>3, <3>1, <4>1, <4>2, GotoMove DEF Record, Strands, Moves
    <3> QED BY <1>3, <2>1, <2>4, <3>1, <3>2 DEF PrivateOK, edgeVars
  <2>5. CASE pc[p] \in {"open", "unadd", "undoLink", "opened"} \cup PublishSteps
    <3>1. pc'[p] \in {"create", "idle", "write", "validate", "restore", "reload", "opened",
                      "survey", "undoKey"}
      <4> USE GotoMove DEF Moves, Dies
      <4>1. CASE OpenRead(p) \/ Unadd(p) \/ UndoLink(p) \/ Leave(p)
        BY <4>1, IInvParts DEF OpenRead, Unadd, UndoLink, Leave, ProcInv, Exit, Goto
      <4>2. CASE EnableForward(p) \/ Write(p) \/ Restore(p)
        BY <1>3, <4>2 DEF EnableForward, Write, Restore, Call
      <4>3. CASE Validate(p)
        BY <1>3, <4>3, ValidateMoves DEF AfterSnippets
      <4>4. CASE Reload(p)
        BY <1>3, <4>4, ReloadMoves
      <4> QED BY <2>5, <4>1, <4>2, <4>3, <4>4, WorkPlaces DEF PublishSteps, Verdicts
    <3> QED BY <3>1
  <2>6. CASE pc[p] = "undoKey"
    <3>1. UndoKey(p) /\ loc[p].key \in Names
      BY <1>3, <2>1, <2>6, WorkPlaces DEF OwnOK, Handed, Names
    <3>2. CASE Warned(p, AfterVps(p))
      BY <2>1, <3>2 DEF Warned, Moves, AfterVps, Locals
    <3>3. CASE /\ Removes({loc[p].key})
               /\ Moves(p, IF loc[p].prior THEN "undoReload" ELSE "undoGlobals", loc[p])
      BY <3>1, <3>3 DEF Removes, Moves
    <3> QED BY <3>1, <3>2, <3>3, UndoKeyMoves
  <2>7. CASE pc[p] = "undoGlobals"
    <3>1. UndoGlobals(p) /\ loc[p].key \in Names
      BY <1>3, <2>1, <2>7, WorkPlaces DEF OwnOK, Handed, Names
    <3>2. CASE Warned(p, AfterVps(p))
      BY <2>1, <3>2 DEF Warned, Moves, AfterVps, Locals
    <3>3. CASE Removes({Globals}) /\ Moves(p, "undoReload", loc[p])
      BY <1>3, <2>1, <2>7, <3>1, <3>3 DEF Removes, Moves, PrivateOK
    <3> QED BY <3>1, <3>2, <3>3, UndoGlobalsMoves
  <2>8. CASE pc[p] = "undoReload"
    <3>1. UndoReload(p)
      BY <2>8, WorkPlaces
    <3>2. CASE Warned(p, AfterVps(p))
      BY <2>1, <3>2 DEF Warned, Moves, AfterVps, Locals
    <3>3. CASE UNCHANGED disk /\ running' = Installed /\ Moves(p, AfterVps(p), loc[p])
      BY <1>3, <2>1, <2>8, <3>3 DEF Moves, PrivateOK, Installed, AfterVps
    <3> QED BY <3>1, <3>2, <3>3, UndoReloadMoves
  <2>9. CASE pc[p] = "undoForward"
    <3>1. UndoForward(p)
      BY <2>9, WorkPlaces
    <3>2. CASE Warned(p, "undoLink")
      BY <2>1, <3>2 DEF Warned, Moves, Locals
    <3>3. CASE UNCHANGED <<disk, running>> /\ Moves(p, "undoLink", loc[p])
      BY <1>3, <2>1, <2>9, <3>3 DEF Moves, PrivateOK
    <3> QED BY <3>1, <3>2, <3>3, UndoForwardMoves
  <2> QED BY <2>1, <2>3, <2>4, <2>5, <2>6, <2>7, <2>8, <2>9 DEF OpenSteps, RollbackSteps
<1> QED BY <1>2, <1>3

-----------------------------------------------------------------------------
(* What is active is served.                                               *)

\* An open keeps the key it created and what it found shared before.
LEMMA OpenKeeps ==
    ASSUME IInv, ControlInv, late' = {}, NEW p \in Procs, Work(p), loc[p].cmd = "open",
           pc'[p] # "idle"
    PROVE  /\ pc[p] # "create" => loc'[p].key = loc[p].key
           /\ pc[p] # "open" => loc'[p].prior = loc[p].prior
<1>1. /\ pc \in [Procs -> Labels] /\ loc \in [Procs -> Locals] /\ loc[p] \in Locals
      /\ pc[p] \in OpenSteps \cup PublishSteps \cup RollbackSteps
  BY IInvParts DEF ProcInv, ControlInv, StepsOf
<1>2. CASE pc[p] \in {"open", "create"}
  BY <1>1, <1>2, WorkPlaces DEF OpenRead, CreateLink, Strands, Goto, Exit, Locals
<1>3. CASE pc[p] = "add"
  BY <1>1, <1>3, WorkPlaces DEF Record, Strands, Goto, Go, Exit, Locals
<1>4. CASE pc[p] \in {"unadd", "undoLink", "opened"}
  BY <1>1, <1>4, WorkPlaces DEF Unadd, UndoLink, Leave, Goto, Exit, Verdicts
<1>5. CASE pc[p] = "enable"
  <2>1. EnableForward(p)
    BY <1>5, WorkPlaces
  <2> QED BY <2>1, EnableMoves DEF Moves, Dies
<1>6. CASE pc[p] = "write"
  <2>1. Write(p)
    BY <1>6, WorkPlaces
  <2>2. loc'[p] \in {loc[p], [loc[p] EXCEPT !.backup = disk[loc[p].name]]}
    BY <2>1, WriteMoves DEF Moves, Dies
  <2> QED BY <1>1, <2>2 DEF Locals
<1>7. CASE pc[p] = "validate"
  <2>1. Validate(p)
    BY <1>7, WorkPlaces
  <2>2. \/ loc'[p] = loc[p]
        \/ loc'[p] = [loc[p] EXCEPT !.name = Globals, !.backup = "absent"]
        \/ \E k : loc'[p] = [loc[p] EXCEPT !.name = k, !.backup = "absent",
                                           !.todo = loc[p].todo \ {k}]
    BY <2>1, ValidateMoves DEF Moves
  <2> QED BY <1>1, <2>2 DEF Locals
<1>8. CASE pc[p] \in {"restore", "reload"}
  BY <1>8, WorkPlaces, RestoreMoves, ReloadMoves DEF Moves, Dies
<1>9. CASE pc[p] \in {"undoKey", "undoGlobals", "undoReload", "undoForward"}
  <2>1. loc'[p] = loc[p] \/ loc'[p] = [loc[p] EXCEPT !.warned = TRUE]
    BY <1>9, WorkPlaces, UndoKeyMoves, UndoGlobalsMoves, UndoReloadMoves, UndoForwardMoves
       DEF Moves, Warned
  <2> QED BY <1>1, <2>1 DEF Locals
<1> QED BY <1>1, <1>2, <1>3, <1>4, <1>5, <1>6, <1>7, <1>8, <1>9
        DEF OpenSteps, PublishSteps, RollbackSteps

\* No step but the end of a successful open takes an excuse away from a
\* share that was active.
LEMMA ExcusesStay ==
    ASSUME IInv, ControlInv, KnownInv, late' = {}, NEW p \in Procs, Work(p), Mutating(p),
           pc[p] # "opened", pc[p] = "add" => pc'[p] # "idle"
    PROVE  \A k \in Keys : Excused(k) => Excused(k)'
<1> SUFFICES ASSUME NEW k \in Keys, Excused(k) PROVE Excused(k)'
  OBVIOUS
<1>1. /\ Ended(k) \/ (loc[p].cmd = "open" /\ loc[p].key = k)
      /\ Ended(k)' \/ (loc'[p].cmd = "open" /\ loc'[p].key = k) => Excused(k)'
  BY WorkProceeds, Answers
<1>2. fate \in [Keys -> {"none", "failed", "stranded", "warned", "killed"}] /\ NoKey \notin Keys
  BY IInvParts, CommandsAssumption DEF CountInv, Names
<1>3. CASE pc[p] \in {"unadd", "undoLink"}
  <2>1. \E f \in {"failed", "warned"} : fate' = [fate EXCEPT ![loc[p].key] = f]
    BY <1>3, WorkPlaces DEF Unadd, UndoLink
  <2> QED BY <1>1, <1>2, <2>1 DEF Ended
<1>4. CASE pc[p] \notin {"unadd", "undoLink"}
  <2>1. Ended(k)' <=> Ended(k)
    BY <1>4, EndedStays
  <2>2. CASE loc[p].cmd # "open"
    BY <1>1, <2>1, <2>2
  <2>3. CASE loc[p].cmd = "open" /\ pc[p] \in {"open", "create"}
    <3>1. loc[p].key # k
      BY <1>2, <2>3 DEF KnownInv, KnownOK, OwnOK
    <3> QED BY <1>1, <2>1, <3>1
  <2>4. CASE loc[p].cmd = "open" /\ pc[p] \notin {"open", "create"}
    <3>1. pc[p] \in OpenSteps \cup PublishSteps \cup RollbackSteps
      BY <2>4 DEF ControlInv, StepsOf
    <3>2. pc'[p] # "idle"
      <4> USE <2>4 DEF Moves, Dies
      <4>1. CASE pc[p] \in {"enable", "write", "restore", "reload"}
        BY <4>1, WorkPlaces, EnableMoves, WriteMoves, RestoreMoves, ReloadMoves
      <4>2. CASE pc[p] = "validate"
        BY <4>2, WorkPlaces, ValidateMoves DEF AfterSnippets
      <4>3. CASE pc[p] \in {"undoKey", "undoGlobals", "undoReload", "undoForward"}
        BY <4>3, WorkPlaces, UndoKeyMoves, UndoGlobalsMoves, UndoReloadMoves, UndoForwardMoves
           DEF Warned, AfterVps
      <4> QED BY <1>4, <3>1, <4>1, <4>2, <4>3 DEF OpenSteps, PublishSteps, RollbackSteps
    <3> QED BY <1>1, <2>1, <2>4, <3>2, OpenKeeps, KeepsCommand
  <2> QED BY <2>2, <2>3, <2>4
<1> QED BY <1>3, <1>4

\* What is served stays so, if the edge does, no share becomes active and
\* none loses its excuse.
LEMMA ServedStays ==
    ASSUME ServedInv, UNCHANGED edgeVars, Active' \subseteq Active, Active' \subseteq Keys,
           \A k \in Keys : Excused(k) => Excused(k)'
    PROVE  ServedInv'
<1>1. /\ \A k \in Installed \cap Active : Excused(k) \/ (Globals \in Installed /\ forward)
      /\ \A k \in running \cap Active : Excused(k) \/ (Globals \in running /\ forward)
  BY DEF ServedInv, ActiveRoutesServed, Excused, Ended
<1>2. Installed' = Installed /\ running' = running /\ forward' = forward
  BY DEF edgeVars, Installed
<1> QED BY <1>1, <1>2 DEF ServedInv, ActiveRoutesServed, Excused, Ended

\* ServedInv, said once for the files and once for the running Caddy.
LEMMA ServedMeans ==
    /\ ServedInv <=>
         /\ \A k \in Installed \cap Active : Excused(k) \/ (Globals \in Installed /\ forward)
         /\ \A k \in running \cap Active : Excused(k) \/ (Globals \in running /\ forward)
    /\ ServedInv' <=>
         /\ \A k \in Installed' \cap Active' : Excused(k)' \/ (Globals \in Installed' /\ forward')
         /\ \A k \in running' \cap Active' : Excused(k)' \/ (Globals \in running' /\ forward')
BY DEF ServedInv, ActiveRoutesServed, Excused, Ended

\* The active links are share keys.
LEMMA ActiveKeys ==
    ASSUME IInv
    PROVE  Active \subseteq Keys /\ Globals \notin Active /\ NoKey \notin Active
BY IInvParts, KeysAssumption, CommandsAssumption DEF Active, Owned, KeysInv, Names

\* A call leaves every active route served.
LEMMA WorkServed ==
    ASSUME IInv, IInv', ControlInv, KnownInv, ReportInv, late' = {}, NEW p \in Procs, Work(p), Mutating(p)
    PROVE  ServedInv'
<1>1. /\ loc[p] \in Locals /\ disk \in [Names -> Contents] /\ running \subseteq Names
      /\ ServedInv /\ ServedOK(pc[p], loc[p]) /\ WholeOK(pc[p], loc[p])
      /\ Active \subseteq Keys /\ pc[p] \in StepsOf(loc[p].cmd)
  BY IInvParts, Here, ActiveKeys DEF EdgeInv, ReportInv, ControlInv
<1>5. Active' \subseteq Keys /\ Globals \notin Active'
  BY IInvPartsNext, KeysAssumption DEF KeysInv, Active, Owned
<1> USE <1>5
<1>2. CASE pc[p] = "opened"
  <2>1. UNCHANGED edgeVars /\ loc[p].cmd = "open"
    BY <1>1, <1>2, WorkChanges DEF EdgeSteps, StepsOf, SyncSteps, EndSteps, PublishSteps, ListSteps
  <2>2. {loc[p].key, Globals} \subseteq running /\ disk[Globals] = "good" /\ forward
    BY <1>1, <1>2, <2>1 DEF WholeOK
  <2>3. Globals \in Installed
    BY <2>2 DEF Installed, Names
  <2> QED BY <2>1, <2>2, <2>3, ServedMeans DEF edgeVars, Installed
<1>3. CASE pc[p] = "add"
  <2>1. Record(p) /\ UNCHANGED edgeVars /\ \A k \in Keys : Ended(k)' <=> Ended(k)
    BY <1>3, WorkPlaces, WorkChanges, EndedStays DEF EdgeSteps
  <2>2. CASE pc'[p] = "idle" /\ loc[p].cmd = "open"
    <3>1. registry' = registry /\ loc[p].key \notin Active
      <4>1. loc[p].key \notin registry
        BY <1>3, <2>2, IInvParts DEF KnownInv, KnownOK, OwnOK, KeysInv
      <4>2. Go(p, "unadd") => pc'[p] = "unadd"
        BY GotoMove DEF Moves
      <4>3. Goto(p, "enable", [loc[p] EXCEPT !.todo = {loc[p].key}]) => pc'[p] = "enable"
        BY GotoMove DEF Moves
      <4> QED BY <2>1, <2>2, <4>1, <4>2, <4>3 DEF Record, Strands, localVars, Active, Owned
    <3>2. Active' = Active
      BY <2>1, <3>1 DEF Record, Strands, Active, Owned, immichVars
    <3>3. \A k \in Active : Excused(k) => Excused(k)'
      BY <1>1, <2>1, <3>1, WorkProceeds, Answers
    <3> QED BY <2>1, <3>2, <3>3, <1>1, ServedMeans DEF edgeVars, Installed
  <2>3. CASE ~(pc'[p] = "idle" /\ loc[p].cmd = "open")
    <3>1. \A k \in Keys : Excused(k) => Excused(k)'
      <4>1. CASE loc[p].cmd # "open"
        BY <2>1, <4>1, WorkProceeds, Answers
      <4>2. CASE loc[p].cmd = "open" /\ pc'[p] # "idle"
        BY <1>3, <4>2, ExcusesStay
      <4> QED BY <2>3, <4>1, <4>2
    <3>2. \A k \in Active' : k \in Active \/ k \notin Installed \cup running
      BY <2>1, RecordActive
    <3> QED BY <1>1, <2>1, <3>1, <3>2, ServedMeans DEF edgeVars, Installed
  <2> QED BY <2>2, <2>3
<1>4. CASE pc[p] \notin {"opened", "add"}
  <2>1. /\ \A k \in Keys : Excused(k) => Excused(k)'
        /\ Active' \subseteq Active
    BY <1>4, ExcusesStay, ActiveMove
  <2>2. /\ \A k \in Installed \cap Active' : Excused(k)' \/ (Globals \in Installed /\ forward)
        /\ \A k \in running \cap Active' : Excused(k)' \/ (Globals \in running /\ forward)
    BY <1>1, <2>1, ServedMeans
  <2> USE ServedMeans
  <2>3. CASE pc[p] \notin EdgeSteps
    BY <2>2, <2>3, WorkChanges DEF edgeVars, Installed
  <2>4. CASE pc[p] = "enable"
    <3>1. UNCHANGED <<disk, running>> /\ (forward => forward')
      BY <2>4, WorkPlaces, EnableMoves DEF Moves
    <3> QED BY <2>2, <3>1 DEF Installed
  <2>5. CASE pc[p] = "write"
    <3>1. /\ UNCHANGED <<running, forward>>
          /\ \E c \in {"good", "bad", disk[loc[p].name]} : disk' = [disk EXCEPT ![loc[p].name] = c]
      BY <2>5, WorkPlaces, WriteMoves
    <3>2. Installed \subseteq Installed' /\ Installed' \subseteq Installed \cup {loc[p].name}
      BY <1>1, <3>1 DEF Installed
    <3>3. forward /\ (loc[p].name # Globals => Globals \in Installed)
      BY <1>1, <2>5 DEF ServedOK
    <3> QED BY <1>1, <2>2, <3>1, <3>2, <3>3
  <2>6. CASE pc[p] = "restore"
    <3>1. /\ UNCHANGED <<running, forward>>
          /\ disk' \in {disk, [disk EXCEPT ![loc[p].name] = loc[p].backup]}
      BY <2>6, WorkPlaces, RestoreMoves
    <3>2. /\ forward
          /\ loc[p].name # Globals => Globals \in Installed
          /\ loc[p].name = Globals /\ loc[p].backup = "absent" =>
               \A k \in Installed \cap Active : Excused(k)
      BY <1>1, <2>6 DEF ServedOK
    <3>3. CASE loc[p].name # Globals
      <4>1. Globals \in Installed'
        BY <1>1, <3>1, <3>2, <3>3 DEF Installed
      <4> QED BY <2>2, <3>1, <3>2, <4>1
    <3>4. CASE loc[p].name = Globals /\ loc[p].backup # "absent"
      <4>1. Installed' \subseteq Installed \cup {Globals} /\ (Globals \in Installed => Globals \in Installed')
        BY <1>1, <3>1, <3>4 DEF Installed, Names
      <4> QED BY <1>1, <2>2, <3>1, <4>1
    <3>5. CASE loc[p].name = Globals /\ loc[p].backup = "absent"
      <4>1. Installed' \subseteq Installed
        BY <1>1, <3>1, <3>5 DEF Installed
      <4> QED BY <1>1, <2>1, <2>2, <3>1, <3>2, <3>5, <4>1
    <3> QED BY <3>3, <3>4, <3>5
  <2>7. CASE pc[p] = "remove"
    <3>1. UNCHANGED <<running, forward>> /\ \E T \in SUBSET loc[p].stale : Removes(T)
      BY <2>7, WorkPlaces, RemoveMoves
    <3>2. Active \subseteq loc[p].active /\ loc[p].stale = Installed \ Keep(loc[p].active)
      <4>1. loc[p].cmd # "open"
        BY <1>1, <2>7 DEF StepsOf, OpenSteps, PublishSteps, RollbackSteps
      <4> QED BY <1>1, <2>7, <4>1 DEF ServedOK, ReportInv, SurveyOK, EndSteps
    <3>3. Installed' \subseteq Installed
      BY <3>1 DEF Removes, Installed
    <3>4. Active # {} /\ Globals \in Installed => Globals \in Installed'
      BY <1>1, <3>1, <3>2 DEF Removes, Installed, Keep, Names
    <3> QED BY <2>1, <2>2, <3>1, <3>3, <3>4
  <2>8. CASE pc[p] \in {"reload", "undoReload"}
    <3>1. UNCHANGED <<disk, forward>> /\ running' \in {running, Installed}
      BY <2>8, WorkPlaces, ReloadMoves, UndoReloadMoves
    <3> QED BY <2>2, <3>1 DEF Installed
  <2>9. CASE pc[p] = "disable"
    <3>1. Active = {}
      <4>1. loc[p].cmd # "open"
        BY <1>1, <2>9 DEF StepsOf, OpenSteps, PublishSteps, RollbackSteps
      <4> QED BY <1>1, <2>9, <4>1 DEF ServedOK, ReportInv, SurveyOK, EndSteps
    <3> QED BY <2>1, <3>1
  <2>10. CASE pc[p] = "undoKey"
    <3>1. UNCHANGED <<running, forward>> /\ \E T \in SUBSET {loc[p].key} : Removes(T)
      BY <2>10, WorkPlaces, UndoKeyMoves
    <3>2. loc[p].key # Globals
      BY <1>1, <2>10, Here, IInvParts, KeysAssumption DEF LocalOK, RollbackSteps, KeysInv
    <3>3. Installed' \subseteq Installed /\ (Globals \in Installed => Globals \in Installed')
      BY <3>1, <3>2 DEF Removes, Installed, Names
    <3> QED BY <2>2, <3>1, <3>3
  <2>11. CASE pc[p] \in {"undoGlobals", "undoForward"}
    <3>1. /\ running' = running
          /\ disk' = disk \/ \E T \in SUBSET {Globals} : Removes(T)
      BY <2>11, WorkPlaces, UndoGlobalsMoves, UndoForwardMoves
    <3>2. Installed' \subseteq Installed
      BY <3>1 DEF Removes, Installed
    <3>3. \A k \in Active : Excused(k)
      <4>1. loc[p].cmd = "open"
        BY <1>1, <2>11 DEF StepsOf, SyncSteps, EndSteps, PublishSteps, ListSteps
      <4>2. Active \subseteq {loc[p].key}
        BY <1>1, <2>11, <4>1 DEF ServedOK
      <4> QED BY <4>1, <4>2 DEF Excused
    <3> QED BY <1>1, <2>1, <3>1, <3>2, <3>3
  <2> QED BY <2>3, <2>4, <2>5, <2>6, <2>7, <2>8, <2>9, <2>10, <2>11 DEF EdgeSteps
<1> QED BY <1>2, <1>3, <1>4

-----------------------------------------------------------------------------
(* What a process knows of what is active.                                 *)

\* A command begins with the globals.
LEMMA ServedNames ==
    ASSUME IInv, ControlInv, ReportInv, late' = {}, NEW p \in Procs, Work(p),
           pc'[p] \in Commands \cup {"create", "add", "enable"}
    PROVE  loc'[p].name = Globals
<1>1. /\ pc \in [Procs -> Labels] /\ loc \in [Procs -> Locals] /\ loc[p] \in Locals
      /\ ServedOK(pc[p], loc[p])
  BY IInvParts DEF ProcInv, ReportInv
<1>2. pc[p] \in {"open", "create", "add", "sync", "adopt"}
  <2> USE <1>1 DEF Goto, Go, Exit, Die, Warn, Commands
  <2>1. CASE Unadd(p) \/ EnableForward(p) \/ Snippet(p)
    BY <2>1 DEF Unadd, EnableForward, Snippet, Write, Validate, NextSnippet, AfterSnippets,
          Restore, Call
  <2>2. CASE Converging(p)
    BY <2>2 DEF Converging, Survey, Settled, Finish, Remove, Reload, Disable, DiesReading, Call
  <2>3. CASE Rollback(p)
    BY <2>3 DEF Rollback, UndoKey, UndoGlobals, UndoReload, UndoForward, UndoLink, AfterVps, Call
  <2>4. CASE Close(p)
    BY <2>4 DEF Close, CloseRead, Revoke, DiesReading
  <2>5. CASE Sweep(p)
    BY <2>5 DEF Sweep, SweepRead, Purge, Forget, Converge, DiesReading
  <2>6. CASE List(p) \/ Leave(p)
    BY <2>6 DEF List, ListLinks, ListSnippets, Leave, DiesReading
  <2> QED BY <2>1, <2>2, <2>3, <2>4, <2>5, <2>6
          DEF Work, Open, Sync, OpenRead, CreateLink, Record, Strands, SyncRead, AdoptRead
<1>3. loc[p].name = Globals
  BY <1>1, <1>2 DEF ServedOK, Commands
<1>4. loc'[p].name \in {loc[p].name, Globals}
  <2>1. CASE pc[p] \in {"open", "create", "adopt"}
    BY <1>3, <2>1, NamesKept DEF KeepsNames, Blank
  <2>2. CASE pc[p] = "add"
    BY <1>1, <2>2, WorkPlaces DEF Record, Strands, Goto, Go, Exit, Blank, Locals
  <2>3. CASE pc[p] = "sync"
    <3>1. SyncRead(p)
      BY <2>3, WorkPlaces
    <3>2. CASE loc'[p] = [loc[p] EXCEPT !.active = Active, !.todo = Active]
      BY <1>1, <3>2 DEF Locals
    <3>3. CASE loc'[p] = Blank
      BY <3>3 DEF Blank
    <3> QED BY <1>1, <3>1, <3>2, <3>3 DEF SyncRead, DiesReading, Goto, Exit
  <2> QED BY <1>2, <2>1, <2>2, <2>3
<1> QED BY <1>3, <1>4

\* Only an open that found nothing shared takes back more than its own.
LEMMA ServedPrior ==
    ASSUME IInv, ControlInv, ReportInv, late' = {}, NEW p \in Procs, Work(p),
           pc'[p] \in {"undoGlobals", "undoForward"}
    PROVE  ~loc'[p].prior
<1>1. pc \in [Procs -> Labels] /\ loc[p] \in Locals /\ ServedOK(pc[p], loc[p])
  BY IInvParts DEF ProcInv, ReportInv
<1>2. pc[p] \in {"undoKey", "undoGlobals", "undoReload"}
  <2> USE <1>1 DEF Goto, Go, Exit, Die, Warn
  <2>1. CASE Open(p)
    BY <2>1 DEF Open, OpenRead, CreateLink, Record, Strands, Unadd, EnableForward, Call
  <2>2. CASE Snippet(p)
    BY <2>2 DEF Snippet, Write, Validate, NextSnippet, AfterSnippets, Restore, Call
  <2>3. CASE Converging(p)
    BY <2>3 DEF Converging, Survey, Settled, Finish, Remove, Reload, Disable, DiesReading, Call
  <2>4. CASE UndoForward(p) \/ UndoLink(p)
    BY <2>4 DEF UndoForward, UndoLink, Call
  <2>5. CASE Close(p) \/ Sync(p)
    BY <2>5 DEF Close, CloseRead, Revoke, DiesReading, Sync, SyncRead, AdoptRead
  <2>6. CASE Sweep(p)
    BY <2>6 DEF Sweep, SweepRead, Purge, Forget, Converge, DiesReading
  <2>7. CASE List(p) \/ Leave(p)
    BY <2>7 DEF List, ListLinks, ListSnippets, Leave, DiesReading
  <2> QED BY <2>1, <2>2, <2>3, <2>4, <2>5, <2>6, <2>7
          DEF Work, Rollback, UndoKey, UndoGlobals, UndoReload
<1>3. loc'[p].prior = loc[p].prior
  <2>1. loc'[p] = loc[p] \/ loc'[p] = [loc[p] EXCEPT !.warned = TRUE]
    BY <1>2, WorkPlaces, UndoKeyMoves, UndoGlobalsMoves, UndoReloadMoves DEF Moves, Warned
  <2> QED BY <1>1, <2>1 DEF Locals
<1>4. ~loc[p].prior
  <2>1. CASE pc[p] = "undoGlobals"
    BY <1>1, <2>1 DEF ServedOK
  <2>2. CASE pc[p] = "undoKey"
    <3>1. UndoKey(p)
      BY <2>2, WorkPlaces
    <3>2. pc'[p] = (IF loc[p].prior THEN "undoReload" ELSE "undoGlobals") \/ pc'[p] = AfterVps(p)
      BY <3>1, UndoKeyMoves DEF Moves, Warned
    <3> QED BY <3>2 DEF AfterVps
  <2>3. CASE pc[p] = "undoReload"
    <3>1. pc'[p] = AfterVps(p)
      BY <2>3, WorkPlaces, UndoReloadMoves DEF Moves, Warned
    <3> QED BY <3>1 DEF AfterVps
  <2> QED BY <1>2, <2>1, <2>2, <2>3
<1> QED BY <1>3, <1>4

\* Who publishes or cleans up for good read what is active.
LEMMA ServedActive ==
    ASSUME IInv, ControlInv, ReportInv, late' = {}, NEW p \in Procs, Work(p),
           loc[p].cmd # "open", pc'[p] \in PublishSteps \cup EndSteps
    PROVE  Active' \subseteq loc'[p].active
<1>1. /\ pc \in [Procs -> Labels] /\ loc \in [Procs -> Locals] /\ loc[p] \in Locals
      /\ ServedOK(pc[p], loc[p]) /\ pc[p] \in StepsOf(loc[p].cmd)
      /\ pc[p] = "unadd" => loc[p].cmd = "open"
  BY IInvParts, Here DEF ProcInv, ReportInv, ControlInv, LocalOK
<1>2. CASE pc[p] \in {"sync", "converge"}
  <2>1. pc'[p] # "idle"
    BY DEF PublishSteps, EndSteps
  <2>2. CASE pc[p] = "sync"
    <3>1. ManagedLinks /\ loc'[p] = [loc[p] EXCEPT !.active = Active, !.todo = Active]
      BY <1>1, <2>1, <2>2, WorkPlaces DEF SyncRead, DiesReading, Goto, Exit
    <3> QED BY <1>1, <3>1, ManagedActive DEF Locals
  <2>3. CASE pc[p] = "converge"
    <3>1. ManagedLinks /\ loc'[p] = [loc[p] EXCEPT !.active = Active]
      BY <1>1, <2>1, <2>3, WorkPlaces DEF Converge, DiesReading, Goto, Exit
    <3> QED BY <1>1, <3>1, ManagedActive DEF Locals
  <2> QED BY <1>2, <2>2, <2>3
<1>3. CASE pc[p] \in PublishSteps \cup EndSteps
  <2>1. Active' \subseteq Active /\ Active \subseteq loc[p].active
    BY <1>1, <1>3, ActiveMove DEF ServedOK, PublishSteps, EndSteps
  <2>2. loc'[p].active = loc[p].active
    <3>1. CASE pc[p] # "validate"
      <4>1. KeepsNames(p) /\ loc'[p] # Blank
        <5>1. loc'[p].cmd = loc[p].cmd /\ loc[p].cmd # "none"
          BY <1>3, KeepsCommand, Lists DEF PublishSteps, EndSteps
        <5> QED BY <1>3, <3>1, <5>1, NamesKept DEF PublishSteps, EndSteps, Blank
      <4> QED BY <4>1 DEF KeepsNames
    <3>2. CASE pc[p] = "validate"
      <4>1. \/ loc'[p] = loc[p]
            \/ loc'[p] = [loc[p] EXCEPT !.name = Globals, !.backup = "absent"]
            \/ \E k : loc'[p] = [loc[p] EXCEPT !.name = k, !.backup = "absent",
                                               !.todo = loc[p].todo \ {k}]
        BY <3>2, WorkPlaces, ValidateMoves DEF Moves
      <4> QED BY <1>1, <4>1 DEF Locals
    <3> QED BY <3>1, <3>2
  <2> QED BY <2>1, <2>2
<1>4. CASE pc[p] \notin {"sync", "converge"} \cup PublishSteps \cup EndSteps
  <2> USE <1>1 DEF Goto, Go, Exit, Die, Warn, PublishSteps, EndSteps
  <2>1. CASE OpenRead(p) \/ CreateLink(p) \/ Record(p) \/ Unadd(p)
    BY <2>1 DEF OpenRead, CreateLink, Record, Strands, Unadd
  <2>2. CASE Rollback(p)
    BY <2>2 DEF Rollback, UndoKey, UndoGlobals, UndoReload, UndoForward, UndoLink, AfterVps, Call
  <2>3. CASE Close(p) \/ AdoptRead(p)
    BY <2>3 DEF Close, CloseRead, Revoke, DiesReading, AdoptRead
  <2>4. CASE SweepRead(p) \/ Purge(p) \/ Forget(p)
    BY <2>4 DEF SweepRead, Purge, Forget, DiesReading
  <2>5. CASE List(p) \/ Leave(p)
    BY <2>5 DEF List, ListLinks, ListSnippets, Leave, DiesReading
  <2> QED BY <1>4, <2>1, <2>2, <2>3, <2>4, <2>5
          DEF Work, Open, Snippet, Converging, Sweep, Sync, EnableForward, Write, Validate, Restore,
              Survey, Remove, Reload, Disable, Converge, SyncRead
<1> QED BY <1>2, <1>3, <1>4

\* An open that found nothing shared is alone with its share.
LEMMA ServedAlone ==
    ASSUME IInv, ControlInv, KnownInv, ReportInv, late' = {}, NEW p \in Procs, Work(p),
           loc[p].cmd = "open", pc'[p] \notin {"idle", "open"}, ~loc'[p].prior
    PROVE  Active' \subseteq {loc'[p].key}
<1>1. /\ pc \in [Procs -> Labels] /\ loc \in [Procs -> Locals] /\ loc[p] \in Locals
      /\ ServedOK(pc[p], loc[p]) /\ NoKey \notin Active
  BY IInvParts, ActiveKeys DEF ProcInv, ReportInv
<1>2. CASE pc[p] = "open"
  <2>1. ManagedLinks /\ loc'[p].prior = (Active # {})
    BY <1>1, <1>2, WorkPlaces DEF OpenRead, Goto, Exit, Locals
  <2> QED BY <2>1, ManagedActive
<1>3. CASE pc[p] = "create"
  <2>1. loc[p].key = NoKey
    BY <1>3 DEF KnownInv, KnownOK, OwnOK
  <2>2. Active \subseteq {NoKey} /\ Active' \subseteq Active
    BY <1>1, <1>3, <2>1, OpenKeeps, ActiveMove DEF ServedOK
  <2> QED BY <1>1, <2>2
<1>4. CASE pc[p] = "add"
  <2>1. Active \subseteq {loc[p].key} /\ loc'[p].key = loc[p].key
    BY <1>1, <1>4, OpenKeeps DEF ServedOK
  <2>2. Active' \subseteq Active \cup {loc[p].key}
    BY <1>4, WorkPlaces, RecordActive
  <2> QED BY <2>1, <2>2
<1>5. CASE pc[p] \notin {"open", "create", "add"}
  <2>1. Active \subseteq {loc[p].key} /\ loc'[p].key = loc[p].key /\ Active' \subseteq Active
    BY <1>1, <1>5, OpenKeeps, ActiveMove DEF ServedOK
  <2> QED BY <2>1
<1> QED BY <1>2, <1>3, <1>4, <1>5

\* Snippets are written while the forward is on, the globals first.
WritesOK(l, r) ==
    l \in {"write", "validate", "restore"} =>
      /\ forward
      /\ r.name # Globals => Globals \in Installed
      /\ l = "validate" => Globals \in Installed
      /\ l \in {"validate", "restore"} /\ r.name = Globals /\ r.backup = "absent" =>
           \A k \in Installed \cap Active : Excused(k)

\* Globals and forward are there before a share is written.
LEMMA ServedWrites ==
    ASSUME IInv, ControlInv, KnownInv, ReportInv, late' = {}, NEW p \in Procs, Work(p),
           Mutating(p), pc'[p] \in {"write", "validate", "restore"}
    PROVE  WritesOK(pc[p], loc[p])'
<1>1. /\ pc \in [Procs -> Labels] /\ loc \in [Procs -> Locals] /\ loc[p] \in Locals
      /\ disk \in [Names -> Contents] /\ loc[p].name \in Names
      /\ ServedOK(pc[p], loc[p]) /\ WritesOK(pc[p], loc[p]) /\ Active \subseteq Keys
  BY Here, ActiveKeys, IInvParts DEF ProcInv, ReportInv, EdgeInv, Locals, ServedOK, WritesOK
<1>2. pc[p] \in {"enable", "write", "validate"}
  <2> USE <1>1 DEF Goto, Go, Exit, Die, Warn
  <2>1. CASE OpenRead(p) \/ CreateLink(p) \/ Record(p) \/ Unadd(p)
    BY <2>1 DEF OpenRead, CreateLink, Record, Strands, Unadd
  <2>2. CASE Restore(p) \/ Converging(p)
    BY <2>2 DEF Restore, Converging, Survey, Settled, Finish, Remove, Reload, Disable, DiesReading, Call
  <2>3. CASE Rollback(p)
    BY <2>3 DEF Rollback, UndoKey, UndoGlobals, UndoReload, UndoForward, UndoLink, AfterVps, Call
  <2>4. CASE Close(p) \/ Sync(p)
    BY <2>4 DEF Close, CloseRead, Revoke, DiesReading, Sync, SyncRead, AdoptRead
  <2>5. CASE Sweep(p)
    BY <2>5 DEF Sweep, SweepRead, Purge, Forget, Converge, DiesReading
  <2>6. CASE List(p) \/ Leave(p)
    BY <2>6 DEF List, ListLinks, ListSnippets, Leave, DiesReading
  <2> QED BY <2>1, <2>2, <2>3, <2>4, <2>5, <2>6
          DEF Work, Open, Snippet, EnableForward, Write, Validate
<1>3. Active' \subseteq Active /\ \A k \in Keys : Excused(k) => Excused(k)'
  BY <1>2, ActiveMove, ExcusesStay
<1>4. CASE pc[p] = "enable"
  <2>1. pc'[p] = "write" /\ forward' /\ loc'[p] = loc[p]
    BY <1>4, WorkPlaces, EnableMoves DEF Moves, Dies
  <2> QED BY <1>1, <1>4, <2>1 DEF WritesOK, ServedOK
<1>5. CASE pc[p] = "write"
  <2>1. /\ pc'[p] = "validate" /\ forward' = forward
        /\ disk' = [disk EXCEPT ![loc[p].name] = "good"]
        /\ loc'[p] = [loc[p] EXCEPT !.backup = disk[loc[p].name]]
    BY <1>5, WorkPlaces, WriteMoves DEF Moves, Dies
  <2>2. loc'[p].name = loc[p].name /\ loc'[p].backup = disk[loc[p].name]
    BY <1>1, <2>1 DEF Locals
  <2>3. forward /\ (loc[p].name # Globals => Globals \in Installed)
    BY <1>1, <1>5 DEF WritesOK
  <2>4. /\ Installed' = Installed \cup {loc[p].name}
        /\ loc[p].name = Globals /\ disk[Globals] = "absent" => Globals \notin Installed
    BY <1>1, <2>1 DEF Installed
  <2>5. ASSUME loc[p].name = Globals, disk[Globals] = "absent", NEW k \in Installed' \cap Active'
        PROVE  Excused(k)'
    <3>1. k \in Installed \cap Active /\ Globals \notin Installed
      BY <1>1, <1>3, <2>4, <2>5, KeysAssumption
    <3>2. Excused(k)
      BY <3>1 DEF ReportInv, ServedInv
    <3> QED BY <1>1, <1>3, <3>1, <3>2
  <2> QED BY <2>1, <2>2, <2>3, <2>4, <2>5 DEF WritesOK
<1>6. CASE pc[p] = "validate"
  <2>1. Validate(p) /\ Installed' = Installed /\ forward' = forward
    BY <1>6, WorkPlaces, WorkChanges DEF EdgeSteps, edgeVars, Installed
  <2>2. CASE pc'[p] = "restore"
    <3>1. loc'[p] = loc[p]
      BY <2>1, <2>2, ValidateMoves DEF Moves, AfterSnippets
    <3> QED BY <1>1, <1>3, <1>6, <2>1, <2>2, <3>1 DEF WritesOK
  <2>3. CASE pc'[p] # "restore"
    <3>1. pc'[p] = "write"
      BY <2>1, <2>3, ValidateMoves DEF Moves, AfterSnippets
    <3> QED BY <1>1, <1>6, <2>1, <3>1 DEF WritesOK
  <2> QED BY <2>2, <2>3
<1> QED BY <1>2, <1>4, <1>5, <1>6

\* A process keeps what it knows of the active shares.
LEMMA WorkServedOK ==
    ASSUME IInv, ControlInv, KnownInv, ReportInv, late' = {}, NEW p \in Procs, Work(p), Mutating(p)
    PROVE  ServedOK(pc[p], loc[p])'
<1>1. CASE pc'[p] = "idle"
  BY <1>1, WorkProceeds DEF Proceeds, StepsOf, ServedOK, Blank, Commands, PublishSteps, EndSteps
<1>2. CASE pc'[p] # "idle"
  <2>1. loc'[p].cmd = loc[p].cmd
    BY <1>2, KeepsCommand
  <2>2. WritesOK(pc[p], loc[p])'
    BY ServedWrites DEF WritesOK
  <2> QED BY <1>2, <2>1, <2>2, ServedNames, ServedPrior, ServedActive, ServedAlone
          DEF ServedOK, WritesOK
<1> QED BY <1>1, <1>2

-----------------------------------------------------------------------------
(* ReportInv, step by step.                                                *)

\* What a process knows of the edge.
EdgeKnown(l, r) ==
    PrivateOK(l, r) /\ WholeOK(l, r) /\ SyncOK(l, r) /\ SurveyOK(l, r) /\ ServedOK(l, r)

\* The parts of ReportInv, before and after a step.
LEMMA ReportParts ==
    /\ ReportInv <=> FailedPrivate /\ ServedInv /\ \A p \in Procs : EdgeKnown(pc[p], loc[p])
    /\ ReportInv' <=> FailedPrivate' /\ ServedInv' /\ \A p \in Procs : EdgeKnown(pc[p], loc[p])'
BY DEF ReportInv, PrivateInv, EdgeKnown

\* A process at rest, or at its first call, claims nothing.
LEMMA RestReport ==
    ASSUME NEW q \in Procs, NEW c \in Commands \cup {"none"},
           \/ pc'[q] = "idle" /\ loc'[q] = Blank
           \/ pc'[q] = c /\ loc'[q] = [Blank EXCEPT !.cmd = c]
    PROVE  EdgeKnown(pc[q], loc[q])'
<1>1. CASE pc'[q] = "idle" /\ loc'[q] = Blank
  <2>1. PrivateOK(pc[q], loc[q])' /\ WholeOK(pc[q], loc[q])' /\ SyncOK(pc[q], loc[q])'
    BY <1>1 DEF PrivateOK, WholeOK, SyncOK, Blank
  <2>2. SurveyOK(pc[q], loc[q])' /\ ServedOK(pc[q], loc[q])'
    BY <1>1 DEF SurveyOK, ServedOK, Blank, Commands, PublishSteps, EndSteps
  <2> QED BY <2>1, <2>2 DEF EdgeKnown
<1>2. CASE pc'[q] = c /\ loc'[q] = [Blank EXCEPT !.cmd = c]
  <2>1. /\ loc'[q].cmd = c /\ loc'[q].todo = {} /\ loc'[q].active = {} /\ loc'[q].name = Globals
    BY <1>2 DEF Blank
  <2>2. PrivateOK(pc[q], loc[q])' /\ WholeOK(pc[q], loc[q])' /\ SyncOK(pc[q], loc[q])'
    BY <1>2, <2>1 DEF PrivateOK, WholeOK, SyncOK, Commands
  <2>3. SurveyOK(pc[q], loc[q])' /\ ServedOK(pc[q], loc[q])'
    BY <1>2, <2>1 DEF SurveyOK, ServedOK, Commands, PublishSteps, EndSteps
  <2> QED BY <2>2, <2>3 DEF EdgeKnown
<1> QED BY <1>1, <1>2

\* What the others know outlives the steps that leave the edge alone.
LEMMA ReportStays ==
    ASSUME UNCHANGED <<edgeVars, fate>>, Active' \subseteq Active, Active \subseteq Keys,
           \A k \in Keys : Excused(k) => Excused(k)',
           NEW q \in Procs, EdgeKnown(pc[q], loc[q]), pc'[q] = pc[q], loc'[q] = loc[q]
    PROVE  EdgeKnown(pc[q], loc[q])'
<1>1. Installed' = Installed /\ Parses' = Parses /\ UNCHANGED <<disk, running, forward, fate>>
  BY DEF edgeVars, Installed, Parses
<1>2. PrivateOK(pc[q], loc[q])'
  BY <1>1 DEF EdgeKnown, PrivateOK
<1>3. WholeOK(pc[q], loc[q])'
  BY <1>1 DEF EdgeKnown, WholeOK
<1>4. SurveyOK(pc[q], loc[q])'
  BY <1>1 DEF EdgeKnown, SurveyOK, Keep
<1>5. ServedOK(pc[q], loc[q])'
  BY <1>1 DEF EdgeKnown, ServedOK
<1>6. SyncOK(pc[q], loc[q])'
  BY <1>1 DEF EdgeKnown, SyncOK
<1> QED BY <1>2, <1>3, <1>4, <1>5, <1>6 DEF EdgeKnown

\* A call keeps ReportInv.
LEMMA WorkReport ==
    ASSUME IInv, IInv', ControlInv, KnownInv, ReportInv, late' = {}, NEW p \in Procs, Work(p)
    PROVE  ReportInv'
<1>1. Holds(p) /\ OnlyOf(p) /\ Proceeds(p) /\ Active \subseteq Keys
  BY WorkProceeds, ActiveKeys
<1>2. CASE Mutating(p)
  <2>1. EdgeKnown(pc[p], loc[p])'
    <3>1. CASE pc'[p] = "idle"
      BY <1>1, <3>1, RestReport DEF Proceeds, StepsOf
    <3>2. CASE pc'[p] # "idle"
      BY <1>2, <3>2, WorkWhole, WorkSnippet, WorkServedOK DEF EdgeKnown
    <3> QED BY <3>1, <3>2
  <2>2. ASSUME NEW q \in Procs \ {p} PROVE EdgeKnown(pc[q], loc[q])'
    BY <1>1, <1>2, Alone, RestReport DEF OnlyOf
  <2> QED BY <1>2, <2>1, <2>2, WorkPrivate, WorkServed, ReportParts
<1>3. CASE ~Mutating(p)
  <2>1. pc[p] \in ListSteps /\ loc[p].cmd = "list"
    BY <1>1, <1>3, Lists DEF Mutating
  <2>2. UNCHANGED <<edgeVars, fate>> /\ Active' \subseteq Active
    BY <2>1, WorkChanges, ActiveMove DEF ListSteps, EdgeSteps
  <2>3. \A k \in Keys : Excused(k) => Excused(k)'
    BY <1>1, <2>1, <2>2 DEF Excused, Ended, OnlyOf
  <2>4. EdgeKnown(pc[p], loc[p])'
    <3>1. pc'[p] \in {"listSnippets", "listed", "idle"}
      <4>1. ListLinks(p) \/ ListSnippets(p) \/ Leave(p)
        BY <2>1, WorkPlaces DEF ListSteps, Verdicts
      <4> QED BY <4>1, GotoMove DEF ListLinks, ListSnippets, Leave, DiesReading, Moves
    <3>2. CASE pc'[p] = "idle"
      BY <1>1, <3>2, RestReport DEF Proceeds, StepsOf
    <3>3. CASE pc'[p] \in {"listSnippets", "listed"}
      <4>1. loc'[p].cmd = "list"
        BY <2>1, <3>3, KeepsCommand
      <4>2. ServedOK(pc[p], loc[p])'
        BY <3>3, <4>1 DEF ServedOK, Commands, PublishSteps, EndSteps
      <4> QED BY <3>3, <4>2, WorkWhole, WorkSnippet DEF EdgeKnown
    <3> QED BY <3>1, <3>2, <3>3
  <2>5. ASSUME NEW q \in Procs \ {p} PROVE EdgeKnown(pc[q], loc[q])'
    BY <1>1, <2>2, <2>3, ReportStays, ReportParts DEF OnlyOf
  <2>6. ServedInv'
    BY <1>1, <2>2, <2>3, ServedStays, ReportParts
  <2> QED BY <2>4, <2>5, <2>6, WorkPrivate, ReportParts
<1> QED BY <1>2, <1>3

\* A command that starts keeps it.
LEMMA EnterReport ==
    ASSUME IInv, ReportInv, ControlInv, NEW p \in Procs, NEW c \in Commands, Enter(p, c)
    PROVE  ReportInv'
<1>1. /\ pc[p] = "idle" /\ pc'[p] = c /\ loc'[p] = [Blank EXCEPT !.cmd = c] /\ OnlyOf(p)
      /\ UNCHANGED <<links, past, registry, fate, edgeVars>>
  BY IInvParts DEF Enter, Goto, ProcInv, Unchanged, immichVars, localVars, OnlyOf
<1>2. Active' = Active /\ Active \subseteq Keys
  BY <1>1, ActiveKeys DEF Active, Owned
<1>3. \A k \in Keys : Excused(k) => Excused(k)'
  <2>1. loc[p].cmd = "none"
    BY <1>1, Lists
  <2> QED BY <1>1, <2>1 DEF Excused, Ended, OnlyOf
<1>4. FailedPrivate'
  BY <1>1, ReportParts DEF FailedPrivate, edgeVars
<1>5. ServedInv'
  BY <1>1, <1>2, <1>3, ServedStays, ReportParts
<1>6. EdgeKnown(pc[p], loc[p])'
  BY <1>1, RestReport
<1>7. ASSUME NEW q \in Procs \ {p} PROVE EdgeKnown(pc[q], loc[q])'
  BY <1>1, <1>2, <1>3, ReportStays, ReportParts DEF OnlyOf
<1> QED BY <1>4, <1>5, <1>6, <1>7, ReportParts

\* A process that is killed keeps it.
LEMMA KillReport ==
    ASSUME IInv, ControlInv, KnownInv, ReportInv, NEW p \in Procs, Kill(p)
    PROVE  ReportInv'
<1>1. /\ pc'[p] = "idle" /\ loc'[p] = Blank /\ OnlyOf(p) /\ Holds(p)
      /\ UNCHANGED <<links, past, registry, edgeVars>>
  BY IInvParts DEF Kill, Exit, Goto, ProcInv, immichVars, localVars, OnlyOf, Holds
<1>2. /\ Active' = Active /\ Active \subseteq Keys /\ NoKey \notin Keys
      /\ fate \in [Keys -> {"none", "failed", "stranded", "warned", "killed"}]
  BY <1>1, ActiveKeys, IInvParts, CommandsAssumption DEF Active, Owned, CountInv, Names
<1>3. fate' = fate \/ fate' = [fate EXCEPT ![loc[p].key] = "killed"]
  BY DEF Kill
<1>4. FailedPrivate'
  BY <1>1, <1>2, <1>3, ReportParts DEF FailedPrivate, edgeVars
<1>5. EdgeKnown(pc[p], loc[p])'
  BY <1>1, RestReport
<1>6. CASE Mutating(p)
  <2>1. ASSUME NEW q \in Procs \ {p} PROVE EdgeKnown(pc[q], loc[q])'
    BY <1>1, <1>6, Alone, RestReport DEF OnlyOf
  <2>2. ServedInv'
    <3>1. CASE loc[p].cmd = "open" /\ pc[p] = "opened"
      <4>1. {loc[p].key, Globals} \subseteq running /\ disk[Globals] = "good" /\ forward
        BY <3>1 DEF ReportInv, WholeOK
      <4>2. Globals \in Installed
        BY <4>1 DEF Installed, Names
      <4> QED BY <1>1, <4>1, <4>2, ServedMeans DEF edgeVars, Installed
    <3>2. CASE ~(loc[p].cmd = "open" /\ pc[p] = "opened")
      <4>1. \A k \in Keys : Excused(k) => Excused(k)'
        <5> SUFFICES ASSUME NEW k \in Keys, Excused(k) PROVE Excused(k)'
          OBVIOUS
        <5>1. Ended(k) \/ (loc[p].cmd = "open" /\ loc[p].key = k)
          BY <1>1, <1>6, Answers
        <5>2. Ended(k)' => Excused(k)'
          BY DEF Excused, Ended
        <5>3. CASE loc[p].cmd = "open" /\ loc[p].key = k
          BY <1>2, <3>2, <5>2, <5>3 DEF Kill, Ended
        <5>4. CASE Ended(k)
          BY <1>2, <1>3, <5>2, <5>4 DEF Ended
        <5> QED BY <5>1, <5>3, <5>4
      <4> QED BY <1>1, <1>2, <4>1, ServedStays, ReportParts
    <3> QED BY <3>1, <3>2
  <2> QED BY <1>4, <1>5, <2>1, <2>2, ReportParts
<1>7. CASE ~Mutating(p)
  <2>1. loc[p].cmd = "list"
    BY <1>1, <1>7, Lists DEF Mutating
  <2>2. fate' = fate
    BY <2>1 DEF Kill
  <2>3. \A k \in Keys : Excused(k) => Excused(k)'
    BY <1>1, <2>1, <2>2 DEF Excused, Ended, OnlyOf
  <2>4. ASSUME NEW q \in Procs \ {p} PROVE EdgeKnown(pc[q], loc[q])'
    BY <1>1, <1>2, <2>2, <2>3, ReportStays, ReportParts DEF OnlyOf
  <2>5. ServedInv'
    BY <1>1, <1>2, <2>3, ServedStays, ReportParts
  <2> QED BY <1>4, <1>5, <2>4, <2>5, ReportParts
<1> QED BY <1>6, <1>7

\* Nothing that happens without immich-share makes a share active.
LEMMA EnvironmentActive ==
    ASSUME IInv, Environment
    PROVE  Active' \subseteq Active
<1>1. registry' = registry /\ registry \cap Fresh = {}
  BY IInvParts DEF Environment, localVars, KeysInv, Handed, Fresh
<1>2. ASSUME NEW k \in Keys, Expire(k) \/ UserCreate(k) \/ UserDelete(k)
      PROVE  Active' \subseteq Active
  BY <1>1, <1>2 DEF Expire, UserCreate, UserDelete, Active, Owned
<1>3. CASE CaddyRestart \/ \E o \in late : Land(o)
  BY <1>1, <1>3 DEF CaddyRestart, Land, immichVars, Active, Owned
<1> QED BY <1>2, <1>3 DEF Environment

\* Without late commands the environment keeps it.
LEMMA EnvironmentReport ==
    ASSUME IInv, KnownInv, KnownInv', ReportInv, late = {}, Environment \/ UNCHANGED vars
    PROVE  ReportInv'
<1>1. /\ UNCHANGED <<fate, pc, loc, disk, forward>>
      /\ running' = running \/ running' = (IF Parses THEN Installed ELSE {})
  BY DEF Environment, Expire, UserCreate, UserDelete, CaddyRestart, Land, vars, edgeVars
<1>2. Active' \subseteq Active /\ Active \subseteq Keys
  BY EnvironmentActive, ActiveKeys DEF vars, immichVars, localVars, Active, Owned
<1>3. Installed' = Installed /\ Parses' = Parses /\ \A k : Excused(k) => Excused(k)'
  BY <1>1 DEF Installed, Parses, Excused, Ended
<1>4. disk \in [Names -> Contents] /\ KeysInv
  BY IInvParts DEF EdgeInv
<1>5. FailedPrivate'
  <2>1. \A k \in Keys : fate[k] = "failed" => disk[k] = "absent" /\ k \notin running /\ k \notin links'
    BY <1>1, ReportParts DEF FailedPrivate, KnownInv, FailedGone
  <2> QED BY <1>1, <2>1 DEF FailedPrivate, Installed
<1>6. ServedInv'
  BY <1>1, <1>2, <1>3, ServedMeans, ReportParts
<1>7. ASSUME NEW q \in Procs PROVE EdgeKnown(pc[q], loc[q])'
  <2>1. /\ EdgeKnown(pc[q], loc[q]) /\ OwnOK(pc[q], loc[q])
        /\ pc'[q] = pc[q] /\ loc'[q] = loc[q]
    BY <1>1, ReportParts DEF KnownInv, KnownOK
  <2>2. PrivateOK(pc[q], loc[q])'
    BY <1>1, <2>1 DEF EdgeKnown, PrivateOK, Installed
  <2>3. WholeOK(pc[q], loc[q])'
    <3>1. loc[q].cmd = "open" /\ pc[q] = "opened" =>
            {loc[q].key, Globals} \subseteq Installed /\ Parses
      BY <1>4, <2>1 DEF EdgeKnown, WholeOK, OwnOK, Handed, Installed, Names
    <3> QED BY <1>1, <1>3, <2>1, <3>1 DEF EdgeKnown, WholeOK
  <2>4. SurveyOK(pc[q], loc[q])'
    BY <1>1, <1>3, <2>1 DEF EdgeKnown, SurveyOK, Keep
  <2>5. ServedOK(pc[q], loc[q])'
    BY <1>1, <1>2, <1>3, <2>1 DEF EdgeKnown, ServedOK
  <2>6. SyncOK(pc[q], loc[q])'
    <3>1. pc[q] = "done" /\ loc[q].cmd \in {"sync", "adopt"} => Parses
      <4>1. loc[q] \in Locals /\ SyncOK(pc[q], loc[q]) /\ SurveyOK(pc[q], loc[q])
        BY <2>1, Here DEF EdgeKnown
      <4> QED BY <1>4, <4>1, Synced
    <3>2. pc[q] = "done" /\ loc[q].cmd \in {"sync", "adopt"} /\ running = Installed =>
            running' = Installed
      BY <1>1, <3>1
    <3> QED BY <1>1, <1>3, <2>1, <3>2 DEF EdgeKnown, SyncOK
  <2> QED BY <2>2, <2>3, <2>4, <2>5, <2>6 DEF EdgeKnown
<1> QED BY <1>5, <1>6, <1>7, ReportParts

\* It holds of a portal that was never opened.
LEMMA InitReport ==
    ASSUME Init
    PROVE  ControlInv /\ KnownInv /\ ReportInv
<1>1. ControlInv
  BY DEF Init, ControlInv, Exclusive, Holds, Mutating, StepsOf, Blank
<1>2. KnownInv
  <2>1. FateOK /\ FailedGone
    BY DEF Init, PortalInit, FateOK, FailedGone
  <2>2. \A p \in Procs : pc[p] = "idle" /\ loc[p] = Blank
    BY DEF Init
  <2>3. \A p \in Procs : KnownOK(pc[p], loc[p])
    BY <2>2 DEF KnownOK, ListOK, CloseOK, OwnOK, SweepOK, AdoptOK, Blank
  <2> QED BY <2>1, <2>3 DEF KnownInv
<1>3. Active = {} /\ running = {}
  BY DEF Init, PortalInit, Active, Owned
<1>4. FailedPrivate /\ ServedInv
  BY <1>3 DEF Init, FailedPrivate, ServedInv, ActiveRoutesServed
<1>5. \A p \in Procs : EdgeKnown(pc[p], loc[p])
  <2> SUFFICES ASSUME NEW p \in Procs PROVE EdgeKnown(pc[p], loc[p])
    OBVIOUS
  <2>1. pc[p] = "idle" /\ loc[p] = Blank
    BY DEF Init
  <2>2. PrivateOK(pc[p], loc[p]) /\ WholeOK(pc[p], loc[p]) /\ SyncOK(pc[p], loc[p])
    BY <2>1 DEF PrivateOK, WholeOK, SyncOK, Blank
  <2>3. SurveyOK(pc[p], loc[p]) /\ ServedOK(pc[p], loc[p])
    BY <2>1 DEF SurveyOK, ServedOK, Blank, Commands, PublishSteps, EndSteps
  <2> QED BY <2>2, <2>3 DEF EdgeKnown
<1> QED BY <1>1, <1>2, <1>4, <1>5, ReportParts

\* What is known of the lock and of the links, whatever is left behind.
BaseInv == IInv /\ ControlInv /\ KnownInv

\* Every step keeps what is known of the lock and of the links.
LEMMA BaseStep == BaseInv /\ [Next]_vars => BaseInv'
<1> SUFFICES ASSUME BaseInv, [Next]_vars PROVE BaseInv'
  OBVIOUS
<1> USE DEF BaseInv
<1>1. ASSUME NEW p \in Procs, NEW c \in Commands, Enter(p, c) PROVE BaseInv'
  BY <1>1, EnterStep, EnterControl, EnterKnown
<1>2. ASSUME NEW p \in Procs, Work(p) PROVE BaseInv'
  BY <1>2, WorkStep, WorkProceeds, ControlMove, WorkKnown
<1>3. ASSUME NEW p \in Procs, Kill(p) PROVE BaseInv'
  <2>1. Holds(p) /\ OnlyOf(p) /\ Proceeds(p)
    BY <1>3, IInvParts DEF Kill, Exit, Goto, ProcInv, OnlyOf, Holds, Proceeds
  <2> QED BY <1>3, <2>1, KillStep, ControlMove, KillKnown
<1>4. CASE Environment \/ UNCHANGED vars
  <2>1. UNCHANGED <<pc, loc>>
    BY <1>4 DEF Environment, vars
  <2>2. ControlInv'
    BY <2>1 DEF ControlInv, Exclusive, Mutating, Holds
  <2> QED BY <1>4, <2>2, EnvironmentStep, StutterIInv, EnvironmentKnown
<1> QED BY <1>1, <1>2, <1>3, <1>4 DEF Next

\* Every step keeps ReportInv if no command is left behind.
LEMMA ReportStep == BaseInv /\ BaseInv' /\ ReportInv /\ NoneLeft /\ NoneLeft' /\ [Next]_vars => ReportInv'
<1> SUFFICES ASSUME BaseInv, BaseInv', ReportInv, NoneLeft, NoneLeft', [Next]_vars PROVE ReportInv'
  OBVIOUS
<1> USE DEF BaseInv, NoneLeft
<1>1. ASSUME NEW p \in Procs, NEW c \in Commands, Enter(p, c) PROVE ReportInv'
  BY <1>1, EnterReport
<1>2. ASSUME NEW p \in Procs, Work(p) PROVE ReportInv'
  BY <1>2, WorkReport
<1>3. ASSUME NEW p \in Procs, Kill(p) PROVE ReportInv'
  BY <1>3, KillReport
<1>4. CASE Environment \/ UNCHANGED vars
  BY <1>4, EnvironmentReport
<1> QED BY <1>1, <1>2, <1>3, <1>4 DEF Next

-----------------------------------------------------------------------------
(* What holds as long as nothing has failed.                               *)

\* No call fails on the way to a state in which nothing has failed.
LEMMA NoErrors ==
    ASSUME EdgeInv, faults = 0, faults' = 0
    PROVE  /\ ~Fault
           /\ Parses => \A o : ~Errs(o)
           /\ \A p \in Procs : ~DiesReading(p)
<1>1. ~Fault
  BY DEF Fault
<1> QED BY <1>1 DEF Errs, Works, DiesReading

\* The calls of a process as they are when none of them fails.
LEMMA CleanMoves ==
    ASSUME IInv, ControlInv, CleanInv, faults = 0, faults' = 0, NEW p \in Procs, Work(p)
    PROVE  /\ late' = {} /\ Parses'
           /\ pc'[p] \notin {"restore", "unadd"} \cup RollbackSteps
           /\ pc[p] \notin {"write", "remove", "reload"} => UNCHANGED <<disk, running>>
           /\ pc[p] = "write" => pc'[p] = "validate"
           /\ pc[p] = "validate" => pc'[p] = "write" \/ pc'[p] = AfterSnippets(p)
           /\ pc[p] = "remove" => pc'[p] = "reload"
           /\ pc[p] = "reload" => running' = Installed /\ UNCHANGED disk
<1>1. /\ EdgeInv /\ late = {} /\ Parses /\ loc[p] \in Locals /\ pc[p] \in Labels
      /\ pc[p] \notin {"restore", "unadd"} \cup RollbackSteps
      /\ disk \in [Names -> Contents] /\ pc \in [Procs -> Labels]
      /\ pc[p] # "idle"
  BY Here, IInvParts, WorkProceeds DEF CleanInv, EdgeInv, ProcInv, Holds
<1>2. ~Fault /\ (\A o : ~Errs(o)) /\ ~DiesReading(p)
  BY <1>1, NoErrors
<1>3. late' = {}
  <2>1. CASE pc[p] \notin EdgeSteps
    BY <1>1, <2>1, WorkChanges
  <2>2. CASE pc[p] \in EdgeSteps
    BY <1>1, <1>2, <2>2, WorkPlaces
       DEF EdgeSteps, RollbackSteps, EnableForward, Write, Remove, Reload, Disable, Call, Succeeds
  <2> QED BY <2>1, <2>2
<1>4. CASE pc[p] \in {"enable", "disable"}
  <2>1. UNCHANGED <<disk, running>> /\ pc'[p] \in {"write", "closed", "idle"}
    <3>1. CASE pc[p] = "enable"
      <4>1. EnableForward(p)
        BY <3>1, WorkPlaces
      <4>2. Go(p, "write")
        BY <1>2, <4>1 DEF EnableForward, Call
      <4> QED BY <1>1, <1>3, <4>1, <4>2, EnableMoves DEF Go, Goto
    <3>2. CASE pc[p] = "disable"
      BY <1>3, <3>2, WorkPlaces, DisableMoves DEF Moves
    <3> QED BY <1>4, <3>1, <3>2
  <2> QED BY <1>1, <1>3, <1>4, <2>1 DEF Parses, RollbackSteps
<1>5. CASE pc[p] = "write"
  <2>1. Write(p)
    BY <1>5, WorkPlaces
  <2>2. Succeeds(WriteOp(loc[p].name)) /\ Goto(p, "validate", [loc[p] EXCEPT !.backup = disk[loc[p].name]])
    BY <1>2, <2>1 DEF Write, Call
  <2>3. disk' = [disk EXCEPT ![loc[p].name] = "good"]
    BY <1>1, <1>3, <2>2, WriteDoes DEF Locals
  <2>4. pc'[p] = "validate"
    BY <1>1, <2>2 DEF Goto
  <2> QED BY <1>1, <1>3, <1>5, <2>3, <2>4 DEF Parses, RollbackSteps
<1>6. CASE pc[p] = "validate"
  <2>1. Validate(p) /\ UNCHANGED edgeVars
    BY <1>6, WorkPlaces, WorkChanges DEF EdgeSteps
  <2>2. NextSnippet(p)
    BY <1>1, <1>2, <2>1 DEF Validate
  <2>3. pc'[p] = "write" \/ pc'[p] = AfterSnippets(p)
    BY <1>1, <2>2 DEF NextSnippet, Goto
  <2> QED BY <1>1, <1>3, <1>6, <2>1, <2>3 DEF edgeVars, Parses, RollbackSteps, AfterSnippets
<1>7. CASE pc[p] = "remove"
  <2>1. Remove(p)
    BY <1>7, WorkPlaces
  <2>2. Succeeds(RemoveOp(loc[p].stale)) /\ Go(p, "reload")
    BY <1>2, <2>1 DEF Remove, Call
  <2>3. pc'[p] = "reload" /\ Removes(loc[p].stale)
    BY <1>1, <1>3, <2>2, RemoveDoes DEF Go, Goto, Removes, Locals
  <2> QED BY <1>1, <1>3, <1>7, <2>3 DEF Removes, Parses, RollbackSteps
<1>8. CASE pc[p] = "reload"
  <2>1. Reload(p)
    BY <1>8, WorkPlaces
  <2>2. Succeeds(ReloadOp) /\ Go(p, IF loc[p].cmd = "open" THEN "opened" ELSE Finish(p))
    BY <1>2, <2>1 DEF Reload, Call
  <2>3. running' = Installed /\ UNCHANGED disk
    BY <1>3, <2>2, ReloadDoes
  <2>4. pc'[p] \in {"opened", "disable", "done"}
    BY <1>1, <2>2 DEF Go, Goto, Finish
  <2> QED BY <1>1, <1>3, <1>8, <2>3, <2>4 DEF Parses, RollbackSteps
<1>9. CASE pc[p] \notin {"enable", "disable", "write", "validate", "remove", "reload"}
  <2>1. pc[p] \notin EdgeSteps
    BY <1>1, <1>9 DEF EdgeSteps, RollbackSteps
  <2>2. UNCHANGED <<disk, running>>
    BY <2>1, WorkChanges DEF edgeVars
  <2>3. pc'[p] \notin {"restore", "unadd"} \cup RollbackSteps
    <3> USE <1>1, <1>2 DEF Goto, Go, Exit, Die, Warn, RollbackSteps
    <3>1. CASE OpenRead(p) \/ CreateLink(p) \/ Record(p)
      BY <3>1 DEF OpenRead, CreateLink, Record, Strands
    <3>2. CASE Survey(p)
      BY <3>2 DEF Survey, Settled, Finish
    <3>3. CASE Close(p)
      BY <3>3 DEF Close, CloseRead, Revoke
    <3>4. CASE Sweep(p)
      BY <3>4 DEF Sweep, SweepRead, Purge, Forget, Converge
    <3>5. CASE Sync(p)
      BY <3>5 DEF Sync, SyncRead, AdoptRead
    <3>6. CASE List(p) \/ Leave(p)
      BY <3>6 DEF List, ListLinks, ListSnippets, Leave
    <3> QED BY <1>9, <3>1, <3>2, <3>3, <3>4, <3>5, <3>6
            DEF Work, Open, Unadd, EnableForward, Snippet, Write, Validate, Restore, Converging,
                Remove, Reload, Disable, Rollback, UndoKey, UndoGlobals, UndoReload, UndoForward, UndoLink
  <2> QED BY <1>1, <1>3, <1>9, <2>2, <2>3 DEF Parses
<1> QED BY <1>4, <1>5, <1>6, <1>7, <1>8, <1>9

\* After its removals and its reload a command ends.
LEMMA CleanRemove ==
    ASSUME IInv, ControlInv, CleanInv, faults = 0, faults' = 0, NEW p \in Procs, Work(p),
           loc[p].cmd # "open", pc[p] \in {"remove", "reload"}
    PROVE  pc'[p] \in {"reload", "disable", "done", "idle"}
<1>1. pc \in [Procs -> Labels] /\ late' = {}
  BY IInvParts, CleanMoves DEF ProcInv
<1>2. CASE pc[p] = "remove"
  BY <1>2, CleanMoves
<1>3. CASE pc[p] = "reload"
  <2>1. Reload(p)
    BY <1>3, WorkPlaces
  <2>2. Moves(p, Finish(p), loc[p]) \/ Dies(p)
    BY <1>1, <2>1, ReloadMoves
  <2> QED BY <2>2 DEF Moves, Dies, Finish
<1> QED BY <1>2, <1>3

\* Something is active when a sync publishes.
LEMMA CleanActive ==
    ASSUME IInv, ControlInv, CleanInv, faults = 0, faults' = 0, NEW p \in Procs, Work(p),
           loc'[p].cmd # "open", pc'[p] \in WritingSteps
    PROVE  loc'[p].active # {}
<1>1. /\ pc \in [Procs -> Labels] /\ loc \in [Procs -> Locals] /\ loc[p] \in Locals
      /\ loc[p].cmd # "open" /\ pc'[p] # "idle" /\ EdgeInv
  BY IInvParts, KeepsCommand DEF ProcInv, WritingSteps
<1>2. CASE pc[p] = "sync"
  <2>1. SyncRead(p) /\ ~Fault
    BY <1>1, <1>2, WorkPlaces, NoErrors
  <2>2. pc'[p] = (IF Active = {} THEN "survey" ELSE "enable")
          /\ loc'[p] = [loc[p] EXCEPT !.active = Active, !.todo = Active]
    BY <1>1, <2>1 DEF SyncRead, DiesReading, Goto, Exit
  <2> QED BY <1>1, <2>2 DEF WritingSteps, Locals
<1>3. CASE pc[p] \in WritingSteps
  <2>1. loc[p].active # {}
    BY <1>1, <1>3 DEF CleanInv
  <2>2. CASE pc[p] # "validate"
    <3>1. loc'[p] # Blank
      <4>1. loc'[p].cmd = loc[p].cmd /\ loc[p].cmd # "none"
        BY <1>1, <1>3, KeepsCommand, Lists DEF WritingSteps
      <4> QED BY <4>1 DEF Blank
    <3> QED BY <1>3, <2>1, <2>2, <3>1, NamesKept DEF KeepsNames, WritingSteps
  <2>3. CASE pc[p] = "validate"
    <3>1. \/ loc'[p] = loc[p]
          \/ loc'[p] = [loc[p] EXCEPT !.name = Globals, !.backup = "absent"]
          \/ \E k : loc'[p] = [loc[p] EXCEPT !.name = k, !.backup = "absent",
                                             !.todo = loc[p].todo \ {k}]
      BY <2>3, WorkPlaces, ValidateMoves DEF Moves
    <3> QED BY <1>1, <2>1, <3>1 DEF Locals
  <2> QED BY <2>2, <2>3
<1>4. CASE pc[p] \notin WritingSteps \cup {"sync"}
  <2>1. loc[p].cmd \in {"close", "sweep", "sync", "adopt", "list"}
    BY <1>1, WorkProceeds, Lists DEF Locals, Commands, Holds
  <2>2. pc[p] \in StepsOf(loc[p].cmd)
    BY DEF ControlInv
  <2>3. CASE pc[p] \in {"survey", "remove", "reload", "disable"}
    <3>1. CASE pc[p] = "survey"
      <4>1. pc'[p] \in {"remove", "reload", "disable", "done"}
        BY <1>1, <3>1, WorkPlaces, SurveyMoves DEF Moves, Settled, Finish
      <4> QED BY <4>1 DEF WritingSteps
    <3>2. CASE pc[p] \in {"remove", "reload"}
      <4>1. pc'[p] \in {"reload", "disable", "done"}
        BY <1>1, <3>2, CleanRemove
      <4> QED BY <4>1 DEF WritingSteps
    <3>3. CASE pc[p] = "disable"
      <4>1. late' = {}
        BY CleanMoves
      <4>2. pc'[p] = "closed"
        BY <1>1, <3>3, <4>1, WorkPlaces, DisableMoves DEF Moves
      <4> QED BY <4>2 DEF WritingSteps
    <3> QED BY <2>3, <3>1, <3>2, <3>3
  <2>4. CASE pc[p] \in {"close", "revoke", "forget", "converge", "sweep", "purge", "adopt", "add"}
               \cup ListSteps \cup Verdicts
    <3>1. pc'[p] \in {"revoke", "forget", "converge", "purge", "survey", "sync", "add",
                       "listSnippets", "listed"}
      <4> USE <1>1 DEF Goto, Go, Exit
      <4>1. CASE pc[p] \in {"close", "revoke", "forget", "converge", "sweep", "purge"}
        BY <4>1, WorkPlaces
           DEF CloseRead, Revoke, Forget, Converge, SweepRead, Purge, DiesReading
      <4>2. CASE pc[p] \in {"adopt", "add"}
        BY <4>2, WorkPlaces DEF AdoptRead, Record, Strands, DiesReading
      <4>3. CASE pc[p] \in ListSteps \cup Verdicts
        BY <4>3, WorkPlaces DEF ListLinks, ListSnippets, Leave, DiesReading, ListSteps, Verdicts
      <4> QED BY <2>4, <4>1, <4>2, <4>3
    <3> QED BY <3>1 DEF WritingSteps
  <2>5. \/ pc[p] \in {"survey", "remove", "reload", "disable"}
        \/ pc[p] \in {"close", "revoke", "forget", "converge", "sweep", "purge", "adopt", "add"}
                      \cup ListSteps \cup Verdicts
    <3>1. pc[p] # "restore"
      BY DEF CleanInv
    <3> USE <1>4, <2>2, <3>1
            DEF StepsOf, EndSteps, SyncSteps, PublishSteps, WritingSteps, Verdicts
    <3>2. CASE loc[p].cmd = "close" \/ loc[p].cmd = "sweep"
      BY <3>2
    <3>3. CASE loc[p].cmd = "sync" \/ loc[p].cmd = "adopt" \/ loc[p].cmd = "list"
      BY <3>3
    <3> QED BY <2>1, <3>2, <3>3
  <2> QED BY <2>3, <2>4, <2>5
<1> QED BY <1>2, <1>3, <1>4

\* A process that will make the running Caddy agree with the files does so.
LEMMA CleanReloads ==
    ASSUME IInv, IInv', ControlInv, CleanInv, faults = 0, faults' = 0, NEW p \in Procs, Work(p),
           ~Reloads(p)'
    PROVE  running' = Installed'
<1>1. /\ pc[p] \notin {"write", "remove"} /\ ControlInv
      /\ loc[p] \in Locals /\ disk \in [Names -> Contents] /\ pc[p] # "idle"
  <2>1. pc[p] \notin {"write", "remove"}
    BY CleanMoves DEF Reloads
  <2> QED BY <2>1, IInvParts, WorkProceeds DEF ProcInv, EdgeInv, Holds
<1>2. ASSUME NEW q \in Procs \ {p} PROVE ~Reloads(q)
  <2>1. Mutating(q) => q = p
    BY <1>1 DEF ControlInv, Exclusive, Holds
  <2> QED BY <2>1 DEF Reloads, Mutating, Holds, ListSteps
<1>3. UNCHANGED <<disk, running>> => UNCHANGED <<Installed, running>>
  BY DEF Installed
<1>4. CASE pc[p] = "reload"
  BY <1>4, CleanMoves DEF Installed
<1>5. CASE pc[p] = "validate"
  <2>1. pc'[p] = AfterSnippets(p) /\ AfterSnippets(p) # "idle"
    BY <1>5, CleanMoves DEF Reloads, AfterSnippets
  <2>2. loc[p].cmd # "open" /\ pc'[p] = "survey"
    BY <2>1 DEF Reloads, AfterSnippets
  <2>3. loc[p].cmd \in {"sync", "adopt"}
    BY <1>1, <1>5, <2>2
       DEF ControlInv, StepsOf, OpenSteps, PublishSteps, RollbackSteps, EndSteps, ListSteps, Locals, Commands
  <2>4. loc[p].active # {}
    BY <1>5, <2>2 DEF CleanInv, WritingSteps
  <2>5. loc'[p].active = loc[p].active /\ loc'[p].cmd = loc[p].cmd
    <3>1. Validate(p)
      BY <1>5, WorkPlaces
    <3>2. loc'[p] = [loc[p] EXCEPT !.name = Globals, !.backup = "absent"]
      BY <2>2, <3>1, ValidateMoves DEF Moves
    <3> QED BY <1>1, <3>2 DEF Locals
  <2> QED BY <2>2, <2>3, <2>4, <2>5 DEF Reloads, Regenerating
<1>6. CASE pc[p] = "survey"
  <2>1. Survey(p) /\ ~DiesReading(p)
    BY <1>6, WorkPlaces, IInvParts, NoErrors
  <2>2. /\ pc'[p] = IF Installed \ Keep(loc[p].active) # {} THEN "remove" ELSE Settled(p)
    BY <2>1, IInvParts DEF Survey, Goto, ProcInv
  <2>3. ~Regenerating(p)
    BY <2>2 DEF Settled, Reloads
  <2>4. running = Installed
    BY <1>2, <1>6, <2>3 DEF CleanInv, Reloads
  <2> QED BY <1>3, <1>6, <2>4, CleanMoves
<1>7. CASE pc[p] \notin {"write", "remove", "reload", "validate", "survey"}
  <2>1. running = Installed
    BY <1>2, <1>7 DEF CleanInv, Reloads
  <2> QED BY <1>3, <1>7, <2>1, CleanMoves
<1> QED BY <1>1, <1>4, <1>5, <1>6, <1>7

\* A call that does not fail keeps CleanInv.
LEMMA WorkClean ==
    ASSUME IInv, IInv', ControlInv, CleanInv, faults = 0, faults' = 0, NEW p \in Procs, Work(p)
    PROVE  CleanInv'
<1>1. late' = {} /\ Parses' /\ OnlyOf(p)
  BY CleanMoves, WorkProceeds
<1>2. \A q \in Procs : pc'[q] \notin {"restore", "unadd"} \cup RollbackSteps
  BY <1>1, CleanMoves DEF CleanInv, OnlyOf
<1>3. \A q \in Procs : loc'[q].cmd # "open" /\ pc'[q] \in WritingSteps => loc'[q].active # {}
  BY <1>1, CleanActive DEF CleanInv, OnlyOf
<1>4. (\A q \in Procs : ~Reloads(q)') => running' = Installed'
  BY CleanReloads
<1> QED BY <1>1, <1>2, <1>3, <1>4 DEF CleanInv, Parses, Reloads, Regenerating

\* A command that starts keeps it.
LEMMA EnterClean ==
    ASSUME IInv, CleanInv, NEW p \in Procs, NEW c \in Commands, Enter(p, c)
    PROVE  CleanInv'
<1>1. /\ pc \in [Procs -> Labels] /\ loc \in [Procs -> Locals]
      /\ pc[p] = "idle" /\ UNCHANGED <<edgeVars, late>>
      /\ pc' = [pc EXCEPT ![p] = c] /\ loc' = [loc EXCEPT ![p] = [Blank EXCEPT !.cmd = c]]
  BY IInvParts DEF ProcInv, Enter, Goto, Unchanged
<1>2. \A q \in Procs \ {p} : pc'[q] = pc[q] /\ loc'[q] = loc[q]
  BY <1>1
<1>3. pc'[p] = c /\ c \in {"open", "close", "sweep", "sync", "adopt", "list"}
  BY <1>1 DEF Commands
<1>4. \A q \in Procs : Reloads(q) => Reloads(q)'
  BY <1>1, <1>2 DEF Reloads, Regenerating
<1>5. UNCHANGED <<disk, running, late, Installed, Parses>>
  BY <1>1 DEF edgeVars, Installed, Parses
<1>6. \A q \in Procs : pc'[q] \notin {"restore", "unadd"} \cup RollbackSteps
  BY <1>2, <1>3 DEF CleanInv, RollbackSteps
<1>7. \A q \in Procs : loc'[q].cmd # "open" /\ pc'[q] \in WritingSteps => loc'[q].active # {}
  BY <1>2, <1>3 DEF CleanInv, WritingSteps
<1> QED BY <1>4, <1>5, <1>6, <1>7 DEF CleanInv

\* Users, the clock and a restart of Caddy keep it.
LEMMA EnvironmentClean ==
    ASSUME CleanInv, Environment \/ UNCHANGED vars
    PROVE  CleanInv'
<1>1. UNCHANGED <<pc, loc, disk, late>>
  BY DEF Environment, CleanInv, Expire, UserCreate, UserDelete, CaddyRestart, Land, vars, edgeVars
<1>2. UNCHANGED <<Installed, Parses>>
  BY <1>1 DEF Installed, Parses
<1>3. running' = running \/ running' = Installed
  <2>1. CASE UNCHANGED vars
    BY <2>1 DEF vars, edgeVars
  <2>2. CASE Environment
    BY <2>2 DEF Environment, CleanInv, Expire, UserCreate, UserDelete, CaddyRestart, Land, edgeVars
  <2> QED BY <2>1, <2>2
<1> QED BY <1>1, <1>2, <1>3 DEF CleanInv, Reloads, Regenerating

-----------------------------------------------------------------------------
(* Once something has failed, something has failed.                        *)

\* The counts of what failed only grow.
LEMMA FaultsGrow ==
    ASSUME IInv, [Next]_vars
    PROVE  faults' \in {faults, faults + 1} /\ kills' \in {kills, kills + 1}
<1>1. ASSUME NEW p \in Procs, NEW c \in Commands, Enter(p, c)
      PROVE  UNCHANGED <<faults, kills>>
  BY <1>1 DEF Enter, Unchanged
<1>2. ASSUME NEW p \in Procs, Kill(p)
      PROVE  UNCHANGED faults /\ kills' = kills + 1
  BY <1>2 DEF Kill
<1>3. ASSUME NEW p \in Procs, Work(p)
      PROVE  UNCHANGED kills /\ faults' \in {faults, faults + 1}
  <2>1. UNCHANGED kills
    BY <1>3, WorkChanges
  <2> USE DEF Fault, Unchanged, DiesReading, Deletes, DeleteErrs, ManagedLinks
  <2>2. CASE Open(p) \/ Snippet(p)
    BY <2>2 DEF Open, Snippet, OpenRead, CreateLink, Record, Strands, Unadd, EnableForward, Write, Validate,
                Restore, Call, Succeeds, Errs
  <2>3. CASE Converging(p) \/ Rollback(p)
    BY <2>3 DEF Converging, Rollback, Survey, Remove, Reload, Disable, UndoKey, UndoGlobals,
                UndoReload, UndoForward, UndoLink, Call, Succeeds, Errs
  <2>4. CASE Close(p) \/ Sweep(p) \/ Sync(p) \/ List(p) \/ Leave(p)
    BY <2>4 DEF Close, Sweep, Sync, List, Leave, CloseRead, Revoke, SweepRead, Purge, Forget,
                Converge, SyncRead, AdoptRead, ListLinks, ListSnippets
  <2> QED BY <1>3, <2>1, <2>2, <2>3, <2>4 DEF Work
<1>4. ASSUME Environment \/ UNCHANGED vars
      PROVE  UNCHANGED <<faults, kills>>
  BY <1>4 DEF Environment, Expire, UserCreate, UserDelete, CaddyRestart, Land, vars
<1> QED BY <1>1, <1>2, <1>3, <1>4 DEF Next

\* If nothing has failed now, nothing had before.
LEMMA FailsOnce ==
    ASSUME IInv, [Next]_vars, NothingFailed'
    PROVE  NothingFailed
<1>1. faults \in Nat /\ kills \in Nat
  BY DEF IInv, TypeOK, PortalTypeOK
<1> QED BY <1>1, FaultsGrow DEF NothingFailed

\* The invariant of the runs in which nothing has failed yet.
CleanSafe == NothingFailed => CleanInv /\ ReportInv

\* Every step keeps CleanInv and ReportInv until something fails.
LEMMA CleanStep == BaseInv /\ BaseInv' /\ CleanSafe /\ [Next]_vars => CleanSafe'
<1> SUFFICES ASSUME BaseInv, BaseInv', CleanSafe, [Next]_vars, NothingFailed'
             PROVE  CleanInv' /\ ReportInv'
  BY DEF CleanSafe
<1>1. NothingFailed /\ CleanInv /\ ReportInv
  BY FailsOnce DEF CleanSafe, BaseInv
<1>2. CleanInv'
  <2>1. ASSUME NEW p \in Procs, NEW c \in Commands, Enter(p, c) PROVE CleanInv'
    BY <1>1, <2>1, EnterClean DEF BaseInv
  <2>2. ASSUME NEW p \in Procs, Work(p) PROVE CleanInv'
    BY <1>1, <2>2, WorkClean DEF BaseInv, NothingFailed
  <2>3. ASSUME NEW p \in Procs, Kill(p) PROVE FALSE
    BY <1>1, <2>3 DEF Kill, NothingFailed
  <2>4. CASE Environment \/ UNCHANGED vars
    BY <1>1, <2>4, EnvironmentClean
  <2> QED BY <2>1, <2>2, <2>3, <2>4 DEF Next
<1>3. NoneLeft /\ NoneLeft'
  BY <1>1, <1>2 DEF CleanInv, NoneLeft
<1> QED BY <1>1, <1>2, <1>3, ReportStep

\* A sweep, close or sync that has closed the portal left nothing.
LEMMA CleanClosed ==
    ASSUME BaseInv, CleanInv, ReportInv, NEW p \in Procs, pc[p] = "closed"
    PROVE  Installed = {} /\ running = {} /\ ~forward
<1>1. loc[p].cmd # "open"
  BY DEF BaseInv, ControlInv, StepsOf, OpenSteps, PublishSteps, RollbackSteps
<1>2. loc[p].active = {} /\ ~forward /\ Installed \subseteq Keep(loc[p].active)
  BY <1>1 DEF ReportInv, SurveyOK
<1>3. Installed = {}
  BY <1>2 DEF Keep
<1>4. Mutating(p)
  BY DEF Mutating, Holds, ListSteps
<1>5. \A q \in Procs : ~Reloads(q)
  BY <1>4, Alone DEF Reloads, BaseInv
<1> QED BY <1>2, <1>3, <1>5 DEF CleanInv

-----------------------------------------------------------------------------
(* The theorems.                                                           *)

\* All of it holds of a portal that was never opened.
LEMMA InitBase == Init => BaseInv /\ ReportInv /\ CleanSafe
<1> SUFFICES ASSUME Init PROVE BaseInv /\ ReportInv /\ CleanInv
  BY DEF CleanSafe
<1>1. IInv
  BY InitIInv
<1>2. ControlInv /\ KnownInv /\ ReportInv
  BY InitReport
<1>3. CleanInv
  BY DEF Init, PortalInit, CleanInv, Parses, Installed, RollbackSteps, WritingSteps
<1> QED BY <1>1, <1>2, <1>3 DEF BaseInv

\* Whoever changes things is alone with the lock, and knows the links it
\* works on, whatever fails, lands late or is interrupted.
THEOREM BaseHolds == Spec => []BaseInv
<1>1. Init => BaseInv
  BY InitBase
<1> QED BY <1>1, BaseStep, PTL DEF Spec

\* cmd_list reads the links first and the snippets later, and yet it reports no
\* orphan snippet whose link exists.
THEOREM OrphansHaveNoLink == Spec => []OrphanMeansNoLink
<1>1. BaseInv => OrphanMeansNoLink
  BY DEF BaseInv, KnownInv, KnownOK, ListOK, OrphanMeansNoLink
<1> QED BY <1>1, BaseHolds, PTL

\* _sync_portal: "Portal fully closed" is true of the files, the running Caddy
\* and the forward, if no call has failed and nobody was killed before.
THEOREM CloseIsTrue == Spec => []ClosedUnlessFailed
<1>1. Init => CleanSafe
  BY InitBase
<1>2. BaseInv /\ CleanSafe => ClosedUnlessFailed
  BY CleanClosed DEF CleanSafe, NothingFailed, ClosedUnlessFailed, FullyClosedIsClosed
<1> QED BY <1>1, <1>2, BaseHolds, CleanStep, PTL DEF Spec

\* What close and sweep say of the links and of the registry, whatever a lost
\* client has left running on a host.
LinksRevoked ==
    \A p \in Procs : pc[p] \in {"done", "closed"} =>
        /\ loc[p].cmd = "close" => loc[p].key \notin links \cup registry
        /\ loc[p].cmd = "sweep" => loc[p].due \cap (links \cup registry) = {}

\* cmd_close and cmd_sweep: a revocation that was reported needs no hypothesis
\* on what lands late; only the snippets and the routes do.
THEOREM RevocationHolds == Spec => []LinksRevoked
<1>1. ASSUME BaseInv PROVE LinksRevoked
  <2> SUFFICES ASSUME NEW p \in Procs, pc[p] \in {"done", "closed"}
               PROVE  /\ loc[p].cmd = "close" => loc[p].key \notin links \cup registry
                      /\ loc[p].cmd = "sweep" => loc[p].due \cap (links \cup registry) = {}
    BY DEF LinksRevoked
  <2>1. CloseOK(pc[p], loc[p]) /\ SweepOK(pc[p], loc[p]) /\ pc[p] \in EndSteps
    BY <1>1 DEF BaseInv, KnownInv, KnownOK, EndSteps
  <2> QED BY <2>1 DEF CloseOK, SweepOK
<1>2. BaseInv => LinksRevoked
  BY <1>1
<1> QED BY <1>2, BaseHolds, PTL

\* What a process knows of the edge holds while no command is left behind.
THEOREM ReportHolds == Spec /\ []NoneLeft => []ReportInv
<1>1. Init => ReportInv
  BY InitBase
<1> QED BY <1>1, BaseHolds, ReportStep, PTL DEF Spec

\* _open_share: an open that rolled back its failure without a warning leaves
\* no link, snippet or route, and no later command brings one back.  One that
\* failed and left its link alive, unrecorded, leaves no snippet or route, and
\* it gets none as long as nobody adopts it.
THEOREM FailedStayPrivate == Spec /\ []NoneLeft => []FailedOpenStaysPrivate
<1>1. IInv /\ ReportInv => FailedOpenStaysPrivate
  <2> SUFFICES ASSUME IInv, ReportInv, NEW k \in Keys
               PROVE  /\ fate[k] = "failed" => k \notin links
                      /\ fate[k] = "failed" \/ (fate[k] = "stranded" /\ k \notin recorded) =>
                           disk[k] = "absent" /\ k \notin running
    BY DEF FailedOpenStaysPrivate
  <2>1. fate[k] = "failed" => k \notin links /\ disk[k] = "absent" /\ k \notin running
    BY DEF ReportInv, PrivateInv, FailedPrivate
  <2>2. k \notin recorded => disk[k] = "absent" /\ k \notin running
    <3>1. k \in Names /\ k # Globals
      BY KeysAssumption DEF Names
    <3> QED BY <3>1, IInvParts DEF EdgeInv, OnlyRecordedPublished, Installed
  <2> QED BY <2>1, <2>2
<1> QED BY <1>1, BaseHolds, ReportHolds, PTL DEF BaseInv

\* Whatever cmd_sweep, cmd_close and the rollback of _open_share remove, every
\* route of an active share keeps the globals and the forward.
THEOREM RoutesAreServed == Spec /\ []NoneLeft => []ActiveRoutesServed
<1>1. ReportInv => ActiveRoutesServed
  BY DEF ReportInv, ServedInv
<1> QED BY <1>1, ReportHolds, PTL

\* _open_share: an open that reports success leaves the share in the registry, on
\* disk and in the running Caddy, with the globals and the forward.
THEOREM OpensWhole == Spec /\ []NoneLeft => []OpenSucceedsWhole
<1>1. ASSUME BaseInv, ReportInv PROVE OpenSucceedsWhole
  <2> SUFFICES ASSUME NEW p \in Procs, pc[p] = "opened"
               PROVE  LET k == loc[p].key
                      IN /\ {k, Globals} \subseteq running
                         /\ disk[k] = "good" /\ disk[Globals] = "good"
                         /\ forward
                         /\ k \in registry
    BY DEF OpenSucceedsWhole
  <2>1. loc[p].cmd = "open"
    BY <1>1 DEF BaseInv, ControlInv, StepsOf, EndSteps, SyncSteps, PublishSteps, ListSteps
  <2>2. WholeOK(pc[p], loc[p]) /\ OwnOK(pc[p], loc[p])
    BY <1>1 DEF BaseInv, KnownInv, KnownOK, ReportInv
  <2> QED BY <2>1, <2>2 DEF WholeOK, OwnOK
<1>2. BaseInv /\ ReportInv => OpenSucceedsWhole
  BY <1>1
<1> QED BY <1>2, BaseHolds, ReportHolds, PTL

\* cmd_close: a close that ended well left no link, registry entry or snippet of
\* the share.
THEOREM ClosesRevoke == Spec /\ []NoneLeft => []CloseRevokes
<1>1. ASSUME BaseInv, ReportInv PROVE CloseRevokes
  <2> SUFFICES ASSUME NEW p \in Procs, pc[p] \in {"done", "closed"}, loc[p].cmd = "close"
               PROVE  loc[p].key \notin links \cup registry \cup Installed
    BY DEF CloseRevokes
  <2>1. loc[p].key \in Handed \ (links \cup registry) /\ loc[p].key \notin loc[p].active
    BY <1>1 DEF BaseInv, KnownInv, KnownOK, CloseOK, EndSteps
  <2>2. Installed \subseteq Keep(loc[p].active)
    BY <1>1 DEF ReportInv, SurveyOK
  <2>3. loc[p].key # Globals
    BY <2>1, KeysAssumption DEF Handed
  <2> QED BY <2>1, <2>2, <2>3 DEF Keep
<1>2. BaseInv /\ ReportInv => CloseRevokes
  BY <1>1
<1> QED BY <1>2, BaseHolds, ReportHolds, PTL

\* cmd_sweep: a sweep that ended well left no link, registry entry or snippet of
\* the shares that had expired when it read the links.
THEOREM SweepsRevoke == Spec /\ []NoneLeft => []SweepRevokes
<1>1. ASSUME BaseInv, ReportInv PROVE SweepRevokes
  <2> SUFFICES ASSUME NEW p \in Procs, pc[p] \in {"done", "closed"}, loc[p].cmd = "sweep"
               PROVE  loc[p].due \cap (links \cup registry \cup Installed) = {}
    BY DEF SweepRevokes
  <2>1. /\ loc[p].due \subseteq Handed /\ loc[p].due \cap (links \cup registry) = {}
        /\ loc[p].due \cap loc[p].active = {}
    BY <1>1 DEF BaseInv, KnownInv, KnownOK, SweepOK, EndSteps
  <2>2. Installed \subseteq Keep(loc[p].active)
    BY <1>1 DEF ReportInv, SurveyOK
  <2>3. Globals \notin loc[p].due
    BY <2>1, KeysAssumption DEF Handed
  <2> QED BY <2>1, <2>2, <2>3 DEF Keep
<1>2. BaseInv /\ ReportInv => SweepRevokes
  BY <1>1
<1> QED BY <1>2, BaseHolds, ReportHolds, PTL

\* cmd_sync and cmd_adopt: what they end with is active, on disk and in the
\* running Caddy, and nothing else is.
THEOREM SyncsWhole == Spec /\ []NoneLeft => []SyncSucceedsWhole
<1>1. ASSUME BaseInv, ReportInv PROVE SyncSucceedsWhole
  <2> SUFFICES ASSUME NEW p \in Procs, pc[p] = "done", loc[p].cmd \in {"sync", "adopt"}
               PROVE  /\ Active \subseteq loc[p].active
                      /\ loc[p].cmd = "adopt" /\ loc[p].key \in links \ past =>
                           loc[p].key \in loc[p].active
                      /\ Installed = loc[p].active \cup {Globals} /\ running = Installed
                      /\ Parses
                      /\ forward
    BY DEF SyncSucceedsWhole
  <2>1. loc[p] \in Locals /\ disk \in [Names -> Contents] /\ recorded \cap links \subseteq registry
    BY <1>1, IInvParts DEF BaseInv, ProcInv, EdgeInv, KeysInv, OwnershipKept
  <2>2. SyncOK(pc[p], loc[p]) /\ SurveyOK(pc[p], loc[p]) /\ ServedOK(pc[p], loc[p])
    BY <1>1 DEF ReportInv
  <2>3. Active \subseteq loc[p].active
    BY <2>2 DEF ServedOK, EndSteps
  <2>4. loc[p].cmd = "adopt" => loc[p].key \in recorded
    BY <1>1 DEF BaseInv, KnownInv, KnownOK, AdoptOK, SyncSteps, EndSteps
  <2>5. loc[p].cmd = "adopt" /\ loc[p].key \in links \ past => loc[p].key \in Active
    BY <2>1, <2>4 DEF Active, Owned
  <2> QED BY <2>1, <2>2, <2>3, <2>5, Synced
<1>2. BaseInv /\ ReportInv => SyncSucceedsWhole
  BY <1>1
<1> QED BY <1>2, BaseHolds, ReportHolds, PTL

\* open, sync and adopt: what was reported as published is there.
THEOREM SuccessesWhole == Spec /\ []NoneLeft => []SucceedsWhole
<1>1. OpenSucceedsWhole /\ SyncSucceedsWhole => SucceedsWhole
  BY DEF SucceedsWhole
<1> QED BY <1>1, OpensWhole, SyncsWhole, PTL

\* close and sweep: what was reported as revoked is gone.
THEOREM RevocationsWhole == Spec /\ []NoneLeft => []RevokesWhole
<1>1. CloseRevokes /\ SweepRevokes => RevokesWhole
  BY DEF RevokesWhole
<1> QED BY <1>1, ClosesRevoke, SweepsRevoke, PTL

\* A call leaves no command behind where no client can be lost.
LEMMA NobodyLeft ==
    ASSUME MaxLate = 0, late = {}, NEW o, Succeeds(o) \/ Errs(o)
    PROVE  late' = {}
BY FS_EmptySet DEF Succeeds, Errs

\* The hypothesis above holds where every client waits for its command, as
\* in the run ShareFaults: no command is left behind.
THEOREM NobodyIsLeft == ASSUME MaxLate = 0 PROVE Spec => []NoneLeft
<1>1. Init => NoneLeft
  BY DEF Init, PortalInit, NoneLeft
<1>2. ASSUME MaxLate = 0, late = {}, [Next]_vars PROVE late' = {}
  <2>1. ASSUME NEW p \in Procs, NEW c \in Commands, Enter(p, c) PROVE late' = {}
    BY <1>2, <2>1 DEF Enter, Unchanged
  <2>2. ASSUME NEW p \in Procs, Kill(p) PROVE late' = {}
    BY <1>2, <2>2, FS_EmptySet DEF Kill
  <2>3. ASSUME NEW p \in Procs, Work(p) PROVE late' = {}
    <3>1. CASE pc[p] \notin EdgeSteps
      BY <1>2, <2>3, <3>1, WorkChanges
    <3>2. CASE pc[p] \in EdgeSteps
      <4>1. \E o : Succeeds(o) \/ Errs(o)
        BY <2>3, <3>2, WorkPlaces
           DEF EdgeSteps, RollbackSteps, EnableForward, Write, Restore, Remove, Reload, Disable,
               UndoKey, UndoGlobals, UndoReload, UndoForward, Call
      <4> QED BY <1>2, <4>1, NobodyLeft
    <3> QED BY <3>1, <3>2
  <2>4. CASE Environment \/ UNCHANGED vars
    BY <1>2, <2>4 DEF Environment, Expire, UserCreate, UserDelete, CaddyRestart, Land, vars
  <2> QED BY <1>2, <2>1, <2>2, <2>3, <2>4 DEF Next
<1>3. NoneLeft /\ [Next]_vars => NoneLeft'
  BY <1>2 DEF NoneLeft
<1> QED BY <1>1, <1>3, PTL DEF Spec

\* Where every client waits for its command, all that open, close, sweep, sync
\* and adopt report is true, whatever calls fail and whoever is killed.
THEOREM ReportsTrue ==
    ASSUME MaxLate = 0
    PROVE  Spec => [](/\ FailedOpenStaysPrivate /\ ActiveRoutesServed
                      /\ SucceedsWhole /\ RevokesWhole)
BY NobodyIsLeft, FailedStayPrivate, RoutesAreServed, SuccessesWhole, RevocationsWhole, PTL
=============================================================================
