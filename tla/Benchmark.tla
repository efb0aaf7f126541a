------------------------------ MODULE Benchmark ------------------------------
(***************************************************************************)
(* scripts/benchmark-downloads.py: levels of concurrent workers that       *)
(* download one file over and over until a deadline, and what is counted   *)
(* of it.  Of the time only what the code compares matters: whether it is  *)
(* early, in the last half second of the level, or over.                   *)
(***************************************************************************)
EXTENDS Integers, Sequences

CONSTANTS
    LevelLists,            \* what --levels may give
    Durations, Cooldowns,  \* --duration and --cooldown, in seconds
    MaxStarted             \* bound: downloads of one worker in a level

VARIABLES
    stage,     \* where main is
    args,      \* its arguments
    level,     \* index of the level
    time,      \* "early", "closing" or "over"
    crew,      \* the workers of the level
    total,     \* the aggregate of the level
    status     \* the exit status

benchVars == <<stage, args, level, time, crew, total, status>>

Outcomes == {"completed", "limited", "errors", "unexpected"}

\* "late": history, the downloads that saw the last half second.
Counters == Outcomes \cup {"started", "late"}
Stats == [c \in Counters |-> 0]

Worker == [at |-> "loop", stats |-> Stats]

-----------------------------------------------------------------------------
(* main                                                                    *)

\* parse_levels, and the checks of main: an https address of an original.
LevelsOK(levels) ==
    /\ levels # <<>>
    /\ \A i \in DOMAIN levels : levels[i] \in 1 .. 32
    /\ \A i, j \in DOMAIN levels : i < j => levels[i] < levels[j]

ArgsOK ==
    /\ LevelsOK(args.levels)
    /\ args.duration \in 10 .. 300
    /\ args.cooldown \in 0 .. 60
    /\ args.original

Leave(s) == stage' = "exited" /\ status' = s

ParseArgs ==
    /\ stage = "args"
    /\ IF ArgsOK THEN stage' = "ready" /\ UNCHANGED status ELSE Leave(2)
    /\ UNCHANGED <<args, level, time, crew, total>>

StartLevel(n) ==
    /\ stage' = "level"
    /\ level' = n
    /\ time' = "early"
    /\ crew' = [w \in 1 .. args.levels[n] |-> Worker]
    /\ total' = Stats
    /\ UNCHANGED status

\* Refused by the operator, or unlock fails; or the first level.
Unlock ==
    /\ stage = "ready"
    /\ \/ StartLevel(1)
       \/ \E s \in {1, 2} : Leave(s) /\ UNCHANGED <<level, time, crew, total>>
    /\ UNCHANGED args

\* Stats.merge
Merge(s, t) == [c \in DOMAIN s |-> s[c] + t[c]]

\* as_completed: each worker once, when it has returned.
Collect(w) ==
    /\ stage = "level"
    /\ crew[w].at = "returned"
    /\ total' = Merge(total, crew[w].stats)
    /\ crew' = [crew EXCEPT ![w].at = "merged"]
    /\ UNCHANGED <<stage, args, level, time, status>>

\* result() raises what the worker did not catch.
CollectRaised(w) ==
    /\ stage = "level"
    /\ crew[w].at = "raised"
    /\ stage' = "failing"
    /\ UNCHANGED <<args, level, time, crew, total, status>>

\* The pool waits for its workers before the exception leaves main.
Fail ==
    /\ stage = "failing"
    /\ \A w \in DOMAIN crew : crew[w].at \in {"returned", "merged", "raised"}
    /\ Leave(1)
    /\ UNCHANGED <<args, level, time, crew, total>>

\* The row of the level, and the cooldown if another one follows.
Report ==
    /\ stage = "level"
    /\ \A w \in DOMAIN crew : crew[w].at = "merged"
    /\ CASE total.unexpected > 0 -> Leave(1) /\ UNCHANGED <<level, time, crew, total>>
         [] total.unexpected = 0 /\ level < Len(args.levels) -> StartLevel(level + 1)
         [] OTHER -> Leave(0) /\ UNCHANGED <<level, time, crew, total>>
    /\ UNCHANGED args

-----------------------------------------------------------------------------
(* worker                                                                  *)

Working(w, at) == stage \in {"level", "failing"} /\ crew[w].at = at

Over == time = "over"

Move(w, at) ==
    /\ crew' = [crew EXCEPT ![w].at = at]
    /\ UNCHANGED <<stage, args, level, time, total, status>>

CountAndMove(w, c, at) ==
    /\ crew' = [crew EXCEPT ![w].at = at, ![w].stats[c] = @ + 1]
    /\ UNCHANGED <<stage, args, level, time, total, status>>

\* The loop: another download, or the end.
Begin(w) ==
    /\ Working(w, "loop") /\ ~Over
    /\ crew[w].stats.started < MaxStarted
    /\ crew' = [crew EXCEPT ![w].at = "waiting", ![w].stats.started = @ + 1,
                            ![w].stats.late = IF time = "closing" THEN @ + 1 ELSE @]
    /\ UNCHANGED <<stage, args, level, time, total, status>>

Return(w) == Working(w, "loop") /\ Over /\ Move(w, "returned")

\* The headers of a file.
Headers(w) == Working(w, "waiting") /\ Move(w, "reading")

\* An empty chunk: the end of the file, wherever the connection broke.
FileEnds(w) == Working(w, "reading") /\ CountAndMove(w, "completed", "loop")

\* The inner loop sees the deadline after a chunk, or before the first.
CutAtDeadline(w) == Working(w, "reading") /\ Over /\ Move(w, "loop")

\* 401, 403 or 404: the worker returns; text or JSON, whose body is read first.
Unexpected(w) ==
    /\ Working(w, "waiting")
    /\ \E at \in {"returned", "rejected"} : CountAndMove(w, "unexpected", at)

ReadRejected(w) == Working(w, "rejected") /\ Move(w, "returned")

\* 429, and any other status: a pause that ends at the deadline at the latest.
Limited(w) == Working(w, "waiting") /\ CountAndMove(w, "limited", "asleep")
HttpFails(w) == Working(w, "waiting") /\ CountAndMove(w, "errors", "asleep")

\* Mutant: the timeouts of a request that is being read are expected.
ExpectedIfReading(w) == time # "early" \/ crew[w].at = "reading"
Expected(w) == time # "early"

\* A timeout or a broken connection; in the body of a rejected response the
\* download counts again, and the worker goes on.
Breaks(w) ==
    /\ \E at \in {"waiting", "reading", "rejected"} : Working(w, at)
    /\ IF Expected(w) THEN Move(w, "asleep") ELSE CountAndMove(w, "errors", "asleep")

\* A body in chunks that is cut short: nothing catches what http.client raises.
Raise(w) == (Working(w, "reading") \/ Working(w, "rejected")) /\ Move(w, "raised")

Wake(w) == Working(w, "asleep") /\ Move(w, "loop")

Pass ==
    /\ stage \in {"level", "failing"} /\ ~Over
    /\ time' = IF time = "early" THEN "closing" ELSE "over"
    /\ crew' = [w \in DOMAIN crew |->
         IF time = "early" /\ crew[w].at \in {"waiting", "reading"}
           THEN [crew[w] EXCEPT !.stats.late = @ + 1] ELSE crew[w]]
    /\ UNCHANGED <<stage, args, level, total, status>>

-----------------------------------------------------------------------------
BenchInit ==
    /\ stage = "args"
    /\ args \in [levels : LevelLists, duration : Durations, cooldown : Cooldowns, original : BOOLEAN]
    /\ level = 0 /\ time = "early" /\ crew = <<>> /\ total = Stats
    /\ status = 0

WorkerStep(w) ==
    \/ Begin(w) \/ Return(w) \/ Headers(w) \/ FileEnds(w) \/ CutAtDeadline(w)
    \/ Unexpected(w) \/ ReadRejected(w) \/ Limited(w) \/ HttpFails(w) \/ Breaks(w)
    \/ Raise(w) \/ Wake(w) \/ Collect(w) \/ CollectRaised(w)

BenchNext ==
    \/ ParseArgs \/ Unlock \/ Report \/ Fail \/ Pass
    \/ \E w \in DOMAIN crew : WorkerStep(w)

BenchSpec == BenchInit /\ [][BenchNext]_benchVars

-----------------------------------------------------------------------------
(* "Earlier timeouts remain visible in the counter": the row of a level    *)
(* accounts for every download but those that saw its last half second,    *)
(* and for none twice, unless it was rejected and then broke (worker).     *)
RowAccounts ==
    stage = "level" /\ (\A w \in DOMAIN crew : crew[w].at = "merged") =>
        LET ended == total.completed + total.limited + total.errors
        IN /\ ended <= total.started
           /\ total.started <= ended + total.unexpected + total.late
==============================================================================
