------------------------------ MODULE LogLimit ------------------------------
(***************************************************************************)
(* log of macmini/photo-share-monitor.py for one category of messages: a   *)
(* line now and then, and a count of what was suppressed in between.  Each *)
(* thread reads the clock, takes _log_lock and prints after releasing it.  *)
(***************************************************************************)
EXTENDS Integers, Sequences

CONSTANTS
    Threads,   \* threads that log
    Every,     \* LOG_REPEAT_EVERY
    MaxTime,   \* bound: time
    MaxMessages   \* bound: messages

ASSUME LogAssumption == Every \in Nat \ {0} /\ MaxTime \in Nat /\ MaxMessages \in Nat

VARIABLES
    monotonic,  \* the clock
    caller,     \* of each thread: [at, now, suppressed]
    last,       \* _log_last: {} or the stamp of the last line
    suppressed, \* _log_suppressed
    messages,   \* how many messages there were, for the bound
    lines       \* history: the stamps of the lines, in the order of _log_lock

logVars == <<monotonic, caller, last, suppressed, messages, lines>>

Quiet == [at |-> "quiet", now |-> 0, suppressed |-> 0]

CallLog(t) ==
    /\ caller[t].at = "quiet"
    /\ messages < MaxMessages
    /\ messages' = messages + 1
    /\ caller' = [caller EXCEPT ![t] = [Quiet EXCEPT !.at = "locking", !.now = monotonic]]
    /\ UNCHANGED <<monotonic, last, suppressed, lines>>

\* Mutant: a message counts as recent only if it came after the last line.
SoonAfter(now) == \E l \in last : l <= now /\ now < l + Every
\* now - last < every, also for a clock read before that of the last line.
TooSoon(now) == \E l \in last : now < l + Every

\* The two dictionaries, under the lock.
Decide(t) ==
    LET now == caller[t].now IN
    /\ caller[t].at = "locking"
    /\ IF TooSoon(now)
         THEN /\ suppressed' = suppressed + 1
              /\ caller' = [caller EXCEPT ![t] = Quiet]
              /\ UNCHANGED <<last, lines>>
         ELSE /\ suppressed' = 0
              /\ last' = {now}
              /\ caller' = [caller EXCEPT ![t] = [at |-> "printing", now |-> now, suppressed |-> suppressed]]
              /\ lines' = Append(lines, now)
    /\ UNCHANGED <<monotonic, messages>>

\* The line is written to stderr.
PrintLine(t) ==
    /\ caller[t].at = "printing"
    /\ caller' = [caller EXCEPT ![t] = Quiet]
    /\ UNCHANGED <<monotonic, last, suppressed, messages, lines>>

LogTick ==
    /\ monotonic < MaxTime
    /\ monotonic' = monotonic + 1
    /\ UNCHANGED <<caller, last, suppressed, messages, lines>>

LogInit ==
    /\ monotonic = 0
    /\ caller = [t \in Threads |-> Quiet]
    /\ last = {} /\ suppressed = 0 /\ messages = 0 /\ lines = <<>>

LogNext ==
    \/ LogTick
    \/ \E t \in Threads : CallLog(t) \/ Decide(t) \/ PrintLine(t)

LogSpec == LogInit /\ [][LogNext]_logVars

-----------------------------------------------------------------------------
(* "Repeating a category at most once per every s": whatever order the     *)
(* threads take the lock in, and though each read the clock before, the    *)
(* lines that are let through are Every apart.                             *)
LinesSpaced == \A i, j \in DOMAIN lines : i < j => lines[i] + Every <= lines[j]
=============================================================================
