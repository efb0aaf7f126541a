------------------------------ MODULE Tripwire ------------------------------
(***************************************************************************)
(* macmini/denied-tripwire.sh: stream follows the NAS filter's denied.log  *)
(* through ssh and mixes ticks into it; consume reads the mixture from a   *)
(* pipe and coalesces the refusals in it into notifications.  When the     *)
(* stream ends the script does, and launchd starts it again.  Points in    *)
(* time are kept as the time left until then.                              *)
(***************************************************************************)
EXTENDS Naturals, Sequences, FiniteSetsExt

CONSTANTS
    Coalesce,   \* COALESCE_SECONDS
    TickEvery,  \* TICK_SECONDS
    MaxNotify,  \* the --max-time of curl
    Throttle,   \* ThrottleInterval of launchd
    MaxLines,   \* bound: lines in denied.log
    MaxFaults   \* bound: lost connections, failed deliveries, kills

ASSUME TripwireAssumption ==
    /\ {Coalesce, TickEvery} \subseteq Nat \ {0}
    /\ {MaxNotify, Throttle, MaxLines, MaxFaults} \subseteq Nat

VARIABLES
    denied,    \* denied.log: each line a "refusal", or a "probe" of the doctor
    position,  \* the next line that tail -F will send
    ssh,       \* is the connection up
    streaming, \* has stream not returned yet
    pipe,      \* line numbers and ticks on their way to consume
    pc,        \* "read", "notify", "final" (the notification at the end), "down"
    pending,   \* of consume: refusals to report
    first,     \* of consume: the first of them, 0 if unset
    wake,      \* time until the sleep of stream ends
    quiet,     \* time until last_sent is COALESCE_SECONDS ago
    wait,      \* time until curl gives up, or launchd may start the script
    owed,      \* history: refusals read and in no notification yet
    age,       \* history: time since the oldest of them was read
    reports,   \* history: in how many notifications each line was
    faults

streamVars == <<position, ssh, streaming, wake>>
consumeVars == <<pending, first, quiet, wait>>
history == <<owed, age, reports>>
vars == <<denied, streamVars, pipe, pc, consumeVars, history, faults>>

Tick == 0

\* How long a refusal may wait: the quiet period, the next tick, the delivery.
Deadline == Coalesce + TickEvery + MaxNotify

Fault ==
    /\ faults < MaxFaults
    /\ faults' = faults + 1

-----------------------------------------------------------------------------
(* stream                                                                  *)

\* tail sends a line through ssh.
Deliver ==
    /\ ssh
    /\ position <= Len(denied)
    /\ pipe' = Append(pipe, position)
    /\ position' = position + 1
    /\ UNCHANGED <<denied, ssh, streaming, wake, pc, consumeVars, history, faults>>

\* Mutant: stream does not look whether ssh is still there.
WakeBlind ==
    /\ streaming
    /\ wake = 0
    /\ pipe' = Append(pipe, Tick)
    /\ wake' = TickEvery
    /\ UNCHANGED <<denied, position, ssh, streaming, pc, consumeVars, history, faults>>

\* The sleep ends: a tick, and another sleep if ssh is still there.
Wake ==
    /\ streaming
    /\ wake = 0
    /\ pipe' = Append(pipe, Tick)
    /\ streaming' = ssh
    /\ wake' = IF ssh THEN TickEvery ELSE 0
    /\ UNCHANGED <<denied, position, ssh, pc, consumeVars, history, faults>>

Disconnect ==
    /\ ssh
    /\ Fault
    /\ ssh' = FALSE
    /\ UNCHANGED <<denied, position, streaming, wake, pipe, pc, consumeVars, history>>

-----------------------------------------------------------------------------
(* consume                                                                 *)

IsRefusal(item) == item # Tick /\ denied[item] = "refusal"

\* Mutant: the first line of the summary is the last one.
LastLine(item) == IF IsRefusal(item) THEN item ELSE first
FirstLine(item) == IF pending = 0 /\ IsRefusal(item) THEN item ELSE first

\* Mutant: ticks are skipped.
ReportsLine(item, n) == item # Tick /\ n > 0 /\ quiet = 0
Reports(item, n) == n > 0 /\ quiet = 0

Read ==
    /\ pc = "read"
    /\ pipe # <<>>
    /\ LET item == Head(pipe)
           n == IF IsRefusal(item) THEN pending + 1 ELSE pending
       IN /\ pending' = n
          /\ first' = FirstLine(item)
          /\ owed' = IF IsRefusal(item) THEN owed \cup {item} ELSE owed
          /\ IF Reports(item, n)
               THEN pc' = "notify" /\ quiet' = Coalesce /\ wait' = MaxNotify
               ELSE UNCHANGED <<pc, quiet, wait>>
    /\ pipe' = Tail(pipe)
    /\ UNCHANGED <<denied, streamVars, age, reports, faults>>

\* curl returns; that a delivery failed is only logged.
Notified ==
    /\ pc \in {"notify", "final"}
    /\ UNCHANGED faults \/ Fault
    /\ reports' = [i \in 1 .. MaxLines |-> reports[i] + (IF i \in owed THEN 1 ELSE 0)]
    /\ owed' = {}
    /\ age' = 0
    /\ pending' = 0
    /\ first' = 0
    /\ IF pc = "notify"
         THEN pc' = "read" /\ wait' = 0
         ELSE pc' = "down" /\ wait' = Throttle
    /\ UNCHANGED <<denied, streamVars, pipe, quiet>>

\* The end of the pipe.
Eof ==
    /\ pc = "read"
    /\ pipe = <<>>
    /\ ~streaming
    /\ IF pending > 0
         THEN pc' = "final" /\ wait' = MaxNotify
         ELSE pc' = "down" /\ wait' = Throttle
    /\ UNCHANGED <<denied, streamVars, pipe, pending, first, quiet, history, faults>>

-----------------------------------------------------------------------------
(* launchd, nginx and time.                                                *)

\* Mutant: tail starts with what the file holds.
FirstPosition == 1
\* tail -n0
NextPosition == Len(denied) + 1

Restart ==
    /\ pc = "down"
    /\ wait = 0
    /\ pc' = "read"
    /\ position' = NextPosition
    /\ ssh' = TRUE
    /\ streaming' = TRUE
    /\ wake' = TickEvery
    /\ quiet' = 0
    /\ UNCHANGED <<denied, pipe, pending, first, wait, history, faults>>

Kill ==
    /\ pc # "down"
    /\ Fault
    /\ pc' = "down"
    /\ wait' = Throttle
    /\ ssh' = FALSE
    /\ streaming' = FALSE
    /\ pipe' = <<>>
    /\ pending' = 0
    /\ first' = 0
    /\ owed' = {}
    /\ age' = 0
    /\ UNCHANGED <<denied, position, wake, quiet, reports>>

Write(kind) ==
    /\ Len(denied) < MaxLines
    /\ denied' = Append(denied, kind)
    /\ UNCHANGED <<streamVars, pipe, pc, consumeVars, history, faults>>

\* consume reads at once what it can, and no sleep or curl overruns its time.
Settled ==
    /\ pc = "read" => pipe = <<>> /\ streaming
    /\ pc \in {"notify", "final"} => wait > 0
    /\ streaming => wake > 0

Less(t) == IF t > 0 THEN t - 1 ELSE 0

Pass ==
    /\ Settled
    /\ wake' = Less(wake)
    /\ quiet' = Less(quiet)
    /\ wait' = Less(wait)
    /\ age' = IF owed = {} THEN 0 ELSE age + 1
    /\ UNCHANGED <<denied, position, ssh, streaming, pipe, pc, pending, first,
                   owed, reports, faults>>

-----------------------------------------------------------------------------
Step == Deliver \/ Wake \/ Read \/ Notified \/ Eof \/ Restart

Init ==
    /\ denied = <<>>
    /\ position = 1
    /\ ssh = FALSE
    /\ streaming = FALSE
    /\ pipe = <<>>
    /\ pc = "down"
    /\ pending = 0 /\ first = 0
    /\ wake = 0 /\ quiet = 0 /\ wait = 0
    /\ owed = {} /\ age = 0
    /\ reports = [i \in 1 .. MaxLines |-> 0]
    /\ faults = 0

Next ==
    \/ Step
    \/ Disconnect
    \/ Kill
    \/ Pass
    \/ \E kind \in {"refusal", "probe"} : Write(kind)

Spec == Init /\ [][Next]_vars

\* Time passes, and what is due happens: the processes run, curl and sleep
\* return, launchd keeps the script alive.
FairSpec == Spec /\ WF_vars(Pass) /\ WF_vars(Wake) /\ WF_vars(Read)
                 /\ WF_vars(Notified) /\ WF_vars(Eof) /\ WF_vars(Restart)

-----------------------------------------------------------------------------
(* A notification tells how many routes were refused since the last one    *)
(* and shows the first: what consume remembers is exactly what it owes,    *)
(* and the probes of the doctor are no part of it.                         *)
SummaryExact ==
    /\ pending = Cardinality(owed)
    /\ owed # {} => first = Min(owed)

(* The ticks "bound how late a coalesced summary can be": a refusal that   *)
(* was read is in a notification after at most the quiet period, one tick  *)
(* and one delivery (attempted, the code does not try again), even when    *)
(* the stream ends meanwhile.                                              *)
ReportedInTime == owed # {} => age <= Deadline

(* No refusal is reported twice, not even by the next incarnation of the   *)
(* script.                                                                 *)
ReportedOnce == \A i \in 1 .. MaxLines : reports[i] <= 1

(* "The stream must never end while the NAS is up": a lost connection is   *)
(* followed by another one "instead of leaving the tripwire silently       *)
(* dead".                                                                  *)
FollowsAgain == ~ssh ~> ssh
=============================================================================
