-------------------------- MODULE Utilities_proofs --------------------------
(***************************************************************************)
(* What is proved of the programs that run by themselves: the entrypoint   *)
(* of the WireGuard container, the helper for upload requests and the      *)
(* benchmark.                                                              *)
(***************************************************************************)
EXTENDS UploadRequests, TunnelBoot, Benchmark, TLAPS

-----------------------------------------------------------------------------
(* The lockdown of the WireGuard container holds whatever commands fail    *)
(* and whenever it is killed or signalled, however often it restarts.      *)

Alive == {"running", "serving", "ending", "stopping"}

Rules == {"loopback", "replies", "dnsUdp", "dnsTcp", "endpoint", "upstream", "controller", "127.0.0.1"}

\* What the commands before l have done to the rules.
DoneBefore(l) ==
    /\ l >= 2 => policies.v6 # "accept"
    /\ l >= 3 => policies.v4 = "drop"
    /\ l >= 10 => "upstream" \in accepted
    /\ l >= 14 => "dnsUdp" \notin accepted
    /\ l >= 15 => "dnsTcp" \notin accepted
    /\ l >= 16 => "loopback" \notin accepted

TypeInv ==
    /\ boot \in Alive \cup {"off"}
    /\ line \in 1 .. 16
    /\ policies \in [v4 : {"accept", "drop"}, v6 : {"accept", "drop", "none"}]
    /\ accepted \subseteq Rules
    /\ tunnel \in BOOLEAN

LockInv ==
    lockdown = "true" =>
        /\ boot \in Alive => DoneBefore(line)
        /\ tunnel => boot \in Alive /\ line = 16

TunnelInv == TypeInv /\ LockInv

-----------------------------------------------------------------------------
LEMMA ScriptLaidOut ==
    /\ Len(Script) = 16
    /\ Script[1] = "policy6" /\ Script[2] = "policy4"
    /\ Script[3] = "+lo" /\ Script[4] = "+replies" /\ Script[5] = "+dnsUdp"
    /\ Script[6] = "+dnsTcp" /\ Script[7] = "+endpoint"
    /\ Script[8] = "resolve" /\ Script[9] = "+upstream" /\ Script[10] = "+controller"
    /\ Script[11] = "socat" /\ Script[12] = "probe"
    /\ Script[13] = "-dnsUdp" /\ Script[14] = "-dnsTcp" /\ Script[15] = "lo"
    /\ Script[16] = "up"
  BY DEF Script

(* Each command stands in one place.                                       *)
LEMMA Places ==
    ASSUME line \in 1 .. 16
    PROVE  /\ Command = "policy6" => line = 1
           /\ Command = "policy4" => line = 2
           /\ Command = "resolve" => line = 8
           /\ Command = "+upstream" => line = 9
           /\ Command = "+controller" => line = 10
           /\ Command = "socat" => line = 11
           /\ Command = "probe" => line = 12
           /\ Command = "-dnsUdp" => line = 13
           /\ Command = "-dnsTcp" => line = 14
           /\ Command = "lo" => line = 15
           /\ Command = "up" => line = 16
           /\ Command \in DOMAIN Rule => line \in 3 .. 10 /\ line # 8
           /\ line = 9 => Command = "+upstream"
<1>1. \/ line = 1 \/ line = 2 \/ line = 3 \/ line = 4 \/ line = 5 \/ line = 6 \/ line = 7 \/ line = 8
      \/ line = 9 \/ line = 10 \/ line = 11 \/ line = 12 \/ line = 13 \/ line = 14 \/ line = 15
      \/ line = 16
  OBVIOUS
<1> QED
  BY <1>1, ScriptLaidOut DEF Command, Rule

LEMMA Advances ==
    ASSUME line \in 1 .. 16, Advance, boot \in Alive
    PROVE  /\ line' \in 1 .. 16 /\ boot' \in Alive
           /\ line' = IF line < 16 THEN line + 1 ELSE 16
  BY ScriptLaidOut DEF Advance, Alive

(* The rules that AddRule adds.                                            *)
LEMMA RuleAdded ==
    ASSUME Command \in DOMAIN Rule
    PROVE  /\ Rule[Command] \in Rules
           /\ Command = "+upstream" => Rule[Command] = "upstream"
<1>1. /\ Rule["+lo"] = "loopback" /\ Rule["+replies"] = "replies" /\ Rule["+dnsUdp"] = "dnsUdp"
      /\ Rule["+dnsTcp"] = "dnsTcp" /\ Rule["+endpoint"] = "endpoint"
      /\ Rule["+upstream"] = "upstream" /\ Rule["+controller"] = "controller"
  BY DEF Rule
<1>2. Command \in {"+lo", "+replies", "+dnsUdp", "+dnsTcp", "+endpoint", "+upstream", "+controller"}
  BY DEF Rule
<1>3. CASE Command = "+upstream"
  BY <1>1, <1>3 DEF Rules
<1>4. CASE Command # "+upstream"
  <2>1. ASSUME NEW c, c \in {"+lo", "+replies", "+dnsUdp", "+dnsTcp", "+endpoint", "+controller"}
        PROVE  Rule[c] \in Rules
    BY <1>1, <2>1 DEF Rules
  <2> QED
    BY <1>2, <1>4, <2>1
<1> QED
  BY <1>3, <1>4

LEMMA TunnelInitially == EntryInit => TunnelInv
<1> SUFFICES ASSUME EntryInit PROVE TunnelInv
  OBVIOUS
<1>1. boot = "off" /\ line = 1 /\ accepted = {} /\ tunnel = FALSE
  BY DEF EntryInit
<1>2. policies \in [v4 : {"accept", "drop"}, v6 : {"accept", "drop", "none"}]
  BY DEF EntryInit
<1>3. boot \notin Alive
  BY <1>1 DEF Alive
<1>4. accepted \subseteq Rules /\ boot \in Alive \cup {"off"} /\ line \in 1 .. 16 /\ tunnel \in BOOLEAN
  <2>1. accepted \subseteq Rules
    BY <1>1
  <2>2. boot \in Alive \cup {"off"}
    BY <1>1
  <2>3. line \in 1 .. 16
    BY <1>1
  <2>4. tunnel \in BOOLEAN
    BY <1>1
  <2> QED
    BY <2>1, <2>2, <2>3, <2>4
<1>5. LockInv
  BY <1>1, <1>3 DEF LockInv
<1> QED
  BY <1>2, <1>4, <1>5 DEF TunnelInv, TypeInv

LEMMA TunnelInductive == TunnelInv /\ [EntryNext]_entryVars => TunnelInv'
<1> SUFFICES ASSUME TunnelInv, [EntryNext]_entryVars PROVE TunnelInv'
  OBVIOUS
<1> USE DEF TunnelInv
<1>1. CASE UNCHANGED entryVars
  BY <1>1 DEF entryVars, namespace, TypeInv, LockInv, DoneBefore
<1>2. CASE StartContainer
  BY <1>2, ScriptLaidOut DEF StartContainer, FirstLine, TypeInv, LockInv, DoneBefore, Alive, Rules
<1>3. CASE LockSix
  BY <1>3, Places, Advances DEF LockSix, Running, TypeInv, LockInv, DoneBefore, Alive
<1>4. CASE LockFour
  BY <1>4, Places, Advances DEF LockFour, Running, TypeInv, LockInv, DoneBefore, Alive
<1>5. CASE AddRule
  BY <1>5, Places, Advances, RuleAdded DEF AddRule, Running, TypeInv, LockInv, DoneBefore, Alive
<1>6. CASE SkipController \/ Resolve \/ StartRelay
  BY <1>6, Places, Advances
     DEF SkipController, Resolve, StartRelay, Running, namespace, TypeInv, LockInv, DoneBefore, Alive
<1>7. CASE ProbeRelay
  BY <1>7, Places, Advances DEF ProbeRelay, Running, namespace, TypeInv, LockInv, DoneBefore, Alive
<1>8. CASE NarrowRules
  BY <1>8, Places, Advances
     DEF NarrowRules, Narrowed, Running, TypeInv, LockInv, DoneBefore, Alive, Rules
<1>9. CASE TunnelUp
  BY <1>9, Places, Advances DEF TunnelUp, Running, TypeInv, LockInv, DoneBefore, Alive
<1>10. CASE CommandFails
  BY <1>10, Places DEF CommandFails, Running, TypeInv, LockInv, DoneBefore, Alive
<1>11. CASE Supervise \/ Trap \/ DownRelay
  BY <1>11 DEF Supervise, Trap, DownRelay, namespace, TypeInv, LockInv, DoneBefore, Alive
<1>12. CASE Exit \/ KillContainer
  BY <1>12 DEF Exit, KillContainer, TypeInv, LockInv, DoneBefore, Alive
<1>13. CASE RelayListens \/ RelayDies \/ Signal
  BY <1>13 DEF RelayListens, RelayDies, Signal, namespace, TypeInv, LockInv, DoneBefore, Alive
<1> QED
  BY <1>1, <1>2, <1>3, <1>4, <1>5, <1>6, <1>7, <1>8, <1>9, <1>10, <1>11, <1>12, <1>13
     DEF EntryNext, EntryStep

(* No interval with general egress, of the lookups and of the tunnel, in   *)
(* nas/wireguard-entrypoint.sh, over every sequence of failures, signals   *)
(* and restarts.                                                           *)
THEOREM Confinement == EntrySpec => []TunnelConfined
<1>1. TunnelInv => TunnelConfined
  <2> SUFFICES ASSUME TunnelInv, lockdown = "true"
               PROVE  /\ boot = "running" /\ Command \in {"resolve", "socat", "probe", "up"} =>
                           "anything" \notin Reachable /\ policies.v6 # "accept"
                      /\ tunnel =>
                           /\ Reachable \subseteq {"127.0.0.1", "replies", "endpoint", "upstream", "controller"}
                           /\ policies.v6 # "accept"
                           /\ "upstream" \in accepted
    BY DEF TunnelConfined
  <2>1. CASE boot = "running" /\ Command \in {"resolve", "socat", "probe", "up"}
    BY <2>1, Places DEF TunnelInv, TypeInv, LockInv, DoneBefore, Reachable, Alive, Rules
  <2>2. CASE tunnel
    BY <2>2 DEF TunnelInv, TypeInv, LockInv, DoneBefore, Reachable, Rules
  <2> QED
    BY <2>1, <2>2
<1>2. TunnelInv /\ [EntryNext]_entryVars => TunnelInv'
  BY TunnelInductive
<1> QED
  BY TunnelInitially, <1>1, <1>2, PTL DEF EntrySpec
-----------------------------------------------------------------------------
(* The helper for upload requests: what it turns into is what it checked,  *)
(* once its alarm is off.                                                  *)
UploadInv ==
    /\ helper = "reading" => alarmed
    /\ helper \in {"checking", "running"} => ~alarmed
    /\ helper = "running" =>
         /\ Accepts(request.action, request.body)
         /\ command = Argv(request.action, request.body)

\* Before the first request.
LEMMA UploadInitially == UploadInit => UploadInv
  BY DEF UploadInit, UploadInv

\* Every step keeps it.
LEMMA UploadInductive == UploadInv /\ [UploadNext]_uploadVars => UploadInv'
<1> SUFFICES ASSUME UploadInv, [UploadNext]_uploadVars PROVE UploadInv'
  OBVIOUS
<1>1. CASE Call \/ ReadBody \/ Disarm \/ Done
  BY <1>1 DEF Call, ReadBody, Disarm, Done, UploadInv
<1>2. CASE Check
  <2>1. UNCHANGED <<request, alarmed>> /\ ~alarmed
    BY <1>2 DEF Check, UploadInv
  <2>2. helper' # "reading"
    BY <1>2 DEF Check
  <2>3. helper' = "running" =>
          /\ Accepts(request.action, request.body)
          /\ command' = Argv(request.action, request.body)
    BY <1>2 DEF Check
  <2> QED BY <2>1, <2>2, <2>3 DEF UploadInv
<1>3. CASE Alarm
  BY <1>3 DEF Alarm, UploadInv
<1>4. CASE UNCHANGED uploadVars
  BY <1>4 DEF uploadVars, UploadInv
<1> QED BY <1>1, <1>2, <1>3, <1>4 DEF UploadNext

(* _read_request: the alarm bounds the wait for the body, and is off before *)
(* the process becomes the command.                                        *)
THEOREM AlarmEnds == UploadSpec => []CommandUndisturbed
<1>1. UploadInv => CommandUndisturbed
  BY DEF UploadInv, CommandUndisturbed
<1> QED
  BY UploadInitially, UploadInductive, <1>1, PTL DEF UploadSpec

\* A number that was sent is kept, one that was not is the default.
LEMMA OrKeeps ==
    ASSUME NEW field, NEW default \in Nat, NEW low \in Nat, NEW high \in Nat,
           low <= default, default <= high, Integral(field, low, high)
    PROVE  /\ Or(field, default) \in Nat
           /\ low <= Or(field, default) /\ Or(field, default) <= high
           /\ field # <<>> => Or(field, default) = field[1]
BY SMT DEF Or, Integral

\* Whole minutes are as long as the seconds they are made of.
LEMMA MinutesKeep ==
    ASSUME NEW s \in Nat, NEW low \in Nat, NEW high \in Nat,
           60 * low <= s, s <= 60 * high, s % 60 = 0
    PROVE  (s \div 60) * 60 = s /\ low <= s \div 60 /\ s \div 60 <= high
<1>1. s \div 60 \in Int /\ s = 60 * (s \div 60) + (s % 60)
  BY SMT
<1> QED BY <1>1, SMT

\* The hard limits.
LEMMA HardLimits ==
    /\ MIN_TTL_SECONDS = 60 * 5 /\ MAX_TTL_SECONDS = 60 * (7 * 24 * 60)
    /\ MIN_TTL_SECONDS <= 24 * 60 * 60 /\ 24 * 60 * 60 <= MAX_TTL_SECONDS
    /\ {MIN_TTL_SECONDS, MAX_TTL_SECONDS, MAX_FILE_BYTES, MAX_FILES, MAX_QUOTA_BYTES} \subseteq Nat
    /\ 1 <= MAX_FILE_BYTES /\ 1 <= MAX_FILES /\ 1 <= MAX_QUOTA_BYTES
BY SMT DEF MIN_TTL_SECONDS, MAX_TTL_SECONDS, MAX_FILE_BYTES, MAX_FILES, MAX_QUOTA_BYTES

\* What a body that was accepted leads to.
LEMMA ArgvKeeps ==
    ASSUME NEW b, OpenOK(b)
    PROVE  LET c == Argv("open", b) IN
           /\ c.label = b.label[1] /\ c.folder = b.folder
           /\ c.profile = IF b.profile = <<>> THEN "photos" ELSE b.profile[1]
           /\ b.ttlSeconds # <<>> => c.minutes * 60 = b.ttlSeconds[1]
           /\ 5 <= c.minutes /\ c.minutes <= 7 * 24 * 60
           /\ b.maxFileBytes # <<>> => c.maxFile = b.maxFileBytes[1]
           /\ b.quotaBytes # <<>> => c.quota = b.quotaBytes[1]
           /\ b.maxFiles # <<>> => c.maxFiles = b.maxFiles[1]
           /\ 1 <= c.maxFile /\ c.maxFile <= c.quota
           /\ c.quota <= MAX_QUOTA_BYTES
           /\ c.maxFiles \in 1 .. MAX_FILES
<1> DEFINE ttl == Or(b.ttlSeconds, 24 * 60 * 60)
           maxFile == Or(b.maxFileBytes, MAX_FILE_BYTES)
           maxFiles == Or(b.maxFiles, MAX_FILES)
           quota == Or(b.quotaBytes, MAX_QUOTA_BYTES)
           c == Argv("open", b)
<1>1. /\ c.minutes = ttl \div 60 /\ c.maxFile = maxFile
      /\ c.maxFiles = maxFiles /\ c.quota = quota
  BY SMT DEF Argv, Files
<1>2. /\ ttl \in Nat /\ MIN_TTL_SECONDS <= ttl /\ ttl <= MAX_TTL_SECONDS
      /\ b.ttlSeconds # <<>> => ttl = b.ttlSeconds[1]
      /\ ttl % 60 = 0
  <2>1. Integral(b.ttlSeconds, MIN_TTL_SECONDS, MAX_TTL_SECONDS) /\ ttl % 60 = 0
    BY SMT DEF OpenOK, WholeMinutes
  <2>2. 24 * 60 * 60 \in Nat
    BY SMT
  <2> QED BY <2>1, <2>2, HardLimits, OrKeeps, SMT
<1>3. /\ maxFile \in Nat /\ 1 <= maxFile /\ (b.maxFileBytes # <<>> => maxFile = b.maxFileBytes[1])
      /\ quota \in Nat /\ quota <= MAX_QUOTA_BYTES /\ (b.quotaBytes # <<>> => quota = b.quotaBytes[1])
      /\ maxFiles \in Nat /\ 1 <= maxFiles /\ maxFiles <= MAX_FILES
      /\ b.maxFiles # <<>> => maxFiles = b.maxFiles[1]
      /\ maxFile <= quota
  <2>1. /\ Integral(b.maxFileBytes, 1, MAX_FILE_BYTES) /\ Integral(b.maxFiles, 1, MAX_FILES)
        /\ Integral(b.quotaBytes, 1, MAX_QUOTA_BYTES) /\ maxFile <= quota
    BY SMT DEF OpenOK, FileFitsQuota
  <2> HIDE DEF Integral, Or
  <2>2. maxFile \in Nat /\ 1 <= maxFile /\ (b.maxFileBytes # <<>> => maxFile = b.maxFileBytes[1])
    BY <2>1, HardLimits, OrKeeps, SMT
  <2>3. quota \in Nat /\ quota <= MAX_QUOTA_BYTES /\ (b.quotaBytes # <<>> => quota = b.quotaBytes[1])
    BY <2>1, HardLimits, OrKeeps, SMT
  <2>4. /\ maxFiles \in Nat /\ 1 <= maxFiles /\ maxFiles <= MAX_FILES
        /\ b.maxFiles # <<>> => maxFiles = b.maxFiles[1]
    BY <2>1, HardLimits, OrKeeps, SMT
  <2> QED BY <2>1, <2>2, <2>3, <2>4, SMT
<1> HIDE DEF ttl, maxFile, maxFiles, quota, c
<1>4. /\ (ttl \div 60) * 60 = ttl
      /\ 5 <= ttl \div 60 /\ ttl \div 60 <= 7 * 24 * 60
  BY <1>2, HardLimits, MinutesKeep, SMT
<1>5. MAX_FILES \in Nat
  BY HardLimits, SMT
<1>6. /\ c.label = b.label[1] /\ c.folder = b.folder
      /\ c.profile = IF b.profile = <<>> THEN "photos" ELSE b.profile[1]
  BY SMT DEF c, Argv, Or
<1> QED BY <1>1, <1>2, <1>3, <1>4, <1>5, <1>6, SMT DEF c

(* request_to_argv: the drop that is opened is the one that was asked for, *)
(* in its label, folder, profile, duration and every limit that was sent,  *)
(* and within the hard limits, whatever the caller sends.                  *)
THEOREM OpensAsAsked == UploadSpec => []OpensWhatWasAsked
<1>1. UploadInv => OpensWhatWasAsked
  <2> SUFFICES ASSUME UploadInv, helper = "running", command.do = "open"
               PROVE  OpensWhatWasAsked
    BY DEF OpensWhatWasAsked
  <2>1. Accepts(request.action, request.body) /\ command = Argv(request.action, request.body)
    BY DEF UploadInv
  <2>2. request.action = "open"
    BY <2>1 DEF Argv
  <2>3. OpenOK(request.body)
    BY <2>1, <2>2 DEF Accepts
  <2> HIDE DEF Argv
  <2> QED BY <2>1, <2>2, <2>3, ArgvKeeps DEF OpensWhatWasAsked
<1> QED
  BY UploadInitially, UploadInductive, <1>1, PTL DEF UploadSpec

-----------------------------------------------------------------------------
(* The benchmark.  A download that is under way is owed an outcome, unless *)
(* it already saw the last half second; a merge loses and repeats nothing, *)
(* so that the row accounts for what its workers account for.              *)

WorkerPlaces == {"loop", "waiting", "reading", "rejected", "asleep", "returned", "merged", "raised"}
WorkerStats == [Counters -> Nat]
Workers == [at : WorkerPlaces, stats : WorkerStats]

EndedIn(s) == s.completed + s.limited + s.errors

\* No more ends than downloads, less n that have not ended.
NoneTwice(s, n) == EndedIn(s) + n <= s.started

\* No more downloads than are accounted for, and n besides.
NoneMissing(s, n) == s.started <= EndedIn(s) + s.unexpected + s.late + n

UnderWay(v) == IF v.at \in {"waiting", "reading", "rejected"} THEN 1 ELSE 0
Owed(v, t) == IF v.at \in {"waiting", "reading"} /\ t = "early" THEN 1 ELSE 0

WorkerOK(v, t) ==
    /\ v \in Workers
    /\ NoneTwice(v.stats, UnderWay(v))
    /\ v.at # "raised" => NoneMissing(v.stats, Owed(v, t))

RowInv ==
    /\ time \in {"early", "closing", "over"}
    /\ crew = [w \in DOMAIN crew |-> crew[w]]
    /\ \A w \in DOMAIN crew : WorkerOK(crew[w], time)
    /\ total \in WorkerStats /\ NoneTwice(total, 0) /\ NoneMissing(total, 0)

-----------------------------------------------------------------------------
\* What is known of a worker's counters.
LEMMA StatsTyped ==
    ASSUME NEW s \in WorkerStats
    PROVE  /\ s.started \in Nat /\ s.completed \in Nat /\ s.limited \in Nat
           /\ s.errors \in Nat /\ s.unexpected \in Nat /\ s.late \in Nat
  BY DEF WorkerStats, Counters, Outcomes

\* Before anything is counted.
LEMMA StatsStart == Stats \in WorkerStats /\ NoneTwice(Stats, 0) /\ NoneMissing(Stats, 0)
<1>1. Stats \in WorkerStats
  BY DEF Stats, WorkerStats
<1>2. /\ Stats.started = 0 /\ Stats.completed = 0 /\ Stats.limited = 0
      /\ Stats.errors = 0 /\ Stats.unexpected = 0 /\ Stats.late = 0
  BY DEF Stats, Counters, Outcomes
<1> QED
  BY <1>1, <1>2 DEF NoneTwice, NoneMissing, EndedIn

\* One more of a counter, and of no other.
LEMMA CountOne ==
    ASSUME NEW s \in WorkerStats, NEW c \in Counters
    PROVE  LET t == [s EXCEPT ![c] = @ + 1]
           IN  t \in WorkerStats /\ \A d \in Counters : t[d] = IF d = c THEN s[d] + 1 ELSE s[d]
  BY DEF WorkerStats

\* A merge adds the counters.
LEMMA MergeAdds ==
    ASSUME NEW s \in WorkerStats, NEW t \in WorkerStats,
           NoneTwice(s, 0), NoneMissing(s, 0), NoneTwice(t, 0), NoneMissing(t, 0)
    PROVE  Merge(s, t) \in WorkerStats /\ NoneTwice(Merge(s, t), 0) /\ NoneMissing(Merge(s, t), 0)
<1>1. Merge(s, t) \in WorkerStats /\ \A c \in Counters : Merge(s, t)[c] = s[c] + t[c]
  BY DEF Merge, WorkerStats
<1>2. /\ Merge(s, t).started = s.started + t.started
      /\ Merge(s, t).completed = s.completed + t.completed
      /\ Merge(s, t).limited = s.limited + t.limited
      /\ Merge(s, t).errors = s.errors + t.errors
      /\ Merge(s, t).unexpected = s.unexpected + t.unexpected
      /\ Merge(s, t).late = s.late + t.late
  BY <1>1 DEF Counters, Outcomes
<1> QED
  BY <1>1, <1>2, StatsTyped DEF NoneTwice, NoneMissing, EndedIn

\* One worker moves, and is accounted for.
LEMMA CrewKeeps ==
    ASSUME RowInv, NEW w \in DOMAIN crew, NEW v, WorkerOK(v, time),
           crew' = [crew EXCEPT ![w] = v], UNCHANGED <<time, total>>
    PROVE  RowInv'
<1>1. DOMAIN crew' = DOMAIN crew /\ crew' = [u \in DOMAIN crew |-> IF u = w THEN v ELSE crew[u]]
  OBVIOUS
<1>2. crew' = [u \in DOMAIN crew' |-> crew'[u]]
  BY <1>1
<1>3. \A u \in DOMAIN crew' : WorkerOK(crew'[u], time')
  BY <1>1 DEF RowInv
<1> QED
  BY <1>2, <1>3 DEF RowInv

\* It moves without counting.
LEMMA MoveKeeps ==
    ASSUME RowInv, NEW w \in DOMAIN crew, NEW at \in WorkerPlaces, Move(w, at),
           at \in {"waiting", "reading", "rejected"} => crew[w].at \in {"waiting", "reading", "rejected"},
           at \in {"waiting", "reading"} => crew[w].at \in {"waiting", "reading"},
           \/ at = "raised"
           \/ crew[w].at # "raised" /\ Owed(crew[w], time) <= Owed([crew[w] EXCEPT !.at = at], time)
    PROVE  RowInv'
<1> DEFINE v == [crew[w] EXCEPT !.at = at]
<1>1. /\ crew[w] \in Workers /\ NoneTwice(crew[w].stats, UnderWay(crew[w]))
      /\ crew[w].at # "raised" => NoneMissing(crew[w].stats, Owed(crew[w], time))
  BY DEF RowInv, WorkerOK
<1>2. v \in Workers /\ v.at = at /\ v.stats = crew[w].stats /\ v.stats \in WorkerStats
  BY <1>1 DEF Workers
<1>3. crew' = [crew EXCEPT ![w] = v] /\ UNCHANGED <<time, total>>
  BY DEF Move
<1>4. UnderWay(v) <= UnderWay(crew[w])
  BY <1>2 DEF UnderWay
<1>5. at # "raised" => crew[w].at # "raised" /\ Owed(crew[w], time) <= Owed(v, time)
  OBVIOUS
<1>6. UnderWay(v) \in Nat /\ UnderWay(crew[w]) \in Nat /\ Owed(v, time) \in Nat /\ Owed(crew[w], time) \in Nat
  BY DEF UnderWay, Owed
<1> HIDE DEF v
<1>7. NoneTwice(v.stats, UnderWay(v))
  BY <1>1, <1>2, <1>4, <1>6, StatsTyped DEF NoneTwice, EndedIn
<1>8. v.at # "raised" => NoneMissing(v.stats, Owed(v, time))
  BY <1>1, <1>2, <1>5, <1>6, StatsTyped DEF NoneMissing, EndedIn
<1>9. WorkerOK(v, time)
  BY <1>2, <1>7, <1>8 DEF WorkerOK
<1> QED
  BY <1>3, <1>9, CrewKeeps

\* It counts an outcome of the download that is under way, and moves on.
LEMMA CountKeeps ==
    ASSUME RowInv, NEW w \in DOMAIN crew, NEW c \in Outcomes, NEW at \in WorkerPlaces,
           CountAndMove(w, c, at), at \notin {"waiting", "reading"},
           crew[w].at \in {"waiting", "reading", "rejected"},
           at = "rejected" => c = "unexpected"
    PROVE  RowInv'
<1> DEFINE s == crew[w].stats
           t == [crew[w].stats EXCEPT ![c] = @ + 1]
           v == [at |-> at, stats |-> t]
<1>1. /\ crew[w] \in Workers /\ s \in WorkerStats /\ NoneTwice(s, 1)
      /\ crew[w].at # "raised" /\ NoneMissing(s, Owed(crew[w], time))
  BY DEF RowInv, WorkerOK, UnderWay, Workers
<1>2. c \in Counters /\ Outcomes \subseteq Counters /\ "started" \in Counters /\ "late" \in Counters
  BY DEF Counters
<1>3. t \in WorkerStats /\ \A d \in Counters : t[d] = IF d = c THEN s[d] + 1 ELSE s[d]
  BY <1>1, <1>2, CountOne
<1>4. crew' = [crew EXCEPT ![w] = v] /\ UNCHANGED <<time, total>>
  <2>1. /\ crew' = [crew EXCEPT ![w].at = at, ![w].stats[c] = @ + 1]
        /\ UNCHANGED <<time, total>>
    BY DEF CountAndMove
  <2>2. PICK a : a = [crew EXCEPT ![w].at = at]
    OBVIOUS
  <2>3. /\ DOMAIN a = DOMAIN crew /\ \A u \in DOMAIN crew : u # w => a[u] = crew[u]
        /\ a = [u \in DOMAIN crew |-> a[u]]
    BY <2>2
  <2>4. a[w] = [at |-> at, stats |-> s]
    BY <1>1, <2>2 DEF Workers
  <2>5. crew' = [a EXCEPT ![w].stats[c] = @ + 1]
    BY <2>1, <2>2
  <2>6. /\ DOMAIN crew' = DOMAIN crew /\ \A u \in DOMAIN crew : u # w => crew'[u] = crew[u]
        /\ crew' = [u \in DOMAIN crew |-> crew'[u]]
    BY <2>3, <2>5
  <2>7. crew'[w] = v
    BY <2>3, <2>4, <2>5
  <2>8. \A u \in DOMAIN crew : crew'[u] = [crew EXCEPT ![w] = v][u]
    BY <2>6, <2>7
  <2> HIDE DEF v
  <2> QED
    BY <2>1, <2>6, <2>8
<1>5. v \in Workers /\ v.stats = t /\ v.at = at
  BY <1>3 DEF Workers
<1>6. Owed(crew[w], time) \in {0, 1} /\ Owed(v, time) = 0
  BY <1>5 DEF Owed
<1>7. /\ t.started = s.started /\ t.late = s.late
      /\ EndedIn(t) = EndedIn(s) + (IF c = "unexpected" THEN 0 ELSE 1)
      /\ t.unexpected = s.unexpected + (IF c = "unexpected" THEN 1 ELSE 0)
  <2>1. /\ t.started = s.started /\ t.late = s.late
        /\ t.completed = s.completed + (IF c = "completed" THEN 1 ELSE 0)
        /\ t.limited = s.limited + (IF c = "limited" THEN 1 ELSE 0)
        /\ t.errors = s.errors + (IF c = "errors" THEN 1 ELSE 0)
        /\ t.unexpected = s.unexpected + (IF c = "unexpected" THEN 1 ELSE 0)
    BY <1>1, <1>3, StatsTyped DEF Counters, Outcomes
  <2> HIDE DEF s, t
  <2> QED
    BY <2>1, <1>1, StatsTyped DEF EndedIn, Outcomes
<1>8. UnderWay(v) = IF at = "rejected" THEN 1 ELSE 0
  BY <1>5 DEF UnderWay
<1> HIDE DEF s, t, v
<1>9. NoneTwice(t, UnderWay(v))
  <2>1. EndedIn(s) \in Nat /\ s.started \in Nat
    BY <1>1, StatsTyped DEF EndedIn
  <2> QED
    BY <2>1, <1>1, <1>7, <1>8 DEF NoneTwice
<1>10. NoneMissing(t, 0)
  <2>1. EndedIn(s) \in Nat /\ s.started \in Nat /\ s.unexpected \in Nat /\ s.late \in Nat
    BY <1>1, StatsTyped DEF EndedIn
  <2> QED
    BY <2>1, <1>1, <1>6, <1>7 DEF NoneMissing
<1>11. WorkerOK(v, time)
  BY <1>5, <1>6, <1>9, <1>10 DEF WorkerOK
<1> QED
  BY <1>4, <1>11, CrewKeeps

-----------------------------------------------------------------------------
\* At the start of a level no worker has counted anything.
LEMMA LevelStarts ==
    ASSUME NEW n, StartLevel(n)
    PROVE  RowInv'
<1>1. /\ time' = "early" /\ crew' = [w \in 1 .. args.levels[n] |-> Worker] /\ total' = Stats
  BY DEF StartLevel
<1>2. WorkerOK(Worker, "early")
  <2>1. Worker \in Workers /\ Worker.at = "loop" /\ Worker.stats = Stats
    BY StatsStart DEF Worker, Workers, WorkerPlaces
  <2>2. UnderWay(Worker) = 0 /\ Owed(Worker, "early") = 0
    BY <2>1 DEF UnderWay, Owed
  <2> QED
    BY <2>1, <2>2, StatsStart DEF WorkerOK
<1>3. crew' = [w \in DOMAIN crew' |-> crew'[w]] /\ \A w \in DOMAIN crew' : crew'[w] = Worker
  BY <1>1
<1> QED
  BY <1>1, <1>2, <1>3, StatsStart DEF RowInv

\* Before the first level.
LEMMA RowInitially == BenchInit => RowInv
<1> SUFFICES ASSUME BenchInit PROVE RowInv
  OBVIOUS
<1>1. time = "early" /\ crew = <<>> /\ total = Stats /\ DOMAIN crew = {}
  BY DEF BenchInit
<1>2. crew = [w \in DOMAIN crew |-> crew[w]]
  BY <1>1
<1> QED
  BY <1>1, <1>2, StatsStart DEF RowInv

\* Another download.
LEMMA BeginKeeps ==
    ASSUME RowInv, NEW w \in DOMAIN crew, Begin(w)
    PROVE  RowInv'
<1> DEFINE s == crew[w].stats
           late == IF time = "closing" THEN s.late + 1 ELSE s.late
           t == [s EXCEPT !.started = @ + 1, !.late = late]
           v == [at |-> "waiting", stats |-> t]
<1>1. /\ crew[w] \in Workers /\ s \in WorkerStats /\ NoneTwice(s, 0) /\ NoneMissing(s, 0)
      /\ time \in {"early", "closing"}
  BY DEF RowInv, WorkerOK, UnderWay, Owed, Workers, Begin, Working, Over
<1>2. crew' = [crew EXCEPT ![w] = v] /\ UNCHANGED <<time, total>>
  <2>1. crew' = [crew EXCEPT ![w] = [crew[w] EXCEPT !.at = "waiting", !.stats = t]]
    BY <1>1 DEF Begin, Workers, WorkerStats
  <2>2. [crew[w] EXCEPT !.at = "waiting", !.stats = t] = v
    <3>1. PICK a : a = [crew[w] EXCEPT !.at = "waiting"]
      OBVIOUS
    <3>2. a = [at |-> "waiting", stats |-> s]
      BY <1>1, <3>1 DEF Workers
    <3>3. [a EXCEPT !.stats = t] = v
      BY <3>2
    <3> QED
      BY <3>1, <3>3
  <2>3. UNCHANGED <<time, total>>
    BY DEF Begin
  <2> HIDE DEF t, v
  <2> QED
    BY <2>1, <2>2, <2>3
<1>3. /\ s.late \in Nat /\ s.started \in Nat /\ EndedIn(s) \in Nat /\ s.unexpected \in Nat
      /\ late \in Nat
  BY <1>1, StatsTyped DEF EndedIn
<1>4. /\ t \in WorkerStats /\ t.started = s.started + 1 /\ t.late = late
      /\ t.completed = s.completed /\ t.limited = s.limited /\ t.errors = s.errors
      /\ t.unexpected = s.unexpected
  <2>1. DOMAIN s = Counters /\ "started" \in Counters /\ "late" \in Counters
    BY <1>1 DEF WorkerStats, Counters
  <2>2. s.started + 1 \in Nat
    BY <1>3
  <2> HIDE DEF late
  <2>3. t \in WorkerStats
    BY <1>1, <1>3, <2>1, <2>2 DEF WorkerStats
  <2>4. t = [d \in Counters |-> IF d = "late" THEN late ELSE IF d = "started" THEN s.started + 1 ELSE s[d]]
    BY <1>1, <2>1 DEF WorkerStats
  <2> HIDE DEF t, s
  <2>5. t.started = s.started + 1 /\ t.late = late /\ t.completed = s.completed
    BY <2>4 DEF Counters, Outcomes
  <2>6. t.limited = s.limited /\ t.errors = s.errors /\ t.unexpected = s.unexpected
    BY <2>4 DEF Counters, Outcomes
  <2> QED
    BY <2>3, <2>5, <2>6
<1>5. EndedIn(t) = EndedIn(s)
  BY <1>4 DEF EndedIn
<1>6. v \in Workers /\ UnderWay(v) = 1 /\ Owed(v, time) = IF time = "early" THEN 1 ELSE 0
  BY <1>4 DEF Workers, WorkerPlaces, UnderWay, Owed
<1>7. NoneTwice(t, 1) /\ NoneMissing(t, Owed(v, time))
  <2>1. late = IF time = "closing" THEN s.late + 1 ELSE s.late
    OBVIOUS
  <2> HIDE DEF s, t, late, v
  <2> QED
    BY <1>1, <1>3, <1>4, <1>5, <1>6, <2>1 DEF NoneTwice, NoneMissing
<1>8. WorkerOK(v, time)
  BY <1>6, <1>7 DEF WorkerOK
<1> HIDE DEF v
<1> QED
  BY <1>2, <1>8, CrewKeeps

\* The level comes to its last half second, or to its end.
LEMMA PassKeeps ==
    ASSUME RowInv, Pass
    PROVE  RowInv'
<1>1. /\ time \in {"early", "closing"} /\ time' = (IF time = "early" THEN "closing" ELSE "over")
      /\ UNCHANGED total /\ DOMAIN crew' = DOMAIN crew
      /\ crew' = [w \in DOMAIN crew' |-> crew'[w]]
  BY DEF Pass, Over, RowInv
<1>2. ASSUME NEW w \in DOMAIN crew PROVE WorkerOK(crew'[w], time')
  <2> DEFINE s == crew[w].stats
  <2>1. crew[w] \in Workers /\ WorkerOK(crew[w], time) /\ s \in WorkerStats
    BY DEF RowInv, WorkerOK, Workers
  <2>2. CASE time = "early" /\ crew[w].at \in {"waiting", "reading"}
    <3> DEFINE t == [s EXCEPT !.late = @ + 1]
               v == [at |-> crew[w].at, stats |-> t]
    <3>1. crew'[w] = v
      BY <2>1, <2>2 DEF Pass, Workers
    <3>2. /\ t \in WorkerStats /\ t.started = s.started /\ t.late = s.late + 1
          /\ t.completed = s.completed /\ t.limited = s.limited /\ t.errors = s.errors
          /\ t.unexpected = s.unexpected
      BY <2>1 DEF WorkerStats, Counters, Outcomes
    <3>3. v \in Workers /\ UnderWay(v) = UnderWay(crew[w]) /\ Owed(v, time') = 0 /\ Owed(crew[w], time) = 1
      BY <1>1, <2>1, <2>2, <3>2 DEF Workers, UnderWay, Owed
    <3>4. NoneTwice(s, UnderWay(crew[w])) /\ NoneMissing(s, 1)
      BY <2>1, <2>2, <3>3 DEF WorkerOK
    <3>5. NoneTwice(t, UnderWay(crew[w]))
      BY <3>2, <3>4 DEF NoneTwice, EndedIn
    <3>6. NoneMissing(t, 0)
      <4>1. EndedIn(t) = EndedIn(s) /\ EndedIn(s) \in Nat /\ s.late \in Nat /\ s.unexpected \in Nat
        BY <2>1, <3>2, StatsTyped DEF EndedIn
      <4> HIDE DEF s, t
      <4> QED
        BY <3>2, <3>4, <4>1 DEF NoneMissing
    <3>7. WorkerOK(v, time')
      BY <3>3, <3>5, <3>6 DEF WorkerOK
    <3> QED
      BY <3>1, <3>7
  <2>3. CASE ~(time = "early" /\ crew[w].at \in {"waiting", "reading"})
    <3>1. crew'[w] = crew[w] /\ Owed(crew[w], time') = Owed(crew[w], time)
      BY <1>1, <2>3 DEF Pass, Owed
    <3> QED
      BY <2>1, <3>1 DEF WorkerOK
  <2> QED
    BY <2>2, <2>3
<1>3. \A w \in DOMAIN crew' : WorkerOK(crew'[w], time')
  BY <1>1, <1>2
<1> QED
  BY <1>1, <1>3 DEF RowInv

\* A worker that returned owes nothing.
LEMMA CollectKeeps ==
    ASSUME RowInv, NEW w \in DOMAIN crew, Collect(w)
    PROVE  RowInv'
<1> DEFINE v == [crew[w] EXCEPT !.at = "merged"]
<1>1. /\ crew[w] \in Workers /\ crew[w].stats \in WorkerStats
      /\ NoneTwice(crew[w].stats, 0) /\ NoneMissing(crew[w].stats, 0)
  BY DEF RowInv, WorkerOK, UnderWay, Owed, Workers, Collect
<1>2. /\ total' = Merge(total, crew[w].stats) /\ UNCHANGED time
      /\ crew' = [crew EXCEPT ![w] = v]
  BY DEF Collect
<1>3. total' \in WorkerStats /\ NoneTwice(total', 0) /\ NoneMissing(total', 0)
  BY <1>1, <1>2, MergeAdds DEF RowInv
<1>4. WorkerOK(v, time)
  <2>1. v \in Workers /\ v.at = "merged" /\ v.stats = crew[w].stats
    BY <1>1 DEF Workers, WorkerPlaces
  <2>2. UnderWay(v) = 0 /\ Owed(v, time) = 0
    BY <2>1 DEF UnderWay, Owed
  <2> QED
    BY <1>1, <2>1, <2>2 DEF WorkerOK
<1> HIDE DEF v
<1>5. /\ crew' = [u \in DOMAIN crew' |-> crew'[u]]
      /\ \A u \in DOMAIN crew' : WorkerOK(crew'[u], time')
  BY <1>2, <1>4 DEF RowInv
<1> QED
  BY <1>2, <1>3, <1>5 DEF RowInv

\* Every step of a worker.
LEMMA WorkerKeeps ==
    ASSUME RowInv, NEW w \in DOMAIN crew, WorkerStep(w)
    PROVE  RowInv'
<1> USE DEF WorkerPlaces
<1>0. time \in {"early", "closing", "over"}
  BY DEF RowInv
<1>1. CASE Begin(w)
  BY <1>1, BeginKeeps
<1>2. CASE Return(w) \/ Wake(w) \/ ReadRejected(w)
  BY <1>2, MoveKeeps DEF Return, Wake, ReadRejected, Working, Owed
<1>3. CASE Headers(w)
  <2>1. crew[w].at = "waiting" /\ Move(w, "reading") /\ crew[w] \in Workers
    BY <1>3 DEF Headers, Working, RowInv, WorkerOK
  <2>2. Owed(crew[w], time) <= Owed([crew[w] EXCEPT !.at = "reading"], time)
    BY <2>1 DEF Owed, Workers
  <2> QED
    BY <2>1, <2>2, MoveKeeps
<1>4. CASE FileEnds(w)
  BY <1>4, CountKeeps DEF FileEnds, Working, Outcomes
<1>5. CASE CutAtDeadline(w)
  BY <1>5, MoveKeeps DEF CutAtDeadline, Working, Over, Owed
<1>6. CASE Unexpected(w)
  BY <1>6, CountKeeps DEF Unexpected, Working, Outcomes
<1>7. CASE Limited(w) \/ HttpFails(w)
  BY <1>7, CountKeeps DEF Limited, HttpFails, Working, Outcomes
<1>8. CASE Breaks(w)
  <2>1. crew[w].at \in {"waiting", "reading", "rejected"}
    BY <1>8 DEF Breaks, Working
  <2>2. CASE Expected(w)
    BY <1>8, <2>1, <2>2, MoveKeeps DEF Breaks, Expected, Owed
  <2>3. CASE ~Expected(w)
    BY <1>8, <2>1, <2>3, CountKeeps DEF Breaks, Outcomes
  <2> QED
    BY <2>2, <2>3
<1>9. CASE Raise(w)
  BY <1>9, MoveKeeps DEF Raise
<1>10. CASE Collect(w)
  BY <1>10, CollectKeeps
<1>11. CASE CollectRaised(w)
  BY <1>11 DEF CollectRaised, RowInv
<1> QED
  BY <1>1, <1>2, <1>3, <1>4, <1>5, <1>6, <1>7, <1>8, <1>9, <1>10, <1>11 DEF WorkerStep

\* Every step.
LEMMA RowInductive == RowInv /\ [BenchNext]_benchVars => RowInv'
<1> SUFFICES ASSUME RowInv, [BenchNext]_benchVars PROVE RowInv'
  OBVIOUS
<1>1. CASE UNCHANGED <<time, crew, total>>
  BY <1>1 DEF RowInv
<1>2. CASE ParseArgs \/ Fail
  BY <1>1, <1>2 DEF ParseArgs, Fail
<1>3. CASE Unlock \/ Report
  BY <1>1, <1>3, LevelStarts DEF Unlock, Report
<1>4. CASE Pass
  BY <1>4, PassKeeps
<1>5. CASE \E w \in DOMAIN crew : WorkerStep(w)
  BY <1>5, WorkerKeeps
<1>6. CASE UNCHANGED benchVars
  BY <1>1, <1>6 DEF benchVars
<1> QED
  BY <1>2, <1>3, <1>4, <1>5, <1>6 DEF BenchNext

(* worker, Stats.merge: whatever times out, breaks or is refused, in any    *)
(* number of workers, the row of a level accounts for every download.       *)
THEOREM RowsAccount == BenchSpec => []RowAccounts
<1>1. RowInv => RowAccounts
  <2> SUFFICES ASSUME RowInv PROVE RowAccounts
    OBVIOUS
  <2>1. NoneTwice(total, 0) /\ NoneMissing(total, 0) /\ total \in WorkerStats
    BY DEF RowInv
  <2> QED
    BY <2>1, StatsTyped DEF RowAccounts, NoneTwice, NoneMissing, EndedIn
<1> QED
  BY RowInitially, RowInductive, <1>1, PTL DEF BenchSpec
=============================================================================
