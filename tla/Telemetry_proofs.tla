-------------------------- MODULE Telemetry_proofs --------------------------
(***************************************************************************)
(* For any number of shares, entries, faults and restarts: no entry of the *)
(* log is counted twice, and a peer that has fallen silent keeps the       *)
(* dashboard healthy no longer than the 300 seconds of _count_peers and    *)
(* STALE_AFTER.  The argument for the first: whatever was counted is not   *)
(* above the watermark, which moves in the transaction that counts, to the *)
(* newest entry that the poll saw.  And while the telemetry counts as      *)
(* fresh nothing that a poll can see and that is older than STALE_AFTER    *)
(* and an ssh call is missing from it.                                     *)
(* The downloads it shows of albums are those it shows of their visits.    *)
(***************************************************************************)
EXTENDS Telemetry, FiniteSetTheorems, WellFoundedInduction, TLAPS

Places == {"sleep", "ssh", "immich", "commit", "check", "purge", "purged"}

Entries == [ts : Nat, share : Shares, kind : Kinds]

Metas == [event : Nat, ingest : Nat, purge : Nat, peers : Nat]

Locals ==
    [lines : SUBSET (1 .. MaxLog), shook : [Peers -> Nat], asked : Nat, now : Nat, mark : Nat,
     peers : Nat, shares : SUBSET Shares]

TypeOK ==
    /\ clock \in Nat
    /\ log \in Seq(Entries)
    /\ life \in [Shares -> {"none", "open", "ended"}]
    /\ rolled \in Nat
    /\ shook \in [Peers -> Nat]
    /\ events \in [1 .. MaxLog -> Nat]
    /\ seen \in [Shares -> Nat]
    /\ meta \in Metas
    /\ purged \subseteq 1 .. MaxLog
    /\ pc \in Places
    /\ loc \in Locals

\* The entries are within the bound, and none has a stamp of the future.
LogOK == Len(log) <= MaxLog /\ \A i \in DOMAIN log : log[i].ts <= clock

\* The places where a poll has lines, and those where it also has its stamp.
Polling == {"ssh", "immich", "commit"}
Stamped == {"immich", "commit"}

\* Between the poll and the transaction the watermark stays where it was, and
\* the poll has seen entries of the log, the newest of them the latest.
PollOK ==
    /\ pc \in Stamped => loc.mark = meta.event
    /\ pc \in Polling =>
        /\ loc.lines \subseteq DOMAIN log
        /\ loc.lines = {} \/ \E n \in loc.lines : \A i \in loc.lines : log[i].ts <= log[n].ts

\* What is counted, or was, is in the log and not above the watermark.
BelowMark ==
    \A i \in 1 .. MaxLog : events[i] > 0 \/ i \in purged =>
        i \in DOMAIN log /\ log[i].ts <= meta.event

\* The log is in the order of its stamps.
Ordered == \A i, j \in DOMAIN log : i <= j => log[i].ts <= log[j].ts

CountInv == TypeOK /\ LogOK /\ PollOK /\ BelowMark /\ Ordered /\ CountedOnce

-----------------------------------------------------------------------------
(* Max of a set of naturals that has a greatest element.                   *)
LEMMA MaxIsGreatest ==
    ASSUME NEW T \in SUBSET Nat, NEW m \in T, \A t \in T : t <= m
    PROVE  Max(T) \in T /\ \A t \in T : t <= Max(T)
<1>1. \A t \in T : m >= t
  OBVIOUS
<1>2. Max(T) \in T /\ \A t \in T : Max(T) >= t
  BY <1>1 DEF Max
<1> QED
  BY <1>2

\* The stamps of the log are numbers.
LEMMA StampsAreNat ==
    ASSUME TypeOK
    PROVE  \A i \in DOMAIN log : log[i].ts \in Nat
<1> SUFFICES ASSUME NEW i \in DOMAIN log PROVE log[i].ts \in Nat
  OBVIOUS
<1>1. log[i] \in Entries
  BY DEF TypeOK
<1> QED
  BY <1>1 DEF Entries

(* A poll has a newest stamp.                                              *)
LEMMA PollMax ==
    ASSUME CountInv, pc = "commit"
    PROVE  LET T == {loc.mark} \cup {log[i].ts : i \in loc.lines}
           IN  T \in SUBSET Nat /\ Max(T) \in T /\ \A t \in T : t <= Max(T)
<1> DEFINE T == {loc.mark} \cup {log[i].ts : i \in loc.lines}
<1>1. /\ loc.mark \in Nat /\ loc.mark = meta.event
      /\ loc.lines \subseteq DOMAIN log
      /\ \A i \in DOMAIN log : log[i].ts \in Nat
  <2>1. TypeOK
    BY DEF CountInv
  <2> QED
    BY <2>1, StampsAreNat DEF CountInv, TypeOK, Locals, PollOK, Polling, Stamped
<1>2. T \in SUBSET Nat
  BY <1>1
<1>3. \E m \in T : \A t \in T : t <= m
  <2>1. CASE loc.lines = {}
    BY <2>1, <1>1
  <2>2. CASE loc.lines # {}
    <3>1. PICK n \in loc.lines : \A i \in loc.lines : log[i].ts <= log[n].ts
      BY <2>2 DEF CountInv, PollOK, Polling
    <3>2. log[n].ts \in Nat
      BY <1>1
    <3>3. CASE loc.mark <= log[n].ts
      BY <3>1, <3>2, <3>3, <1>1
    <3>4. CASE ~(loc.mark <= log[n].ts)
      <4>1. \A t \in T : t <= loc.mark
        BY <3>1, <3>2, <3>4, <1>1
      <4> QED
        BY <4>1
    <3> QED
      BY <3>3, <3>4
  <2> QED
    BY <2>1, <2>2
<1>4. Max(T) \in T /\ \A t \in T : t <= Max(T)
  BY <1>2, <1>3, MaxIsGreatest
<1> QED
  BY <1>2, <1>4

(* The watermark of a poll is no lower than the old one and than any entry *)
(* that the poll has seen, unless it makes no row.                         *)
LEMMA WatermarkRises ==
    ASSUME CountInv, pc = "commit"
    PROVE  /\ Watermark \in Nat /\ meta.event <= Watermark
           /\ \A i \in NewRows : log[i].ts <= Watermark
<1> DEFINE T == {loc.mark} \cup {log[i].ts : i \in loc.lines}
<1>1. /\ meta.event \in Nat /\ loc.mark = meta.event
      /\ NewRows \subseteq loc.lines
      /\ loc.lines \subseteq DOMAIN log
      /\ \A i \in DOMAIN log : log[i].ts \in Nat
  BY StampsAreNat DEF CountInv, TypeOK, Metas, PollOK, Polling, Stamped, NewRows
<1>2. T \in SUBSET Nat /\ Max(T) \in T /\ \A t \in T : t <= Max(T)
  BY PollMax
<1>3. CASE NewRows = {}
  BY <1>1, <1>3 DEF Watermark
<1>4. CASE NewRows # {}
  <2>1. Watermark = Max(T)
    BY <1>4 DEF Watermark
  <2> QED
    BY <1>1, <1>2, <2>1
<1> QED
  BY <1>3, <1>4

-----------------------------------------------------------------------------
\* What the loop starts a cycle with.
LEMMA BlankIs == Blank \in Locals
BY DEF Blank, Locals

\* At the start nothing is counted.
LEMMA CountInitially == Init => CountInv
<1> SUFFICES ASSUME Init PROVE CountInv
  OBVIOUS
<1>1. /\ log = <<>> /\ DOMAIN log = {} /\ Len(log) = 0 /\ log \in Seq(Entries)
  BY DEF Init
<1> QED
  BY <1>1, BlankIs, TelemetryAssumption
     DEF Init, CountInv, TypeOK, Metas, LogOK, PollOK, Polling, Stamped, BelowMark, Ordered,
         CountedOnce, Places

(* The steps that change neither the log nor what is counted.              *)
LEMMA QuietKeeps ==
    ASSUME CountInv, UNCHANGED <<log, events, purged>>,
           clock' \in Nat, clock <= clock', life' \in [Shares -> {"none", "open", "ended"}],
           rolled' \in Nat, shook' \in [Peers -> Nat], seen' \in [Shares -> Nat],
           meta' \in Metas,
           meta'.event = meta.event,
           pc' \in Places,
           \/ pc' = pc /\ loc' = loc
           \/ pc' \notin Polling /\ loc' = Blank
    PROVE  CountInv'
<1>1. Blank \in Locals
  BY BlankIs
<1>2. TypeOK'
  BY <1>1 DEF CountInv, TypeOK
<1>3. LogOK'
  <2>1. \A i \in DOMAIN log : log[i].ts \in Nat
    BY StampsAreNat DEF CountInv
  <2> QED
    BY <2>1 DEF CountInv, LogOK, TypeOK
<1>4. PollOK' /\ BelowMark' /\ Ordered' /\ CountedOnce'
  BY DEF CountInv, PollOK, Polling, Stamped, BelowMark, Ordered, CountedOnce
<1> QED
  BY <1>2, <1>3, <1>4 DEF CountInv

\* A poll sees entries of the log.
LEMMA FetchKeeps ==
    ASSUME CountInv, Fetch
    PROVE  CountInv'
<1>1. /\ Len(log) \in Nat /\ DOMAIN log = 1 .. Len(log) /\ Len(log) <= MaxLog
      /\ rolled \in Nat /\ MaxLog \in Nat /\ TailLines \in Nat
  BY TelemetryAssumption DEF CountInv, TypeOK, LogOK
<1>2. LogTail \subseteq 1 .. MaxLog
  BY <1>1 DEF LogTail
<1>3. /\ pc' = "ssh" /\ UNCHANGED <<world, db, purged>>
      /\ loc' = [lines |-> LogTail, shook |-> shook, asked |-> clock, now |-> 0, mark |-> 0,
                 peers |-> 0, shares |-> {}]
  BY DEF Fetch, Goto, Blank
<1>4. TypeOK'
  <2>1. clock \in Nat /\ shook \in [Peers -> Nat]
    BY DEF CountInv, TypeOK
  <2>2. loc' \in Locals
    BY <1>2, <1>3, <2>1 DEF Locals
  <2> QED
    BY <1>3, <2>2 DEF CountInv, TypeOK, world, db, Places
<1>5. LogTail = {} \/ Len(log) \in LogTail
  BY <1>1 DEF LogTail
<1>6. PollOK'
  <2>1. \A i \in LogTail : i \in DOMAIN log /\ i <= Len(log)
    BY <1>1 DEF LogTail
  <2>2. Len(log) \in LogTail => \A i \in LogTail : log[i].ts <= log[Len(log)].ts
    BY <2>1 DEF CountInv, Ordered
  <2>3. LogTail = {} \/ \E n \in LogTail : \A i \in LogTail : log[i].ts <= log[n].ts
    BY <1>5, <2>2
  <2> QED
    BY <1>3, <2>1, <2>3 DEF PollOK, Stamped, Polling, world, db
<1>7. LogOK' /\ BelowMark' /\ Ordered' /\ CountedOnce'
  BY <1>3 DEF CountInv, LogOK, BelowMark, Ordered, CountedOnce, world, db
<1> QED
  BY <1>4, <1>6, <1>7 DEF CountInv

\* The peers that count are a number of them.
LEMMA PeersAreNat ==
    ASSUME NEW T \in SUBSET Peers
    PROVE  IsFiniteSet(T) /\ Cardinality(T) \in Nat
BY PeersAssumption, FS_Subset, FS_CardinalityType

\* ssh answers, or the poll has failed.
LEMMA FetchedKeeps ==
    ASSUME CountInv, Fetched
    PROVE  CountInv'
<1>0. TypeOK
  BY DEF CountInv
<1>1. CASE Goto("check", Blank)
  BY <1>0, <1>1, QuietKeeps DEF Fetched, Goto, Places, Polling, world, db, TypeOK
<1>2. CASE Goto("immich", [Blank EXCEPT !.lines = loc.lines, !.now = clock,
                                        !.mark = meta.event, !.peers = CountPeers])
  <2>1. /\ pc = "ssh" /\ pc' = "immich" /\ UNCHANGED <<world, db, purged>>
        /\ loc' = [lines |-> loc.lines, shook |-> [p \in Peers |-> 0], asked |-> 0,
                   now |-> clock, mark |-> meta.event, peers |-> CountPeers, shares |-> {}]
    BY <1>2 DEF Fetched, Goto, Blank
  <2>2. CountPeers \in Nat
    BY PeersAreNat DEF CountPeers
  <2>3. TypeOK'
    <3>1. clock \in Nat /\ meta.event \in Nat /\ loc.lines \in SUBSET (1 .. MaxLog)
      BY <1>0 DEF TypeOK, Metas, Locals
    <3>2. loc' \in Locals
      BY <2>1, <2>2, <3>1 DEF Locals
    <3> QED
      BY <1>0, <2>1, <3>2 DEF TypeOK, world, db, Places
  <2>4. PollOK'
    BY <2>1 DEF CountInv, PollOK, Stamped, Polling, world, db
  <2>5. LogOK' /\ BelowMark' /\ Ordered' /\ CountedOnce'
    BY <2>1 DEF CountInv, LogOK, BelowMark, Ordered, CountedOnce, world, db
  <2> QED
    BY <2>3, <2>4, <2>5 DEF CountInv
<1> QED
  BY <1>1, <1>2 DEF Fetched

\* Immich answers, or the cycle ends.
LEMMA ListSharesKeeps ==
    ASSUME CountInv, ListShares
    PROVE  CountInv'
<1>0. TypeOK
  BY DEF CountInv
<1>1. CASE Goto("sleep", Blank)
  BY <1>0, <1>1, QuietKeeps DEF ListShares, Goto, Places, Polling, world, db, TypeOK
<1>2. CASE Goto("commit", [loc EXCEPT !.shares = Opened])
  <2>1. /\ UNCHANGED <<world, db, purged>> /\ pc = "immich" /\ pc' = "commit"
        /\ loc' = [loc EXCEPT !.shares = Opened] /\ Opened \subseteq Shares
    BY <1>2 DEF ListShares, Goto, Opened
  <2>2. loc'.lines = loc.lines /\ loc'.mark = loc.mark /\ loc' \in Locals
    BY <2>1 DEF CountInv, TypeOK, Locals
  <2>3. TypeOK'
    BY <2>1, <2>2 DEF CountInv, TypeOK, world, db, Places
  <2>4. PollOK'
    BY <2>1, <2>2 DEF CountInv, PollOK, Polling, Stamped, world, db
  <2>5. LogOK' /\ BelowMark' /\ Ordered' /\ CountedOnce'
    BY <2>1 DEF CountInv, LogOK, BelowMark, Ordered, CountedOnce, world, db
  <2> QED
    BY <2>3, <2>4, <2>5 DEF CountInv
<1> QED
  BY <1>1, <1>2 DEF ListShares

\* The transaction counts what is above the watermark, once.
LEMMA CommitKeeps ==
    ASSUME CountInv, Commit
    PROVE  CountInv'
<1>0. TypeOK
  BY DEF CountInv
<1>1. CASE Goto("sleep", Blank) /\ UNCHANGED db
  BY <1>0, <1>1, QuietKeeps DEF Commit, Goto, Places, Polling, world, db, TypeOK
<1>2. CASE /\ events' = [i \in 1 .. MaxLog |-> events[i] + (IF i \in NewRows THEN 1 ELSE 0)]
           /\ seen' = [s \in Shares |-> IF s \in loc.shares THEN loc.now ELSE seen[s]]
           /\ meta' = [meta EXCEPT !.event = Watermark, !.ingest = loc.now, !.peers = loc.peers]
           /\ Goto("check", Blank)
  <2>1. /\ Watermark \in Nat /\ meta.event <= Watermark
        /\ \A i \in NewRows : log[i].ts <= Watermark
    BY WatermarkRises DEF Commit
  <2>2. UNCHANGED <<world, purged>> /\ pc' = "check" /\ loc' = Blank /\ meta'.event = Watermark
    BY <1>2 DEF Commit, Goto, CountInv, TypeOK, Metas
  <2>3. \A i \in NewRows : i \in DOMAIN log /\ events[i] = 0 /\ i \notin purged
    <3>1. \A i \in NewRows : i \in loc.lines /\ log[i].ts > meta.event /\ i \in DOMAIN log
      BY DEF NewRows, Commit, CountInv, PollOK, Polling, Stamped
    <3>2. \A i \in DOMAIN log : log[i].ts \in Nat
      BY StampsAreNat DEF CountInv
    <3>3. meta.event \in Nat /\ NewRows \subseteq 1 .. MaxLog /\ events \in [1 .. MaxLog -> Nat]
      BY DEF CountInv, TypeOK, Metas, Locals, NewRows
    <3>4. \A i \in NewRows : ~(events[i] > 0) /\ i \notin purged
      BY <3>1, <3>2, <3>3 DEF CountInv, BelowMark
    <3> QED
      BY <3>1, <3>3, <3>4
  <2>4. TypeOK'
    <3>1. events' \in [1 .. MaxLog -> Nat]
      BY <1>0, <1>2 DEF TypeOK
    <3>2. loc.now \in Nat /\ loc.peers \in Nat
      BY <1>0 DEF TypeOK, Locals
    <3>3. seen' \in [Shares -> Nat]
      BY <1>0, <1>2, <3>2 DEF TypeOK
    <3>4. meta' \in Metas
      BY <1>0, <1>2, <2>1, <3>2 DEF TypeOK, Metas
    <3>5. loc' \in Locals
      BY <2>2, BlankIs
    <3> QED
      BY <1>0, <2>2, <3>1, <3>3, <3>4, <3>5 DEF TypeOK, Places, world
  <2>5. CountedOnce'
    BY <1>2, <2>2, <2>3 DEF CountInv, CountedOnce, TypeOK
  <2>6. BelowMark'
    <3> SUFFICES ASSUME NEW i \in 1 .. MaxLog, events'[i] > 0 \/ i \in purged
                 PROVE  i \in DOMAIN log /\ log[i].ts <= Watermark
      BY <2>2 DEF BelowMark, world
    <3>1. CASE i \in NewRows
      BY <3>1, <2>1, <2>3
    <3>2. CASE i \notin NewRows
      <4>1. events[i] > 0 \/ i \in purged
        BY <1>2, <3>2 DEF CountInv, TypeOK
      <4>2. i \in DOMAIN log /\ log[i].ts <= meta.event /\ log[i].ts \in Nat /\ meta.event \in Nat
        BY <4>1, StampsAreNat DEF CountInv, BelowMark, TypeOK, Metas
      <4> QED
        BY <4>2, <2>1
    <3> QED
      BY <3>1, <3>2
  <2>7. LogOK' /\ Ordered' /\ PollOK'
    BY <2>2 DEF CountInv, LogOK, Ordered, PollOK, Polling, Stamped, world
  <2> QED
    BY <2>4, <2>5, <2>6, <2>7 DEF CountInv
<1> QED
  BY <1>1, <1>2 DEF Commit

\* What a purge forgets stays below the watermark.
LEMMA PurgeKeeps ==
    ASSUME CountInv, Purge
    PROVE  CountInv'
<1>0. TypeOK
  BY DEF CountInv
<1>1. CASE Goto("sleep", Blank) /\ UNCHANGED <<events, seen, purged>>
  BY <1>0, <1>1, QuietKeeps DEF Purge, Goto, Places, Polling, world, db, TypeOK
<1>2. CASE /\ events' = [i \in 1 .. MaxLog |-> IF i \in Expired THEN 0 ELSE events[i]]
           /\ purged' = purged \cup Expired
           /\ seen' = [s \in Shares |-> IF Old(seen[s]) /\ s \notin StillUsed THEN 0 ELSE seen[s]]
           /\ Goto("purged", Blank)
  <2>1. UNCHANGED <<world, meta>> /\ pc' = "purged" /\ loc' = Blank
    BY <1>2 DEF Purge, Goto
  <2>2. \A i \in Expired : i \in DOMAIN log /\ events[i] > 0
    BY DEF Expired
  <2>3. Expired \subseteq 1 .. MaxLog
    <3>1. DOMAIN log = 1 .. Len(log) /\ Len(log) \in Nat /\ Len(log) <= MaxLog /\ MaxLog \in Nat
      BY TelemetryAssumption DEF CountInv, TypeOK, LogOK
    <3> QED
      BY <2>2, <3>1
  <2>4. TypeOK'
    BY <1>2, <2>1, <2>3, BlankIs DEF CountInv, TypeOK, Places, world
  <2>5. CountedOnce'
    BY <1>2, <2>2, <2>3 DEF CountInv, CountedOnce, TypeOK
  <2>6. BelowMark'
    BY <1>2, <2>1, <2>2, <2>3 DEF CountInv, BelowMark, TypeOK, world
  <2>7. LogOK' /\ Ordered' /\ PollOK'
    BY <2>1 DEF CountInv, LogOK, Ordered, PollOK, Polling, Stamped, world
  <2> QED
    BY <2>4, <2>5, <2>6, <2>7 DEF CountInv
<1> QED
  BY <1>1, <1>2 DEF Purge

\* A new entry is above everything that is counted.
LEMMA WriteKeeps ==
    ASSUME CountInv, NEW s \in Shares, NEW kind \in Kinds, Write(s, kind) PROVE CountInv'
<1> DEFINE entry == [ts |-> clock, share |-> s, kind |-> kind]
           n == Len(log) + 1
<1>1. /\ log' = Append(log, entry) /\ Len(log) < MaxLog
      /\ rolled' \in {rolled, Len(log)}
      /\ UNCHANGED <<clock, life, shook, db, purged, pc, loc>>
      /\ \A i \in DOMAIN log : log[i].ts < clock
  BY DEF Write, Elsewhere
<1>2. entry \in Entries /\ log \in Seq(Entries) /\ Len(log) \in Nat /\ MaxLog \in Nat
  BY TelemetryAssumption DEF Entries, CountInv, TypeOK
<1>3. /\ log' \in Seq(Entries) /\ Len(log') = n /\ DOMAIN log' = 1 .. n
      /\ DOMAIN log = 1 .. Len(log)
      /\ log'[n] = entry /\ \A i \in DOMAIN log : log'[i] = log[i]
  BY <1>1, <1>2
<1>4. \A i \in DOMAIN log' : i \in DOMAIN log \/ i = n
  BY <1>2, <1>3
<1>5. TypeOK'
  BY <1>1, <1>2, <1>3 DEF CountInv, TypeOK, db
<1>6. \A i \in DOMAIN log' : log'[i].ts \in Nat /\ log'[i].ts <= clock
  <2>1. \A i \in DOMAIN log : log[i].ts \in Nat /\ log[i].ts <= clock
    BY StampsAreNat DEF CountInv, LogOK
  <2> QED
    BY <1>3, <1>4, <2>1 DEF CountInv, TypeOK
<1>7. LogOK'
  BY <1>1, <1>2, <1>3, <1>6 DEF LogOK
<1>8. Ordered'
  <2> SUFFICES ASSUME NEW i \in DOMAIN log', NEW j \in DOMAIN log', i <= j
               PROVE  log'[i].ts <= log'[j].ts
    BY DEF Ordered
  <2>1. CASE j = n
    BY <2>1, <1>3, <1>6
  <2>2. CASE j # n
    <3>1. j \in DOMAIN log /\ i \in DOMAIN log
      BY <2>2, <1>2, <1>3, <1>4
    <3> QED
      BY <3>1, <1>3 DEF CountInv, Ordered
  <2> QED
    BY <2>1, <2>2
<1>9. PollOK' /\ BelowMark' /\ CountedOnce'
  <2>1. DOMAIN log \subseteq DOMAIN log'
    BY <1>2, <1>3
  <2>2. PollOK'
    BY <1>1, <1>3, <2>1 DEF CountInv, PollOK, db
  <2>3. BelowMark' /\ CountedOnce'
    BY <1>1, <1>3, <2>1 DEF CountInv, BelowMark, CountedOnce, db
  <2> QED
    BY <2>2, <2>3
<1> QED
  BY <1>5, <1>7, <1>8, <1>9 DEF CountInv

\* What is counted, is counted once, whatever the step.
LEMMA CountInductive == CountInv /\ [Next]_vars => CountInv'
<1> SUFFICES ASSUME CountInv, [Next]_vars PROVE CountInv'
  OBVIOUS
<1>0. TypeOK
  BY DEF CountInv
<1>1. CASE UNCHANGED vars
  BY <1>0, <1>1, QuietKeeps DEF vars, world, db, TypeOK
<1>2. CASE Cycle
  <2>1. CASE Check
    BY <1>0, <2>1, QuietKeeps DEF Check, Goto, Places, Polling, world, db, TypeOK
  <2>2. CASE MarkPurge
    <3>1. meta' \in Metas /\ meta'.event = meta.event
      BY <1>0, <2>2 DEF MarkPurge, TypeOK, Metas, world
    <3> QED
      BY <1>0, <2>2, <3>1, QuietKeeps DEF MarkPurge, Goto, Places, Polling, world, TypeOK
  <2> QED
    BY <1>2, <2>1, <2>2, FetchKeeps, FetchedKeeps, ListSharesKeeps, CommitKeeps,
       PurgeKeeps DEF Cycle
<1>3. CASE Crash
  BY <1>0, <1>3, QuietKeeps DEF Crash, Goto, Places, Polling, world, db, TypeOK
<1>4. CASE Tick
  BY <1>0, <1>4, QuietKeeps DEF Tick, Elsewhere, db, TypeOK
<1>5. ASSUME NEW p \in Peers, Handshake(p) PROVE CountInv'
  BY <1>0, <1>5, QuietKeeps DEF Handshake, Elsewhere, db, TypeOK
<1>6. ASSUME NEW s \in Shares, Live(s) PROVE CountInv'
  BY <1>0, <1>6, QuietKeeps DEF Live, Elsewhere, db, TypeOK
<1> QED
  BY <1>1, <1>2, <1>3, <1>4, <1>5, <1>6, WriteKeeps DEF Next

(* _ingest_once and _purge_old_events: wherever a cycle fails or the       *)
(* monitor is restarted, no entry of Caddy's log is counted twice.         *)
THEOREM CountsOnce == Spec => []CountedOnce
<1>1. CountInv => CountedOnce
  BY DEF CountInv
<1> QED
  BY CountInitially, CountInductive, <1>1, PTL DEF Spec

-----------------------------------------------------------------------------
(* Why the count of peers can be trusted for a while: the peers that a     *)
(* poll counts are among those whose last handshake was less than 300      *)
(* seconds before the stamp of the poll, and since then peers can only     *)
(* have shaken hands again.                                                *)

\* The peers whose last handshake counts at time t.
UpAt(t) == {p \in Peers : t < shook[p] + PeerWindow}

\* What a poll knows of the peers, and what it counted, has not become less.
UpInv ==
    /\ \A p \in Peers : shook[p] <= clock
    /\ pc = "ssh" => \A p \in Peers : loc.shook[p] <= shook[p]
    /\ pc \in Stamped => loc.peers <= Cardinality(UpAt(loc.now))
    /\ meta.peers <= Cardinality(UpAt(meta.ingest))

\* More peers, a greater number.
LEMMA MorePeers ==
    ASSUME NEW T \in SUBSET Peers, NEW U \in SUBSET T
    PROVE  Cardinality(U) <= Cardinality(T) /\ Cardinality(U) \in Nat /\ Cardinality(T) \in Nat
BY PeersAreNat, FS_Subset, FS_CardinalityType

\* Peers may have shaken hands, and no poll has learned of it.
LEMMA UpStays ==
    ASSUME CountInv, CountInv', UpInv,
           \A p \in Peers : shook[p] <= shook'[p] /\ shook'[p] <= clock',
           meta'.peers = meta.peers, meta'.ingest = meta.ingest,
           \/ pc' = pc /\ loc' = loc
           \/ pc' \notin Polling
           \/ pc \in Stamped /\ pc' \in Stamped /\ loc'.peers = loc.peers /\ loc'.now = loc.now
    PROVE  UpInv'
<1>1. /\ shook \in [Peers -> Nat] /\ shook' \in [Peers -> Nat] /\ PeerWindow \in Nat
      /\ loc \in Locals /\ meta \in Metas
  BY TelemetryAssumption DEF CountInv, TypeOK
<1>2. /\ loc.now \in Nat /\ loc.peers \in Nat /\ meta.ingest \in Nat /\ meta.peers \in Nat
      /\ loc.shook \in [Peers -> Nat]
  BY <1>1 DEF Locals, Metas
<1>3. ASSUME NEW t \in Nat, NEW u \in Nat, u <= Cardinality(UpAt(t))
      PROVE  u <= Cardinality({p \in Peers : t < shook'[p] + PeerWindow})
  <2> DEFINE T == {p \in Peers : t < shook'[p] + PeerWindow}
  <2>1. T \in SUBSET Peers /\ UpAt(t) \in SUBSET T
    BY <1>1 DEF UpAt
  <2> HIDE DEF T
  <2>2. Cardinality(UpAt(t)) <= Cardinality(T) /\ Cardinality(UpAt(t)) \in Nat /\ Cardinality(T) \in Nat
    BY <2>1, MorePeers
  <2>3. u <= Cardinality(T)
    BY <1>3, <2>2
  <2> QED BY <2>3 DEF T
<1>4. \A p \in Peers : shook'[p] <= clock'
  OBVIOUS
<1>5. pc' = "ssh" => \A p \in Peers : loc'.shook[p] <= shook'[p]
  <2> SUFFICES ASSUME pc' = "ssh", NEW p \in Peers PROVE loc'.shook[p] <= shook'[p]
    OBVIOUS
  <2>1. pc' = pc /\ loc' = loc
    BY DEF Polling, Stamped
  <2>2. loc.shook[p] <= shook[p] /\ loc.shook[p] \in Nat /\ shook[p] \in Nat /\ shook'[p] \in Nat
    BY <1>1, <1>2, <2>1 DEF UpInv
  <2> QED BY <2>1, <2>2
<1>6. pc' \in Stamped => loc'.peers <= Cardinality({p \in Peers : loc'.now < shook'[p] + PeerWindow})
  <2> SUFFICES ASSUME pc' \in Stamped
               PROVE  loc'.peers <= Cardinality({p \in Peers : loc'.now < shook'[p] + PeerWindow})
    OBVIOUS
  <2>1. pc \in Stamped /\ loc'.peers = loc.peers /\ loc'.now = loc.now
    BY DEF Polling, Stamped
  <2>2. loc.peers <= Cardinality(UpAt(loc.now))
    BY <2>1 DEF UpInv
  <2> QED BY <1>2, <1>3, <2>1, <2>2
<1>7. meta'.peers <= Cardinality({p \in Peers : meta'.ingest < shook'[p] + PeerWindow})
  <2>1. meta.peers <= Cardinality(UpAt(meta.ingest))
    BY DEF UpInv
  <2> QED BY <1>2, <1>3, <2>1
<1> QED BY <1>4, <1>5, <1>6, <1>7 DEF UpInv, UpAt

\* A poll that is answered counts peers that are still up.
LEMMA FetchedUp ==
    ASSUME CountInv, CountInv', UpInv, Fetched
    PROVE  UpInv'
<1>1. UNCHANGED <<clock, shook, meta>> /\ pc = "ssh"
  BY DEF Fetched, world, db
<1>2. /\ shook \in [Peers -> Nat] /\ loc.shook \in [Peers -> Nat] /\ clock \in Nat
      /\ PeerWindow \in Nat
  BY TelemetryAssumption DEF CountInv, TypeOK, Locals
<1>3. CASE Goto("check", Blank)
  <2>1. pc' \notin Polling
    BY <1>3 DEF Goto, Polling
  <2>2. \A p \in Peers : shook[p] <= shook'[p] /\ shook'[p] <= clock'
    BY <1>1, <1>2 DEF UpInv
  <2> QED BY <1>1, <2>1, <2>2, UpStays
<1>4. CASE Goto("immich", [Blank EXCEPT !.lines = loc.lines, !.now = clock,
                                        !.mark = meta.event, !.peers = CountPeers])
  <2>1. pc' = "immich" /\ loc'.now = clock /\ loc'.peers = CountPeers
    BY <1>4 DEF Goto, Blank
  <2>2. CountPeers <= Cardinality(UpAt(clock))
    <3>1. \A p \in Peers : loc.shook[p] <= shook[p]
      BY <1>1 DEF UpInv
    <3>2. {p \in Peers : clock < loc.shook[p] + PeerWindow} \in SUBSET UpAt(clock)
      BY <1>2, <3>1 DEF UpAt
    <3>3. UpAt(clock) \in SUBSET Peers
      BY DEF UpAt
    <3> QED BY <3>2, <3>3, MorePeers DEF CountPeers
  <2>3. UpAt(clock)' = UpAt(clock) /\ UpAt(loc'.now) = UpAt(clock)
    BY <1>1, <2>1 DEF UpAt
  <2>4. pc' \in Stamped => loc'.peers <= Cardinality({p \in Peers : loc'.now < shook'[p] + PeerWindow})
    BY <1>1, <2>1, <2>2 DEF UpAt
  <2>5. meta'.peers <= Cardinality({p \in Peers : meta'.ingest < shook'[p] + PeerWindow})
    BY <1>1 DEF UpInv, UpAt
  <2>6. \A p \in Peers : shook'[p] <= clock'
    BY <1>1 DEF UpInv
  <2> QED BY <2>1, <2>4, <2>5, <2>6 DEF UpInv, UpAt
<1> QED BY <1>3, <1>4 DEF Fetched

\* The transaction stores the count with the stamp that it was made at.
LEMMA CommitUp ==
    ASSUME CountInv, CountInv', UpInv, Commit
    PROVE  UpInv'
<1>1. UNCHANGED <<clock, shook>> /\ pc = "commit" /\ pc' \notin Polling
  BY DEF Commit, world, Goto, Polling
<1>2. \A p \in Peers : shook[p] <= shook'[p] /\ shook'[p] <= clock'
  <2>1. shook \in [Peers -> Nat]
    BY DEF CountInv, TypeOK
  <2> QED BY <1>1, <2>1 DEF UpInv
<1>3. CASE UNCHANGED db
  BY <1>1, <1>2, <1>3, UpStays DEF db
<1>4. CASE meta' = [meta EXCEPT !.event = Watermark, !.ingest = loc.now, !.peers = loc.peers]
  <2>1. meta'.ingest = loc.now /\ meta'.peers = loc.peers
    BY <1>4 DEF CountInv, TypeOK, Metas
  <2>2. loc.peers <= Cardinality(UpAt(loc.now))
    BY <1>1 DEF UpInv, Stamped
  <2>3. meta'.peers <= Cardinality({p \in Peers : meta'.ingest < shook'[p] + PeerWindow})
    BY <1>1, <2>1, <2>2 DEF UpAt
  <2> QED BY <1>1, <1>2, <2>3 DEF UpInv, UpAt, Stamped, Polling
<1> QED BY <1>3, <1>4 DEF Commit

\* What is counted as up was up, whatever the step.
LEMMA UpInductive == CountInv /\ CountInv' /\ UpInv /\ [Next]_vars => UpInv'
<1> SUFFICES ASSUME CountInv, CountInv', UpInv, [Next]_vars PROVE UpInv'
  OBVIOUS
<1>0. TypeOK /\ shook \in [Peers -> Nat] /\ clock \in Nat
  BY DEF CountInv, TypeOK
<1>1. \A p \in Peers : shook[p] <= shook[p] /\ shook[p] <= clock /\ shook[p] \in Nat
  BY <1>0 DEF UpInv
<1>2. CASE Check \/ Purge \/ Crash \/ UNCHANGED vars
  <2>1. UNCHANGED <<clock, shook, meta>>
    BY <1>2 DEF Check, Purge, Crash, vars, world, db
  <2>2. (pc' = pc /\ loc' = loc) \/ pc' \notin Polling
    BY <1>2 DEF Check, Purge, Crash, vars, Goto, Polling
  <2> QED BY <1>1, <2>1, <2>2, UpStays
<1>3. CASE MarkPurge
  <2>1. UNCHANGED <<clock, shook>> /\ meta'.peers = meta.peers /\ meta'.ingest = meta.ingest
    BY <1>0, <1>3 DEF MarkPurge, world, TypeOK, Metas
  <2>2. pc' \notin Polling
    BY <1>3 DEF MarkPurge, Goto, Polling
  <2> QED BY <1>1, <2>1, <2>2, UpStays
<1>4. CASE Fetch
  <2>1. UNCHANGED <<clock, shook, meta>> /\ pc' = "ssh" /\ loc'.shook = shook
    BY <1>4 DEF Fetch, Goto, Blank, world, db
  <2>2. meta'.peers <= Cardinality({p \in Peers : meta'.ingest < shook'[p] + PeerWindow})
    BY <2>1 DEF UpInv, UpAt
  <2>3. \A p \in Peers : shook'[p] <= clock' /\ loc'.shook[p] <= shook'[p]
    BY <1>1, <2>1
  <2> QED BY <2>1, <2>2, <2>3 DEF UpInv, UpAt, Stamped
<1>5. CASE ListShares
  <2>1. UNCHANGED <<clock, shook, meta>> /\ pc = "immich"
    BY <1>5 DEF ListShares, world, db
  <2>2. CASE Goto("sleep", Blank)
    BY <1>1, <2>1, <2>2, UpStays DEF Goto, Polling
  <2>3. CASE Goto("commit", [loc EXCEPT !.shares = Opened])
    <3>1. pc' = "commit" /\ loc'.peers = loc.peers /\ loc'.now = loc.now
      BY <1>0, <2>3 DEF Goto, TypeOK, Locals
    <3> QED BY <1>1, <2>1, <3>1, UpStays DEF Stamped
  <2> QED BY <1>5, <2>2, <2>3 DEF ListShares
<1>6. CASE Tick
  <2>1. UNCHANGED <<shook, meta, pc, loc>> /\ clock' = clock + 1
    BY <1>6 DEF Tick, Elsewhere, db
  <2>2. \A p \in Peers : shook[p] <= shook'[p] /\ shook'[p] <= clock'
    BY <1>0, <1>1, <2>1
  <2> QED BY <2>1, <2>2, UpStays
<1>7. ASSUME NEW q \in Peers, Handshake(q) PROVE UpInv'
  <2>1. UNCHANGED <<clock, meta, pc, loc>> /\ shook' = [shook EXCEPT ![q] = clock]
    BY <1>7 DEF Handshake, Elsewhere, db
  <2>2. \A p \in Peers : shook[p] <= shook'[p] /\ shook'[p] <= clock'
    BY <1>0, <1>1, <2>1
  <2> QED BY <2>1, <2>2, UpStays
<1>8. ASSUME NEW s \in Shares, Live(s) \/ \E kind \in Kinds : Write(s, kind) PROVE UpInv'
  <2>1. UNCHANGED <<clock, shook, meta, pc, loc>>
    BY <1>8 DEF Live, Write, Elsewhere, db
  <2> QED BY <1>1, <2>1, UpStays
<1> QED
  BY <1>2, <1>3, <1>4, <1>5, <1>6, <1>7, <1>8, FetchedUp, CommitUp DEF Next, Cycle

(* _count_peers, _telemetry and _devhub: while the dashboard shows "ok",   *)
(* as many peers as expected shook hands less than the 300 seconds of      *)
(* _count_peers and STALE_AFTER ago.                                       *)
THEOREM UpWhileHealthy == Spec => []HealthyMeansUp
<1>1. Init => UpInv
  <2> SUFFICES ASSUME Init PROVE UpInv
    OBVIOUS
  <2>1. clock = 1 /\ pc = "sleep" /\ meta.peers = 0 /\ \A p \in Peers : shook[p] = 1
    BY DEF Init
  <2>2. UpAt(meta.ingest) \in SUBSET Peers
    BY DEF UpAt
  <2> QED BY <2>1, <2>2, PeersAreNat DEF UpInv, Stamped
<1>2. CountInv /\ UpInv => HealthyMeansUp
  <2> SUFFICES ASSUME CountInv, UpInv, Healthy
               PROVE  Expected <= Cardinality({p \in Peers : clock < shook[p] + PeerWindow + StaleAfter})
    BY DEF HealthyMeansUp
  <2> DEFINE T == {p \in Peers : clock < shook[p] + PeerWindow + StaleAfter}
  <2>1. /\ StaleAfter \in Nat /\ PeerWindow \in Nat /\ Expected \in Nat /\ clock \in Nat
        /\ shook \in [Peers -> Nat] /\ meta.ingest \in Nat /\ meta.peers \in Nat
    BY TelemetryAssumption DEF CountInv, TypeOK, Metas
  <2>2. clock <= meta.ingest + StaleAfter /\ Expected <= meta.peers
    BY <2>1 DEF Healthy, Status
  <2>3. UpAt(meta.ingest) \in SUBSET T /\ T \in SUBSET Peers
    BY <2>1, <2>2 DEF UpAt
  <2> HIDE DEF T
  <2>4. /\ Cardinality(UpAt(meta.ingest)) <= Cardinality(T)
        /\ Cardinality(UpAt(meta.ingest)) \in Nat /\ Cardinality(T) \in Nat
    BY <2>3, MorePeers
  <2>5. meta.peers <= Cardinality(UpAt(meta.ingest))
    BY DEF UpInv
  <2>6. Expected <= Cardinality(T)
    BY <2>1, <2>2, <2>4, <2>5
  <2> QED BY <2>6 DEF T
<1> QED
  BY CountInitially, CountInductive, UpInductive, <1>1, <1>2, PTL DEF Spec

-----------------------------------------------------------------------------
(* Why a fresh stamp means that the entries before it are counted: the     *)
(* poll saw all that was visible when it was made, and it is stamped at    *)
(* most an ssh call later; an entry of a share that is still open was of a *)
(* listed share, for a share opens but once; and the watermark passes no   *)
(* visible entry that was not in the poll.                                 *)

Lived == \A i \in DOMAIN log : life[log[i].share] # "none"

\* The stamps are of the past, and the watermark is that of an entry.
Stamps ==
    /\ 0 < clock
    /\ meta.ingest <= clock
    /\ meta.event = 0 \/ \E i \in DOMAIN log : log[i].ts = meta.event
    /\ pc = "ssh" => loc.asked <= clock
    /\ pc \in Stamped => loc.now <= clock

\* The lines of a poll are what was visible, up to the newest of them: what it
\* has not seen was written after it was made, and not long before its stamp.
Polled ==
    pc \in Polling =>
        \A i \in LogTail : i \notin loc.lines =>
            /\ pc = "ssh" => loc.asked <= log[i].ts
            /\ pc \in Stamped => loc.now <= log[i].ts + SshTimeout
            /\ \A n \in loc.lines : log[n].ts < log[i].ts

Listed == pc = "commit" => \A i \in loc.lines : log[i].share \in Opened => log[i].share \in loc.shares

MarkCounts ==
    \A i \in DOMAIN log :
        Due(i) /\ (log[i].ts <= meta.event \/ log[i].ts + SshTimeout < meta.ingest) => Counted(i)

FreshInv == Lived /\ Stamps /\ Polled /\ Listed /\ MarkCounts

\* The log keeps to its bound.
LEMMA InLog ==
    ASSUME CountInv
    PROVE  \A i \in DOMAIN log : i \in 1 .. MaxLog
<1>1. DOMAIN log = 1 .. Len(log) /\ Len(log) \in Nat /\ Len(log) <= MaxLog /\ MaxLog \in Nat
  BY TelemetryAssumption DEF CountInv, TypeOK, LogOK
<1> QED BY <1>1

\* The watermark stays, or is that of a line of the poll.
LEMMA WatermarkIsOf ==
    ASSUME CountInv, pc = "commit"
    PROVE  Watermark = meta.event \/ \E n \in loc.lines : Watermark = log[n].ts
<1>1. CASE NewRows = {}
  BY <1>1 DEF Watermark
<1>2. CASE NewRows # {}
  <2> DEFINE T == {loc.mark} \cup {log[i].ts : i \in loc.lines}
  <2>1. Watermark = Max(T) /\ loc.mark = meta.event
    BY <1>2 DEF Watermark, CountInv, PollOK, Stamped
  <2>2. Max(T) \in T
    BY PollMax
  <2> QED BY <2>1, <2>2
<1> QED BY <1>1, <1>2

\* Neither the log, nor what is open, nor what is counted changes, and no
\* transaction is about to begin that had not begun before.
LEMMA FreshStays ==
    ASSUME CountInv, CountInv', FreshInv, UNCHANGED <<log, rolled, life>>, clock <= clock',
           \A i \in DOMAIN log : Counted(i) => Counted(i)',
           meta'.event = meta.event, meta'.ingest = meta.ingest,
           \/ pc' = pc /\ loc' = loc
           \/ pc' \notin Polling
    PROVE  FreshInv'
<1>1. TypeOK /\ TypeOK'
  BY DEF CountInv
<1>2. Lived'
  BY DEF FreshInv, Lived
<1>3. Stamps'
  <2>1. /\ clock \in Nat /\ clock' \in Nat /\ meta.ingest \in Nat
        /\ pc' \in Polling => pc' = pc /\ loc' = loc /\ loc.now \in Nat /\ loc.asked \in Nat
    BY <1>1 DEF TypeOK, Metas, Locals
  <2> QED BY <2>1 DEF FreshInv, Stamps, Polling, Stamped
<1>4. Polled' /\ Listed'
  BY DEF FreshInv, Polled, Polling, Listed, LogTail, Opened
<1>5. MarkCounts'
  <2>1. \A i \in DOMAIN log : Due(i)' => Due(i)
    BY DEF Due, LogTail, Opened
  <2> QED BY <2>1 DEF FreshInv, MarkCounts
<1> QED BY <1>2, <1>3, <1>4, <1>5 DEF FreshInv

\* A poll sees what is visible.
LEMMA FetchFresh ==
    ASSUME CountInv, CountInv', FreshInv, Fetch
    PROVE  FreshInv'
<1>1. /\ UNCHANGED <<clock, log, rolled, life, events, meta, purged>> /\ clock \in Nat
      /\ pc' = "ssh" /\ loc'.asked = clock /\ loc'.lines = LogTail
  BY DEF Fetch, Goto, Blank, world, db, CountInv, TypeOK
<1>2. Lived' /\ Listed' /\ Stamps'
  BY <1>1 DEF FreshInv, Lived, Listed, Stamps, Stamped
<1>3. Polled'
  BY <1>1 DEF Polled, LogTail
<1>4. MarkCounts'
  BY <1>1 DEF FreshInv, MarkCounts, Due, LogTail, Opened, Counted
<1> QED BY <1>2, <1>3, <1>4 DEF FreshInv

\* The answer is stamped, an ssh call after the poll at the latest.
LEMMA FetchedFresh ==
    ASSUME CountInv, CountInv', FreshInv, Fetched
    PROVE  FreshInv'
<1>1. UNCHANGED <<clock, log, rolled, life, events, meta, purged>> /\ pc = "ssh" /\ clock \in Nat
  BY DEF Fetched, world, db, CountInv, TypeOK
<1>2. CASE Goto("check", Blank)
  <2>1. \A i \in DOMAIN log : Counted(i) => Counted(i)'
    BY <1>1 DEF Counted
  <2>2. pc' \notin Polling /\ clock <= clock'
    BY <1>1, <1>2 DEF Goto, Polling
  <2> QED BY <1>1, <2>1, <2>2, FreshStays
<1>3. CASE /\ clock <= loc.asked + SshTimeout
           /\ Goto("immich", [Blank EXCEPT !.lines = loc.lines, !.now = clock,
                                           !.mark = meta.event, !.peers = CountPeers])
  <2>1. pc' = "immich" /\ loc'.now = clock /\ loc'.lines = loc.lines
    BY <1>3 DEF Goto, Blank
  <2>2. Lived' /\ Listed' /\ Stamps'
    BY <1>1, <2>1 DEF FreshInv, Lived, Listed, Stamps
  <2>3. Polled'
    <3> SUFFICES ASSUME NEW i \in LogTail, i \notin loc.lines
                 PROVE  /\ clock <= log[i].ts + SshTimeout
                        /\ \A n \in loc.lines : log[n].ts < log[i].ts
      BY <1>1, <2>1 DEF Polled, LogTail
    <3>1. loc.asked <= log[i].ts /\ \A n \in loc.lines : log[n].ts < log[i].ts
      BY <1>1 DEF FreshInv, Polled, Polling
    <3>2. log[i].ts \in Nat /\ loc.asked \in Nat /\ SshTimeout \in Nat
      BY StampsAreNat, TelemetryAssumption DEF CountInv, TypeOK, Locals, LogTail
    <3> QED BY <1>1, <1>3, <3>1, <3>2
  <2>4. MarkCounts'
    BY <1>1 DEF FreshInv, MarkCounts, Due, LogTail, Opened, Counted
  <2> QED BY <2>2, <2>3, <2>4 DEF FreshInv
<1> QED BY <1>2, <1>3 DEF Fetched

\* Immich lists what is open.
LEMMA ListFresh ==
    ASSUME CountInv, CountInv', FreshInv, ListShares
    PROVE  FreshInv'
<1>1. UNCHANGED <<clock, log, rolled, life, events, meta, purged>> /\ pc = "immich"
  BY DEF ListShares, world, db
<1>2. CASE Goto("sleep", Blank)
  <2>1. \A i \in DOMAIN log : Counted(i) => Counted(i)'
    BY <1>1 DEF Counted
  <2>2. pc' \notin Polling /\ clock <= clock'
    BY <1>1, <1>2 DEF Goto, Polling, CountInv, TypeOK
  <2> QED BY <1>1, <2>1, <2>2, FreshStays
<1>3. CASE Goto("commit", [loc EXCEPT !.shares = Opened])
  <2>1. /\ pc' = "commit" /\ loc'.now = loc.now /\ loc'.lines = loc.lines /\ loc'.shares = Opened
    BY <1>3 DEF Goto, CountInv, TypeOK, Locals
  <2>2. Lived' /\ Listed' /\ Polled'
    BY <1>1, <2>1 DEF FreshInv, Lived, Listed, Opened, Polled, Polling, Stamped, LogTail
  <2>3. Stamps'
    BY <1>1, <2>1 DEF FreshInv, Stamps, Stamped
  <2>4. MarkCounts'
    BY <1>1 DEF FreshInv, MarkCounts, Due, LogTail, Opened, Counted
  <2> QED BY <2>2, <2>3, <2>4 DEF FreshInv
<1> QED BY <1>2, <1>3 DEF ListShares

\* The transaction counts what was polled, and moves the watermark over it.
LEMMA CommitFresh ==
    ASSUME CountInv, CountInv', FreshInv, Commit
    PROVE  FreshInv'
<1>1. UNCHANGED <<clock, log, rolled, life, purged>> /\ pc = "commit"
  BY DEF Commit, world
<1>2. CASE Goto("sleep", Blank) /\ UNCHANGED db
  <2>1. \A i \in DOMAIN log : Counted(i) => Counted(i)'
    BY <1>1, <1>2 DEF Counted, db
  <2>2. pc' \notin Polling /\ clock <= clock' /\ meta' = meta
    BY <1>1, <1>2 DEF Goto, Polling, CountInv, TypeOK, db
  <2> QED BY <1>1, <2>1, <2>2, FreshStays
<1>3. CASE /\ events' = [i \in 1 .. MaxLog |-> events[i] + (IF i \in NewRows THEN 1 ELSE 0)]
           /\ meta' = [meta EXCEPT !.event = Watermark, !.ingest = loc.now, !.peers = loc.peers]
           /\ Goto("check", Blank)
  <2>1. /\ pc' = "check" /\ meta'.event = Watermark /\ meta'.ingest = loc.now
        /\ loc.mark = meta.event /\ loc.lines \subseteq DOMAIN log
        /\ loc.now \in Nat /\ meta.event \in Nat /\ clock \in Nat
        /\ \A i \in DOMAIN log : log[i].ts \in Nat
        /\ Watermark \in Nat /\ meta.event <= Watermark
    BY <1>1, <1>3, StampsAreNat, WatermarkRises
       DEF Goto, CountInv, TypeOK, Metas, Locals, PollOK, Polling, Stamped
  <2>2. Watermark = meta.event \/ \E n \in loc.lines : Watermark = log[n].ts
    BY <2>1, WatermarkIsOf, <1>1
  <2>3. Lived' /\ Listed' /\ Polled'
    BY <1>1, <2>1 DEF FreshInv, Lived, Listed, Polled, Polling
  <2>4. Stamps'
    BY <1>1, <2>1, <2>2 DEF FreshInv, Stamps, Stamped
  <2>5. \A i \in DOMAIN log : Counted(i) => Counted(i)'
    <3> SUFFICES ASSUME NEW i \in DOMAIN log, Counted(i) PROVE Counted(i)'
      OBVIOUS
    <3>1. i \in 1 .. MaxLog /\ events[i] \in Nat
      BY InLog DEF CountInv, TypeOK
    <3> QED BY <1>1, <1>3, <3>1 DEF Counted
  <2>6. \A i \in NewRows : Counted(i)'
    <3> SUFFICES ASSUME NEW i \in NewRows PROVE events'[i] > 0
      BY DEF Counted
    <3>1. i \in 1 .. MaxLog /\ events[i] \in Nat
      BY DEF NewRows, CountInv, TypeOK, Locals
    <3> QED BY <1>3, <3>1
  <2>7. MarkCounts'
    <3> SUFFICES ASSUME NEW i \in DOMAIN log, Due(i),
                        log[i].ts <= Watermark \/ log[i].ts + SshTimeout < loc.now
                 PROVE  Counted(i)'
      BY <1>1, <2>1 DEF MarkCounts, Due, LogTail, Opened
    <3>1. i \in LogTail
      BY DEF Due
    <3>2. CASE log[i].ts <= meta.event
      BY <2>5, <3>2 DEF FreshInv, MarkCounts
    <3>3. CASE ~(log[i].ts <= meta.event)
      <4>1. i \in loc.lines
        <5>1. SshTimeout \in Nat
          BY TelemetryAssumption
        <5> QED BY <1>1, <2>1, <2>2, <3>1, <3>3, <5>1 DEF FreshInv, Polled, Polling, Stamped
      <4>2. i \in NewRows
        BY <1>1, <2>1, <3>3, <4>1 DEF NewRows, Due, FreshInv, Listed
      <4> QED BY <2>6, <4>2
    <3> QED BY <3>2, <3>3
  <2> QED BY <2>3, <2>4, <2>7 DEF FreshInv
<1> QED BY <1>2, <1>3 DEF Commit

\* A purge forgets rows, and that is remembered.
LEMMA PurgeFresh ==
    ASSUME CountInv, CountInv', FreshInv, Purge
    PROVE  FreshInv'
<1>1. UNCHANGED <<clock, log, rolled, life, meta>> /\ pc' \notin Polling
  BY DEF Purge, world, Goto, Polling
<1>2. \A i \in DOMAIN log : Counted(i) => Counted(i)'
  <2> SUFFICES ASSUME NEW i \in DOMAIN log, Counted(i) PROVE Counted(i)'
    OBVIOUS
  <2>1. i \in 1 .. MaxLog
    BY InLog DEF CountInv
  <2> QED BY <2>1 DEF Purge, Counted
<1>3. clock <= clock'
  BY <1>1 DEF CountInv, TypeOK
<1> QED BY <1>1, <1>2, <1>3, FreshStays

\* An entry is written: later than any poll, and of a share that is open.
LEMMA WriteFresh ==
    ASSUME CountInv, CountInv', FreshInv, NEW s \in Shares, NEW kind \in Kinds, Write(s, kind)
    PROVE  FreshInv'
<1> DEFINE entry == [ts |-> clock, share |-> s, kind |-> kind]
           n == Len(log) + 1
<1>1. /\ log' = Append(log, entry) /\ life[s] = "open" /\ rolled' \in {rolled, Len(log)}
      /\ UNCHANGED <<clock, life, events, meta, purged, pc, loc>>
      /\ \A i \in DOMAIN log : log[i].ts < clock
  BY DEF Write, Elsewhere, db
<1>2. /\ Len(log) \in Nat /\ Len(log') = n /\ DOMAIN log' = 1 .. n /\ DOMAIN log = 1 .. Len(log)
      /\ log'[n] = entry /\ \A i \in DOMAIN log : log'[i] = log[i]
      /\ clock \in Nat /\ TailLines \in Nat /\ SshTimeout \in Nat /\ rolled \in Nat
      /\ \A i \in DOMAIN log : log[i].ts \in Nat
  <2>1. entry \in Entries /\ log \in Seq(Entries)
    BY DEF Entries, CountInv, TypeOK
  <2>2. /\ Len(log) \in Nat /\ Len(log') = n /\ DOMAIN log' = 1 .. n /\ DOMAIN log = 1 .. Len(log)
        /\ log'[n] = entry /\ \A i \in DOMAIN log : log'[i] = log[i]
    BY <1>1, <2>1
  <2> QED BY <2>2, StampsAreNat, TelemetryAssumption DEF CountInv, TypeOK
<1>3. \A i \in DOMAIN log' : i \in DOMAIN log \/ i = n
  BY <1>2
<1>4. \A i \in DOMAIN log :
          i \in DOMAIN log' /\ (i \in LogTail' => i \in LogTail) /\ (Due(i)' => Due(i))
  BY <1>1, <1>2 DEF LogTail, Due, Opened
<1>5. log'[n].ts = clock /\ log'[n].share = s
  BY <1>2
<1> HIDE DEF n, entry
<1>6. Lived'
  BY <1>1, <1>2, <1>3, <1>5 DEF FreshInv, Lived
<1>7. Stamps'
  <2>1. meta.event = 0 \/ \E i \in DOMAIN log' : log'[i].ts = meta.event
    BY <1>2, <1>4 DEF FreshInv, Stamps
  <2> QED BY <1>1, <2>1 DEF FreshInv, Stamps
<1>8. ASSUME pc \in Polling
      PROVE  /\ loc.lines \subseteq DOMAIN log
             /\ loc.asked \in Nat /\ loc.now \in Nat
             /\ pc = "ssh" => loc.asked <= clock
             /\ pc \in Stamped => loc.now <= clock
             /\ \A i \in loc.lines : log'[i] = log[i] /\ log[i].ts < clock
  BY <1>1, <1>2, <1>8 DEF CountInv, TypeOK, Locals, PollOK, FreshInv, Stamps
<1>9. Polled'
  <2> SUFFICES ASSUME pc \in Polling, NEW i \in DOMAIN log', i \in LogTail', i \notin loc.lines
               PROVE  /\ pc = "ssh" => loc.asked <= log'[i].ts
                      /\ pc \in Stamped => loc.now <= log'[i].ts + SshTimeout
                      /\ \A m \in loc.lines : log'[m].ts < log'[i].ts
    BY <1>1 DEF Polled, LogTail
  <2>1. CASE i \in DOMAIN log
    BY <1>2, <1>4, <1>8, <2>1 DEF FreshInv, Polled
  <2>2. CASE i = n
    <3>1. clock \in Nat /\ SshTimeout \in Nat /\ log'[i].ts = clock
      BY <1>2, <1>5, <2>2
    <3>2. \A m \in loc.lines : log'[m].ts < clock
      BY <1>8
    <3> QED BY <1>8, <3>1, <3>2
  <2> QED BY <1>3, <2>1, <2>2
<1>10. Listed'
  BY <1>1, <1>8 DEF FreshInv, Listed, Opened, Polling
<1>11. MarkCounts'
  <2> SUFFICES ASSUME NEW i \in DOMAIN log', Due(i)',
                      log'[i].ts <= meta.event \/ log'[i].ts + SshTimeout < meta.ingest
               PROVE  Counted(i)
    BY <1>1 DEF MarkCounts, Counted
  <2>1. CASE i \in DOMAIN log
    BY <1>2, <1>4, <2>1 DEF FreshInv, MarkCounts
  <2>2. CASE i = n
    <3>1. meta.event < clock
      BY <1>1 DEF FreshInv, Stamps
    <3>2. meta.ingest <= clock /\ meta.ingest \in Nat /\ meta.event \in Nat
      BY DEF FreshInv, Stamps, CountInv, TypeOK, Metas
    <3> QED BY <1>2, <1>5, <2>2, <3>1, <3>2
  <2> QED BY <1>3, <2>1, <2>2
<1> QED BY <1>6, <1>7, <1>9, <1>10, <1>11 DEF FreshInv

\* A share opens or ends; one that is in the log does not open again.
LEMMA LiveFresh ==
    ASSUME CountInv, CountInv', FreshInv, NEW s \in Shares, Live(s)
    PROVE  FreshInv'
<1>1. /\ UNCHANGED <<clock, log, rolled, events, meta, purged, pc, loc>> /\ life[s] # "ended"
      /\ life' = [life EXCEPT ![s] = IF @ = "none" THEN "open" ELSE "ended"]
  BY DEF Live, Elsewhere, db
<1>2. \A i \in DOMAIN log : log[i].share \in Shares
  <2> SUFFICES ASSUME NEW i \in DOMAIN log PROVE log[i].share \in Shares
    OBVIOUS
  <2>1. log \in Seq(Entries)
    BY DEF CountInv, TypeOK
  <2>2. log[i] \in Entries
    BY <2>1
  <2> QED BY <2>2 DEF Entries
<1>3. \A i \in DOMAIN log : log[i].share \in Opened' => log[i].share \in Opened
  BY <1>1, <1>2 DEF Opened, FreshInv, Lived, CountInv, TypeOK
<1>4. Lived'
  BY <1>1, <1>2 DEF FreshInv, Lived, CountInv, TypeOK
<1>5. Stamps' /\ Polled'
  BY <1>1 DEF FreshInv, Stamps, Polled, LogTail
<1>6. Listed'
  BY <1>1, <1>3 DEF FreshInv, Listed, CountInv, PollOK, Polling
<1>7. MarkCounts'
  <2>1. \A i \in DOMAIN log : Due(i)' => Due(i)
    BY <1>1, <1>3 DEF Due, LogTail
  <2> QED BY <1>1, <2>1 DEF FreshInv, MarkCounts, Counted
<1> QED BY <1>4, <1>5, <1>6, <1>7 DEF FreshInv

\* The same of every step.
LEMMA FreshInductive == CountInv /\ CountInv' /\ FreshInv /\ [Next]_vars => FreshInv'
<1> SUFFICES ASSUME CountInv, CountInv', FreshInv, [Next]_vars PROVE FreshInv'
  OBVIOUS
<1>1. clock \in Nat /\ TypeOK
  BY DEF CountInv, TypeOK
<1>2. CASE Check \/ Crash \/ (\E p \in Peers : Handshake(p)) \/ UNCHANGED vars
  <2>1. UNCHANGED <<clock, log, rolled, life, events, meta, purged>>
    BY <1>2 DEF Check, Crash, Handshake, Elsewhere, vars, world, db
  <2>2. (pc' = pc /\ loc' = loc) \/ pc' \notin Polling
    BY <1>2 DEF Check, Crash, Handshake, Elsewhere, vars, Goto, Polling
  <2>3. \A i \in DOMAIN log : Counted(i) => Counted(i)'
    BY <2>1 DEF Counted
  <2> QED BY <1>1, <2>1, <2>2, <2>3, FreshStays
<1>3. CASE MarkPurge
  <2>1. /\ UNCHANGED <<clock, log, rolled, life, events, purged>> /\ pc' \notin Polling
        /\ meta'.event = meta.event /\ meta'.ingest = meta.ingest
    BY <1>1, <1>3 DEF MarkPurge, world, Goto, TypeOK, Metas, Polling
  <2>2. \A i \in DOMAIN log : Counted(i) => Counted(i)'
    BY <2>1 DEF Counted
  <2> QED BY <1>1, <2>1, <2>2, FreshStays
<1>4. CASE Tick
  <2>1. UNCHANGED <<log, rolled, life, events, meta, purged, pc, loc>> /\ clock <= clock'
    BY <1>1, <1>4 DEF Tick, Elsewhere, db
  <2>2. \A i \in DOMAIN log : Counted(i) => Counted(i)'
    BY <2>1 DEF Counted
  <2> QED BY <2>1, <2>2, FreshStays
<1> QED
  BY <1>2, <1>3, <1>4, FetchFresh, FetchedFresh, ListFresh, CommitFresh, PurgeFresh, WriteFresh, LiveFresh
     DEF Next, Cycle

(* _ingest_once and _telemetry: while the console calls the telemetry      *)
(* "ok", every visit to a share that is still open, and every rate limit,  *)
(* that a poll can see and that is older than STALE_AFTER and the time of  *)
(* an ssh call is counted.                                                 *)
THEOREM FreshIsCounted == Spec => []FreshMeansCounted
<1>1. Init => FreshInv
  <2> SUFFICES ASSUME Init PROVE FreshInv
    OBVIOUS
  <2>1. DOMAIN log = {} /\ clock = 1 /\ meta.ingest = 0 /\ meta.event = 0 /\ pc = "sleep"
    BY DEF Init
  <2> QED BY <2>1 DEF FreshInv, Lived, Stamps, Polled, Polling, Stamped, Listed, MarkCounts
<1>2. CountInv /\ FreshInv => FreshMeansCounted
  <2> SUFFICES ASSUME CountInv, FreshInv, Status = "ok", NEW i \in 1 .. MaxLog, Due(i),
                      log[i].ts + StaleAfter + SshTimeout < clock
               PROVE  Counted(i)
    BY DEF FreshMeansCounted
  <2>1. clock <= meta.ingest + StaleAfter
    <3>1. clock \in Nat /\ meta.ingest \in Nat /\ StaleAfter \in Nat
      BY TelemetryAssumption DEF CountInv, TypeOK, Metas
    <3>2. ~(clock > meta.ingest + StaleAfter)
      BY DEF Status
    <3> QED BY <3>1, <3>2
  <2>2. /\ i \in DOMAIN log /\ log[i].ts \in Nat /\ meta.ingest \in Nat /\ clock \in Nat
        /\ StaleAfter \in Nat /\ SshTimeout \in Nat
    BY StampsAreNat, TelemetryAssumption DEF CountInv, TypeOK, Metas, Due, LogTail
  <2>3. log[i].ts + SshTimeout < meta.ingest
    BY <2>1, <2>2
  <2> QED BY <2>2, <2>3 DEF FreshInv, MarkCounts
<1> QED
  BY CountInitially, CountInductive, FreshInductive, <1>1, <1>2, PTL DEF Spec

-----------------------------------------------------------------------------
(* Lemmas about sums.  SumFunctionOnSet takes the elements one by one, in  *)
(* an order that CHOOSE fixes; for numbers it does not matter which.       *)

\* A set of numbers has a least one.
LEMMA LeastOf ==
    ASSUME NEW T \in SUBSET Nat, T # {}
    PROVE  \E m \in T : \A n \in T : m <= n
<1>1. PICK m \in T : \A n \in T : ~(<<n, m>> \in OpToRel(<, Nat))
  BY NatLessThanWellFounded, WFMin
<1>2. \A n \in T : ~(n < m)
  BY <1>1 DEF OpToRel
<1> QED BY <1>2

\* Of subsets of a finite set one is least: it is none of them any more with
\* an element removed.
LEMMA LeastSet ==
    ASSUME NEW S, IsFiniteSet(S), NEW Bad \in SUBSET SUBSET S, Bad # {}
    PROVE  \E T \in Bad : \A x \in T : T \ {x} \notin Bad
<1>1. \A T \in Bad : IsFiniteSet(T) /\ Cardinality(T) \in Nat
  BY FS_Subset, FS_CardinalityType
<1> DEFINE Sizes == {Cardinality(T) : T \in Bad}
<1>2. Sizes \in SUBSET Nat /\ Sizes # {}
  BY <1>1
<1>3. PICK m \in Sizes : \A n \in Sizes : m <= n
  <2> HIDE DEF Sizes
  <2> QED BY <1>2, LeastOf
<1>4. PICK T \in Bad : m = Cardinality(T)
  OBVIOUS
<1>5. ASSUME NEW x \in T PROVE T \ {x} \notin Bad
  <2>1. Cardinality(T \ {x}) = Cardinality(T) - 1
    BY <1>1, <1>4, FS_RemoveElement
  <2>2. SUFFICES ASSUME T \ {x} \in Bad PROVE FALSE
    OBVIOUS
  <2>3. Cardinality(T) <= Cardinality(T \ {x})
    BY <1>3, <1>4, <2>2
  <2> QED BY <1>1, <1>4, <2>1, <2>3
<1> QED BY <1>4, <1>5

Pick(S) == CHOOSE x \in S : TRUE

Rest(S) == S \ {Pick(S)}

\* f gives the sum of e over every subset of S.
IsSum(f, e, S) == f = [T \in SUBSET S |-> IF T = {} THEN 0 ELSE e[Pick(T)] + f[Rest(T)]]

\* There is but one such function.
LEMMA SumUnique ==
    ASSUME NEW e, NEW S, IsFiniteSet(S), NEW f, NEW g, IsSum(f, e, S), IsSum(g, e, S)
    PROVE  f = g
<1> DEFINE Bad == {T \in SUBSET S : f[T] # g[T]}
<1>1. /\ f = [T \in SUBSET S |-> f[T]] /\ g = [T \in SUBSET S |-> g[T]]
      /\ \A T \in SUBSET S : f[T] = IF T = {} THEN 0 ELSE e[Pick(T)] + f[Rest(T)]
      /\ \A T \in SUBSET S : g[T] = IF T = {} THEN 0 ELSE e[Pick(T)] + g[Rest(T)]
  BY DEF IsSum
<1>2. Bad = {}
  <2>1. SUFFICES ASSUME Bad # {} PROVE FALSE
    OBVIOUS
  <2>2. PICK T \in Bad : \A x \in T : T \ {x} \notin Bad
    <3>1. Bad \in SUBSET SUBSET S
      OBVIOUS
    <3> HIDE DEF Bad
    <3> QED BY <2>1, <3>1, LeastSet
  <2>3. T # {}
    BY <1>1
  <2>4. Pick(T) \in T
    BY <2>3 DEF Pick
  <2>5. f[Rest(T)] = g[Rest(T)]
    BY <2>2, <2>4 DEF Rest
  <2> QED BY <1>1, <2>3, <2>5
<1> QED BY <1>1, <1>2

\* A rule that holds of 0, and of n + 1 if of n, holds of every number.
LEMMA EveryNumber ==
    ASSUME NEW P, 0 \in P, \A n \in Nat : n \in P => n + 1 \in P
    PROVE  \A n \in Nat : n \in P
<1> DEFINE Bad == {n \in Nat : n \notin P}
<1>1. SUFFICES ASSUME Bad # {} PROVE FALSE
  OBVIOUS
<1>2. PICK m \in Bad : \A n \in Bad : m <= n
  <2>1. Bad \in SUBSET Nat
    OBVIOUS
  <2> HIDE DEF Bad
  <2> QED BY <1>1, <2>1, LeastOf
<1>3. m # 0 /\ m - 1 \in Nat
  BY <1>2
<1>4. m - 1 \in P
  BY <1>2, <1>3
<1> QED BY <1>2, <1>3, <1>4

\* There is one.
LEMMA SumExists ==
    ASSUME NEW e, NEW S, IsFiniteSet(S)
    PROVE  \E f : IsSum(f, e, S)
<1> DEFINE Upto(n) == {T \in SUBSET S : Cardinality(T) <= n}
           Step(f, T) == IF T = {} THEN 0 ELSE e[Pick(T)] + f[Rest(T)]
           P == {n \in Nat : \E f : f = [T \in Upto(n) |-> Step(f, T)]}
<1>1. \A T \in SUBSET S : IsFiniteSet(T) /\ Cardinality(T) \in Nat /\ Cardinality(T) <= Cardinality(S)
  BY FS_Subset, FS_CardinalityType
<1>2. ASSUME NEW T \in SUBSET S, T # {}
      PROVE  Rest(T) \in SUBSET S /\ Cardinality(Rest(T)) = Cardinality(T) - 1
  <2>1. Pick(T) \in T
    BY <1>2 DEF Pick
  <2> QED BY <1>1, <2>1, FS_RemoveElement DEF Rest
<1>3. 0 \in P
  <2>1. \A T \in Upto(0) : T = {}
    BY <1>1, FS_EmptySet
  <2>2. [T \in Upto(0) |-> 0] = [T \in Upto(0) |-> Step([U \in Upto(0) |-> 0], T)]
    BY <2>1
  <2> QED BY <2>2
<1>4. ASSUME NEW n \in Nat, n \in P PROVE n + 1 \in P
  <2>1. PICK f : f = [T \in Upto(n) |-> Step(f, T)]
    BY <1>4
  <2>2. PICK g : g = [T \in Upto(n + 1) |-> Step(f, T)]
    OBVIOUS
  <2>3. \A T \in Upto(n) : T \in Upto(n + 1)
    BY <1>1
  <2>4. \A T \in Upto(n) : g[T] = f[T]
    <3>1. \A T \in Upto(n) : f[T] = Step(f, T)
      BY <2>1
    <3>2. \A T \in Upto(n + 1) : g[T] = Step(f, T)
      BY <2>2
    <3> HIDE DEF Upto, Step
    <3> QED BY <2>3, <3>1, <3>2
  <2>5. ASSUME NEW T \in Upto(n + 1) PROVE Step(f, T) = Step(g, T)
    <3>1. CASE T = {}
      BY <3>1
    <3>2. CASE T # {}
      <4>1. Rest(T) \in Upto(n)
        BY <1>1, <1>2, <3>2
      <4> QED BY <2>4, <4>1, <3>2
    <3> QED BY <3>1, <3>2
  <2>6. g = [T \in Upto(n + 1) |-> Step(g, T)]
    <3> HIDE DEF Upto, Step
    <3> QED BY <2>2, <2>5
  <2> HIDE DEF Upto, Step
  <2>7. \E h : h = [T \in Upto(n + 1) |-> Step(h, T)]
    BY <2>6
  <2> QED BY <2>7
<1>5. Cardinality(S) \in P
  <2> HIDE DEF P
  <2> QED BY <1>1, <1>3, <1>4, EveryNumber
<1>6. Upto(Cardinality(S)) = SUBSET S
  BY <1>1
<1> QED BY <1>5, <1>6 DEF IsSum

LEMMA SumIs ==
    ASSUME NEW e, NEW S, IsFiniteSet(S)
    PROVE  \E f : IsSum(f, e, S) /\ SumFunctionOnSet(e, S) = f[S]
<1> DEFINE g == CHOOSE f : IsSum(f, e, S)
<1>1. IsSum(g, e, S)
  BY SumExists
<1>2. SumFunctionOnSet(e, S) = g[S]
  BY Zenon DEF IsSum, Pick, Rest, SumFunctionOnSet, FoldFunctionOnSet, MapThenFoldSet
<1> QED
  BY <1>1, <1>2

\* A sum is that of one element and the rest.
LEMMA SumPick ==
    ASSUME NEW e, NEW S, IsFiniteSet(S), S # {}
    PROVE  SumFunctionOnSet(e, S) = e[Pick(S)] + SumFunctionOnSet(e, Rest(S))
<1>1. PICK f : IsSum(f, e, S) /\ SumFunctionOnSet(e, S) = f[S]
  BY SumIs
<1>2. IsFiniteSet(Rest(S)) /\ Rest(S) \in SUBSET S
  BY FS_RemoveElement DEF Rest
<1>3. PICK g : IsSum(g, e, Rest(S)) /\ SumFunctionOnSet(e, Rest(S)) = g[Rest(S)]
  BY <1>2, SumIs
<1>4. PICK h : h = [T \in SUBSET Rest(S) |-> f[T]]
  OBVIOUS
<1>5. IsSum(h, e, Rest(S))
  <2>1. \A T \in SUBSET Rest(S) : h[T] = IF T = {} THEN 0 ELSE e[Pick(T)] + f[Rest(T)]
    BY <1>1, <1>2, <1>4 DEF IsSum
  <2>2. \A T \in SUBSET Rest(S) : h[Rest(T)] = f[Rest(T)]
    BY <1>4 DEF Rest
  <2> QED BY <1>4, <2>1, <2>2 DEF IsSum
<1>6. h = g
  BY <1>2, <1>3, <1>5, SumUnique
<1>7. f[S] = e[Pick(S)] + f[Rest(S)]
  BY <1>1 DEF IsSum
<1> QED BY <1>1, <1>3, <1>4, <1>6, <1>7

LEMMA SumEmpty ==
    ASSUME NEW e
    PROVE  SumFunctionOnSet(e, {}) = 0
<1>1. PICK f : IsSum(f, e, {}) /\ SumFunctionOnSet(e, {}) = f[{}]
  BY SumIs, FS_EmptySet
<1> QED BY <1>1 DEF IsSum

\* A sum of numbers is a number.
LEMMA SumIsNat ==
    ASSUME NEW D, NEW e \in [D -> Nat], NEW S \in SUBSET D, IsFiniteSet(S)
    PROVE  SumFunctionOnSet(e, S) \in Nat
<1> DEFINE Bad == {T \in SUBSET S : SumFunctionOnSet(e, T) \notin Nat}
<1>1. Bad = {}
  <2>1. SUFFICES ASSUME Bad # {} PROVE FALSE
    OBVIOUS
  <2>2. PICK T \in Bad : \A x \in T : T \ {x} \notin Bad
    <3>1. Bad \in SUBSET SUBSET S
      OBVIOUS
    <3> HIDE DEF Bad
    <3> QED BY <2>1, <3>1, LeastSet
  <2>3. T # {} /\ IsFiniteSet(T)
    <3>1. T \in SUBSET S /\ T # {}
      BY SumEmpty
    <3> QED BY <3>1, FS_Subset
  <2>4. Pick(T) \in T
    BY <2>3 DEF Pick
  <2>5. SumFunctionOnSet(e, Rest(T)) \in Nat
    BY <2>2, <2>4 DEF Rest
  <2>6. SumFunctionOnSet(e, T) = e[Pick(T)] + SumFunctionOnSet(e, Rest(T))
    BY <2>3, SumPick
  <2> QED BY <2>4, <2>5, <2>6
<1> QED BY <1>1

\* The order does not matter: a sum is that of any element and the others.
LEMMA SumAny ==
    ASSUME NEW D, NEW e \in [D -> Nat], NEW S \in SUBSET D, IsFiniteSet(S), NEW x \in S
    PROVE  SumFunctionOnSet(e, S) = e[x] + SumFunctionOnSet(e, S \ {x})
<1> DEFINE Total(T) == SumFunctionOnSet(e, T)
           Bad == {T \in SUBSET S : \E y \in T : Total(T) # e[y] + Total(T \ {y})}
<1>1. \A T \in SUBSET S : IsFiniteSet(T) /\ Total(T) \in Nat
  BY FS_Subset, SumIsNat
<1>2. \A T \in SUBSET S : T # {} => Pick(T) \in T /\ Total(T) = e[Pick(T)] + Total(T \ {Pick(T)})
  BY <1>1, SumPick DEF Pick, Rest
<1> HIDE DEF Total
<1>3. Bad = {}
  <2>1. SUFFICES ASSUME Bad # {} PROVE FALSE
    OBVIOUS
  <2>2. PICK T \in Bad : \A y \in T : T \ {y} \notin Bad
    <3>1. Bad \in SUBSET SUBSET S
      OBVIOUS
    <3> HIDE DEF Bad
    <3> QED BY <2>1, <3>1, LeastSet
  <2>3. PICK y \in T : Total(T) # e[y] + Total(T \ {y})
    OBVIOUS
  <2>4. PICK p : p = Pick(T)
    OBVIOUS
  <2>5. p \in T /\ Total(T) = e[p] + Total(T \ {p}) /\ p # y
    BY <1>2, <2>3, <2>4
  <2>6. Total(T \ {p}) = e[y] + Total((T \ {p}) \ {y})
    BY <2>2, <2>3, <2>5
  <2>7. Total(T \ {y}) = e[p] + Total((T \ {y}) \ {p})
    BY <2>2, <2>3, <2>5
  <2>8. (T \ {p}) \ {y} = (T \ {y}) \ {p}
    OBVIOUS
  <2>9. e[p] \in Nat /\ e[y] \in Nat /\ Total((T \ {y}) \ {p}) \in Nat
    BY <1>1, <2>3, <2>5
  <2>10. Total(T) = e[p] + (e[y] + Total((T \ {y}) \ {p}))
    BY <2>5, <2>6, <2>8
  <2>11. Total(T) # e[y] + (e[p] + Total((T \ {y}) \ {p}))
    BY <2>3, <2>7
  <2>12. \A a, b, c \in Nat : a + (b + c) = b + (a + c)
    OBVIOUS
  <2> QED BY <2>9, <2>10, <2>11, <2>12
<1>4. Total(S) = e[x] + Total(S \ {x})
  BY <1>3
<1> QED BY <1>4 DEF Total

\* The log has finitely many lines.
LEMMA LogFinite == IsFiniteSet(1 .. MaxLog)
<1>1. 1 \in Int /\ MaxLog \in Int
  BY TelemetryAssumption
<1> QED BY <1>1, FS_Interval

\* A sum over two sets that have nothing in common.
LEMMA SumUnion ==
    ASSUME NEW D, NEW e \in [D -> Nat], NEW S \in SUBSET D, NEW R \in SUBSET D,
           IsFiniteSet(S), IsFiniteSet(R), S \cap R = {}
    PROVE  SumFunctionOnSet(e, S \cup R) = SumFunctionOnSet(e, S) + SumFunctionOnSet(e, R)
<1> DEFINE Total(T) == SumFunctionOnSet(e, T)
           Bad == {T \in SUBSET S : Total(T \cup R) # Total(T) + Total(R)}
<1>1. \A T \in SUBSET S : IsFiniteSet(T) /\ Total(T) \in Nat
  BY FS_Subset, SumIsNat
<1>2. \A T \in SUBSET S : IsFiniteSet(T \cup R) /\ Total(T \cup R) \in Nat /\ Total(R) \in Nat
  BY <1>1, FS_Union, SumIsNat
<1>3. \A T \in SUBSET S : \A x \in T :
          /\ Total(T) = e[x] + Total(T \ {x})
          /\ Total(T \cup R) = e[x] + Total((T \cup R) \ {x})
  <2>1. SUFFICES ASSUME NEW T \in SUBSET S, NEW x \in T
                 PROVE  /\ Total(T) = e[x] + Total(T \ {x})
                        /\ Total(T \cup R) = e[x] + Total((T \cup R) \ {x})
    OBVIOUS
  <2>2. /\ IsFiniteSet(T) /\ T \in SUBSET D
        /\ IsFiniteSet(T \cup R) /\ T \cup R \in SUBSET D /\ x \in T \cup R
    BY <1>1, <1>2
  <2>3. Total(T) = e[x] + Total(T \ {x})
    BY <2>2, SumAny
  <2>4. Total(T \cup R) = e[x] + Total((T \cup R) \ {x})
    BY <2>2, SumAny
  <2> QED BY <2>3, <2>4
<1>4. Total({}) = 0
  BY SumEmpty
<1> HIDE DEF Total
<1>5. Bad = {}
  <2>1. SUFFICES ASSUME Bad # {} PROVE FALSE
    OBVIOUS
  <2>2. PICK T \in Bad : \A x \in T : T \ {x} \notin Bad
    <3>1. Bad \in SUBSET SUBSET S
      OBVIOUS
    <3> HIDE DEF Bad
    <3> QED BY <2>1, <3>1, LeastSet
  <2>3. CASE T = {}
    BY <1>2, <1>4, <2>3
  <2>4. CASE T # {}
    <3>1. PICK x \in T : TRUE
      BY <2>4
    <3>2. (T \cup R) \ {x} = (T \ {x}) \cup R
      BY <3>1
    <3>3. Total((T \ {x}) \cup R) = Total(T \ {x}) + Total(R)
      BY <2>2, <3>1
    <3>4. e[x] \in Nat /\ Total(T \ {x}) \in Nat /\ Total(R) \in Nat
      BY <1>1, <1>2, <3>1
    <3>5. Total(T) = e[x] + Total(T \ {x}) /\ Total(T \cup R) = e[x] + Total((T \ {x}) \cup R)
      <4>1. T \in SUBSET S
        OBVIOUS
      <4> HIDE DEF Bad
      <4>2. /\ Total(T) = e[x] + Total(T \ {x})
            /\ Total(T \cup R) = e[x] + Total((T \cup R) \ {x})
        BY <1>3, <3>1, <4>1
      <4> QED BY <4>2, <3>2
    <3>6. Total(T \cup R) # Total(T) + Total(R)
      OBVIOUS
    <3> QED BY <3>3, <3>4, <3>5, <3>6
  <2> QED BY <2>3, <2>4
<1>6. Total(S \cup R) = Total(S) + Total(R)
  BY <1>5
<1> QED BY <1>6 DEF Total

\* A sum of zeros.
LEMMA SumZeros ==
    ASSUME NEW e, NEW S, IsFiniteSet(S), \A x \in S : e[x] = 0
    PROVE  SumFunctionOnSet(e, S) = 0
<1> DEFINE Bad == {T \in SUBSET S : SumFunctionOnSet(e, T) # 0}
<1>1. Bad = {}
  <2>1. SUFFICES ASSUME Bad # {} PROVE FALSE
    OBVIOUS
  <2>2. PICK T \in Bad : \A x \in T : T \ {x} \notin Bad
    <3>1. Bad \in SUBSET SUBSET S
      OBVIOUS
    <3> HIDE DEF Bad
    <3> QED BY <2>1, <3>1, LeastSet
  <2>3. T # {} /\ IsFiniteSet(T)
    <3>1. T \in SUBSET S /\ T # {}
      BY SumEmpty
    <3> QED BY <3>1, FS_Subset
  <2>4. Pick(T) \in T
    BY <2>3 DEF Pick
  <2>5. SumFunctionOnSet(e, Rest(T)) = 0
    BY <2>2, <2>4 DEF Rest
  <2>6. SumFunctionOnSet(e, T) = e[Pick(T)] + SumFunctionOnSet(e, Rest(T))
    BY <2>3, SumPick
  <2> QED BY <2>4, <2>5, <2>6
<1> QED BY <1>1

\* A sum of sums: d sums e over what falls to each element of U.
LEMMA SumOfSums ==
    ASSUME NEW D, NEW e \in [D -> Nat], NEW V \in SUBSET D, IsFiniteSet(V),
           NEW K, NEW at \in [V -> K], NEW U \in SUBSET K, IsFiniteSet(U), NEW d \in [K -> Nat],
           NEW part \in [K -> SUBSET V], \A u \in U : d[u] = SumFunctionOnSet(e, part[u]),
           \A u \in U : \A i \in V : i \in part[u] <=> at[i] = u,
           NEW A \in SUBSET V, \A i \in V : i \in A <=> at[i] \in U
    PROVE  SumFunctionOnSet(d, U) = SumFunctionOnSet(e, A)
<1> DEFINE Part(W) == {i \in V : at[i] \in W}
           One(u) == part[u]
           Bad == {W \in SUBSET U : SumFunctionOnSet(d, W) # SumFunctionOnSet(e, Part(W))}
<1>1. \A T \in SUBSET V : IsFiniteSet(T) /\ T \in SUBSET D
  BY FS_Subset
<1>2. Bad = {}
  <2>1. SUFFICES ASSUME Bad # {} PROVE FALSE
    OBVIOUS
  <2>2. PICK W \in Bad : \A u \in W : W \ {u} \notin Bad
    <3>1. Bad \in SUBSET SUBSET U
      OBVIOUS
    <3> HIDE DEF Bad
    <3> QED BY <2>1, <3>1, LeastSet
  <2>3. W \in SUBSET U /\ SumFunctionOnSet(d, W) # SumFunctionOnSet(e, Part(W))
    OBVIOUS
  <2>4. CASE W = {}
    <3>1. Part(W) = {}
      BY <2>4
    <3> QED BY <2>3, <2>4, <3>1, SumEmpty
  <2>5. CASE W # {}
    <3>1. PICK u \in W : TRUE
      BY <2>5
    <3>2. SumFunctionOnSet(d, W \ {u}) = SumFunctionOnSet(e, Part(W \ {u}))
      BY <2>2, <3>1
    <3>3. SumFunctionOnSet(d, W) = d[u] + SumFunctionOnSet(d, W \ {u})
      <4>1. IsFiniteSet(W) /\ W \in SUBSET K
        BY <2>3, FS_Subset
      <4> HIDE DEF Bad
      <4> QED BY <4>1, <3>1, SumAny
    <3>4. d[u] = SumFunctionOnSet(e, One(u))
      BY <2>3, <3>1
    <3>5. Part(W) = One(u) \cup Part(W \ {u}) /\ One(u) \cap Part(W \ {u}) = {}
      BY <3>1
    <3>6. One(u) \in SUBSET V /\ Part(W \ {u}) \in SUBSET V
      OBVIOUS
    <3> HIDE DEF Part, One, Bad
    <3>7. SumFunctionOnSet(e, Part(W)) = SumFunctionOnSet(e, One(u)) + SumFunctionOnSet(e, Part(W \ {u}))
      <4>1. /\ IsFiniteSet(One(u)) /\ One(u) \in SUBSET D
            /\ IsFiniteSet(Part(W \ {u})) /\ Part(W \ {u}) \in SUBSET D
        BY <1>1, <3>6
      <4>2. PICK F, G : F = One(u) /\ G = Part(W \ {u})
        OBVIOUS
      <4>3. F \cap G = {}
        BY <4>2, <3>5
      <4>4. SumFunctionOnSet(e, F \cup G) = SumFunctionOnSet(e, F) + SumFunctionOnSet(e, G)
        <5>1. IsFiniteSet(F) /\ F \in SUBSET D /\ IsFiniteSet(G) /\ G \in SUBSET D
          BY <4>1, <4>2
        <5> QED BY <5>1, <4>3, SumUnion
      <4> QED BY <4>2, <4>4, <3>5
    <3> QED BY <2>3, <3>2, <3>3, <3>4, <3>7
  <2> QED BY <2>4, <2>5
<1>3. A = Part(U)
  OBVIOUS
<1> QED BY <1>2, <1>3

-----------------------------------------------------------------------------
(* Why the albums account for every download.  A row of a visit is made in *)
(* the transaction that stamps its share, with a time that is not 0, and a *)
(* purge keeps a share as long as it keeps one of its rows: so no download *)
(* belongs to a share without a row, and the sums over the shares that     *)
(* have one are the sum over all downloads.                                *)

\* The shares that were ever open.
Known == {s \in Shares : life[s] # "none"}

\* The shares that have a row, or are about to have one, were open once.
SharesKnown ==
    /\ IsFiniteSet(Known)
    /\ \A s \in Shares : seen[s] # 0 => s \in Known
    /\ pc = "commit" => loc.shares \subseteq Known

\* The polls are stamped with a time.
Timed ==
    /\ 0 < clock
    /\ pc \in Stamped => 0 < loc.now

\* A download that has a row belongs to a share that has one.
RowsOwned == \A i \in DOMAIN log : log[i].kind = "visit" /\ events[i] > 0 => seen[log[i].share] # 0

RowsInv == SharesKnown /\ Timed /\ RowsOwned

\* What an entry of the log is.
LEMMA EntryIs ==
    ASSUME TypeOK
    PROVE  \A i \in DOMAIN log : log[i].share \in Shares /\ log[i].kind \in Kinds
<1> SUFFICES ASSUME NEW i \in DOMAIN log PROVE log[i].share \in Shares /\ log[i].kind \in Kinds
  OBVIOUS
<1>1. log[i] \in Entries
  BY DEF TypeOK
<1> QED BY <1>1 DEF Entries

\* Nothing changes in what the albums are made of.
LEMMA RowsStay ==
    ASSUME CountInv, RowsInv, UNCHANGED <<log, life, events, seen>>, 0 < clock',
           \/ pc' = pc /\ loc' = loc
           \/ pc' \notin Stamped
    PROVE  RowsInv'
<1>1. SharesKnown'
  BY DEF RowsInv, SharesKnown, Known, Stamped
<1>2. Timed'
  BY DEF RowsInv, Timed
<1>3. RowsOwned'
  BY DEF RowsInv, RowsOwned
<1> QED BY <1>1, <1>2, <1>3 DEF RowsInv

\* The transaction stamps the shares whose rows it makes.
LEMMA CommitRows ==
    ASSUME CountInv, RowsInv, Commit
    PROVE  RowsInv'
<1>1. UNCHANGED <<clock, log, life>> /\ pc = "commit" /\ 0 < clock
  BY DEF Commit, world, RowsInv, Timed
<1>2. CASE Goto("sleep", Blank) /\ UNCHANGED db
  BY <1>1, <1>2, RowsStay DEF Goto, Stamped, db
<1>3. CASE /\ events' = [i \in 1 .. MaxLog |-> events[i] + (IF i \in NewRows THEN 1 ELSE 0)]
           /\ seen' = [s \in Shares |-> IF s \in loc.shares THEN loc.now ELSE seen[s]]
           /\ Goto("check", Blank)
  <2>1. pc' = "check" /\ loc.now # 0 /\ loc.shares \subseteq Known /\ Known' = Known
    BY <1>1, <1>3 DEF Goto, Stamped, RowsInv, Timed, SharesKnown, Known
  <2>2. SharesKnown'
    BY <1>3, <2>1 DEF RowsInv, SharesKnown
  <2>3. Timed'
    BY <1>1, <2>1 DEF Timed, Stamped
  <2>4. RowsOwned'
    <3> SUFFICES ASSUME NEW i \in DOMAIN log, log[i].kind = "visit", events'[i] > 0
                 PROVE  seen'[log[i].share] # 0
      BY <1>1 DEF RowsOwned
    <3>1. log[i].share \in Shares /\ i \in 1 .. MaxLog /\ events[i] \in Nat
      BY EntryIs, InLog DEF CountInv, TypeOK
    <3>2. CASE i \in NewRows
      <4>1. log[i].share \in loc.shares
        BY <3>2 DEF NewRows
      <4> QED BY <1>3, <2>1, <3>1, <4>1
    <3>3. CASE i \notin NewRows
      <4>1. events[i] > 0
        BY <1>3, <3>1, <3>3
      <4>2. seen[log[i].share] # 0
        BY <4>1 DEF RowsInv, RowsOwned
      <4> QED BY <1>3, <2>1, <3>1, <4>2
    <3> QED BY <3>2, <3>3
  <2> QED BY <2>2, <2>3, <2>4 DEF RowsInv
<1> QED BY <1>2, <1>3 DEF Commit

\* A purge keeps the share of every row that it keeps.
LEMMA PurgeRows ==
    ASSUME CountInv, RowsInv, Purge
    PROVE  RowsInv'
<1>1. UNCHANGED <<clock, log, life>> /\ pc' \notin Stamped /\ 0 < clock
  BY DEF Purge, world, Goto, RowsInv, Timed, Stamped
<1>2. CASE UNCHANGED <<events, seen>>
  BY <1>1, <1>2, RowsStay
<1>3. CASE /\ events' = [i \in 1 .. MaxLog |-> IF i \in Expired THEN 0 ELSE events[i]]
           /\ seen' = [s \in Shares |-> IF Old(seen[s]) /\ s \notin StillUsed THEN 0 ELSE seen[s]]
  <2>1. SharesKnown'
    <3>1. Known' = Known /\ pc' # "commit"
      BY <1>1 DEF Known, Stamped
    <3> QED BY <1>1, <1>3, <3>1 DEF RowsInv, SharesKnown
  <2>2. Timed'
    BY <1>1 DEF Timed
  <2>3. RowsOwned'
    <3> SUFFICES ASSUME NEW i \in DOMAIN log, log[i].kind = "visit", events'[i] > 0
                 PROVE  seen'[log[i].share] # 0
      BY <1>1 DEF RowsOwned
    <3>1. log[i].share \in Shares /\ i \in 1 .. MaxLog
      BY EntryIs, InLog DEF CountInv
    <3>2. i \notin Expired /\ events[i] > 0
      BY <1>3, <3>1
    <3>3. log[i].share \in StillUsed
      BY <3>2 DEF StillUsed
    <3>4. seen[log[i].share] # 0
      BY <3>2 DEF RowsInv, RowsOwned
    <3> QED BY <1>3, <3>1, <3>3, <3>4
  <2> QED BY <2>1, <2>2, <2>3 DEF RowsInv
<1> QED BY <1>2, <1>3 DEF Purge

\* A new entry has no row.
LEMMA WriteRows ==
    ASSUME CountInv, CountInv', RowsInv, NEW s \in Shares, NEW kind \in Kinds, Write(s, kind)
    PROVE  RowsInv'
<1> DEFINE entry == [ts |-> clock, share |-> s, kind |-> kind]
           n == Len(log) + 1
<1>1. log' = Append(log, entry) /\ UNCHANGED <<clock, life, events, seen, pc, loc>>
  BY DEF Write, Elsewhere, db
<1>2. /\ Len(log) \in Nat /\ DOMAIN log' = 1 .. n /\ DOMAIN log = 1 .. Len(log)
      /\ \A i \in DOMAIN log : log'[i] = log[i]
  <2>1. entry \in Entries /\ log \in Seq(Entries)
    BY DEF Entries, CountInv, TypeOK
  <2> QED BY <1>1, <2>1
<1>3. SharesKnown' /\ Timed'
  BY <1>1 DEF RowsInv, SharesKnown, Known, Timed
<1>4. events[n] > 0 => n \notin DOMAIN log'
  <2>1. n \notin DOMAIN log
    BY <1>2
  <2>2. n \in DOMAIN log' => n \in 1 .. MaxLog
    BY InLog, <1>2 DEF CountInv, LogOK, TypeOK, Write
  <2> QED BY <2>1, <2>2 DEF CountInv, BelowMark
<1>5. \A i \in DOMAIN log' : i \in DOMAIN log \/ i = n
  BY <1>2
<1> HIDE DEF n, entry
<1>6. RowsOwned'
  BY <1>1, <1>2, <1>4, <1>5 DEF RowsInv, RowsOwned
<1> QED BY <1>3, <1>6 DEF RowsInv

\* The same of every step.
LEMMA RowsInductive == CountInv /\ CountInv' /\ RowsInv /\ [Next]_vars => RowsInv'
<1> SUFFICES ASSUME CountInv, CountInv', RowsInv, [Next]_vars PROVE RowsInv'
  OBVIOUS
<1>1. clock \in Nat /\ 0 < clock
  BY DEF CountInv, TypeOK, RowsInv, Timed
<1>2. CASE Fetch \/ Fetched
  <2>1. UNCHANGED <<clock, log, life, events, seen>>
    BY <1>2 DEF Fetch, Fetched, world, db
  <2>2. CASE pc' \notin Stamped
    BY <1>1, <2>1, <2>2, RowsStay
  <2>3. CASE pc' \in Stamped
    <3>1. pc' = "immich" /\ loc'.now = clock
      BY <1>2, <2>3 DEF Fetch, Fetched, Goto, Blank, Stamped
    <3> QED BY <1>1, <2>1, <3>1 DEF RowsInv, SharesKnown, Known, Timed, RowsOwned
  <2> QED BY <2>2, <2>3
<1>3. CASE ListShares
  <2>1. UNCHANGED <<clock, log, life, events, seen>> /\ pc = "immich"
    BY <1>3 DEF ListShares, world, db
  <2>2. CASE Goto("sleep", Blank)
    BY <1>1, <2>1, <2>2, RowsStay DEF Goto, Stamped
  <2>3. CASE Goto("commit", [loc EXCEPT !.shares = Opened])
    <3>1. pc' = "commit" /\ loc'.now = loc.now /\ loc'.shares = Opened
      BY <2>3 DEF Goto, CountInv, TypeOK, Locals
    <3>2. Opened \subseteq Known
      BY DEF Opened, Known
    <3> QED BY <2>1, <3>1, <3>2 DEF RowsInv, SharesKnown, Known, Timed, RowsOwned, Stamped
  <2> QED BY <1>3, <2>2, <2>3 DEF ListShares
<1>4. CASE Check \/ Crash \/ (\E p \in Peers : Handshake(p)) \/ MarkPurge \/ UNCHANGED vars
  <2>1. UNCHANGED <<clock, log, life, events, seen>>
    BY <1>4 DEF Check, Crash, Handshake, Elsewhere, MarkPurge, vars, world, db
  <2>2. (pc' = pc /\ loc' = loc) \/ pc' \notin Stamped
    BY <1>4 DEF Check, Crash, Handshake, Elsewhere, MarkPurge, vars, Goto, Stamped
  <2> QED BY <1>1, <2>1, <2>2, RowsStay
<1>5. CASE Tick
  <2>1. UNCHANGED <<log, life, events, seen, pc, loc>> /\ 0 < clock'
    BY <1>1, <1>5 DEF Tick, Elsewhere, db
  <2> QED BY <2>1, RowsStay
<1>6. ASSUME NEW s \in Shares, Live(s) PROVE RowsInv'
  <2>1. /\ UNCHANGED <<clock, log, events, seen, pc, loc>>
        /\ life' = [life EXCEPT ![s] = IF @ = "none" THEN "open" ELSE "ended"]
    BY <1>6 DEF Live, Elsewhere, db
  <2>2. Known' = Known \cup {s}
    BY <2>1 DEF Known, CountInv, TypeOK
  <2>3. IsFiniteSet(Known')
    BY <2>2, FS_AddElement DEF RowsInv, SharesKnown
  <2> QED BY <2>1, <2>2, <2>3 DEF RowsInv, SharesKnown, Timed, RowsOwned
<1> QED
  BY <1>2, <1>3, <1>4, <1>5, <1>6, CommitRows, PurgeRows, WriteRows DEF Next, Cycle

(* _devhub and _purge_old_events: the downloads that the dashboard sums    *)
(* over the albums are all the download rows there are, whatever was       *)
(* purged and wherever the monitor was restarted.                          *)
THEOREM DownloadsAddUp == Spec => []DownloadsAgree
<1>1. Init => RowsInv
  <2> SUFFICES ASSUME Init PROVE RowsInv
    OBVIOUS
  <2>1. clock = 1 /\ DOMAIN log = {} /\ pc = "sleep" /\ Known = {} /\ \A s \in Shares : seen[s] = 0
    BY DEF Init, Known
  <2> QED BY <2>1, FS_EmptySet DEF RowsInv, SharesKnown, Timed, Stamped, RowsOwned
<1>2. CountInv /\ RowsInv => DownloadsAgree
  <2> SUFFICES ASSUME CountInv, RowsInv PROVE DownloadsAgree
    OBVIOUS
  <2>1. PICK D, e, d, V, U, at, part, A :
            /\ D = 1 .. MaxLog /\ e = events /\ d = ShareDownloads
            /\ V = {i \in DOMAIN log : log[i].kind = "visit"}
            /\ U = {s \in Shares : seen[s] # 0}
            /\ at = [i \in V |-> log[i].share]
            /\ part = [s \in Shares |-> {i \in V : at[i] = s}]
            /\ A = {i \in V : at[i] \in U}
    OBVIOUS
  <2>2. e \in [D -> Nat] /\ V \in SUBSET D /\ U \in SUBSET Shares
    BY <2>1, InLog DEF CountInv, TypeOK
  <2>3. IsFiniteSet(V)
    <3>1. IsFiniteSet(D)
      BY <2>1, LogFinite
    <3> QED BY <2>2, <3>1, FS_Subset
  <2>4. IsFiniteSet(U)
    <3>1. U \in SUBSET Known
      BY <2>1 DEF RowsInv, SharesKnown
    <3> QED BY <3>1, FS_Subset DEF RowsInv, SharesKnown
  <2>5. \A s \in Shares : part[s] = {i \in V : at[i] = s} /\ d[s] = SumFunctionOnSet(e, part[s])
    <3> SUFFICES ASSUME NEW s \in Shares
                 PROVE  part[s] = {i \in V : at[i] = s} /\ d[s] = SumFunctionOnSet(e, part[s])
      OBVIOUS
    <3>1. part[s] = {i \in DOMAIN log : log[i].kind = "visit" /\ log[i].share = s}
      BY <2>1
    <3> QED BY <2>1, <3>1 DEF ShareDownloads
  <2>6. d \in [Shares -> Nat]
    <3>1. d = [s \in Shares |-> d[s]]
      BY <2>1 DEF ShareDownloads
    <3>2. ASSUME NEW s \in Shares PROVE d[s] \in Nat
      <4>1. part[s] \in SUBSET V
        BY <2>5
      <4>2. IsFiniteSet(part[s]) /\ part[s] \in SUBSET D
        BY <2>2, <2>3, <4>1, FS_Subset
      <4>3. SumFunctionOnSet(e, part[s]) \in Nat
        BY <2>2, <4>2, SumIsNat
      <4> QED BY <2>5, <4>3
    <3> QED BY <3>1, <3>2
  <2>7. SumFunctionOnSet(d, U) = SumFunctionOnSet(e, A)
    <3>1. /\ \A u \in U : d[u] = SumFunctionOnSet(e, part[u])
          /\ part \in [Shares -> SUBSET V] /\ at \in [V -> Shares]
          /\ \A u \in U : \A i \in V : i \in part[u] <=> at[i] = u
      BY <2>1, <2>2, <2>5, EntryIs DEF CountInv
    <3>2. A \in SUBSET V /\ \A i \in V : i \in A <=> at[i] \in U
      BY <2>1
    <3> QED BY <2>2, <2>3, <2>4, <2>6, <3>1, <3>2, SumOfSums, SMTT(40)
  <2>8. PICK B : B = V \ A
    OBVIOUS
  <2>9. /\ A \in SUBSET D /\ B \in SUBSET D /\ A \cap B = {} /\ A \cup B = V
        /\ IsFiniteSet(A) /\ IsFiniteSet(B)
    <3>1. A \in SUBSET V /\ B \in SUBSET V /\ A \cap B = {} /\ A \cup B = V
      BY <2>1, <2>8
    <3> QED BY <2>2, <2>3, <3>1, FS_Subset
  <2>10. SumFunctionOnSet(e, V) = SumFunctionOnSet(e, A) + SumFunctionOnSet(e, B)
    <3>1. SumFunctionOnSet(e, A \cup B) = SumFunctionOnSet(e, A) + SumFunctionOnSet(e, B)
      BY <2>2, <2>9, SumUnion
    <3> QED BY <2>9, <3>1
  <2>11. SumFunctionOnSet(e, B) = 0
    <3>1. ASSUME NEW i \in B PROVE e[i] = 0
      <4>1. i \in DOMAIN log /\ log[i].kind = "visit" /\ log[i].share \notin U
        BY <2>1, <2>8
      <4>2. seen[log[i].share] = 0
        BY <2>1, <4>1, EntryIs DEF CountInv
      <4>3. ~(events[i] > 0)
        BY <4>1, <4>2 DEF RowsInv, RowsOwned
      <4> QED BY <2>1, <2>2, <2>9, <4>3
    <3> QED BY <2>9, <3>1, SumZeros
  <2>12. SumFunctionOnSet(e, A) \in Nat
    BY <2>2, <2>9, SumIsNat
  <2>13. SumFunctionOnSet(d, U) = SumFunctionOnSet(e, V)
    BY <2>7, <2>8, <2>10, <2>11, <2>12
  <2> QED BY <2>1, <2>13 DEF DownloadsAgree, AlbumDownloads
<1> QED
  BY CountInitially, CountInductive, RowsInductive, <1>1, <1>2, PTL DEF Spec
=============================================================================
