------------------------------ MODULE Telemetry ------------------------------
(***************************************************************************)
(* The ingestion loop of macmini/photo-share-monitor.py: it polls the log  *)
(* of Caddy and the links of Immich, counts the visits in SQLite, stamps   *)
(* what it stored as fresh and purges what is too old.  Time advances in   *)
(* polls, INGEST_EVERY seconds each.                                       *)
(***************************************************************************)
EXTENDS Naturals, Sequences, FiniteSetsExt

CONSTANTS
    Shares,      \* keys of the shares
    Peers,       \* the peers of wg0 on the VPS
    Expected,    \* expected_peers
    TailLines,   \* the 8000 entries of the log file that one poll sees
    SshTimeout,  \* the 20 seconds that the ssh call may take
    PeerWindow,  \* the 300 seconds for which a handshake counts
    StaleAfter,  \* STALE_AFTER
    Retention,   \* telemetry_retention_days
    PurgeEvery,  \* the 86400 seconds between purges
    MaxClock,    \* bound: time
    MaxLog,      \* bound: entries in the log
    MaxFaults    \* bound: failed polls, requests and transactions, crashes

ASSUME TelemetryAssumption ==
    {Expected, TailLines, SshTimeout, PeerWindow, StaleAfter, Retention, PurgeEvery, MaxClock,
     MaxLog, MaxFaults} \subseteq Nat

ASSUME PeersAssumption == IsFiniteSet(Peers)

VARIABLES
    clock,
    log,     \* what Caddy wrote: [ts, share, kind]
    rolled,  \* how many of these are no longer in access.log, which Caddy rotates
    life,    \* of each share: "none" yet, "open" or "ended"
    shook,   \* of each peer: when it last shook hands
    events,  \* the table events: the rows that each entry of the log has
    seen,    \* the table shares: last_seen, 0 without a row
    meta,    \* the table meta: last_event_ts, last_ingest, last_purge, 0 if unset,
             \* and peers_up
    purged,  \* history: the entries whose row was purged
    pc, loc, \* where the loop is, and its variables
    faults

world == <<clock, log, rolled, life, shook>>
db == <<events, seen, meta>>
vars == <<world, db, purged, pc, loc, faults>>

\* "limited": status 429, counted for no share.  An entry that is not counted,
\* of another path or status, is like the visit of a share that has ended.
Kinds == {"visit", "limited"}

Blank == [lines |-> {}, shook |-> [p \in Peers |-> 0], asked |-> 0, now |-> 0, mark |-> 0,
          peers |-> 0, shares |-> {}]

\* "tail" of the file that Caddy writes to.
LogTail == {i \in DOMAIN log : i > rolled /\ i + TailLines > Len(log)}

Opened == {s \in Shares : life[s] = "open"}

Fault ==
    /\ faults < MaxFaults
    /\ faults' = faults + 1

Goto(l, r) == pc' = l /\ loc' = r

-----------------------------------------------------------------------------
(* One cycle of the loop.                                                  *)

\* _vps_fetch: what "wg show" and "tail" say on the VPS.
Fetch ==
    /\ pc = "sleep"
    /\ Goto("ssh", [Blank EXCEPT !.lines = LogTail, !.shook = shook, !.asked = clock])
    /\ UNCHANGED <<world, db, purged, faults>>

\* Mutant: a peer counts that ever shook hands.
EverShook == Cardinality({p \in Peers : loc.shook[p] > 0})
\* _count_peers: now - stamp < 300.
CountPeers == Cardinality({p \in Peers : clock < loc.shook[p] + PeerWindow})

\* The answer of the ssh call, some time later; only then the clock is read,
\* and the watermark.
Fetched ==
    /\ pc = "ssh"
    /\ \/ /\ clock <= loc.asked + SshTimeout
          /\ Goto("immich", [Blank EXCEPT !.lines = loc.lines, !.now = clock,
                                          !.mark = meta.event, !.peers = CountPeers])
          /\ UNCHANGED faults
       \/ /\ Fault \/ (clock > loc.asked + SshTimeout /\ UNCHANGED faults)
          /\ Goto("check", Blank)
    /\ UNCHANGED <<world, db, purged>>

\* Mutant: the poll is stamped as fresh before Immich has answered.
StampFirst ==
    /\ pc = "immich"
    /\ \/ Goto("commit", [loc EXCEPT !.shares = Opened]) /\ UNCHANGED faults
       \/ Fault /\ Goto("sleep", Blank)
    /\ meta' = [meta EXCEPT !.ingest = loc.now, !.peers = loc.peers]
    /\ UNCHANGED <<world, events, seen, purged>>

\* _immich_shares: when it dies the cycle ends, and its purge is skipped.
ListShares ==
    /\ pc = "immich"
    /\ \/ Goto("commit", [loc EXCEPT !.shares = Opened]) /\ UNCHANGED faults
       \/ Fault /\ Goto("sleep", Blank)
    /\ UNCHANGED <<world, db, purged>>

\* What becomes a row: visits of listed shares, and rate limits.
NewRows ==
    {i \in loc.lines : /\ log[i].ts > loc.mark
                       /\ \/ log[i].kind = "limited"
                          \/ log[i].kind = "visit" /\ log[i].share \in loc.shares}

\* Mutant: the watermark is the newest row of the table.
NewestRow == Max({0} \cup {log[i].ts : i \in NewRows \cup {j \in DOMAIN log : events[j] > 0}})
\* Mutant: the watermark moves past entries of which no row was made.
NewestLine == Max({loc.mark} \cup {log[i].ts : i \in loc.lines} \cup {loc.now})
Watermark ==
    IF NewRows = {} THEN meta.event ELSE Max({loc.mark} \cup {log[i].ts : i \in loc.lines})

\* Mutant: the rows are committed before the shares.
SplitCommit ==
    /\ pc = "commit"
    /\ events' = [i \in 1 .. MaxLog |-> events[i] + (IF i \in NewRows THEN 1 ELSE 0)]
    /\ meta' = [meta EXCEPT !.event = Watermark, !.ingest = loc.now, !.peers = loc.peers]
    /\ \/ /\ seen' = [s \in Shares |-> IF s \in loc.shares THEN loc.now ELSE seen[s]]
          /\ Goto("check", Blank)
          /\ UNCHANGED faults
       \/ Fault /\ Goto("sleep", Blank) /\ UNCHANGED seen
    /\ UNCHANGED <<world, purged>>

\* Mutant: the rows are stamped with the time of the commit.
StampLate ==
    /\ pc = "commit"
    /\ events' = [i \in 1 .. MaxLog |-> events[i] + (IF i \in NewRows THEN 1 ELSE 0)]
    /\ seen' = [s \in Shares |-> IF s \in loc.shares THEN clock ELSE seen[s]]
    /\ meta' = [meta EXCEPT !.event = Watermark, !.ingest = clock, !.peers = loc.peers]
    /\ Goto("check", Blank)
    /\ UNCHANGED <<world, purged, faults>>

\* Rows, shares, freshness and watermark: one transaction.
Commit ==
    /\ pc = "commit"
    /\ \/ /\ events' = [i \in 1 .. MaxLog |-> events[i] + (IF i \in NewRows THEN 1 ELSE 0)]
          /\ seen' = [s \in Shares |-> IF s \in loc.shares THEN loc.now ELSE seen[s]]
          /\ meta' = [meta EXCEPT !.event = Watermark, !.ingest = loc.now, !.peers = loc.peers]
          /\ Goto("check", Blank)
          /\ UNCHANGED faults
       \/ /\ Fault
          /\ Goto("sleep", Blank)
          /\ UNCHANGED db
    /\ UNCHANGED <<world, purged>>

\* _ingest_loop: is a purge due.
Check ==
    /\ pc = "check"
    /\ Goto(IF clock > meta.purge + PurgeEvery THEN "purge" ELSE "sleep", Blank)
    /\ UNCHANGED <<world, db, purged, faults>>

Old(t) == t + Retention < clock
Expired == {i \in DOMAIN log : events[i] > 0 /\ Old(log[i].ts)}

\* The shares that still have an event; that of a rate limit is of no share.
StillUsed ==
    {log[i].share : i \in {j \in DOMAIN log : events[j] > 0 /\ log[j].kind = "visit"} \ Expired}

\* _purge_old_events
Purge ==
    /\ pc = "purge"
    /\ \/ /\ events' = [i \in 1 .. MaxLog |-> IF i \in Expired THEN 0 ELSE events[i]]
          /\ purged' = purged \cup Expired
          /\ seen' = [s \in Shares |-> IF Old(seen[s]) /\ s \notin StillUsed THEN 0 ELSE seen[s]]
          /\ Goto("purged", Blank)
          /\ UNCHANGED faults
       \/ /\ Fault
          /\ Goto("sleep", Blank)
          /\ UNCHANGED <<events, seen, purged>>
    /\ UNCHANGED <<world, meta>>

MarkPurge ==
    /\ pc = "purged"
    /\ \/ meta' = [meta EXCEPT !.purge = clock] /\ UNCHANGED faults
       \/ Fault /\ UNCHANGED meta
    /\ Goto("sleep", Blank)
    /\ UNCHANGED <<world, events, seen, purged>>

\* The monitor dies and is started again.
Crash ==
    /\ pc # "sleep"
    /\ Fault
    /\ Goto("sleep", Blank)
    /\ UNCHANGED <<world, db, purged>>

-----------------------------------------------------------------------------
(* Time, Caddy and the shares.                                             *)

Elsewhere == UNCHANGED <<db, purged, pc, loc, faults>>

Tick ==
    /\ clock < MaxClock
    /\ clock' = clock + 1
    /\ UNCHANGED <<log, rolled, life, shook>>
    /\ Elsewhere

\* Caddy writes entries in the order of their stamps, no two alike.  One that
\* does not fit any more is the first of a new file (roll_size).
Write(s, kind) ==
    /\ Len(log) < MaxLog
    /\ \A i \in DOMAIN log : log[i].ts < clock
    /\ life[s] = "open"
    /\ log' = Append(log, [ts |-> clock, share |-> s, kind |-> kind])
    /\ rolled' \in {rolled, Len(log)}
    /\ UNCHANGED <<clock, life, shook>>
    /\ Elsewhere

Live(s) ==
    /\ life' = [life EXCEPT ![s] = IF @ = "none" THEN "open" ELSE "ended"]
    /\ life[s] # "ended"
    /\ UNCHANGED <<clock, log, rolled, shook>>
    /\ Elsewhere

\* A peer that says nothing for a while does not shake hands.
Handshake(p) ==
    /\ shook[p] # clock
    /\ shook' = [shook EXCEPT ![p] = clock]
    /\ UNCHANGED <<clock, log, rolled, life>>
    /\ Elsewhere

-----------------------------------------------------------------------------
Cycle == Fetch \/ Fetched \/ ListShares \/ Commit \/ Check \/ Purge \/ MarkPurge

Init ==
    /\ clock = 1
    /\ log = <<>> /\ rolled = 0
    /\ life = [s \in Shares |-> "none"]
    /\ events = [i \in 1 .. MaxLog |-> 0]
    /\ seen = [s \in Shares |-> 0]
    /\ shook = [p \in Peers |-> clock]
    /\ meta = [event |-> 0, ingest |-> 0, purge |-> 0, peers |-> 0]
    /\ purged = {}
    /\ pc = "sleep"
    /\ loc = Blank
    /\ faults = 0

Next ==
    \/ Cycle
    \/ Crash
    \/ Tick
    \/ \E p \in Peers : Handshake(p)
    \/ \E s \in Shares : Live(s) \/ \E kind \in Kinds : Write(s, kind)

Spec == Init /\ [][Next]_vars

\* The loop sleeps and polls again for as long as the monitor runs.
FairSpec == Spec /\ WF_vars(Cycle)

-----------------------------------------------------------------------------
(* Whatever fails and wherever the monitor is restarted, no entry of the   *)
(* log is counted twice, not even one whose row was purged since.          *)
CountedOnce == \A i \in 1 .. MaxLog : events[i] + (IF i \in purged THEN 1 ELSE 0) <= 1

\* An entry that the loop is meant to count and can still see.
Due(i) ==
    /\ i \in LogTail
    /\ log[i].kind = "limited" \/ (log[i].kind = "visit" /\ log[i].share \in Opened)

Counted(i) == events[i] > 0 \/ i \in purged

\* _telemetry
Status ==
    CASE meta.ingest = 0 -> "unknown"
      [] clock > meta.ingest + StaleAfter -> "stale"
      [] OTHER -> "ok"

(* "A failed Immich half must never make the telemetry look fresh": while  *)
(* the console calls it "ok", every visit to a share that is still open    *)
(* and every rate limit that is older than STALE_AFTER and the time of an  *)
(* ssh call, and that the tail still shows, has been counted.              *)
FreshMeansCounted ==
    Status = "ok" =>
        \A i \in 1 .. MaxLog : Due(i) /\ log[i].ts + StaleAfter + SshTimeout < clock => Counted(i)

\* _share_stats, for downloads; opens and views are counted alike.
ShareDownloads ==
    [s \in Shares |->
        SumFunctionOnSet(events, {i \in DOMAIN log : log[i].kind = "visit" /\ log[i].share = s})]

\* _devhub: the sum over the albums, which _album_stats joins from the shares.
AlbumDownloads == SumFunctionOnSet(ShareDownloads, {s \in Shares : seen[s] # 0})

(* "A share row is history for its events": the downloads that the         *)
(* dashboard sums over the albums are all the download rows there are,     *)
(* after any purge and any crash.                                          *)
DownloadsAgree ==
    AlbumDownloads = SumFunctionOnSet(events, {i \in DOMAIN log : log[i].kind = "visit"})

\* The "status" of _devhub.
Healthy == Status = "ok" /\ meta.peers >= Expected

(* "Peers are never assumed": while the dashboard shows "ok", as many      *)
(* peers as expected shook hands less than the 300 seconds of _count_peers *)
(* and STALE_AFTER ago, however long ssh and Immich took.                  *)
HealthyMeansUp ==
    Healthy => Expected <= Cardinality({p \in Peers : clock < shook[p] + PeerWindow + StaleAfter})

(* Every visit is counted in the end if its share stays open, and if it    *)
(* stays in the tail: one that a rotation, or a burst of more than         *)
(* TailLines entries, takes away before a poll is lost.                    *)
VisitsCounted == \A i \in 1 .. MaxLog : Due(i) ~> Counted(i) \/ ~Due(i)
=============================================================================
