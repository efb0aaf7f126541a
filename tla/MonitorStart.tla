---------------------------- MODULE MonitorStart ----------------------------
(***************************************************************************)
(* main of macmini/photo-share-monitor.py up to the serving of requests,   *)
(* under launchd, which starts it again whenever it ends: the checks of    *)
(* the configuration, the salt that client addresses are hashed with, the  *)
(* database, the thread that ingests and the listening socket.             *)
(***************************************************************************)
EXTENDS Integers, FiniteSets

CONSTANTS
    Monitors,       \* processes that run the monitor at one time
    Pids,           \* process identifiers, which are used again
    Configs,        \* what the configuration may say
    MaxSalts,       \* bound: salts drawn
    MaxStartFaults  \* bound: failed steps, deaths and edits

ASSUME StartAssumption == MaxSalts \in Nat /\ MaxStartFaults \in Nat

VARIABLES
    config,   \* the configuration file and the secrets it names
    salt,     \* ip.salt: Absent, Empty or a secret
    tmp,      \* of each pid: its sibling .ip.salt.<pid>.tmp, likewise
    drawn,    \* how many secrets have been drawn
    tables,   \* are there tables in telemetry.db
    monitor,  \* of each process: [at, pid, salt]
    hashed,   \* history: the salts with which addresses in the database are hashed
    startFaults

startVars == <<config, salt, tmp, drawn, tables, monitor, hashed, startFaults>>

Absent == -1
Empty == 0
Secrets == 1 .. MaxSalts
Contents == {Absent, Empty} \cup Secrets

Off == [at |-> "off", pid |-> 0, salt |-> Absent]

StartFault == startFaults < MaxStartFaults /\ startFaults' = startFaults + 1

-----------------------------------------------------------------------------
(* load_settings                                                           *)

\* What is refused: a target that is no ssh target, an empty or a wildcard
\* bind, a short or missing password, a bind beyond loopback that nobody has
\* confirmed, a number out of range.
Loads(c) ==
    /\ c.ssh = "target"
    /\ c.bind \notin {"empty", "wildcard"}
    /\ c.passwordLength >= 16
    /\ c.bind = "loopback" \/ c.confirmed
    /\ c.retention \in 1 .. 3650
    /\ c.peers \in 1 .. 64

At(m, at) == monitor[m].at = at
Goes(m, at) == monitor' = [monitor EXCEPT ![m].at = at]

\* launchd, or somebody by hand.
StartMonitor(m) ==
    /\ At(m, "off")
    /\ \E p \in Pids :
         /\ \A n \in Monitors : monitor[n].pid # p
         /\ monitor' = [monitor EXCEPT ![m] = [at |-> "config", pid |-> p, salt |-> Absent]]
    /\ UNCHANGED <<config, salt, tmp, drawn, tables, hashed, startFaults>>

LoadSettings(m) ==
    /\ At(m, "config")
    /\ monitor' = [monitor EXCEPT ![m] = IF Loads(config) THEN [@ EXCEPT !.at = "salt"] ELSE Off]
    /\ UNCHANGED <<config, salt, tmp, drawn, tables, hashed, startFaults>>

-----------------------------------------------------------------------------
(* _load_salt                                                              *)

\* Mutant: a salt is drawn at every start.
EveryStart == TRUE
\* _salt_uninitialised
Uninitialised == salt \in {Absent, Empty}

LookAtSalt(m) ==
    /\ At(m, "salt")
    /\ Goes(m, IF Uninitialised THEN "create" ELSE "read")
    /\ UNCHANGED <<config, salt, tmp, drawn, tables, hashed, startFaults>>

\* Mutant: a leftover of the same name is an error.
LeftoverFatal(m) ==
    /\ At(m, "create")
    /\ IF tmp[monitor[m].pid] = Absent
         THEN tmp' = [tmp EXCEPT ![monitor[m].pid] = Empty] /\ Goes(m, "write")
         ELSE monitor' = [monitor EXCEPT ![m] = Off] /\ UNCHANGED tmp
    /\ UNCHANGED <<config, salt, drawn, tables, hashed, startFaults>>

\* O_EXCL; the leftover of a process that had the same pid is removed first.
CreateTmp(m) ==
    /\ At(m, "create")
    /\ tmp' = [tmp EXCEPT ![monitor[m].pid] = IF @ = Absent THEN Empty ELSE Absent]
    /\ Goes(m, IF tmp[monitor[m].pid] = Absent THEN "write" ELSE "create")
    /\ UNCHANGED <<config, salt, drawn, tables, hashed, startFaults>>

\* write and fsync
WriteTmp(m) ==
    /\ At(m, "write")
    /\ drawn < MaxSalts
    /\ drawn' = drawn + 1
    /\ tmp' = [tmp EXCEPT ![monitor[m].pid] = drawn']
    /\ Goes(m, "rename")
    /\ UNCHANGED <<config, salt, tables, hashed, startFaults>>

\* When writing or renaming fails the temporary file is removed.
WriteFails(m) ==
    /\ At(m, "write") \/ At(m, "rename")
    /\ StartFault
    /\ tmp' = [tmp EXCEPT ![monitor[m].pid] = Absent]
    /\ monitor' = [monitor EXCEPT ![m] = Off]
    /\ UNCHANGED <<config, salt, drawn, tables, hashed>>

RenameTmp(m) ==
    /\ At(m, "rename")
    /\ salt' = tmp[monitor[m].pid]
    /\ tmp' = [tmp EXCEPT ![monitor[m].pid] = Absent]
    /\ Goes(m, "read")
    /\ UNCHANGED <<config, drawn, tables, hashed, startFaults>>

\* read_private_secret: dies of a file that is missing or empty.
ReadSalt(m) ==
    /\ At(m, "read")
    /\ monitor' = [monitor EXCEPT ![m] = IF salt \in Secrets THEN [@ EXCEPT !.salt = salt, !.at = "db"]
                                                             ELSE Off]
    /\ UNCHANGED <<config, salt, tmp, drawn, tables, hashed, startFaults>>

-----------------------------------------------------------------------------
(* activate and the rest of main                                           *)

\* _init_db: tables are created only where there are none.
InitDb(m) ==
    /\ At(m, "db")
    /\ tables' = TRUE
    /\ Goes(m, "bind")
    /\ UNCHANGED <<config, salt, tmp, drawn, hashed, startFaults>>

\* The ingesting thread runs from here on, and hashes addresses.
Ingest(m) ==
    /\ At(m, "bind") \/ At(m, "serving")
    /\ tables
    /\ hashed' = hashed \cup {monitor[m].salt}
    /\ UNCHANGED <<config, salt, tmp, drawn, tables, monitor, startFaults>>

\* make_server: the address may be taken by the other process.
Bind(m) ==
    /\ At(m, "bind")
    /\ monitor' = [monitor EXCEPT ![m] = IF \E n \in Monitors : At(n, "serving")
                                           THEN Off ELSE [@ EXCEPT !.at = "serving"]]
    /\ UNCHANGED <<config, salt, tmp, drawn, tables, hashed, startFaults>>

\* Any other step that fails, and a death at any point.
DieAnywhere(m) ==
    /\ ~At(m, "off")
    /\ StartFault
    /\ monitor' = [monitor EXCEPT ![m] = Off]
    /\ UNCHANGED <<config, salt, tmp, drawn, tables, hashed>>

Edit ==
    /\ StartFault
    /\ config' \in Configs
    /\ UNCHANGED <<salt, tmp, drawn, tables, monitor, hashed>>

StartInit ==
    /\ config \in Configs
    /\ salt \in {Absent, Empty}
    /\ tmp = [p \in Pids |-> Absent]
    /\ drawn = 0
    /\ tables = FALSE
    /\ monitor = [m \in Monitors |-> Off]
    /\ hashed = {}
    /\ startFaults = 0

StartStep(m) ==
    \/ StartMonitor(m) \/ LoadSettings(m) \/ LookAtSalt(m) \/ CreateTmp(m) \/ WriteTmp(m)
    \/ RenameTmp(m) \/ ReadSalt(m) \/ InitDb(m) \/ Bind(m)

StartNext ==
    \/ \E m \in Monitors : StartStep(m) \/ WriteFails(m) \/ Ingest(m) \/ DieAnywhere(m)
    \/ Edit

\* KeepAlive of the launch agent: whatever ends is started again.
StartFairness == \A m \in Monitors : WF_startVars(StartStep(m))

StartSpec == StartInit /\ [][StartNext]_startVars /\ StartFairness

-----------------------------------------------------------------------------
(* "Create the client-address hashing salt privately once": wherever a     *)
(* start is interrupted and whichever start follows, all addresses in the  *)
(* database are hashed with one salt, and it is a whole secret that is     *)
(* still in the file: else one visitor would be counted as two.            *)
SaltKept == \A s \in hashed : s \in Secrets /\ s = salt

(* "A crash can never leave a permanently empty ip.salt behind", nor a     *)
(* leftover that keeps the monitor from starting: with a configuration     *)
(* that loads it serves in the end.                                        *)
StartsAgain == \A m \in Monitors : <>[]Loads(config) => <>[](At(m, "serving"))
=============================================================================
