------------------------------ MODULE MCMonitor ------------------------------
(* The parts of the monitor that share no state, each of them whole: a      *)
(* behaviour is one of one part, so that their states add up.               *)
EXTENDS Console, Handlers, Lockout, LogLimit, MonitorStart

VARIABLE part  \* the part that moves

monitorVars == <<consoleVars, handVars, authVars, logVars, startVars, part>>

GoodConfig == [ssh |-> "target", bind |-> "loopback", passwordLength |-> 16, confirmed |-> FALSE,
         retention |-> 90, peers |-> 2]

SomeConfigs ==
    {GoodConfig, [GoodConfig EXCEPT !.bind = "tunnel"], [GoodConfig EXCEPT !.bind = "tunnel", !.confirmed = TRUE],
     [GoodConfig EXCEPT !.bind = "wildcard", !.confirmed = TRUE], [GoodConfig EXCEPT !.passwordLength = 15],
     [GoodConfig EXCEPT !.retention = 0], [GoodConfig EXCEPT !.peers = 65], [GoodConfig EXCEPT !.ssh = "option"]}

Page == [NoRequest EXCEPT !.method = "GET", !.host = TRUE, !.login = TRUE]
Form == [Page EXCEPT !.method = "POST", !.header = TRUE, !.path = "open", !.body = "good"]

SomeRequests ==
    {[Page EXCEPT !.path = p] : p \in {"/", "/devhub", "/albums", "/shares", "/stats", "/other"}}
    \cup {[Form EXCEPT !.body = b] : b \in {"none", "late", "nested", "badTtl"}}
    \cup {Form, [NoRequest EXCEPT !.method = "malformed"], [Page EXCEPT !.host = FALSE],
          [Page EXCEPT !.login = FALSE], [Form EXCEPT !.header = FALSE],
          [Form EXCEPT !.path = "close", !.body = "none"], [Form EXCEPT !.path = "/other"]}

Moves(p, A, rest) == part = p /\ A /\ UNCHANGED <<rest, part>>
OfConsole(A) == Moves("console", A, <<handVars, authVars, logVars, startVars>>)
OfStart(A) == Moves("start", A, <<consoleVars, handVars, authVars, logVars>>)

MonitorInit ==
    /\ part \in {"console", "hands", "auth", "log", "start"}
    /\ ConsoleInit /\ HandInit /\ AuthInit /\ LogInit /\ StartInit
    /\ part # "start" => config = GoodConfig /\ salt = Absent

\* The bounds of LogLimit end that part.
LogEnds == part = "log" /\ messages = MaxMessages /\ monotonic = MaxTime /\ UNCHANGED monitorVars

MonitorNext ==
    \/ OfConsole(ConsoleNext)
    \/ Moves("hands", HandNext, <<consoleVars, authVars, logVars, startVars>>)
    \/ Moves("auth", AuthNext, <<consoleVars, handVars, logVars, startVars>>)
    \/ Moves("log", LogNext, <<consoleVars, handVars, authVars, startVars>>)
    \/ LogEnds
    \/ OfStart(StartNext)

\* ConsoleFairness and StartFairness, for the part that moves.
MonitorSpec ==
    /\ MonitorInit /\ [][MonitorNext]_monitorVars
    /\ \A t \in Timers : WF_monitorVars(OfConsole(Refresh(t)))
    /\ \A s \in Slots : /\ WF_monitorVars(OfConsole(Serve(s)))
                        /\ WF_monitorVars(OfConsole(Deliver(s)))
                        /\ WF_monitorVars(OfConsole(CliTimeout(s)))
    /\ \A m \in Monitors : WF_monitorVars(OfStart(StartStep(m)))
-----------------------------------------------------------------------------
(* PageCatchesUp of Console: the page of a browser that stays open ends up *)
(* showing the shares as they are, whatever order its answers come in.     *)
TableCatchesUp == part = "console" => PageCatchesUp

(* StartsAgain of MonitorStart: under launchd the monitor serves in the    *)
(* end, whatever an earlier start has left behind.                         *)
ServesAgain == part = "start" => StartsAgain
==============================================================================
