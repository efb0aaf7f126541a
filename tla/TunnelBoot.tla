----------------------------- MODULE TunnelBoot -----------------------------
(***************************************************************************)
(* nas/wireguard-entrypoint.sh, process 1 of the container whose network   *)
(* namespace nginx and the relay share, under Docker's restart policy.  A  *)
(* command of the script is one step; set -e ends it when one fails.       *)
(***************************************************************************)
EXTENDS Sequences, Integers

CONSTANTS
    Lockdowns,     \* values of WG_OUTPUT_LOCKDOWN: "true", "false", "other"
    MaxBootFaults  \* bound: failed commands and deaths of the relay

VARIABLES
    boot,      \* "off", "running", "serving", "ending" (down is at work) or "stopping"
    line,      \* the command that comes next
    lockdown,  \* WG_OUTPUT_LOCKDOWN
    policies,  \* of OUTPUT: [v4, v6], "accept", "drop" or, without a kernel table, "none"
    accepted,  \* what OUTPUT accepts by a rule
    relay,     \* "none", "starting", "listening" or "dead"
    relayWatched,  \* is proxy_pid set
    tunnel,    \* is the interface up
    signalled, \* did INT or TERM arrive that no trap has handled
    bootFaults

namespace == <<policies, accepted, tunnel>>
entryVars == <<boot, line, lockdown, namespace, relay, relayWatched, signalled, bootFaults>>

BootFault == bootFaults < MaxBootFaults /\ bootFaults' = bootFaults + 1

-----------------------------------------------------------------------------
(* lock_output and wg-quick up, command by command.                        *)

\* Mutant: the tunnel comes up before the bootstrap's rules are gone.
UpTooEarly ==
    <<"policy6", "policy4", "+lo", "+replies", "+dnsUdp", "+dnsTcp", "+endpoint",
      "resolve", "+upstream", "+controller", "socat", "probe", "up",
      "-dnsUdp", "-dnsTcp", "lo">>
Script ==
    <<"policy6", "policy4", "+lo", "+replies", "+dnsUdp", "+dnsTcp", "+endpoint",
      "resolve", "+upstream", "+controller", "socat", "probe",
      "-dnsUdp", "-dnsTcp", "lo", "up">>

Command == Script[line]

Rule == [c \in {"+lo", "+replies", "+dnsUdp", "+dnsTcp", "+endpoint", "+upstream", "+controller"} |->
           CASE c = "+lo" -> "loopback" [] c = "+replies" -> "replies"
             [] c = "+dnsUdp" -> "dnsUdp" [] c = "+dnsTcp" -> "dnsTcp"
             [] c = "+endpoint" -> "endpoint" [] c = "+upstream" -> "upstream"
             [] c = "+controller" -> "controller"]

\* Without a lockdown only the tunnel is brought up; any other value than true
\* or false is refused.
FirstLine == IF lockdown = "false" THEN Len(Script) ELSE 1

StartContainer ==
    /\ boot = "off"
    /\ boot' = IF lockdown = "other" THEN "ending" ELSE "running"
    /\ line' = FirstLine
    /\ policies' = [v4 |-> "accept", v6 |-> "accept"]
    /\ accepted' = {}
    /\ relay' = "none"
    /\ relayWatched' = FALSE
    /\ UNCHANGED <<lockdown, tunnel, signalled, bootFaults>>

Advance == IF line < Len(Script)
          THEN line' = line + 1 /\ UNCHANGED boot
          ELSE boot' = "serving" /\ UNCHANGED line

Running == boot = "running" /\ ~signalled

\* A kernel without IPv6 refuses with a message of its own, which is accepted.
LockSix ==
    /\ Running /\ Command = "policy6"
    /\ \E p \in {"drop", "none"} : policies' = [policies EXCEPT !.v6 = p]
    /\ Advance
    /\ UNCHANGED <<lockdown, accepted, relay, relayWatched, tunnel, signalled, bootFaults>>

LockFour ==
    /\ Running /\ Command = "policy4"
    /\ policies' = [policies EXCEPT !.v4 = "drop"]
    /\ Advance
    /\ UNCHANGED <<lockdown, accepted, relay, relayWatched, tunnel, signalled, bootFaults>>

AddRule ==
    /\ Running /\ Command \in DOMAIN Rule
    /\ accepted' = accepted \cup {Rule[Command]}
    /\ Advance
    /\ UNCHANGED <<lockdown, policies, relay, relayWatched, tunnel, signalled, bootFaults>>

\* Without a WG_CONTROLLER_SSH_PEER.
SkipController ==
    /\ Running /\ Command = "+controller"
    /\ Advance
    /\ UNCHANGED <<lockdown, namespace, relay, relayWatched, signalled, bootFaults>>

\* At most 30 attempts, one of which finds an address.
Resolve ==
    /\ Running /\ Command = "resolve"
    /\ Advance
    /\ UNCHANGED <<lockdown, namespace, relay, relayWatched, signalled, bootFaults>>

StartRelay ==
    /\ Running /\ Command = "socat"
    /\ relay' = "starting"
    /\ relayWatched' = TRUE
    /\ Advance
    /\ UNCHANGED <<lockdown, namespace, signalled, bootFaults>>

\* nc is answered, or the relay is found dead.
ProbeRelay ==
    /\ Running /\ Command = "probe"
    /\ \/ relay = "listening" /\ Advance
       \/ relay = "dead" /\ boot' = "ending" /\ UNCHANGED line
    /\ UNCHANGED <<lockdown, namespace, relay, relayWatched, signalled, bootFaults>>

Narrowed ==
    accepted \ {CASE Command = "-dnsUdp" -> "dnsUdp" [] Command = "-dnsTcp" -> "dnsTcp"
                  [] Command = "lo" -> "loopback"}

\* The broad loopback rule is replaced by one for 127.0.0.1.
NarrowRules ==
    /\ Running /\ Command \in {"-dnsUdp", "-dnsTcp", "lo"}
    /\ accepted' = Narrowed \cup (IF Command = "lo" THEN {"127.0.0.1"} ELSE {})
    /\ Advance
    /\ UNCHANGED <<lockdown, policies, relay, relayWatched, tunnel, signalled, bootFaults>>

TunnelUp ==
    /\ Running /\ Command = "up"
    /\ tunnel' = TRUE
    /\ Advance
    /\ UNCHANGED <<lockdown, policies, accepted, relay, relayWatched, signalled, bootFaults>>

\* set -e, the loops that give up, and wg-quick up, which may fail half-way.
CommandFails ==
    /\ Running
    /\ BootFault
    /\ boot' = "ending"
    /\ tunnel' \in (IF Command = "up" THEN BOOLEAN ELSE {tunnel})
    /\ UNCHANGED <<line, lockdown, policies, accepted, relay, relayWatched, signalled>>

-----------------------------------------------------------------------------
(* Supervision and the traps.                                              *)

\* Mutant: the relay is not supervised.
SleepForever == FALSE /\ UNCHANGED entryVars

\* wait returns; proxy_pid is cleared and the entrypoint exits.
Supervise ==
    /\ boot = "serving" /\ ~signalled
    /\ relayWatched /\ relay = "dead"
    /\ boot' = "ending"
    /\ relayWatched' = FALSE
    /\ UNCHANGED <<line, lockdown, namespace, relay, signalled, bootFaults>>

\* Mutant: the handler returns into the loop that sleeps.
TrapReturns ==
    /\ boot \in {"running", "serving"} /\ signalled
    /\ signalled' = FALSE
    /\ tunnel' = FALSE
    /\ UNCHANGED <<boot, line, lockdown, policies, accepted, relay, relayWatched, bootFaults>>

\* down; exit 130 or 143, once the command in the foreground has ended.
Trap ==
    /\ boot \in {"running", "serving"} /\ signalled
    /\ signalled' = FALSE
    /\ boot' = "ending"
    /\ UNCHANGED <<line, lockdown, namespace, relay, relayWatched, bootFaults>>

\* down: the relay first, if it still has a pid.
DownRelay ==
    /\ boot = "ending"
    /\ boot' = "stopping"
    /\ relay' = IF relayWatched THEN "dead" ELSE relay
    /\ UNCHANGED <<line, lockdown, namespace, relayWatched, signalled, bootFaults>>

\* wg-quick down, whose failure is ignored, and the end of process 1: Docker
\* ends what is left of the container.
Exit ==
    /\ boot = "stopping"
    /\ boot' = "off"
    /\ relay' = "none"
    /\ relayWatched' = FALSE
    /\ tunnel' = FALSE
    /\ signalled' = FALSE
    /\ UNCHANGED <<line, lockdown, policies, accepted, bootFaults>>

\* Process 1 is killed: no trap runs.
KillContainer ==
    /\ boot # "off"
    /\ BootFault
    /\ boot' = "off"
    /\ relay' = "none"
    /\ relayWatched' = FALSE
    /\ tunnel' = FALSE
    /\ signalled' = FALSE
    /\ UNCHANGED <<line, lockdown, policies, accepted>>

-----------------------------------------------------------------------------
(* The relay, and who sends the signal.                                    *)

RelayListens ==
    /\ relay = "starting"
    /\ relay' = "listening"
    /\ UNCHANGED <<boot, line, lockdown, namespace, relayWatched, signalled, bootFaults>>

RelayDies ==
    /\ relay \in {"starting", "listening"}
    /\ BootFault
    /\ relay' = "dead"
    /\ UNCHANGED <<boot, line, lockdown, namespace, relayWatched, signalled>>

Signal ==
    /\ boot \in {"running", "serving"}
    /\ signalled' = TRUE
    /\ UNCHANGED <<boot, line, lockdown, namespace, relay, relayWatched, bootFaults>>

EntryInit ==
    /\ boot = "off" /\ line = 1
    /\ lockdown \in Lockdowns
    /\ policies = [v4 |-> "accept", v6 |-> "accept"] /\ accepted = {}
    /\ relay = "none" /\ relayWatched = FALSE
    /\ tunnel = FALSE /\ signalled = FALSE
    /\ bootFaults = 0

EntryStep ==
    \/ LockSix \/ LockFour \/ AddRule \/ SkipController \/ Resolve \/ StartRelay
    \/ ProbeRelay \/ NarrowRules \/ TunnelUp
    \/ Supervise \/ Trap \/ DownRelay \/ Exit

EntryNext ==
    \/ StartContainer \/ EntryStep \/ CommandFails
    \/ RelayListens \/ RelayDies \/ Signal \/ KillContainer

\* restart: unless-stopped; the script runs; socat comes up or dies.
EntryFairness ==
    /\ WF_entryVars(StartContainer)
    /\ WF_entryVars(EntryStep)
    /\ WF_entryVars(RelayListens)

EntrySpec == EntryInit /\ [][EntryNext]_entryVars /\ EntryFairness

-----------------------------------------------------------------------------
\* What a process of the namespace can send to.
Reachable == IF policies.v4 = "accept" THEN {"anything"} ELSE accepted

(* "The shared nginx namespace then has no interval with general           *)
(* LAN/Internet egress": from the first lookup on, and whichever command   *)
(* fails or signal arrives, nothing but the allowlist can be reached, and  *)
(* once the tunnel is up not even a resolver.                              *)
TunnelConfined ==
    lockdown = "true" =>
        /\ boot = "running" /\ Command \in {"resolve", "socat", "probe", "up"} =>
             "anything" \notin Reachable /\ policies.v6 # "accept"
        /\ tunnel =>
             /\ Reachable \subseteq {"127.0.0.1", "replies", "endpoint", "upstream", "controller"}
             /\ policies.v6 # "accept"
             /\ "upstream" \in accepted

(* "If socat dies the namespace is broken: exit non-zero": a tunnel whose  *)
(* relay is dead, or never listened, does not stay up.                     *)
RelayDeathFailsClosed ==
    lockdown = "true" /\ tunnel /\ relay # "listening" ~> ~tunnel

(* "A trapped signal must terminate the entrypoint explicitly; otherwise   *)
(* the handler returns into the supervision loop and Docker has to SIGKILL *)
(* PID 1."                                                                 *)
SignalEndsContainer == signalled ~> boot = "off"
=============================================================================
