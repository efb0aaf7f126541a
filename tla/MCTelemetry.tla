---------------------------- MODULE MCTelemetry ----------------------------
(* The ingestion with its two subjects beside each other: the entries of   *)
(* the log, while no peer shakes hands again, and the peers, while nobody  *)
(* visits.  A behaviour is one of one subject, so that their states add up *)
(* and do not multiply.                                                    *)
EXTENDS Telemetry

CONSTANT LogTime  \* bound: time, in the behaviours about the log

VARIABLE subject

subjectVars == <<vars, subject>>

OfLog == subject = "log" /\ UNCHANGED shook /\ clock' <= LogTime
OfPeers == subject = "peers" /\ UNCHANGED <<log, life>>

SubjectInit == Init /\ subject \in {"log", "peers"}

SubjectNext ==
    /\ Next
    /\ OfLog \/ OfPeers
    /\ UNCHANGED subject

\* FairSpec, for either subject.
SubjectSpec ==
    /\ SubjectInit /\ [][SubjectNext]_subjectVars
    /\ WF_subjectVars(Cycle /\ UNCHANGED subject)
=============================================================================
