----------------------------- MODULE MCUtilities -----------------------------
(* The programs that run by themselves, each of them whole: the helper for  *)
(* upload requests, the entrypoint of the WireGuard container and the       *)
(* benchmark.  A behaviour is one of one program, so that their states add  *)
(* up.                                                                      *)
EXTENDS UploadRequests, TunnelBoot, Benchmark

VARIABLE program  \* the program that moves

utilityVars == <<uploadVars, entryVars, benchVars, program>>

SomeLevels == {<<1>>, <<1, 2>>, <<2, 1>>, <<0>>, <<33>>, <<>>}

OneArgs == [levels |-> <<>>, duration |-> 10, cooldown |-> 0, original |-> TRUE]

Moves(p, A, rest) == program = p /\ A /\ UNCHANGED <<rest, program>>
OfUpload(A) == Moves("upload", A, <<entryVars, benchVars>>)
OfTunnel(A) == Moves("tunnel", A, <<uploadVars, benchVars>>)
OfBenchmark(A) == Moves("benchmark", A, <<uploadVars, entryVars>>)

UtilityInit ==
    /\ program \in {"upload", "tunnel", "benchmark"}
    /\ UploadInit /\ EntryInit /\ BenchInit
    /\ program # "tunnel" => lockdown = "true"
    /\ program # "benchmark" => args = OneArgs

\* The benchmark ends; the other two do not.
BenchmarkEnded == program = "benchmark" /\ stage = "exited" /\ UNCHANGED utilityVars

UtilityNext ==
    \/ OfUpload(UploadNext)
    \/ OfTunnel(EntryNext)
    \/ OfBenchmark(BenchNext)
    \/ BenchmarkEnded

\* EntryFairness, for the program that moves.
UtilitySpec ==
    /\ UtilityInit /\ [][UtilityNext]_utilityVars
    /\ WF_utilityVars(OfTunnel(StartContainer)) /\ WF_utilityVars(OfTunnel(EntryStep))
    /\ WF_utilityVars(OfTunnel(RelayListens))
==============================================================================
