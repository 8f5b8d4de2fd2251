---------------------------- MODULE MCSuiteRunner ----------------------------
(***************************************************************************)
(* Every runner with the schedule of the code; the pilot with a shard of   *)
(* three candidates and with an empty shard.  Rounds are measured from a   *)
(* handful of rows.                                                        *)
(***************************************************************************)
EXTENDS SuiteRunner, TLC

MCCandidates == <<"session_affine", "bursty", "rag_followup", "doc_analysis", "coding">>

MCSuites ==
    {FormalRunner, BoundaryRunner, PilotRunner(MCCandidates, 0, 2),
     PilotRunner(<<"pipeline", "sharegpt">>, 2, 3), AnchorRunner,
     SignificanceRunner("multi_turn_support_chat"), PairedRunner}

Values(recompute, reuse, controller) ==
    [p \in {Policies[k] : k \in 1 .. 3} |->
       CASE p = "always_recompute" -> recompute
         [] p = "always_full_reuse" -> reuse
         [] OTHER -> controller]

TtftRows == {Values(90, 90, 90), Values(90, 120, 60), Values(120, 90, 91), Values(90, 72, 80),
             Values(90, 90, 85)}

ProtocolSymmetry == Permutations(Protocols)

\* Latency and throughput repeat one row in every round.
MCSamples(rounds) ==
    {[m \in Metrics |-> CASE m = "ttft" -> t
                          [] m = "e2e" -> [r \in 1 .. rounds |-> e]
                          [] OTHER -> [r \in 1 .. rounds |-> q]] :
       t \in [1 .. rounds -> TtftRows],
       e \in {Values(90, 90, 90), Values(90, 120, 96)},
       q \in {Values(90, 90, 90), Values(72, 120, 110)}}
==============================================================================
