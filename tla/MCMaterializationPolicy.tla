------------------------ MODULE MCMaterializationPolicy ------------------------
(* A grid of requests for TLC: prefixes around the floors and around the step  *)
(* of 64 tokens, links from free to prohibitive.                               *)
EXTENDS MaterializationPolicy

MCSignals ==
    [total : {0, 1, 4, 7, 31, 140}, transfer : {0, 29, 60, 130, 400},
     recompute : {0, 40, 120, 300}, pressure : {0, 7}, sensitive : BOOLEAN,
     confidence : {0, 5, 14, 19}]

\* No product of these inputs is an exact half, where binary floating point and
\* exact arithmetic could round a confident prefix differently.
ASSUME RoundingAssumption ==
    \A s \in MCSignals : (s.total * ConfidentRatio(s)) % 1000 # 500
=============================================================================
