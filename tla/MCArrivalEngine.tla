--------------------------- MODULE MCArrivalEngine ---------------------------
(* A small instance of ArrivalEngine for TLC: three calls over requests of   *)
(* up to six tokens: two anchors that share a scaffold, the scaffold without *)
(* an anchor, and neither.                                                   *)
EXTENDS ArrivalEngine, TLC

CONSTANTS c1, c2, c3

a1 == <<"a1">>
a2 == <<"a2">>
sc == <<"scaffold", "", "2">>
k1 == <<"k1">>
r1 == <<"r1">>
r2 == <<"r2">>

MCWords == {"kvmat", "anchor", "case", "recompute", "request",
            "a1", "a2", "scaffold", "", "2", "k1", "r1", "r2"}
MCAnchors == {a1, a2, sc}
MCCases == {k1}
MCRequestIds == {r1, r2}

Sub(id, primary, scaffold, case, shared, output, tokens) ==
    [id |-> id, primary |-> primary, correlation |-> None, scaffold |-> scaffold,
     case |-> case, sharedPrefix |-> shared, turnHeader |-> Absent,
     prompt |-> Len(tokens) - output, output |-> output, tokens |-> tokens]

MCSubmissions ==
    { Sub(r1, a1, sc, k1, 5, 1, <<1, 1, 2, 2, 3, 3>>),
      Sub(r2, a2, sc, k1, 4, 0, <<1, 1, 2, 2, 4>>),
      Sub(r1, None, None, k1, 4, 0, <<1, 1, 2, 2>>),
      Sub(r2, None, sc, k1, 4, 0, <<1, 1, 2, 2>>),
      Sub(r2, None, None, None, 3, 2, <<1, 1, 2, 2, 3>>) }

Env(mode, log, serial, host) ==
    [mode |-> mode, seam |-> "segmented", block |-> 2, floor |-> 2,
     log |-> log, serial |-> serial, host |-> host]

MCEnvironments ==
    { Env("controller", FALSE, TRUE, "native"),
      Env("always_full_reuse", TRUE, TRUE, "native"),
      Env("always_recompute", TRUE, TRUE, "school") }

CallSymmetry == Permutations(Calls)
=============================================================================
