--------------------------- MODULE MCArrivalControl ---------------------------
(* Small instances of ArrivalControl for TLC. *)
EXTENDS ArrivalControl, TLC

CONSTANTS c1, c2, c3

\* The anchor a2 with the id r3 and the anchor a1 with the id xr3 are joined to
\* the same name.
a1 == <<"a1">>
a2 == <<"a1", "x">>
k1 == <<"k1">>
r1 == <<"r1">>
r2 == <<"r2">>
r3 == <<"r3">>
xr3 == <<"x", "r3">>

MCWords == {"kvmat", "anchor", "case", "recompute", "request",
            "a1", "x", "k1", "r1", "r2", "r3"}
MCAnchors == {a1, a2}
MCCases == {k1}
MCRequestIds == {r1, r2, r3, xr3}

Sub(id, primary, correlation, scaffold, case, shared, turn, prompt, output) ==
    [id |-> id, primary |-> primary, correlation |-> correlation, scaffold |-> scaffold,
     case |-> case, sharedPrefix |-> shared, turnHeader |-> turn,
     prompt |-> prompt, output |-> output]

\* A session on a1 that grows, by primary anchor and by correlation id; an
\* explicit prefix longer than its prompt; a request with no identity at all,
\* one with only a case, and one on a2 with its own turn header.
MCSubmissions ==
    { Sub(r1, a1, None, a2, k1, Absent, Absent, 4, 2),
      Sub(r2, None, a1, None, None, Absent, Absent, 7, 1),
      Sub(xr3, a1, None, None, None, 9, Absent, 6, 0),
      Sub(r1, None, None, None, None, 5, Absent, 5, 1),
      Sub(r3, a2, None, a2, k1, Absent, 3, 5, 1) }

Env(mode, seam, block, floor, log, serial, host) ==
    [mode |-> mode, seam |-> seam, block |-> block, floor |-> floor,
     log |-> log, serial |-> serial, host |-> host]

MCEnvironments ==
    { Env("controller", "segmented", 2, 3, FALSE, FALSE, "native"),
      Env("controller", "segmented", 2, 1, FALSE, TRUE, "native"),
      Env("controller", "segmented", 4, 2, FALSE, TRUE, "native"),
      Env("controller", "segmented", 0, 3, TRUE, TRUE, "school"),
      Env("controller", "old", 2, 2, FALSE, TRUE, "native"),
      Env("always_full_reuse", "segmented", 2, 2, TRUE, FALSE, "native"),
      Env("always_recompute", "segmented", 2, 2, TRUE, TRUE, "school"),
      Env("misspelt", "segmented", 2, 2, FALSE, FALSE, "native") }

CallSymmetry == Permutations(Calls)
=============================================================================
