------------------------------ MODULE MCG0Gate ------------------------------
(* A small instance of G0Gate for TLC: two cells, three repeats, three of    *)
(* the seven arms, one frontier budget.                                      *)
EXTENDS G0Gate

MCWorkloads == <<"burstgpt", "servegen">>
MCIntensities == <<"high">>
MCArms == <<NoControl, "request_token_bucket", Oracle>>
MCBudgets == <<8>>

Runs3(p95s, goodputs, pressure) ==
    [r \in 1 .. 3 |-> [p95 |-> p95s[r], goodput |-> goodputs[r], pressure |-> pressure]]

All(x) == <<x, x, x>>

\* What a cell measures: the oracle's latencies and goodput, the cap's latency
\* and the pressure without control.
Cell(oracle, goodputs, cap, pressure) ==
    [arm \in ArmSet |->
       CASE arm = NoControl -> Runs3(All(1000), All(1000), pressure)
         [] arm = Oracle -> Runs3(oracle, goodputs, <<50, 100, 700>>)
         [] OTHER -> Runs3(All(cap), All(1000), pressure)]

High == <<120, 90, 700>>
Good == Cell(<<800, 990, 905>>, All(970), 995, High)      \* two of three repeats regress
Weak == Cell(<<800, 995, 920>>, All(970), 995, High)      \* one of three does
Uneven == Cell(<<800, 990, 905>>, <<900, 949, 1100>>, 995, High) \* loses more than gains
Edge == Cell(<<800, 990, 905>>, <<900, 950, 1100>>, 995, High)   \* just does not
Capped == Cell(<<900, 900, 900>>, All(970), 905, High)    \* the cap does as well
Idle == Cell(<<800, 800, 800>>, All(970), 995, <<52, 100, 700>>) \* no counter explains it

Flat == Cell(<<1000, 1000, 1000>>, All(1000), 1000, High)
Steep == Cell(<<800, 1000, 800>>, All(1000), 1000, High)

World(a, b, low) ==
    [c \in Cells \cup Controls |->
       IF c[2] = LowControl THEN (IF c[1] = "burstgpt" THEN Flat ELSE low)
       ELSE IF c[1] = "burstgpt" THEN a ELSE b]

MCMeasurements ==
    {World(Good, b, Flat) : b \in {Good, Weak, Uneven, Edge, Capped}}
      \cup {World(a, Good, Flat) : a \in {Weak, Idle}}
      \cup {World(Good, Good, Steep)}

\* The one world in which only a missing signal could speak against a Go.
MCFavourable == {World(Good, Good, Flat)}
=============================================================================
