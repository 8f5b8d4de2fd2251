----------------------------- MODULE RunContract -----------------------------
(***************************************************************************)
(* How one run of the lifecycle runner may come to its outcome: it takes   *)
(* its records through a fixed order and ends with one of RunOutcome.  A   *)
(* killed run leaves whatever it had written.                              *)
(***************************************************************************)
EXTENDS RunOutcome

CONSTANTS Runs

VARIABLES
    phase,    \* idle, active, over or killed
    record    \* the records of each run

contractVars == <<phase, record>>

\* Records are only added: a verdict is written once and a file stays.
Follows(o, p) ==
    /\ o.status # p.status =>
         <<o.status, p.status>> \in {<<"none", "starting">>, <<"starting", "completed">>,
                                     <<"starting", "failed">>}
    /\ o.blocked => p.blocked
    /\ o.failed => p.failed
    /\ o.cleaned => p.cleaned

ContractInit ==
    /\ phase = [r \in Runs |-> "idle"]
    /\ record = [r \in Runs |-> Empty]

Begin(r) ==
    /\ phase[r] = "idle"
    /\ phase' = [phase EXCEPT ![r] = "active"]
    /\ UNCHANGED record

Note(r) ==
    /\ phase[r] = "active"
    /\ \E o \in Records :
         /\ Follows(record[r], o)
         /\ o.rc = NoCode
         /\ record' = [record EXCEPT ![r] = o]
    /\ UNCHANGED phase

\* A run that refuses its bundle directory ends without having begun.
End(r) ==
    /\ phase[r] \in {"idle", "active"}
    /\ \E o \in Records :
         /\ Follows(record[r], o)
         /\ Final(o)
         /\ phase[r] = "idle" => o = [Empty EXCEPT !.rc = 1]
         /\ record' = [record EXCEPT ![r] = o]
    /\ phase' = [phase EXCEPT ![r] = "over"]

Kill(r) ==
    /\ phase[r] = "active"
    /\ phase' = [phase EXCEPT ![r] = "killed"]
    /\ UNCHANGED record

ContractNext == \E r \in Runs : Begin(r) \/ Note(r) \/ End(r) \/ Kill(r)

ContractSpec == ContractInit /\ [][ContractNext]_contractVars
=============================================================================
