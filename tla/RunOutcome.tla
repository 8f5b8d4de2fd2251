------------------------------ MODULE RunOutcome ------------------------------
(***************************************************************************)
(* What a suite may rely on of one run of the lifecycle runner: its exit   *)
(* code together with the records it leaves in its bundle.                 *)
(*   status   of run_manifest.json     blocked, failed   the two .txt files*)
(*   cleaned  cleanup.json is there    rc                the exit code     *)
(***************************************************************************)
EXTENDS Integers

CONSTANT NoCode   \* the run has not exited, or died of a signal

ASSUME NoCodeAssumption == NoCode \notin {0, 1, 3}

Records ==
    [status : {"none", "starting", "completed", "failed"}, blocked : BOOLEAN,
     failed : BOOLEAN, cleaned : BOOLEAN, rc : {NoCode, 0, 1, 3}]

Empty == [status |-> "none", blocked |-> FALSE, failed |-> FALSE,
          cleaned |-> FALSE, rc |-> NoCode]

\* Exit code 0 vouches for a completed and cleaned run, 3 for one that never
\* started a server, and a run that exits 1 after its cleanup says that it failed.
Final(o) ==
    \/ o.rc = 0 /\ o.status = "completed" /\ o.cleaned /\ ~o.failed /\ ~o.blocked
    \/ o.rc = 3 /\ o.status = "none" /\ o.cleaned /\ o.blocked /\ ~o.failed
    \/ o.rc = 1 /\ ~o.blocked /\ (o.cleaned => o.failed /\ o.status \in {"none", "failed"})
=============================================================================
