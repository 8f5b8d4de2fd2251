--------------------------- MODULE BundleValidator ---------------------------
(***************************************************************************)
(* validate_online_bundle.py: when the evidence of one lifecycle is valid. *)
(* A bundle is a record of what its files say:                             *)
(*   files         names present          rows      request_results.jsonl  *)
(*   summary       request_summary.json   observations, lookups, commits   *)
(*   labels        evidence labels of environment and run manifest         *)
(*   fingerprint   of the protocol        dirty     a worktree was dirty   *)
(*   status, mode  of run_manifest.json   cleanup   of cleanup.json        *)
(*   graph         server.log proved graph mode                            *)
(* The lines of a .jsonl file are a set; the field by tells lines apart    *)
(* that are otherwise equal, and no check reads it.                        *)
(***************************************************************************)
EXTENDS Integers, FiniteSets

CONSTANTS
    Absent,     \* a field or a file that is not there
    M2Labels    \* M2_EVIDENCE_LABELS

RequiredFiles ==
    {"environment_manifest", "run_manifest", "request_summary", "request_results",
     "runtime_observations", "runtime_events", "server_log", "client_log", "cleanup"}

Modes == {"controller", "always_recompute", "always_full_reuse"}

\* round(num / den) to the even neighbour on ties.
RoundedQuotient(num, den) ==
    LET k == num \div den
        r == num % den
    IN  IF 2 * r < den \/ (2 * r = den /\ k % 2 = 0) THEN k ELSE k + 1

\* request_percentile of a function with numeric values; 0 of an empty one.
Percentile(f, q) ==
    LET index == RoundedQuotient(q * (Cardinality(DOMAIN f) - 1), 100)
        below(v) == Cardinality({k \in DOMAIN f : f[k] < v})
        upTo(v) == Cardinality({k \in DOMAIN f : f[k] <= v})
    IN  IF DOMAIN f = {} THEN 0
        ELSE CHOOSE v \in {f[k] : k \in DOMAIN f} : below(v) <= index /\ index < upTo(v)

Ok(rows) == {row \in rows : row.ok}

\* What a summary of these rows says; means are left to the percentiles.
SummaryOf(rows) ==
    LET timed == {row \in Ok(rows) : row.ttft # Absent} IN
    [requests |-> Cardinality(rows), completed |-> Cardinality(Ok(rows)),
     failures |-> rows \ Ok(rows),
     p95latency |-> Percentile([row \in Ok(rows) |-> row.latency], 95),
     p95ttft |-> Percentile([row \in timed |-> row.ttft], 95)]

FilesPresent(b) == RequiredFiles \subseteq b.files

SummaryRecomputes(b) == b.summary = SummaryOf(b.rows)

RequestIds(b) == {row.id : row \in b.rows}

IdsAgree(b) ==
    /\ Cardinality(RequestIds(b)) = Cardinality(b.rows)
    /\ RequestIds(b) = {o.id : o \in b.observations}

FirstTokens(b) == \A row \in Ok(b.rows) : row.ttft # Absent

LookupsOf(b, id) == {l \in b.lookups : l.id = id}

\* Mutant: a second lookup of a request is taken for a repeated event.
LookedUpAtLeastOnce(b) ==
    /\ \A e \in b.lookups \cup b.commits : e.id \in RequestIds(b)
    /\ \A id \in RequestIds(b) :
         LookupsOf(b, id) # {} /\ \E c \in b.commits : c.id = id

LookedUpOnce(b) ==
    /\ \A e \in b.lookups \cup b.commits : e.id \in RequestIds(b)
    /\ \A id \in RequestIds(b) :
         Cardinality(LookupsOf(b, id)) = 1 /\ \E c \in b.commits : c.id = id

Realized(l) == CASE l.reused = 0 -> "recompute"
                 [] l.reused # 0 /\ l.recomputed = 0 -> "full_reuse"
                 [] OTHER -> "partial_reuse"

\* One lookup against the observation of its request: the counters close, and
\* the engine applied the plan (decision, effective decision, reason, target)
\* that the controller logged.
Closes(l, o) ==
    /\ l.prompt = o.prompt
    /\ l.reused >= 0 /\ l.recomputed >= 0
    /\ l.reused + l.recomputed = l.prompt
    /\ l.plan = o.plan
    /\ l.reused % l.block = 0
    /\ l.realized = Realized(l)

\* observations_by_id keeps one line per request.
AccountingCloses(b) ==
    \A l \in b.lookups : \E o \in b.observations : o.id = l.id /\ Closes(l, o)

LabelsAgree(b, label) ==
    /\ Cardinality(b.labels) = 1
    /\ Absent \notin b.labels
    /\ label # Absent => b.labels = {label}

CleanStart(b) == b.fingerprint # Absent /\ ~b.dirty

\* Mutant: the device is not asked for after the server stopped.
PortReleased(b) == b.cleanup.port
ReleasedAfter(b) == b.cleanup.port /\ b.cleanup.device

IsM2(b, label) == label \in M2Labels \/ b.labels \subseteq M2Labels
ModesAgree(b) == b.mode \in Modes /\ {o.mode : o \in b.observations} = {b.mode}

Valid(b, label, partialRequired) ==
    /\ FilesPresent(b)
    /\ SummaryRecomputes(b)
    /\ IdsAgree(b)
    /\ FirstTokens(b)
    /\ LookedUpOnce(b)
    /\ AccountingCloses(b)
    /\ LabelsAgree(b, label)
    /\ CleanStart(b)
    /\ b.status = "completed"
    /\ ReleasedAfter(b)
    /\ b.graph
    /\ partialRequired => \E l \in b.lookups : l.realized = "partial_reuse"
    /\ IsM2(b, label) => ModesAgree(b)
=============================================================================
