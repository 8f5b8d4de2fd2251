---------------------------- MODULE ArrivalEngine ----------------------------
(***************************************************************************)
(* The arrival controller composed with the prefix cache that realizes its *)
(* plans.  The cache lives in the engine outside this repository; it is    *)
(* modelled from what the repository's tests and README require of it:     *)
(* blocks are found by a hash chain rooted in the request's salt, a        *)
(* partial plan caps lookup and commit at its aligned boundary and hashes  *)
(* its tail under the tail salt, a native recompute bypasses both, and     *)
(* full reuse caps neither.  On the School host only the salt reaches the  *)
(* engine.                                                                 *)
(***************************************************************************)
EXTENDS ArrivalControl

CONSTANTS
    EngineBlock,   \* the engine's hash block size
    MaxEvictions   \* bound on evictions, for model checking only

ASSUME EngineBlockAssumption == EngineBlock \in Nat \ {0}
\* A configured block size is the engine's own.
ASSUME SameBlockAssumption == \A e \in Environments : e.block \in {0, EngineBlock}
\* s.tokens is the prompt followed by what the engine will generate.
ASSUME TokensAssumption == \A s \in Submissions :
    s.tokens \in Seq(Nat) /\ Len(s.tokens) = s.prompt + s.output
ASSUME MaxEvictionsAssumption == MaxEvictions \in Nat

VARIABLES
    stage,      \* where each answered call is in the engine
    cache,      \* cached blocks, each named by its hash chain and its writer
    hits,       \* the blocks each call reused
    evictions   \* how many blocks were evicted

engineVars == <<stage, cache, hits, evictions>>
allVars == <<vars, engineVars>>

EngineInit ==
    /\ Init
    /\ stage = [c \in Calls |-> "waiting"]
    /\ cache = {}
    /\ hits = [c \in Calls |-> {}]
    /\ evictions = 0

\* The hash chain of the i-th full block of a call: rooted in its salt, and
\* past a partial boundary restarted under the tail salt.
BlockKey(c, i) ==
    LET tokens == local[c].sub.tokens
        end == i * EngineBlock
        p == plan[c]
    IN  IF p.effective = "partial_reuse" /\ end > p.reuse
        THEN [root |-> p.tailSalt, chain |-> SubSeq(tokens, p.reuse + 1, end)]
        ELSE [root |-> p.salt, chain |-> SubSeq(tokens, 1, end)]

\* How many of a call's tokens, out of n, may be looked up or committed.
CacheableTokens(c, n) ==
    IF plan[c].effective = "partial_reuse" THEN Lesser(plan[c].reuse, n)
    ELSE IF plan[c].effective = "recompute" /\ env.host = "native" THEN 0
    ELSE n

FullBlocks(c, n) == 1 .. CacheableTokens(c, n) \div EngineBlock

Found(c, i) == {b \in cache : b.key = BlockKey(c, i)}

\* get_computed_blocks: the longest run of cached blocks from the first.
Schedule(c) ==
    LET blocks == FullBlocks(c, local[c].sub.prompt)
        run == {i \in blocks : \A j \in 1 .. i : Found(c, j) # {}}
    IN
    /\ pc[c] = "answered"
    /\ stage[c] = "waiting"
    /\ stage' = [stage EXCEPT ![c] = "running"]
    /\ hits' = [hits EXCEPT ![c] = UNION {Found(c, i) : i \in run}]
    /\ UNCHANGED <<vars, cache, evictions>>

\* Mutant: a block is committed again although its chain is cached.
FinishTwice(c) ==
    LET s == local[c].sub IN
    /\ stage[c] = "running"
    /\ stage' = [stage EXCEPT ![c] = "finished"]
    /\ cache' = cache \cup {[key |-> BlockKey(c, i), by |-> c] :
                            i \in FullBlocks(c, s.prompt + s.output)}
    /\ UNCHANGED <<vars, hits, evictions>>

\* cache_blocks over the prompt and the generated tokens; a block already
\* cached under the same chain is kept.
Finish(c) ==
    LET s == local[c].sub
        fresh == {i \in FullBlocks(c, s.prompt + s.output) : Found(c, i) = {}}
    IN
    /\ stage[c] = "running"
    /\ stage' = [stage EXCEPT ![c] = "finished"]
    /\ cache' = cache \cup {[key |-> BlockKey(c, i), by |-> c] : i \in fresh}
    /\ UNCHANGED <<vars, hits, evictions>>

Evict(b) ==
    /\ evictions < MaxEvictions
    /\ cache' = cache \ {b}
    /\ evictions' = evictions + 1
    /\ UNCHANGED <<vars, stage, hits>>

EngineNext ==
    \/ Next /\ UNCHANGED engineVars
    \/ \E c \in Calls : Schedule(c) \/ Finish(c)
    \/ \E b \in cache : Evict(b)

EngineSpec == EngineInit /\ [][EngineNext]_allVars

-----------------------------------------------------------------------------
(* Properties.                                                             *)

EngineTypeOK ==
    /\ stage \in [Calls -> {"waiting", "running", "finished"}]
    /\ \A b \in cache : b.by \in Calls /\ b.key.root \in Salts
    /\ \A c \in Calls : stage[c] # "waiting" => pc[c] = "answered"
    /\ \A b, d \in cache : b.key = d.key => b = d
    /\ evictions \in 0 .. MaxEvictions

\* A call whose effective action is recompute reuses nothing: on a native host
\* because it bypasses the cache, and on the School host, where only the salt
\* reaches the engine, because no earlier call, not even one for the same
\* client request, wrote in its namespace.
RecomputeReusesNothing == \A c \in Planned :
    plan[c].effective = "recompute" => hits[c] = {}

\* The names a request may share cached blocks under.  A scaffold alone does
\* not replace the anchor: reused in full, such a request falls back to its case.
Identities(s) == ({AnchorOf(s), s.scaffold} \ {None})
                   \cup (IF AnchorOf(s) = None THEN {s.case} ELSE {})

\* Blocks travel only between requests that name a common anchor or scaffold,
\* or that have no anchor and name the same case (or both name none).
ReuseWithinIdentity == \A c \in Planned : \A b \in hits[c] :
    LET mine == local[c].sub
        theirs == local[b.by].sub
    IN  Identities(mine) \cap Identities(theirs) # {}

\* When observations are logged, whatever the engine ran had been logged before.
EngineRunsOnlyLogged == \A c \in Calls : stage[c] # "waiting" /\ env.log => c \in logged
=============================================================================
