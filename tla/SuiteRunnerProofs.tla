--------------------------- MODULE SuiteRunnerProofs ---------------------------
(***************************************************************************)
(* Machine-checked facts about the suite runners, the import of their      *)
(* suites and the verdicts drawn from them, for every shard of the pilot,  *)
(* every number of protocols, drifts and mistakes, and all measurements.   *)
(***************************************************************************)
EXTENDS SuiteRunner, FiniteSetTheorems, SequenceTheorems, WellFoundedInduction, TLAPS

Validations == {"none", "valid", "invalid"}
BundleSet == [protocol : Protocols, record : Records, validation : Validations]
CodeSet == [rc : {NoCode, 0, 1, 3}, validation : Validations]

\* What a proven bundle's records are.
ProvenRecord == [Empty EXCEPT !.status = "completed", !.cleaned = TRUE, !.rc = 0]

-----------------------------------------------------------------------------
(* Lemmas about the schedules and the outcomes of a lifecycle.             *)

\* Every suite has a length, and a ledger that does not open closed.
LEMMA SuitesOpen ==
    ASSUME NEW s \in Suites
    PROVE  /\ Len(s.schedule) \in Nat
           /\ s.opening \in {"nothing", "unfinished", "running"}
           /\ s.marks \in BOOLEAN
<1>1. Len(s.schedule) \in Nat
  BY SuitesAssumption, LenProperties
<1>2. \/ s \in {FormalRunner, BoundaryRunner, AnchorRunner, PairedRunner}
      \/ IsPilotRunner(s)
      \/ s = SignificanceRunner(s.schedule[1].workload)
  BY SuitesAssumption
<1>3. s.opening \in {"nothing", "unfinished", "running"} /\ s.marks \in BOOLEAN
  <2>1. ASSUME NEW kind, NEW schedule, s = Runner(kind, schedule)
        PROVE  s.opening = "unfinished" /\ s.marks = FALSE
    BY <2>1 DEF Runner
  <2>2. CASE s \in {BoundaryRunner, AnchorRunner} \/ IsPilotRunner(s)
             \/ s = SignificanceRunner(s.schedule[1].workload)
    <3>1. \E kind, schedule : s = Runner(kind, schedule)
      BY <2>2 DEF BoundaryRunner, AnchorRunner, IsPilotRunner, SignificanceRunner
    <3> QED BY <2>1, <3>1
  <2>3. CASE s = FormalRunner
    BY <2>3 DEF FormalRunner, Runner
  <2>4. CASE s = PairedRunner
    BY <2>4 DEF PairedRunner, Runner
  <2> QED BY <1>2, <2>2, <2>3, <2>4
<1> QED BY <1>1, <1>3

\* A lifecycle that exited 0 left the records of a proven bundle, one that
\* exited 3 none at all, and one that died exited with neither.
LEMMA LifecycleOutcomes ==
    ASSUME NEW o \in Outcomes \cup Deaths
    PROVE  /\ o \in Records
           /\ o.rc = 0 => o = ProvenRecord
           /\ o.rc = 3 => o.status = "none"
<1>1. CASE o \in Outcomes
  <2>1. o \in Records /\ Final(o)
    BY <1>1 DEF Outcomes
  <2>2. o.rc = 3 => o.status = "none"
    BY <2>1 DEF Final
  <2>3. ASSUME o.rc = 0 PROVE o = ProvenRecord
    <3>1. /\ o.status = "completed" /\ o.cleaned = TRUE /\ o.failed = FALSE
          /\ o.blocked = FALSE /\ o.rc = 0
      BY <2>1, <2>3 DEF Final, Records
    <3>2. o = [status |-> o.status, blocked |-> o.blocked, failed |-> o.failed,
               cleaned |-> o.cleaned, rc |-> o.rc]
      BY <2>1 DEF Records
    <3>3. ProvenRecord = [status |-> "completed", blocked |-> FALSE, failed |-> FALSE,
                          cleaned |-> TRUE, rc |-> 0]
      <4>1. ProvenRecord \in [status : {"completed"}, blocked : {FALSE}, failed : {FALSE},
                              cleaned : {TRUE}, rc : {0}]
        BY DEF ProvenRecord, Empty
      <4> QED BY <4>1
    <3> QED BY <3>1, <3>2, <3>3
  <2> QED BY <2>1, <2>2, <2>3
<1>2. CASE o \in Deaths
  <2>1. PICK t \in {"none", "starting", "completed", "failed"} : o = [Empty EXCEPT !.status = t]
    BY <1>2 DEF Deaths
  <2> QED BY <2>1, NoCodeAssumption DEF Empty, Records
<1> QED BY <1>1, <1>2

-----------------------------------------------------------------------------
(* The runner.                                                             *)

RunnerTypes ==
    /\ suite \in Suites
    /\ protocol \in Protocols
    /\ stage \in {"idle", "ready", "running", "validating", "recording", "closing", "over", "killed"}
    /\ bundles \in Seq(BundleSet)
    /\ ledger = [status |-> ledger.status, runs |-> ledger.runs]
    /\ ledger.runs \in Seq(CodeSet)
    /\ code \in {NoCode, 0, 1}

\* The ledger copies the codes, and every bundle but the last is proven.
LedgerCopies ==
    /\ \A i \in 1 .. Ledgered : ledger.runs[i] = Codes(bundles[i])
    /\ \A i \in 1 .. Last - 1 : Proven(i)

\* What the codes of the last bundle stand for once they are in.
CodesVouch ==
    /\ InOrder(Codes(bundles[Last])) => Proven(Last)
    /\ bundles[Last].record.rc = 3 => bundles[Last].record.status = "none"

\* How far bundles and ledger are at each stage.
SuiteByStage ==
    /\ stage = "idle" => Last = 0 /\ Ledgered = 0
    /\ stage = "ready" => Ledgered = Last /\ Last < Size /\ (Last > 0 => Proven(Last))
    /\ stage \in {"running", "validating", "recording"} => Last = Ledgered + 1 /\ Last <= Size
    /\ stage = "validating" => bundles[Last].record = ProvenRecord
    /\ stage = "recording" => CodesVouch
    /\ stage = "closing" =>
         /\ Ledgered = Last /\ Last > 0 /\ CodesVouch
         /\ InOrder(Codes(bundles[Last])) => Last = Size
    /\ stage = "over" => Ledgered = Last
    /\ stage = "killed" => Ledgered \in {Last, Last - 1}

\* The closing status and the exit code belong to a suite that is over.
ClosedTruly ==
    /\ stage # "over" => code = NoCode /\ ledger.status \notin {"completed", "blocked"}
    /\ code = 0 <=> Completed
    /\ Completed => Last = Size /\ Size > 0 /\ Proven(Last) /\ CrossChecked
    /\ ledger.status = "blocked" => bundles[Last].record.status = "none"

RunnerInv == RunnerTypes /\ LedgerCopies /\ SuiteByStage /\ ClosedTruly

LEMMA RunnerInvInit == SuiteInit => RunnerInv
<1> SUFFICES ASSUME SuiteInit PROVE RunnerInv
  OBVIOUS
<1>1. RunnerTypes
  BY EmptySeq DEF SuiteInit, RunnerTypes, NoLedger
<1>2. Last = 0 /\ Ledgered = 0
  BY EmptySeq DEF SuiteInit, Last, Ledgered, NoLedger
<1>3. LedgerCopies
  BY <1>2 DEF LedgerCopies
<1>4. SuiteByStage
  BY <1>2 DEF SuiteInit, SuiteByStage
<1>5. ClosedTruly
  BY NoCodeAssumption DEF SuiteInit, ClosedTruly, Completed, NoLedger
<1> QED BY <1>1, <1>3, <1>4, <1>5 DEF RunnerInv

\* A step that leaves bundles and ledger entries alone copies them still.
LEMMA LedgerCopiesFrame ==
    ASSUME LedgerCopies, bundles' = bundles, ledger'.runs = ledger.runs
    PROVE  /\ LedgerCopies'
           /\ Last' = Last /\ Ledgered' = Ledgered
           /\ \A i : Proven(i)' = Proven(i)
  BY DEF LedgerCopies, Last, Ledgered, Proven, Codes

\* What the types say of the numbers and the last entries.
LEMMA RunnerNumbers ==
    ASSUME RunnerTypes
    PROVE  /\ Size \in Nat /\ Last \in Nat /\ Ledgered \in Nat
           /\ \A i \in 1 .. Last : bundles[i] \in BundleSet
           /\ \A i \in 1 .. Ledgered : ledger.runs[i] \in CodeSet
  BY SuitesOpen, LenProperties, ElementOfSeq DEF RunnerTypes, Size, Last, Ledgered

LEMMA OpenKeeps == ASSUME RunnerInv, Open PROVE RunnerInv'
<1> USE DEF RunnerInv
<1>1. /\ UNCHANGED <<suite, bundles, protocol>> /\ stage = "idle"
      /\ ledger'.runs = ledger.runs
  BY DEF Open, worldVars, RunnerTypes
<1>2. Size \in Nat /\ Size' = Size /\ Last = 0 /\ Ledgered = 0
  BY <1>1, RunnerNumbers DEF SuiteByStage, Size
<1>3. /\ LedgerCopies' /\ Last' = 0 /\ Ledgered' = 0
  BY <1>1, <1>2, LedgerCopiesFrame
<1>4. \/ Size = 0 /\ stage' = "over" /\ code' = 1 /\ ledger' = ledger
      \/ /\ Size > 0 /\ stage' = "ready" /\ code' = code
         /\ \/ ledger' = ledger
            \/ ledger' = [ledger EXCEPT !.status = suite.opening] /\ suite.opening # "nothing"
  BY <1>1, <1>2 DEF Open
<1>5. suite.opening \in {"nothing", "unfinished", "running"}
  BY SuitesOpen DEF RunnerTypes
<1>6. RunnerTypes'
  BY <1>1, <1>4 DEF RunnerTypes
<1>7. SuiteByStage'
  BY <1>2, <1>3, <1>4 DEF SuiteByStage
<1>8. ClosedTruly'
  <2>1. code = NoCode /\ ledger.status \notin {"completed", "blocked"}
    BY <1>1 DEF ClosedTruly
  <2>2. ledger'.status \notin {"completed", "blocked"}
    BY <1>4, <1>5, <2>1 DEF RunnerTypes
  <2>3. code' # 0 /\ (stage' # "over" => code' = NoCode)
    BY <1>4, <2>1, NoCodeAssumption
  <2> QED BY <2>2, <2>3 DEF ClosedTruly, Completed
<1> QED BY <1>3, <1>6, <1>7, <1>8

LEMMA StartKeeps == ASSUME RunnerInv, Start PROVE RunnerInv'
<1> USE DEF RunnerInv
<1> DEFINE b == [protocol |-> protocol, record |-> Empty, validation |-> "none"]
<1>1. /\ UNCHANGED <<suite, code, ledger, protocol>>
      /\ stage = "ready" /\ stage' = "running" /\ bundles' = Append(bundles, b)
  BY DEF Start, worldVars
<1>2. b \in BundleSet
  BY DEF RunnerTypes, BundleSet, Records, Empty, Validations
<1> HIDE DEF b
<1>3. /\ bundles' \in Seq(BundleSet) /\ Last' = Last + 1
      /\ \A i \in 1 .. Last : bundles'[i] = bundles[i]
  BY <1>1, <1>2, AppendProperties DEF RunnerTypes, Last
<1>4. /\ Size \in Nat /\ Size' = Size /\ Last \in Nat
      /\ Ledgered' = Ledgered /\ Ledgered = Last /\ Last < Size
      /\ (Last > 0 => Proven(Last))
  BY <1>1, RunnerNumbers DEF SuiteByStage, Size, Ledgered
<1>5. \A i \in 1 .. Last : Proven(i)' = Proven(i) /\ Codes(bundles[i]) = Codes(bundles'[i])
  BY <1>3 DEF Proven
<1>6. RunnerTypes'
  BY <1>1, <1>3 DEF RunnerTypes
<1>7. LedgerCopies'
  <2>1. \A i \in 1 .. Ledgered : ledger'.runs[i] = Codes(bundles'[i])
    BY <1>1, <1>4, <1>5 DEF LedgerCopies
  <2>2. \A i \in 1 .. Last : Proven(i)'
    BY <1>4, <1>5 DEF LedgerCopies
  <2> QED BY <1>3, <1>4, <2>1, <2>2 DEF LedgerCopies, Codes
<1>8. SuiteByStage'
  BY <1>1, <1>3, <1>4 DEF SuiteByStage
<1>9. ClosedTruly'
  BY <1>1, NoCodeAssumption DEF ClosedTruly, Completed
<1> QED BY <1>6, <1>7, <1>8, <1>9

\* Rewriting the last bundle leaves the others, and what they stand for.
LEMMA LastRewritten ==
    ASSUME RunnerInv, Last = Ledgered + 1, NEW b \in BundleSet,
           bundles' = [bundles EXCEPT ![Last] = b], UNCHANGED <<suite, ledger>>
    PROVE  /\ bundles' \in Seq(BundleSet)
           /\ Last' = Last /\ Ledgered' = Ledgered /\ Size' = Size
           /\ bundles'[Last] = b
           /\ LedgerCopies'
<1> USE DEF RunnerInv
<1>1. Last \in Nat /\ Ledgered \in Nat /\ Last \in 1 .. Len(bundles)
  BY RunnerNumbers DEF Last
<1>2. /\ bundles' \in Seq(BundleSet) /\ Len(bundles') = Len(bundles)
      /\ \A i \in 1 .. Len(bundles) : bundles'[i] = IF i = Last THEN b ELSE bundles[i]
  BY <1>1, ExceptSeq DEF RunnerTypes
<1>3. /\ Last' = Last /\ Ledgered' = Ledgered /\ Size' = Size /\ bundles'[Last] = b
      /\ \A i \in 1 .. Last - 1 : bundles'[i] = bundles[i]
  BY <1>1, <1>2 DEF Last, Ledgered, Size
<1>4. LedgerCopies'
  BY <1>1, <1>3 DEF LedgerCopies, Proven
<1> QED BY <1>2, <1>3, <1>4

LEMMA FinishKeeps == ASSUME RunnerInv, Finish PROVE RunnerInv'
<1> USE DEF RunnerInv
<1>1. PICK o \in Outcomes \cup Deaths :
        /\ bundles' = [bundles EXCEPT ![Last].record = o]
        /\ stage' = IF o.rc = 0 THEN "validating" ELSE "recording"
  BY DEF Finish
<1>2. UNCHANGED <<suite, code, ledger, protocol>> /\ stage = "running"
  BY DEF Finish, worldVars
<1>3. /\ o \in Records
      /\ o.rc = 0 => o = ProvenRecord
      /\ o.rc = 3 => o.status = "none"
  BY LifecycleOutcomes
<1> DEFINE b == [bundles[Last] EXCEPT !.record = o]
<1>4. /\ Last = Ledgered + 1 /\ Last <= Size
      /\ Last \in 1 .. Last /\ bundles[Last] \in BundleSet
  BY <1>2, RunnerNumbers DEF SuiteByStage
<1>5. b \in BundleSet /\ b.record = o
  BY <1>3, <1>4 DEF BundleSet
<1>6. bundles' = [bundles EXCEPT ![Last] = b]
  BY <1>1
<1> HIDE DEF b
<1>7. /\ bundles' \in Seq(BundleSet)
      /\ Last' = Last /\ Ledgered' = Ledgered /\ Size' = Size
      /\ bundles'[Last] = b /\ LedgerCopies'
  BY <1>2, <1>4, <1>5, <1>6, LastRewritten
<1>8. RunnerTypes'
  BY <1>1, <1>2, <1>7 DEF RunnerTypes
<1>9. SuiteByStage'
  BY <1>1, <1>3, <1>4, <1>5, <1>7 DEF SuiteByStage, CodesVouch, InOrder, Codes
<1>10. ClosedTruly'
  BY <1>1, <1>2, NoCodeAssumption DEF ClosedTruly, Completed
<1> QED BY <1>7, <1>8, <1>9, <1>10

LEMMA ValidateKeeps == ASSUME RunnerInv, Validate PROVE RunnerInv'
<1> USE DEF RunnerInv
<1>1. PICK v \in {"valid", "invalid"} :
        bundles' = [bundles EXCEPT ![Last].validation = v,
                                   ![Last].record.failed = suite.marks /\ v = "invalid"]
  BY DEF Validate
<1>2. /\ UNCHANGED <<suite, code, ledger, protocol>>
      /\ stage = "validating" /\ stage' = "recording"
  BY DEF Validate, worldVars
<1> DEFINE f == suite.marks /\ v = "invalid"
           b == [protocol |-> bundles[Last].protocol,
                 record |-> [ProvenRecord EXCEPT !.failed = f], validation |-> v]
<1>3. /\ Last = Ledgered + 1 /\ Last <= Size
      /\ Last \in 1 .. Last /\ bundles[Last] \in BundleSet
      /\ bundles[Last].record = ProvenRecord
  BY <1>2, RunnerNumbers DEF SuiteByStage
<1>4. bundles' = [bundles EXCEPT ![Last] = b]
  <2>1. [[bundles[Last] EXCEPT !.validation = v] EXCEPT !.record.failed = f] = b
    <3>1. bundles[Last] \in [protocol : {bundles[Last].protocol}, record : {ProvenRecord},
                              validation : {bundles[Last].validation}]
      BY <1>3 DEF BundleSet
    <3>2. PICK p, w : bundles[Last] = [protocol |-> p, record |-> ProvenRecord, validation |-> w]
      BY <3>1
    <3> HIDE DEF f
    <3>3. [bundles[Last] EXCEPT !.validation = v] =
            [protocol |-> p, record |-> ProvenRecord, validation |-> v]
      BY <3>2
    <3>4. ASSUME NEW y, NEW r, y = [protocol |-> p, record |-> r, validation |-> v]
          PROVE  [y EXCEPT !.record.failed = f] =
                   [protocol |-> p, record |-> [r EXCEPT !.failed = f], validation |-> v]
      BY <3>4
    <3> QED BY <3>2, <3>3, <3>4
  <2>2. bundles' = [bundles EXCEPT ![Last] =
                     [[bundles[Last] EXCEPT !.validation = v] EXCEPT !.record.failed = f]]
    BY <1>1, <1>3, LenProperties DEF RunnerTypes, Last
  <2> QED BY <2>1, <2>2
<1>5. f \in BOOLEAN
  BY SuitesOpen DEF RunnerTypes
<1>6. /\ b \in BundleSet /\ b.record.rc = 0 /\ b.validation = v
      /\ v = "valid" => b.record = ProvenRecord
  <2>1. ProvenRecord \in Records /\ ProvenRecord.rc = 0 /\ ProvenRecord.failed = FALSE
    BY DEF ProvenRecord, Empty, Records
  <2> QED BY <1>3, <1>5, <2>1 DEF BundleSet, Records, Validations
<1> HIDE DEF b
<1>7. /\ bundles' \in Seq(BundleSet)
      /\ Last' = Last /\ Ledgered' = Ledgered /\ Size' = Size
      /\ bundles'[Last] = b /\ LedgerCopies'
  BY <1>2, <1>3, <1>4, <1>6, LastRewritten
<1>8. RunnerTypes'
  BY <1>2, <1>7 DEF RunnerTypes
<1>9. SuiteByStage'
  BY <1>2, <1>3, <1>6, <1>7
     DEF SuiteByStage, CodesVouch, InOrder, Codes, Proven, ProvenRecord
<1>10. ClosedTruly'
  BY <1>2, NoCodeAssumption DEF ClosedTruly, Completed
<1> QED BY <1>7, <1>8, <1>9, <1>10

LEMMA RecordKeeps == ASSUME RunnerInv, Record PROVE RunnerInv'
<1> USE DEF RunnerInv
<1> DEFINE c == Codes(bundles[Last])
<1>1. /\ UNCHANGED <<suite, code, bundles, protocol>> /\ stage = "recording"
      /\ ledger' = [status |-> IF ledger.status = "none" THEN "unfinished" ELSE ledger.status,
                    runs |-> Append(ledger.runs, c)]
      /\ stage' = IF InOrder(c) /\ Last < Size THEN "ready" ELSE "closing"
  BY DEF Record, worldVars
<1>2. /\ Last = Ledgered + 1 /\ Last <= Size /\ Last \in Nat /\ Ledgered \in Nat /\ Size \in Nat
      /\ bundles[Last] \in BundleSet /\ CodesVouch
  BY <1>1, RunnerNumbers DEF SuiteByStage
<1>3. c \in CodeSet
  BY <1>2 DEF BundleSet, CodeSet, Codes, Records
<1>4. /\ ledger'.runs \in Seq(CodeSet) /\ Ledgered' = Ledgered + 1
      /\ \A i \in 1 .. Ledgered : ledger'.runs[i] = ledger.runs[i]
      /\ ledger'.runs[Ledgered + 1] = c
  BY <1>1, <1>3, AppendProperties DEF RunnerTypes, Ledgered
<1>5. Last' = Last /\ Size' = Size /\ \A i : Proven(i)' = Proven(i)
  BY <1>1 DEF Last, Size, Proven
<1>6. RunnerTypes'
  BY <1>1, <1>4 DEF RunnerTypes
<1>7. LedgerCopies'
  <2>1. \A i \in 1 .. Ledgered + 1 : ledger'.runs[i] = Codes(bundles[i])
    BY <1>2, <1>4 DEF LedgerCopies
  <2>2. \A i \in 1 .. Last - 1 : Proven(i)'
    BY <1>5 DEF LedgerCopies
  <2> QED BY <1>1, <1>4, <1>5, <2>1, <2>2 DEF LedgerCopies, Codes
<1>8. CodesVouch' /\ (InOrder(c) => Proven(Last))
  BY <1>1, <1>2, <1>5 DEF CodesVouch
<1>9. SuiteByStage'
  BY <1>1, <1>2, <1>4, <1>5, <1>8 DEF SuiteByStage
<1>10. ClosedTruly'
  BY <1>1, NoCodeAssumption DEF ClosedTruly, Completed
<1> QED BY <1>6, <1>7, <1>9, <1>10

LEMMA CloseKeeps == ASSUME RunnerInv, Close PROVE RunnerInv'
<1> USE DEF RunnerInv
<1>1. /\ UNCHANGED <<suite, bundles, protocol>> /\ stage = "closing" /\ stage' = "over"
      /\ ledger' = [ledger EXCEPT !.status = ClosingStatus]
      /\ code' = IF ClosingStatus = "completed" THEN 0 ELSE 1
  BY DEF Close, worldVars
<1>2. /\ Ledgered = Last /\ Last > 0 /\ Last \in Nat /\ Size \in Nat /\ CodesVouch
      /\ InOrder(Codes(bundles[Last])) => Last = Size
  BY <1>1, RunnerNumbers DEF SuiteByStage
<1>3. ledger.runs[Ledgered] = Codes(bundles[Last])
  BY <1>2 DEF LedgerCopies
<1>4. /\ ClosingStatus \in {"blocked", "failed", "completed"}
      /\ ClosingStatus = "blocked" => bundles[Last].record.status = "none"
      /\ ClosingStatus = "completed" => Last = Size /\ Proven(Last) /\ CrossChecked
  BY <1>2, <1>3 DEF ClosingStatus, CodesVouch, InOrder, Codes
<1>5. ledger'.runs = ledger.runs /\ ledger'.status = ClosingStatus
  BY <1>1 DEF RunnerTypes
<1>6. /\ LedgerCopies' /\ Last' = Last /\ Ledgered' = Ledgered /\ Size' = Size
      /\ \A i : Proven(i)' = Proven(i)
  BY <1>1, <1>5, LedgerCopiesFrame DEF Size
<1>7. RunnerTypes'
  BY <1>1, <1>5 DEF RunnerTypes
<1>8. SuiteByStage'
  BY <1>1, <1>2, <1>6 DEF SuiteByStage
<1>9. ClosedTruly'
  BY <1>1, <1>2, <1>4, <1>5, <1>6 DEF ClosedTruly, Completed, CrossChecked
<1> QED BY <1>6, <1>7, <1>8, <1>9

LEMMA KillKeeps == ASSUME RunnerInv, Kill PROVE RunnerInv'
<1> USE DEF RunnerInv
<1>1. /\ UNCHANGED <<suite, code, ledger, bundles, protocol>> /\ stage' = "killed"
      /\ stage \in {"ready", "running", "validating", "recording", "closing"}
  BY DEF Kill, worldVars
<1>2. /\ LedgerCopies' /\ Last' = Last /\ Ledgered' = Ledgered
  BY <1>1, LedgerCopiesFrame
<1>3. Ledgered \in {Last, Last - 1}
  BY <1>1, RunnerNumbers DEF SuiteByStage
<1>4. RunnerTypes' /\ SuiteByStage'
  BY <1>1, <1>2, <1>3 DEF RunnerTypes, SuiteByStage
<1>5. ClosedTruly'
  BY <1>1, NoCodeAssumption DEF ClosedTruly, Completed
<1> QED BY <1>2, <1>4, <1>5

LEMMA OthersKeep ==
    ASSUME RunnerInv, UNCHANGED runnerVars, protocol' \in Protocols
    PROVE  RunnerInv'
<1> USE DEF RunnerInv, runnerVars
<1>1. /\ LedgerCopies' /\ Last' = Last /\ Ledgered' = Ledgered /\ Size' = Size
      /\ \A i : Proven(i)' = Proven(i)
  BY LedgerCopiesFrame DEF Size
<1>2. RunnerTypes'
  BY DEF RunnerTypes
<1>3. SuiteByStage'
  BY <1>1 DEF SuiteByStage, CodesVouch
<1>4. ClosedTruly'
  BY <1>1 DEF ClosedTruly, Completed, CrossChecked
<1> QED BY <1>1, <1>2, <1>3, <1>4

LEMMA RunnerInvNext == RunnerInv /\ [SuiteNext]_suiteVars => RunnerInv'
<1> SUFFICES ASSUME RunnerInv, [SuiteNext]_suiteVars PROVE RunnerInv'
  OBVIOUS
<1>1. CASE Drift \/ Import \/ Mistake \/ Judge \/ UNCHANGED suiteVars
  <2>1. UNCHANGED runnerVars
    BY <1>1 DEF Drift, Import, Mistake, Judge, suiteVars
  <2>2. protocol' \in Protocols
    BY <1>1 DEF Drift, Import, Mistake, Judge, suiteVars, worldVars, RunnerInv, RunnerTypes
  <2> QED BY <2>1, <2>2, OthersKeep
<1> QED BY <1>1, OpenKeeps, StartKeeps, FinishKeeps, ValidateKeeps, RecordKeeps, CloseKeeps,
           KillKeeps DEF SuiteNext

\* The runner's invariant holds in every behaviour of a suite.
THEOREM RunnerInvariant == SuiteSpec => []RunnerInv
BY RunnerInvInit, RunnerInvNext, PTL DEF SuiteSpec

\* The ledger tells what the suite ran, and its closing status and exit code
\* stand for it.
THEOREM LedgerTrue == SuiteSpec => []LedgerTellsTheSuite
<1>1. RunnerInv => LedgerTellsTheSuite
  <2> SUFFICES ASSUME RunnerInv PROVE LedgerTellsTheSuite
    OBVIOUS
  <2>1. Last \in Nat /\ Ledgered \in Nat
    BY RunnerNumbers DEF RunnerInv
  <2>2. Ledgered \in {Last, Last - 1}
    BY <2>1 DEF RunnerInv, RunnerTypes, SuiteByStage
  <2> QED BY <2>2 DEF RunnerInv, LedgerCopies, ClosedTruly, LedgerTellsTheSuite
<1> QED BY <1>1, RunnerInvariant, PTL

-----------------------------------------------------------------------------
(* The import and the aggregators.                                         *)

Names == {"always_recompute", "always_full_reuse", "controller"}

\* The sequences a schedule is laid from, as the solver needs to know them.
LEMMA Pairs ==
    ASSUME NEW S, NEW x \in S, NEW y \in S
    PROVE  <<x, y>> \in Seq(S) /\ Len(<<x, y>>) = 2 /\ <<x, y>>[1] = x
  OBVIOUS

LEMMA Triples ==
    ASSUME NEW S, NEW x \in S, NEW y \in S, NEW z \in S
    PROVE  <<x, y, z>> \in Seq(S) /\ Len(<<x, y, z>>) = 3 /\ <<x, y, z>>[1] = x
  OBVIOUS

LEMMA Joined ==
    ASSUME NEW S, NEW f \in Seq(S), NEW g \in Seq(S), Len(f) > 0
    PROVE  f \o g \in Seq(S) /\ Len(f \o g) = Len(f) + Len(g) /\ (f \o g)[1] = f[1]
<1>1. /\ f \o g \in Seq(S)
      /\ Len(f \o g) = Len(f) + Len(g)
      /\ \A i \in 1 .. Len(f) + Len(g) : (f \o g)[i] = IF i <= Len(f) THEN f[i] ELSE g[i - Len(f)]
  BY ConcatProperties
<1>2. 1 \in 1 .. Len(f) + Len(g) /\ 1 <= Len(f)
  BY LenProperties
<1> QED BY <1>1, <1>2

\* What the aggregators rely on of each runner's schedule: how many cells it
\* has, or that no two of a pilot's cells are the same run.
LEMMA ScheduleLengths ==
    ASSUME NEW s \in Suites
    PROVE  /\ s.kind \in {"formal", "boundary", "pilot", "anchor", "significance", "paired"}
           /\ s.kind = "anchor" => Len(s.schedule) = 9
           /\ s.kind = "significance" => Len(s.schedule) = 15
           /\ s.kind = "paired" => Len(s.schedule) = 2
           /\ s.kind = "pilot" => IsPilotRunner(s)
<1>1. ASSUME NEW n \in Nat, DOMAIN s.schedule = 1 .. n PROVE Len(s.schedule) = n
  <2>1. Len(s.schedule) \in Nat /\ DOMAIN s.schedule = 1 .. Len(s.schedule)
    BY SuitesAssumption, LenProperties
  <2> QED BY <1>1, <2>1
<1>2. ASSUME NEW workload, NEW orders, NEW n \in Nat, Len(orders[1]) = 3, Len(orders) = n
      PROVE  DOMAIN Laid(<<workload>>, orders) = 1 .. 3 * n
  <2>1. Len(<<workload>>) = 1
    OBVIOUS
  <2> QED BY <1>2, <2>1 DEF Laid
<1>3. Len(Policies) = 3 /\ Policies \in Seq(Names)
  <2>1. FixedPolicies \in Seq(Names) /\ Len(FixedPolicies) = 2
    BY Pairs DEF FixedPolicies, Names
  <2>2. "controller" \in Names
    BY DEF Names
  <2>3. <<"controller">> \in Seq(Names) /\ Len(<<"controller">>) = 1
    BY <2>2
  <2>4. PICK f, g : f = FixedPolicies /\ g = <<"controller">>
    OBVIOUS
  <2>5. Policies = f \o g
    BY <2>4 DEF Policies
  <2>6. f \in Seq(Names) /\ g \in Seq(Names) /\ Len(f) = 2 /\ Len(g) = 1
        /\ Len(f) > 0
    BY <2>1, <2>3, <2>4
  <2>7. f \o g \in Seq(Names) /\ Len(f \o g) = Len(f) + Len(g)
    BY <2>6, Joined, ZenonT(30)
  <2> QED BY <2>5, <2>6, <2>7
<1>4. Len(LatinOrders) = 3 /\ LatinOrders[1] = Policies /\ LatinOrders \in Seq(Seq(Names))
  <2>1. PICK S : S = Seq(Names)
    OBVIOUS
  <2>2. PICK y, z : LatinOrders = <<Policies, y, z>> /\ y \in S /\ z \in S
    BY <2>1, Triples DEF LatinOrders, Names
  <2>3. Policies \in S
    BY <1>3, <2>1
  <2> QED BY <2>1, <2>2, <2>3, Triples
<1>5. ASSUME NEW kind, NEW schedule
      PROVE  Runner(kind, schedule).kind = kind /\ Runner(kind, schedule).schedule = schedule
  BY DEF Runner
<1>6. CASE s = FormalRunner
  <2>1. s.kind = "formal"
    BY <1>6 DEF FormalRunner, Runner
  <2> QED BY <2>1
<1>7. CASE s = BoundaryRunner
  BY <1>5, <1>7 DEF BoundaryRunner
<1>8. CASE s = AnchorRunner
  <2>1. s.kind = "anchor" /\ s.schedule = AnchorSchedule
    BY <1>5, <1>8 DEF AnchorRunner
  <2>2. Len(LatinOrders[1]) = 3 /\ Len(LatinOrders) = 3
    BY <1>3, <1>4
  <2>3. DOMAIN AnchorSchedule = 1 .. 3 * 3
    BY <1>2, <2>2 DEF AnchorSchedule
  <2> QED BY <1>1, <2>1, <2>3
<1>9. CASE s = PairedRunner
  <2>1. s.kind = "paired" /\ s.schedule = PairedSchedule
    BY <1>9 DEF PairedRunner, Runner
  <2>2. DOMAIN PairedSchedule = 1 .. 2
    BY DEF PairedSchedule, Laid
  <2> QED BY <1>1, <2>1, <2>2
<1>10. CASE IsPilotRunner(s)
  BY <1>5, <1>10 DEF IsPilotRunner
<1>11. CASE s = SignificanceRunner(s.schedule[1].workload)
  <2> DEFINE more == << <<"always_recompute", "controller", "always_full_reuse">>,
                        <<"always_full_reuse", "always_recompute", "controller">> >>
  <2>1. s.kind = "significance" /\ s.schedule = SignificanceSchedule(s.schedule[1].workload)
    BY <1>5, <1>11 DEF SignificanceRunner
  <2>2. Len(more) = 2 /\ more \in Seq(Seq(Names))
    <3>1. PICK S : S = Seq(Names)
      OBVIOUS
    <3>2. PICK x, y : more = <<x, y>> /\ x \in S /\ y \in S
      BY <3>1, Triples DEF Names
    <3> HIDE DEF more
    <3> QED BY <3>1, <3>2, Pairs
  <2> HIDE DEF more
  <2>3. Len(LatinOrders \o more) = 5 /\ (LatinOrders \o more)[1] = Policies
    <3>1. PICK S : S = Seq(Names)
      OBVIOUS
    <3>2. LatinOrders \in Seq(S) /\ more \in Seq(S)
      BY <1>4, <2>2, <3>1
    <3>3. PICK f : f = LatinOrders
      OBVIOUS
    <3>4. f \in Seq(S) /\ Len(f) = 3 /\ f[1] = Policies /\ Len(f) > 0
      <4>1. f \in Seq(S) /\ Len(f) = 3 /\ f[1] = Policies
        BY <1>4, <3>2, <3>3, Zenon
      <4> QED BY <4>1
    <3>5. Len(f \o more) = Len(f) + Len(more) /\ (f \o more)[1] = f[1]
      BY <3>2, <3>4, Joined, ZenonT(30)
    <3> QED BY <2>2, <3>3, <3>4, <3>5
  <2>4. DOMAIN Laid(<<s.schedule[1].workload>>, LatinOrders \o more) = 1 .. 3 * 5
    <3>1. Len((LatinOrders \o more)[1]) = 3
      BY <1>3, <2>3
    <3> QED BY <1>2, <2>3, <3>1
  <2>5. DOMAIN s.schedule = 1 .. 15
    BY <2>1, <2>4 DEF SignificanceSchedule, more
  <2> QED BY <1>1, <2>1, <2>5
<1>12. \/ s \in {FormalRunner, BoundaryRunner, AnchorRunner, PairedRunner}
       \/ IsPilotRunner(s)
       \/ s = SignificanceRunner(s.schedule[1].workload)
  BY SuitesAssumption
<1> QED BY <1>6, <1>7, <1>8, <1>9, <1>10, <1>11, <1>12

\* Once imported, the tree holds a bundle of the suite or nothing in each
\* directory, its own as long as no mistake happened, and after one mistake at
\* most one directory holds another.
TreeInv ==
    /\ mistakes \in 0 .. MaxMistakes
    /\ tree = <<>> => mistakes = 0
    /\ tree # <<>> =>
         /\ stage \in {"over", "killed"}
         /\ Dirs = 1 .. Last /\ tree = [d \in Dirs |-> tree[d]]
         /\ \A d \in Dirs : tree[d] \in (1 .. Last) \cup {Missing}
         /\ mistakes = 0 => \A d \in Dirs : tree[d] = d
         /\ mistakes = 1 => \A d, e \in Dirs : tree[d] # d /\ tree[e] # e => d = e

LEMMA TreeInvInit == SuiteInit => TreeInv
  BY BoundsAssumption DEF SuiteInit, TreeInv

LEMMA TreeInvNext == TreeInv /\ [SuiteNext]_suiteVars => TreeInv'
<1> SUFFICES ASSUME TreeInv, [SuiteNext]_suiteVars PROVE TreeInv'
  OBVIOUS
<1>1. CASE UNCHANGED <<tree, mistakes, bundles>> /\ (tree # <<>> => stage' = stage)
  BY <1>1 DEF TreeInv, Dirs, Last
<1>2. CASE Open \/ Start \/ Finish \/ Validate \/ Record \/ Close \/ Kill
  <2>1. tree = <<>> /\ UNCHANGED <<tree, mistakes>>
    BY <1>2 DEF Open, Start, Finish, Validate, Record, Close, Kill, importVars, TreeInv
  <2> QED BY <2>1 DEF TreeInv
<1>3. CASE Drift \/ Judge \/ UNCHANGED suiteVars
  BY <1>1, <1>3 DEF Drift, Judge, suiteVars, runnerVars, importVars
<1>4. CASE Import
  <2>1. /\ stage' \in {"over", "killed"} /\ tree' = [d \in 1 .. Last |-> d]
        /\ mistakes' = mistakes /\ mistakes = 0 /\ Last' = Last
    BY <1>4 DEF Import, runnerVars, TreeInv, Last
  <2> QED BY <2>1 DEF TreeInv, Dirs
<1>5. CASE Mistake
  <2>1. /\ tree # <<>> /\ mistakes < MaxMistakes /\ mistakes' = mistakes + 1
        /\ stage' = stage /\ Last' = Last
    BY <1>5 DEF Mistake, runnerVars, Last
  <2>2. /\ mistakes' \in 0 .. MaxMistakes /\ mistakes' # 0
        /\ mistakes \in Nat /\ (mistakes' = 1 => mistakes = 0)
    BY <2>1, BoundsAssumption DEF TreeInv
  <2>3. CASE tree' = tree
    BY <2>1, <2>2, <2>3 DEF TreeInv, Dirs
  <2>4. CASE tree' # tree
    <3>1. PICK d \in Dirs, b \in (1 .. Last) \cup {Missing} : tree' = [tree EXCEPT ![d] = b]
      BY <1>5, <2>4 DEF Mistake
    <3>2. tree = [e \in Dirs |-> tree[e]] /\ Dirs = 1 .. Last
      BY <2>1 DEF TreeInv
    <3>3. /\ Dirs' = Dirs /\ tree' = [e \in Dirs |-> tree'[e]] /\ tree'[d] = b
          /\ \A e \in Dirs \ {d} : tree'[e] = tree[e]
      BY <3>1, <3>2 DEF Dirs
    <3>4. \A e \in Dirs : tree[e] \in (1 .. Last) \cup {Missing}
      BY <2>1 DEF TreeInv
    <3>5. \A e \in Dirs' : tree'[e] \in (1 .. Last') \cup {Missing}
      BY <2>1, <3>1, <3>3, <3>4
    <3>6. ASSUME mistakes' = 1, NEW x \in Dirs', NEW y \in Dirs', tree'[x] # x, tree'[y] # y
          PROVE  x = y
      <4>1. \A e \in Dirs : tree[e] = e
        BY <2>1, <2>2, <3>6 DEF TreeInv
      <4> QED BY <3>3, <3>6, <4>1
    <3>7. stage' \in {"over", "killed"} /\ Dirs' = 1 .. Last'
      BY <2>1, <3>2, <3>3 DEF TreeInv
    <3>8. tree' # <<>> =>
            /\ stage' \in {"over", "killed"}
            /\ Dirs' = 1 .. Last' /\ tree' = [e \in Dirs' |-> tree'[e]]
            /\ \A e \in Dirs' : tree'[e] \in (1 .. Last') \cup {Missing}
            /\ mistakes' = 0 => \A e \in Dirs' : tree'[e] = e
            /\ mistakes' = 1 => \A x, y \in Dirs' : tree'[x] # x /\ tree'[y] # y => x = y
      BY <2>2, <3>3, <3>5, <3>6, <3>7
    <3>9. tree' # <<>>
      <4>1. d \in DOMAIN tree'
        BY <3>1, <3>3 DEF Dirs
      <4>2. DOMAIN <<>> = {}
        OBVIOUS
      <4> QED BY <4>1, <4>2
    <3> QED BY <2>2, <3>8, <3>9 DEF TreeInv
  <2> QED BY <2>3, <2>4
<1> QED BY <1>2, <1>3, <1>4, <1>5 DEF SuiteNext

\* The imported tree is the suite's own but for the mistakes made with it.
THEOREM TreeInvariant == SuiteSpec => [](RunnerInv /\ TreeInv)
BY RunnerInvInit, RunnerInvNext, TreeInvInit, TreeInvNext, PTL DEF SuiteSpec

\* The lemma the verdict rests on: whatever the import did, what an aggregator
\* accepts has a row for each cell.
LEMMA AcceptedIsWhole ==
    ASSUME RunnerInv, TreeInv, tree # <<>>, Accepted
    PROVE  /\ Completed /\ Last = Size /\ LifecyclesDistinct
           /\ Rows = 1 .. Size
           /\ \A d \in Rows : tree[d] \in 1 .. Size
           /\ OneProtocolPerWorkload
<1>1. /\ suite \in Suites /\ Size \in Nat
      /\ suite.kind \in {"formal", "boundary", "pilot", "anchor", "significance", "paired"}
  BY ScheduleLengths, SuitesOpen DEF RunnerInv, RunnerTypes, Size
<1>2. Completed /\ LifecyclesDistinct
  BY <1>1 DEF Accepted, FormalAccepts, BoundaryAccepts, PilotAccepts, AnchorAccepts,
              SignificanceAccepts
<1>3. Last = Size /\ stage = "over" /\ CrossChecked
  BY <1>2 DEF RunnerInv, ClosedTruly, Completed
<1>4. Ledgered = Size
  BY <1>3 DEF RunnerInv, SuiteByStage
<1>5. Dirs = 1 .. Size /\ Rows \subseteq 1 .. Size
  BY <1>3 DEF TreeInv, Rows
<1>6. \A d \in Rows : tree[d] \in 1 .. Size
  BY <1>3 DEF TreeInv, Rows
<1>7. IsFiniteSet(1 .. Size) /\ Cardinality(1 .. Size) = Size
  BY <1>1, FS_Interval
<1>8. ASSUME Cardinality(Rows) = Size PROVE Rows = 1 .. Size
  BY <1>5, <1>7, <1>8, FS_Subset
<1>9. OneProtocol => OneProtocolPerWorkload
  BY DEF OneProtocol, OneProtocolPerWorkload
<1>10. CASE suite.kind \in {"formal", "boundary"}
  <2>1. LedgerInOrder /\ OneProtocolPerWorkload
    BY <1>10 DEF Accepted, FormalAccepts, BoundaryAccepts
  <2>2. Cardinality(Rows) = Size
    BY <1>4, <2>1 DEF LedgerInOrder
  <2> QED BY <1>2, <1>3, <1>6, <1>8, <2>1, <2>2
<1>11. CASE suite.kind \in {"anchor", "significance"}
  <2>1. OneProtocol /\ Cardinality(Rows) = IF suite.kind = "anchor" THEN 9 ELSE 15
    BY <1>11 DEF Accepted, AnchorAccepts, SignificanceAccepts
  <2>2. Size = IF suite.kind = "anchor" THEN 9 ELSE 15
    BY <1>1, <1>11, ScheduleLengths DEF Size
  <2> QED BY <1>2, <1>3, <1>6, <1>8, <1>9, <2>1, <2>2
<1>12. CASE suite.kind = "paired"
  <2>1. Size = 2 /\ Rows = 1 .. Size
    BY <1>1, <1>12, ScheduleLengths DEF Accepted, Size
  <2>2. bundles[1].protocol = bundles[2].protocol
    BY <1>3, <1>12 DEF CrossChecked
  <2>3. \A d \in Rows : tree[d] = 1 \/ tree[d] = 2
    BY <1>6, <2>1
  <2>4. OneProtocol
    BY <2>2, <2>3 DEF OneProtocol, ProtocolOf
  <2> QED BY <1>2, <1>3, <1>6, <1>9, <2>1, <2>4
<1>13. CASE suite.kind = "pilot"
  <2> DEFINE f == [d \in Rows |-> tree[d]]
             arms == {Policies[k] : k \in 1 .. 3}
  <2>1. PilotAccepts
    BY <1>13 DEF Accepted
  <2>2. /\ \A i, j \in DOMAIN suite.schedule :
             suite.schedule[i].workload = suite.schedule[j].workload
               /\ suite.schedule[i].arm = suite.schedule[j].arm => i = j
        /\ \A i \in DOMAIN suite.schedule : suite.schedule[i].arm \in arms
    BY <1>1, <1>13, ScheduleLengths DEF IsPilotRunner
  <2>3. DOMAIN suite.schedule = 1 .. Size
    BY <1>1, SuitesAssumption, LenProperties DEF Size
  <2>4. ASSUME NEW i \in 1 .. Size PROVE \E d \in Rows : tree[d] = i
    <3>1. PICK w, a : w = suite.schedule[i].workload /\ a = suite.schedule[i].arm
      OBVIOUS
    <3>2. a \in arms
      BY <2>2, <2>3, <3>1
    <3>3. w \in {Ran(d).workload : d \in Rows}
      BY <2>1, <3>1 DEF PilotAccepts
    <3>4. <<w, a>> \in {<<Ran(d).workload, Ran(d).arm>> : d \in Rows}
      BY <2>1, <3>2, <3>3 DEF PilotAccepts
    <3>5. PICK d \in Rows : <<w, a>> = <<Ran(d).workload, Ran(d).arm>>
      BY <3>4
    <3>6. w = suite.schedule[tree[d]].workload /\ a = suite.schedule[tree[d]].arm
      BY <3>5 DEF Ran
    <3> QED BY <1>6, <2>2, <2>3, <3>1, <3>6
  <2>5. IsFiniteSet(Rows) /\ Cardinality(Rows) <= Size
    BY <1>5, <1>7, FS_Subset
  <2>6. f \in Surjection(Rows, 1 .. Size)
    BY <1>6, <2>4 DEF Surjection
  <2>7. Cardinality(1 .. Size) <= Cardinality(Rows)
    <3> HIDE DEF f
    <3> QED BY <2>5, <2>6, FS_Surjection
  <2>8. Cardinality(Rows) = Size
    BY <1>1, <1>7, <2>5, <2>7, FS_CardinalityType
  <2> QED BY <1>2, <1>3, <1>6, <1>8, <2>1, <2>8 DEF PilotAccepts
<1> QED BY <1>1, <1>10, <1>11, <1>12, <1>13

\* A suite accepted as evidence is what its schedule says, for any number of
\* protocols, drifts and mistakes.
THEOREM AcceptedProven == SuiteSpec => []AcceptedMeansProven
<1>1. RunnerInv /\ TreeInv => AcceptedMeansProven
  <2> SUFFICES ASSUME RunnerInv, TreeInv, tree # <<>>, Accepted
               PROVE  /\ Rows = 1 .. Size
                      /\ \A d \in Rows : tree[d] \in 1 .. Size /\ Proven(tree[d])
                      /\ LifecyclesDistinct /\ OneProtocolPerWorkload
                      /\ mistakes <= 1 => \A d \in Rows : tree[d] = d
    BY DEF AcceptedMeansProven, LifecyclesDistinct, OneProtocolPerWorkload
  <2>1. /\ Completed /\ Last = Size /\ LifecyclesDistinct /\ Rows = 1 .. Size
        /\ \A d \in Rows : tree[d] \in 1 .. Size
        /\ OneProtocolPerWorkload
    BY AcceptedIsWhole
  <2>2. \A i \in 1 .. Size : Proven(i)
    <3>1. Size \in Nat /\ Proven(Size) /\ \A i \in 1 .. Size - 1 : Proven(i)
      BY <2>1, RunnerNumbers DEF RunnerInv, LedgerCopies, ClosedTruly
    <3> QED BY <3>1
  <2>3. ASSUME mistakes <= 1, NEW d \in Rows PROVE tree[d] = d
    <3>1. /\ mistakes = 0 => \A e \in Rows : tree[e] = e
          /\ mistakes = 1 => \A e, g \in Rows : tree[e] # e /\ tree[g] # g => e = g
      BY <2>1 DEF TreeInv, Rows
    <3>2. mistakes \in {0, 1}
      BY <2>3, BoundsAssumption DEF TreeInv
    <3>3. tree[d] \in Rows
      BY <2>1
    <3> QED BY <2>1, <3>1, <3>2, <3>3 DEF LifecyclesDistinct
  <2> QED BY <2>1, <2>2, <2>3
<1> QED BY <1>1, TreeInvariant, PTL

-----------------------------------------------------------------------------
(* Sums, by induction over the size of a set: the least size at which a    *)
(* fact fails has none below it.                                           *)

LEMMA Least ==
    ASSUME NEW T \in SUBSET Nat, T # {}
    PROVE  \E x \in T : \A y \in T : x <= y
<1> DEFINE R == OpToRel(<, Nat)
<1>1. IsWellFoundedOn(R, Nat)
  BY NatLessThanWellFounded, Zenon
<1>2. \A x, y \in Nat : y < x => <<y, x>> \in R
  BY DEF OpToRel
<1> HIDE DEF R
<1>3. PICK x \in T : \A y \in T : ~ (<<y, x>> \in R)
  BY <1>1, WFMin
<1>4. ASSUME NEW y \in T PROVE x <= y
  <2>1. x \in Nat /\ y \in Nat
    OBVIOUS
  <2>2. ~ (y < x)
    BY <1>2, <1>3, <2>1, Zenon
  <2> QED BY <2>1, <2>2
<1> QED BY <1>4

First(s) == CHOOSE x \in s : TRUE

\* g has the sum of d over every subset of S that D names.
SumsOver(g, d, D) ==
    g = [s \in D |-> IF s = {} THEN 0 ELSE d[First(s)] + g[s \ {First(s)}]]
Sums(d, S) == CHOOSE g : SumsOver(g, d, SUBSET S)

LEMMA SumUnfolds ==
    ASSUME NEW d
    PROVE  SumFunction(d) = Sums(d, DOMAIN d)[DOMAIN d]
  BY Zenon DEF SumFunction, SumFunctionOnSet, FoldFunctionOnSet, MapThenFoldSet, Sums, SumsOver, First

LEMMA Smaller ==
    ASSUME NEW S, IsFiniteSet(S), NEW s \in SUBSET S
    PROVE  /\ Cardinality(s) \in Nat
           /\ s # {} => First(s) \in s
           /\ \A x \in s : /\ s \ {x} \in SUBSET S
                           /\ Cardinality(s \ {x}) = Cardinality(s) - 1
                           /\ Cardinality(s) > 0
<1>1. IsFiniteSet(s)
  BY FS_Subset
<1>2. Cardinality(s) \in Nat
  BY <1>1, FS_CardinalityType
<1>3. s # {} => First(s) \in s
  BY DEF First
<1>4. ASSUME NEW x \in s
      PROVE  Cardinality(s \ {x}) = Cardinality(s) - 1 /\ Cardinality(s) > 0
  <2>1. Cardinality(s \ {x}) = Cardinality(s) - 1
    BY <1>1, FS_RemoveElement
  <2>2. Cardinality(s) # 0
    BY <1>1, FS_EmptySet
  <2> QED BY <1>2, <2>1, <2>2
<1> QED BY <1>2, <1>3, <1>4

\* The recursion is well founded, so there is such a function.
UpTo(S, n) == {s \in SUBSET S : Cardinality(s) <= n}
Reached(g, d, S, n) ==
    /\ g \in [UpTo(S, n) -> Int]
    /\ \A s \in UpTo(S, n) : g[s] = IF s = {} THEN 0 ELSE d[First(s)] + g[s \ {First(s)}]

LEMMA ReachedFirst ==
    ASSUME NEW S, IsFiniteSet(S), NEW d
    PROVE  Reached([s \in UpTo(S, 0) |-> 0], d, S, 0)
<1>1. ASSUME NEW s \in UpTo(S, 0) PROVE s = {}
  <2>1. s \in SUBSET S /\ Cardinality(s) <= 0
    BY DEF UpTo
  <2>2. \A x \in s : Cardinality(s) > 0 /\ Cardinality(s) \in Nat
    BY <2>1, Smaller, Zenon
  <2> QED BY <2>1, <2>2
<1> QED BY <1>1 DEF Reached

LEMMA ReachedNext ==
    ASSUME NEW S, IsFiniteSet(S), NEW d \in [S -> Int], NEW n \in Nat, NEW g, Reached(g, d, S, n)
    PROVE  \E h : Reached(h, d, S, n + 1)
<1> DEFINE V(s) == IF s = {} THEN 0 ELSE d[First(s)] + g[s \ {First(s)}]
           h == [s \in UpTo(S, n + 1) |-> V(s)]
<1>1. ASSUME NEW s \in UpTo(S, n + 1), s # {}
      PROVE  First(s) \in S /\ s \ {First(s)} \in UpTo(S, n)
  <2>1. s \in SUBSET S /\ Cardinality(s) <= n + 1
    BY DEF UpTo
  <2>2. First(s) \in s /\ Cardinality(s) \in Nat
    BY <1>1, <2>1, Smaller
  <2>3. s \ {First(s)} \in SUBSET S /\ Cardinality(s \ {First(s)}) = Cardinality(s) - 1
    BY <2>1, <2>2, Smaller, Zenon
  <2>4. Cardinality(s) - 1 <= n
    BY <2>1, <2>2
  <2> QED BY <2>1, <2>2, <2>3, <2>4 DEF UpTo
<1>2. ASSUME NEW s \in UpTo(S, n + 1) PROVE V(s) \in Int
  BY <1>1 DEF Reached
<1>3. ASSUME NEW s \in UpTo(S, n) PROVE h[s] = g[s]
  <2>1. s \in UpTo(S, n + 1)
    <3>1. s \in SUBSET S /\ Cardinality(s) <= n
      BY DEF UpTo
    <3>2. Cardinality(s) \in Nat
      BY <3>1, Smaller
    <3> QED BY <3>1, <3>2 DEF UpTo
  <2> QED BY <2>1 DEF Reached
<1>4. ASSUME NEW s \in UpTo(S, n + 1)
      PROVE  h[s] = IF s = {} THEN 0 ELSE d[First(s)] + h[s \ {First(s)}]
  <2>1. CASE s = {}
    BY <2>1
  <2>2. CASE s # {}
    <3>1. h[s \ {First(s)}] = g[s \ {First(s)}]
      BY <1>1, <1>3, <2>2
    <3> QED BY <2>2, <3>1
  <2> QED BY <2>1, <2>2
<1>5. h \in [UpTo(S, n + 1) -> Int]
  BY <1>2
<1> HIDE DEF h
<1> QED BY <1>4, <1>5 DEF Reached

LEMMA SumsExist ==
    ASSUME NEW S, IsFiniteSet(S), NEW d \in [S -> Int]
    PROVE  SumsOver(Sums(d, S), d, SUBSET S)
<1> DEFINE T == {n \in Nat : ~ \E g : Reached(g, d, S, n)}
<1>1. T = {}
  <2> SUFFICES ASSUME T # {} PROVE FALSE
    OBVIOUS
  <2>1. T \in SUBSET Nat
    OBVIOUS
  <2>2. PICK n \in T : \A m \in T : n <= m
    <3> HIDE DEF T
    <3> QED BY <2>1, Least
  <2>3. n # 0
    BY ReachedFirst
  <2>4. n - 1 \in Nat /\ n - 1 \notin T
    BY <2>2, <2>3
  <2>5. PICK g : Reached(g, d, S, n - 1)
    BY <2>4
  <2>6. \E h : Reached(h, d, S, (n - 1) + 1)
    BY <2>4, <2>5, ReachedNext
  <2>7. (n - 1) + 1 = n
    OBVIOUS
  <2> QED BY <2>6, <2>7
<1>2. Cardinality(S) \in Nat
  BY FS_CardinalityType
<1>3. PICK g : Reached(g, d, S, Cardinality(S))
  BY <1>1, <1>2
<1>4. UpTo(S, Cardinality(S)) = SUBSET S
  BY FS_Subset DEF UpTo
<1>5. SumsOver(g, d, SUBSET S)
  BY <1>3, <1>4 DEF Reached, SumsOver
<1>6. PICK G : G = Sums(d, S)
  OBVIOUS
<1>7. SumsOver(G, d, SUBSET S)
  BY <1>5, <1>6 DEF Sums
<1> QED BY <1>6, <1>7

\* What holds of a set as soon as it holds of all smaller ones holds of all.
LEMMA BySize ==
    ASSUME NEW S, IsFiniteSet(S), NEW P,
           \A s \in SUBSET S :
               (\A t \in SUBSET S : Cardinality(t) < Cardinality(s) => t \in P) => s \in P
    PROVE  \A s \in SUBSET S : s \in P
<1> SUFFICES ASSUME NEW u \in SUBSET S, u \notin P PROVE FALSE
  OBVIOUS
<1> DEFINE T == {Cardinality(s) : s \in {s \in SUBSET S : s \notin P}}
<1>1. \A s \in SUBSET S : Cardinality(s) \in Nat
  BY Smaller
<1>2. T \in SUBSET Nat /\ T # {}
  BY <1>1
<1>3. PICK n \in T : \A m \in T : n <= m
  <2> HIDE DEF T
  <2> QED BY <1>2, Least
<1>4. PICK s \in SUBSET S : s \notin P /\ n = Cardinality(s)
  BY <1>3
<1>5. ASSUME NEW t \in SUBSET S, Cardinality(t) < Cardinality(s) PROVE t \in P
  <2>1. Cardinality(t) \in T => n <= Cardinality(t)
    BY <1>3
  <2>2. t \notin P => Cardinality(t) \in T
    OBVIOUS
  <2>3. Cardinality(t) \in Nat /\ Cardinality(s) \in Nat
    BY <1>1
  <2> HIDE DEF T
  <2> QED BY <1>4, <1>5, <2>1, <2>2, <2>3
<1> QED BY <1>4, <1>5

LEMMA SumsOf ==
    ASSUME NEW S, IsFiniteSet(S), NEW d \in [S -> Int]
    PROVE  /\ Sums(d, S)[{}] = 0
           /\ \A s \in SUBSET S : s # {} =>
                 Sums(d, S)[s] = d[First(s)] + Sums(d, S)[s \ {First(s)}]
           /\ \A s \in SUBSET S : Sums(d, S)[s] \in Int
<1>1. PICK g : g = Sums(d, S)
  OBVIOUS
<1>2. SumsOver(g, d, SUBSET S)
  BY <1>1, SumsExist
<1>3. g[{}] = 0
  BY <1>2 DEF SumsOver
<1>4. \A s \in SUBSET S : s # {} => g[s] = d[First(s)] + g[s \ {First(s)}]
  BY <1>2 DEF SumsOver
<1> DEFINE P == {s \in SUBSET S : g[s] \in Int}
<1>5. ASSUME NEW s \in SUBSET S,
             \A t \in SUBSET S : Cardinality(t) < Cardinality(s) => t \in P
      PROVE  s \in P
  <2>1. CASE s = {}
    BY <1>3, <2>1
  <2>2. CASE s # {}
    <3>1. First(s) \in s /\ s \ {First(s)} \in SUBSET S
          /\ Cardinality(s \ {First(s)}) = Cardinality(s) - 1 /\ Cardinality(s) \in Nat
      BY <2>2, Smaller
    <3>2. Cardinality(s \ {First(s)}) < Cardinality(s)
      BY <3>1
    <3>3. g[s \ {First(s)}] \in Int
      BY <1>5, <3>1, <3>2
    <3>4. d[First(s)] \in Int
      BY <3>1
    <3>5. g[s] = d[First(s)] + g[s \ {First(s)}]
      BY <1>4, <2>2
    <3> QED BY <3>3, <3>4, <3>5
  <2> QED BY <2>1, <2>2
<1>6. \A s \in SUBSET S : s \in P
  <2> HIDE DEF P
  <2> QED BY <1>5, BySize
<1> QED BY <1>1, <1>3, <1>4, <1>6

\* Larger terms have the larger sum.
LEMMA SumGrows ==
    ASSUME NEW S, IsFiniteSet(S), NEW d \in [S -> Int], NEW e \in [S -> Int],
           \A x \in S : d[x] <= e[x]
    PROVE  SumFunction(d) \in Int /\ SumFunction(e) \in Int /\ SumFunction(d) <= SumFunction(e)
<1>1. PICK g, h : g = Sums(d, S) /\ h = Sums(e, S)
  OBVIOUS
<1>2. /\ g[{}] = 0
      /\ \A s \in SUBSET S : s # {} => g[s] = d[First(s)] + g[s \ {First(s)}]
      /\ \A s \in SUBSET S : g[s] \in Int
  BY <1>1, SumsOf
<1>3. /\ h[{}] = 0
      /\ \A s \in SUBSET S : s # {} => h[s] = e[First(s)] + h[s \ {First(s)}]
      /\ \A s \in SUBSET S : h[s] \in Int
  BY <1>1, SumsOf
<1> DEFINE P == {s \in SUBSET S : g[s] <= h[s]}
<1>4. ASSUME NEW s \in SUBSET S,
             \A t \in SUBSET S : Cardinality(t) < Cardinality(s) => t \in P
      PROVE  s \in P
  <2>1. CASE s = {}
    BY <1>2, <1>3, <2>1
  <2>2. CASE s # {}
    <3>1. First(s) \in s /\ s \ {First(s)} \in SUBSET S
          /\ Cardinality(s \ {First(s)}) = Cardinality(s) - 1 /\ Cardinality(s) \in Nat
      BY <2>2, Smaller
    <3>2. Cardinality(s \ {First(s)}) < Cardinality(s)
      BY <3>1
    <3>3. g[s \ {First(s)}] <= h[s \ {First(s)}]
      BY <1>4, <3>1, <3>2
    <3>4. /\ g[s] = d[First(s)] + g[s \ {First(s)}]
          /\ h[s] = e[First(s)] + h[s \ {First(s)}]
      BY <1>2, <1>3, <2>2
    <3>5. d[First(s)] \in Int /\ e[First(s)] \in Int /\ d[First(s)] <= e[First(s)]
          /\ g[s \ {First(s)}] \in Int /\ h[s \ {First(s)}] \in Int
      BY <1>2, <1>3, <3>1
    <3> QED BY <3>3, <3>4, <3>5
  <2> QED BY <2>1, <2>2
<1>5. \A s \in SUBSET S : s \in P
  <2> HIDE DEF P
  <2> QED BY <1>4, BySize
<1>6. DOMAIN d = S /\ DOMAIN e = S
  OBVIOUS
<1>7. SumFunction(d) = g[S] /\ SumFunction(e) = h[S]
  BY <1>1, <1>6, SumUnfolds
<1> QED BY <1>2, <1>3, <1>5, <1>7

\* The sum of a set is a term of it and the sum of the rest.
LEMMA SumRemoves ==
    ASSUME NEW S, IsFiniteSet(S), NEW d \in [S -> Int], NEW s \in SUBSET S, NEW a \in s
    PROVE  Sums(d, S)[s] = d[a] + Sums(d, S)[s \ {a}]
<1>1. PICK g : g = Sums(d, S)
  OBVIOUS
<1>2. /\ \A t \in SUBSET S : t # {} => g[t] = d[First(t)] + g[t \ {First(t)}]
      /\ \A t \in SUBSET S : g[t] \in Int
  BY <1>1, SumsOf
<1> DEFINE P == {t \in SUBSET S : \A x \in t : g[t] = d[x] + g[t \ {x}]}
<1>3. ASSUME NEW t \in SUBSET S,
             \A u \in SUBSET S : Cardinality(u) < Cardinality(t) => u \in P,
             NEW x \in t
      PROVE  g[t] = d[x] + g[t \ {x}]
  <2>1. PICK c : c = First(t)
    OBVIOUS
  <2>2. c \in t /\ g[t] = d[c] + g[t \ {c}]
    BY <1>2, <2>1, Smaller
  <2>3. CASE x = c
    BY <2>2, <2>3
  <2>4. CASE x # c
    <3>1. ASSUME NEW y \in t PROVE t \ {y} \in P
      <4>1. t \ {y} \in SUBSET S /\ Cardinality(t \ {y}) = Cardinality(t) - 1
            /\ Cardinality(t) \in Nat
        BY Smaller
      <4>2. Cardinality(t \ {y}) < Cardinality(t)
        BY <4>1
      <4> HIDE DEF P
      <4> QED BY <1>3, <4>1, <4>2
    <3>2. g[t \ {c}] = d[x] + g[(t \ {c}) \ {x}]
      BY <2>2, <2>4, <3>1
    <3>3. g[t \ {x}] = d[c] + g[(t \ {x}) \ {c}]
      BY <2>2, <2>4, <3>1
    <3>4. PICK v : v = (t \ {x}) \ {c} /\ v = (t \ {c}) \ {x} /\ v \in SUBSET S
      OBVIOUS
    <3>5. g[v] \in Int /\ d[c] \in Int /\ d[x] \in Int
      BY <1>2, <2>2, <3>4
    <3>6. g[t \ {c}] = d[x] + g[v] /\ g[t \ {x}] = d[c] + g[v]
      BY <3>2, <3>3, <3>4
    <3> HIDE DEF P
    <3> QED BY <2>2, <3>5, <3>6
  <2> QED BY <2>3, <2>4
<1>4. ASSUME NEW t \in SUBSET S,
             \A u \in SUBSET S : Cardinality(u) < Cardinality(t) => u \in P
      PROVE  t \in P
  <2>1. \A x \in t : g[t] = d[x] + g[t \ {x}]
    <3> HIDE DEF P
    <3> QED BY <1>3, <1>4
  <2> QED BY <2>1
<1>5. \A t \in SUBSET S : t \in P
  <2> HIDE DEF P
  <2> QED BY <1>4, BySize
<1> QED BY <1>1, <1>5

LEMMA SumNotNegative ==
    ASSUME NEW S, IsFiniteSet(S), NEW d \in [S -> Int], NEW s \in SUBSET S,
           \A x \in s : d[x] >= 0
    PROVE  Sums(d, S)[s] >= 0
<1>1. PICK g : g = Sums(d, S)
  OBVIOUS
<1>2. /\ g[{}] = 0
      /\ \A t \in SUBSET S : t # {} => g[t] = d[First(t)] + g[t \ {First(t)}]
      /\ \A t \in SUBSET S : g[t] \in Int
  BY <1>1, SumsOf
<1> DEFINE P == {t \in SUBSET S : t \subseteq s => g[t] >= 0}
<1>3. ASSUME NEW t \in SUBSET S,
             \A u \in SUBSET S : Cardinality(u) < Cardinality(t) => u \in P
      PROVE  t \in P
  <2>1. CASE t = {}
    BY <1>2, <2>1
  <2>2. CASE t # {} /\ t \subseteq s
    <3>1. First(t) \in t /\ t \ {First(t)} \in SUBSET S
          /\ Cardinality(t \ {First(t)}) = Cardinality(t) - 1 /\ Cardinality(t) \in Nat
      BY <2>2, Smaller
    <3>2. Cardinality(t \ {First(t)}) < Cardinality(t)
      BY <3>1
    <3>3. g[t \ {First(t)}] >= 0
      BY <1>3, <2>2, <3>1, <3>2
    <3>4. g[t] = d[First(t)] + g[t \ {First(t)}] /\ d[First(t)] \in Int /\ d[First(t)] >= 0
          /\ g[t \ {First(t)}] \in Int
      BY <1>2, <2>2, <3>1
    <3>5. g[t] >= 0
      BY <3>3, <3>4
    <3> QED BY <3>5
  <2>3. CASE ~ (t \subseteq s)
    BY <2>3
  <2> QED BY <2>1, <2>2, <2>3
<1>4. \A t \in SUBSET S : t \in P
  <2> HIDE DEF P
  <2> QED BY <1>3, BySize
<1> QED BY <1>1, <1>4

LEMMA SquareOfSum ==
    ASSUME NEW x \in Int, NEW y \in Int
    PROVE  x * x >= 0 /\ (x + y) * (x + y) <= 2 * (x * x + y * y)
<1>1. x * x >= 0 /\ (x - y) * (x - y) >= 0
  OBVIOUS
<1>2. (x + y) * (x + y) + (x - y) * (x - y) = 2 * (x * x + y * y)
  OBVIOUS
<1> QED BY <1>1, <1>2

LEMMA SquareGrows ==
    ASSUME NEW x \in Int, NEW y \in Int, y <= x, x < 0
    PROVE  x * x <= y * y
<1>1. PICK e \in Nat : y = x - e
  <2>1. x - y \in Nat /\ y = x - (x - y)
    OBVIOUS
  <2> QED BY <2>1
<1>2. PICK n \in Nat : x = - n
  <2>1. - x \in Nat /\ x = - (- x)
    OBVIOUS
  <2> QED BY <2>1
<1>3. y * y = n * n + 2 * (n * e) + e * e /\ x * x = n * n
  BY <1>1, <1>2
<1>4. n * e \in Nat /\ e * e \in Nat /\ n * n \in Nat
  OBVIOUS
<1> QED BY <1>3, <1>4

\* A sum that at most two terms make negative is within what these two make of it.
LEMMA TwoNegatives ==
    ASSUME NEW S, IsFiniteSet(S), NEW d \in [S -> Int],
           Cardinality({x \in S : d[x] < 0}) <= 2, SumFunction(d) < 0
    PROVE  /\ SumFunction(d) \in Int /\ SumFunction(Squares(d)) \in Int
           /\ SumFunction(d) * SumFunction(d) <= 2 * SumFunction(Squares(d))
<1> DEFINE N == {x \in S : d[x] < 0}
<1>1. PICK q : q = Squares(d)
  OBVIOUS
<1>2. q \in [S -> Int] /\ (\A x \in S : q[x] = d[x] * d[x]) /\ DOMAIN d = S /\ DOMAIN q = S
  BY <1>1 DEF Squares
<1>3. \A x \in S : q[x] >= 0 /\ d[x] \in Int /\ q[x] \in Int
  BY <1>2, SquareOfSum
<1>4. PICK g, h : g = Sums(d, S) /\ h = Sums(q, S)
  OBVIOUS
<1>5. SumFunction(d) = g[S] /\ SumFunction(q) = h[S]
  BY <1>2, <1>4, SumUnfolds
<1>6. \A s \in SUBSET S : /\ g[s] \in Int /\ h[s] \in Int
                          /\ \A a \in s : g[s] = d[a] + g[s \ {a}] /\ h[s] = q[a] + h[s \ {a}]
  <2>1. \A s \in SUBSET S : g[s] \in Int /\ h[s] \in Int
    BY <1>2, <1>4, SumsOf
  <2>2. ASSUME NEW s \in SUBSET S, NEW a \in s
        PROVE  g[s] = d[a] + g[s \ {a}] /\ h[s] = q[a] + h[s \ {a}]
    <3>1. Sums(d, S)[s] = d[a] + Sums(d, S)[s \ {a}]
      BY SumRemoves
    <3>2. q \in [S -> Int]
      BY <1>2
    <3>3. Sums(q, S)[s] = q[a] + Sums(q, S)[s \ {a}]
      BY <3>2, SumRemoves
    <3> QED BY <1>4, <3>1, <3>3
  <2> QED BY <2>1, <2>2
<1>7. \A s \in SUBSET S : h[s] >= 0
  BY <1>2, <1>3, <1>4, SumNotNegative
<1>8. ASSUME NEW s \in SUBSET S, s \cap N = {} PROVE g[s] >= 0
  <2>1. \A x \in s : d[x] >= 0
    BY <1>3, <1>8
  <2> QED BY <1>4, <2>1, SumNotNegative
<1>9. S \in SUBSET S /\ g[S] < 0 /\ N \in SUBSET S
  BY <1>5
<1>10. PICK a \in N : TRUE
  <2>1. g[S] \in Int
    BY <1>6, <1>9
  <2>2. S \cap N # {}
    BY <1>8, <1>9, <2>1
  <2> QED BY <2>2
<1>11. /\ d[a] \in Int /\ q[a] = d[a] * d[a] /\ q[a] \in Int
       /\ S \ {a} \in SUBSET S /\ g[S] = d[a] + g[S \ {a}] /\ h[S] = q[a] + h[S \ {a}]
       /\ g[S \ {a}] \in Int /\ h[S \ {a}] \in Int /\ g[S] \in Int /\ h[S] \in Int
  BY <1>2, <1>3, <1>6, <1>9, <1>10
<1>12. CASE N \ {a} = {}
  <2>1. (S \ {a}) \cap N = {}
    BY <1>12
  <2>2. g[S \ {a}] >= 0 /\ h[S \ {a}] >= 0
    BY <1>7, <1>8, <1>11, <2>1
  <2>3. d[a] <= g[S] /\ q[a] <= h[S] /\ h[S] >= 0
    BY <1>7, <1>9, <1>11, <2>2
  <2>4. g[S] * g[S] <= d[a] * d[a]
    BY <1>9, <1>11, <2>3, SquareGrows
  <2>5. PICK w \in Int : w = g[S] * g[S]
    BY <1>11
  <2>6. w <= 2 * h[S]
    BY <1>11, <2>3, <2>4, <2>5
  <2> QED BY <1>1, <1>5, <1>11, <2>5, <2>6
<1>13. CASE N \ {a} # {}
  <2>1. PICK b \in N \ {a} : TRUE
    BY <1>13
  <2>2. PICK R : R = (S \ {a}) \ {b}
    OBVIOUS
  <2>3. R \cap N = {}
    <3>1. IsFiniteSet(S) /\ N \in SUBSET S /\ N \ {a} \in SUBSET S
          /\ (N \ {a}) \ {b} \in SUBSET S
      OBVIOUS
    <3>2. /\ Cardinality(N) <= 2 /\ Cardinality(N) \in Nat
          /\ Cardinality(N \ {a}) = Cardinality(N) - 1
      BY <1>10, <3>1, Smaller
    <3>3. Cardinality((N \ {a}) \ {b}) = Cardinality(N \ {a}) - 1
      <4> HIDE DEF N
      <4> QED BY <2>1, <3>1, Smaller
    <3>4. PICK M : M = (N \ {a}) \ {b}
      OBVIOUS
    <3>5. Cardinality(M) <= 0
      <4> HIDE DEF N
      <4> QED BY <3>2, <3>3, <3>4
    <3>6. \A x \in M : Cardinality(M) > 0 /\ Cardinality(M) \in Nat
      <4> HIDE DEF N
      <4>1. IsFiniteSet(S) /\ M \in SUBSET S
        BY <3>1, <3>4
      <4> QED BY <4>1, Smaller, Zenon
    <3>7. M = {}
      <4> HIDE DEF N
      <4> QED BY <3>5, <3>6
    <3> HIDE DEF N
    <3> QED BY <2>2, <3>4, <3>7
  <2>4. b \in S \ {a} /\ d[b] \in Int /\ q[b] = d[b] * d[b] /\ q[b] \in Int
    BY <1>2, <1>3, <2>1
  <2>5. /\ R \in SUBSET S /\ g[S \ {a}] = d[b] + g[R] /\ h[S \ {a}] = q[b] + h[R]
        /\ g[R] \in Int /\ h[R] \in Int
    BY <1>6, <1>11, <2>2, <2>4
  <2>6. g[R] >= 0 /\ h[R] >= 0
    BY <1>7, <1>8, <2>3, <2>5
  <2>7. d[a] + d[b] <= g[S] /\ q[a] + q[b] <= h[S]
    BY <1>11, <2>4, <2>5, <2>6
  <2>8. PICK u \in Int : u = d[a] + d[b]
    BY <1>11, <2>4
  <2>9. g[S] * g[S] <= u * u
    BY <1>9, <1>11, <2>7, <2>8, SquareGrows
  <2>10. u * u <= 2 * (d[a] * d[a] + d[b] * d[b])
    BY <1>11, <2>4, <2>8, SquareOfSum
  <2>11. PICK w, z \in Int : w = g[S] * g[S] /\ z = u * u
    BY <1>11
  <2>12. w <= 2 * h[S]
    BY <1>11, <2>4, <2>7, <2>9, <2>10, <2>11
  <2> QED BY <1>1, <1>5, <1>11, <2>11, <2>12
<1> QED BY <1>12, <1>13

\* Fewer than three negative deltas cannot bring the bound below zero.
LEMMA BoundNeedsThree ==
    ASSUME NEW x, NEW S, IsFiniteSet(S), Rounds(x) = S, Deltas(x, "ttft") \in [S -> Int],
           UpperBelowZero(x)
    PROVE  Cardinality({r \in S : Delta(x, "ttft", r) < 0}) >= 3
<1>1. PICK d : d = Deltas(x, "ttft")
  OBVIOUS
<1>2. d \in [S -> Int] /\ \A r \in S : d[r] = Delta(x, "ttft", r)
  BY <1>1 DEF Deltas
<1>3. PICK N : N = {r \in S : d[r] < 0}
  OBVIOUS
<1>4. N = {r \in S : Delta(x, "ttft", r) < 0}
  BY <1>2, <1>3
<1>5. Cardinality(N) \in Nat
  <2>1. N \in SUBSET S
    BY <1>3
  <2> QED BY <2>1, Smaller, Zenon
<1>6. PICK s, q : s = SumFunction(d) /\ q = SumFunction(Squares(d))
  OBVIOUS
<1>7. s < 0 /\ 4000 * s * s > 4545 * (5 * q - s * s)
  BY <1>1, <1>6 DEF UpperBelowZero, DeltaSum
<1>8. ASSUME Cardinality(N) <= 2 PROVE FALSE
  <2>1. s \in Int /\ q \in Int /\ s * s <= 2 * q
    <3>1. Cardinality({r \in S : d[r] < 0}) <= 2 /\ SumFunction(d) < 0
      BY <1>3, <1>6, <1>7, <1>8
    <3>2. /\ SumFunction(d) \in Int /\ SumFunction(Squares(d)) \in Int
          /\ SumFunction(d) * SumFunction(d) <= 2 * SumFunction(Squares(d))
      BY <1>2, <3>1, TwoNegatives
    <3> QED BY <1>6, <3>2
  <2>2. PICK w \in Int : w = s * s
    BY <2>1
  <2>3. w >= 0 /\ w <= 2 * q
    BY <2>1, <2>2, SquareOfSum
  <2>4. 4000 * s * s = 4000 * w
    BY <2>1, <2>2
  <2>5. 4000 * w > 4545 * (5 * q - w)
    BY <1>7, <2>2, <2>4
  <2> QED BY <2>1, <2>3, <2>5
<1> QED BY <1>4, <1>5, <1>8

\* The larger baseline makes the smaller relative delta.
LEMMA DeltaShrinks ==
    ASSUME NEW v \in Nat, NEW b \in Nat \ {0}, NEW c \in Nat \ {0}, b <= c
    PROVE  RelativeDelta(v, b) \in Int /\ RelativeDelta(v, c) \in Int
           /\ RelativeDelta(v, c) <= RelativeDelta(v, b)
<1>1. PICK x \in Nat : x = Unit * v
  BY UnitAssumption
<1>2. PICK p \in Nat, y \in 0 .. b - 1 : p = x \div b /\ x = b * p + y
  <2>1. x \div b \in Nat /\ x % b \in 0 .. b - 1 /\ x = b * (x \div b) + (x % b)
    BY SMT
  <2> QED BY <2>1
<1>3. PICK q \in Nat, z \in 0 .. c - 1 : q = x \div c /\ x = c * q + z
  <2>1. x \div c \in Nat /\ x % c \in 0 .. c - 1 /\ x = c * (x \div c) + (x % c)
    BY SMT
  <2> QED BY <2>1
<1>4. ~ (p + 1 <= q)
  <2> SUFFICES ASSUME p + 1 <= q PROVE FALSE
    OBVIOUS
  <2>1. PICK e \in Nat : c = b + e
    <3>1. c - b \in Nat /\ c = b + (c - b)
      OBVIOUS
    <3> QED BY <3>1
  <2>2. PICK f \in Nat : q = p + 1 + f
    <3>1. q - (p + 1) \in Nat /\ q = p + 1 + (q - (p + 1))
      OBVIOUS
    <3> QED BY <3>1
  <2>3. c * q = b * p + b + b * f + e * q
    BY <2>1, <2>2
  <2>4. b * f \in Nat /\ e * q \in Nat /\ b * p \in Nat
    OBVIOUS
  <2> QED BY <1>2, <1>3, <2>3, <2>4
<1>5. RelativeDelta(v, b) = p - Unit /\ RelativeDelta(v, c) = q - Unit
  BY <1>1, <1>2, <1>3 DEF RelativeDelta
<1> QED BY <1>4, <1>5, UnitAssumption

\* The best fixed policy of a round has the least latency.
LEMMA BestIsLeast ==
    ASSUME NEW values, \A k \in 1 .. 2 : values[FixedPolicies[k]] \in Nat \ {0}
    PROVE  /\ BestFixed("ttft", values) \in Nat \ {0}
           /\ \A k \in 1 .. 2 : BestFixed("ttft", values) <= values[FixedPolicies[k]]
<1> DEFINE F == {values[FixedPolicies[k]] : k \in 1 .. 2}
<1>1. F \in SUBSET Nat /\ F # {} /\ \A k \in 1 .. 2 : values[FixedPolicies[k]] \in F
  <2>1. 1 \in 1 .. 2
    OBVIOUS
  <2> QED BY <2>1
<1>2. BestFixed("ttft", values) = Min(F)
  BY DEF BestFixed
<1>3. F \subseteq Nat \ {0}
  OBVIOUS
<1> HIDE DEF F
<1>4. \E x \in F : \A y \in F : x <= y
  BY <1>1, Least
<1>5. Min(F) \in F /\ \A y \in F : Min(F) <= y
  BY <1>4 DEF Min
<1> QED BY <1>1, <1>2, <1>3, <1>5

-----------------------------------------------------------------------------
(* The verdicts.                                                           *)

Measured(x, n) ==
    /\ n \in Nat
    /\ x["ttft"] \in [1 .. n -> [{Policies[k] : k \in 1 .. 3} -> Nat]]
    /\ \A r \in 1 .. n, k \in 1 .. 2 : x["ttft"][r][FixedPolicies[k]] # 0

LEMMA PolicyNames ==
    /\ "controller" \in {Policies[k] : k \in 1 .. 3}
    /\ \A k \in 1 .. 2 : FixedPolicies[k] \in {Policies[j] : j \in 1 .. 3}
  BY DEF Policies, FixedPolicies

\* Against each fixed policy alone the sum of the deltas is at most DeltaSum.
LEMMA BestBoundsEach ==
    ASSUME NEW x, NEW n, Measured(x, n), NEW k \in 1 .. 2
    PROVE  LET f == [r \in Rounds(x) |->
                       RelativeDelta(x["ttft"][r]["controller"], x["ttft"][r][FixedPolicies[k]])]
           IN  /\ Rounds(x) = 1 .. n /\ IsFiniteSet(1 .. n) /\ Cardinality(1 .. n) \in Nat
               /\ Deltas(x, "ttft") \in [1 .. n -> Int]
               /\ SumFunction(f) \in Int /\ DeltaSum(x, "ttft") \in Int
               /\ SumFunction(f) <= DeltaSum(x, "ttft")
<1> DEFINE f == [r \in Rounds(x) |->
                   RelativeDelta(x["ttft"][r]["controller"], x["ttft"][r][FixedPolicies[k]])]
<1>1. Rounds(x) = 1 .. n
  BY DEF Rounds, Measured
<1>2. IsFiniteSet(1 .. n) /\ Cardinality(1 .. n) \in Nat
  <2>1. 1 \in Int /\ n \in Int
    BY DEF Measured
  <2>2. IsFiniteSet(1 .. n)
    BY <2>1, FS_Interval
  <2> QED BY <2>2, FS_CardinalityType
<1>3. ASSUME NEW r \in 1 .. n
      PROVE  /\ f[r] \in Int /\ Delta(x, "ttft", r) \in Int /\ f[r] <= Delta(x, "ttft", r)
  <2>1. PICK values : values = x["ttft"][r]
    OBVIOUS
  <2>2. values \in [{Policies[j] : j \in 1 .. 3} -> Nat]
    BY <2>1 DEF Measured
  <2>3. values["controller"] \in Nat /\ \A j \in 1 .. 2 : values[FixedPolicies[j]] \in Nat \ {0}
    BY <2>1, <2>2, PolicyNames DEF Measured
  <2>4. /\ BestFixed("ttft", values) \in Nat \ {0}
        /\ BestFixed("ttft", values) <= values[FixedPolicies[k]]
    BY <2>3, BestIsLeast
  <2>5. PICK v, b, c : v = values["controller"] /\ b = BestFixed("ttft", values)
                       /\ c = values[FixedPolicies[k]]
    OBVIOUS
  <2>6. v \in Nat /\ b \in Nat \ {0} /\ c \in Nat \ {0} /\ b <= c
    BY <2>3, <2>4, <2>5
  <2>7. RelativeDelta(v, b) \in Int /\ RelativeDelta(v, c) \in Int
        /\ RelativeDelta(v, c) <= RelativeDelta(v, b)
    BY <2>6, DeltaShrinks
  <2>8. f[r] = RelativeDelta(v, c)
    BY <1>1, <2>1, <2>5
  <2>9. Delta(x, "ttft", r) = RelativeDelta(v, b)
    BY <2>1, <2>5 DEF Delta
  <2> QED BY <2>7, <2>8, <2>9
<1>4. PICK d : d = Deltas(x, "ttft")
  OBVIOUS
<1>5. d \in [1 .. n -> Int] /\ f \in [1 .. n -> Int] /\ \A r \in 1 .. n : f[r] <= d[r]
  BY <1>1, <1>3, <1>4 DEF Deltas
<1>6. SumFunction(f) \in Int /\ SumFunction(d) \in Int /\ SumFunction(f) <= SumFunction(d)
  <2> HIDE DEF f
  <2> QED BY <1>2, <1>5, SumGrows
<1> QED BY <1>1, <1>2, <1>4, <1>5, <1>6 DEF DeltaSum

\* A positive verdict was drawn from a sample of the suite's rounds.
VerdictInv == verdict.positive =>
    /\ Size \in Nat /\ Size > 0
    /\ suite.kind \in {"pilot", "boundary", "anchor", "significance"}
    /\ verdict.sample \in Samples(suite.schedule[Size].round)
    /\ Positive(verdict.sample)

LEMMA VerdictInvInit == SuiteInit => VerdictInv
  BY DEF SuiteInit, VerdictInv, NoVerdict

LEMMA VerdictInvNext == RunnerInv /\ VerdictInv /\ [SuiteNext]_suiteVars => VerdictInv'
<1> SUFFICES ASSUME RunnerInv, VerdictInv, [SuiteNext]_suiteVars PROVE VerdictInv'
  OBVIOUS
<1>1. CASE Judge
  <2>1. UNCHANGED suite
    BY <1>1 DEF Judge, runnerVars
  <2>2. Completed
    BY <1>1 DEF Judge, Accepted, PilotAccepts, BoundaryAccepts, AnchorAccepts, SignificanceAccepts
  <2>3. Size \in Nat /\ Size > 0
    BY <2>2, RunnerNumbers DEF RunnerInv, ClosedTruly
  <2>4. PICK x \in Samples(suite.schedule[Size].round) :
            verdict' = [sample |-> x, positive |-> Positive(x)]
    BY <1>1 DEF Judge
  <2>5. verdict'.sample = x /\ verdict'.positive = Positive(x)
    BY <2>4
  <2>6. Positive(x)' <=> Positive(x)
    BY <2>1 DEF Positive
  <2>7. suite.kind \in {"pilot", "boundary", "anchor", "significance"}
    BY <1>1 DEF Judge
  <2> QED BY <2>1, <2>3, <2>4, <2>5, <2>6, <2>7 DEF VerdictInv, Size
<1>2. CASE UNCHANGED <<suite, verdict>>
  BY <1>2 DEF VerdictInv, Positive, Size
<1>3. Judge \/ UNCHANGED <<suite, verdict>>
  BY DEF SuiteNext, Open, Start, Finish, Validate, Record, Close, Kill, Drift, Import, Mistake,
         suiteVars, runnerVars, worldVars, importVars
<1> QED BY <1>1, <1>2, <1>3

\* A positive verdict always has the sample it was drawn from.
THEOREM VerdictInvariant == SuiteSpec => [](RunnerInv /\ VerdictInv)
BY RunnerInvInit, RunnerInvNext, VerdictInvInit, VerdictInvNext, PTL DEF SuiteSpec

\* Claims hold against each fixed policy alone, and a significant one is
\* faster than the best of them in three rounds, whatever was measured.
THEOREM ClaimsHold == SuiteSpec => []ClaimsBeatEveryFixed
<1>1. RunnerInv /\ VerdictInv => ClaimsBeatEveryFixed
  <2> SUFFICES ASSUME RunnerInv, VerdictInv, verdict.positive PROVE ClaimsBeatEveryFixed
    BY DEF ClaimsBeatEveryFixed
  <2>1. PICK x, n : x = verdict.sample /\ n = suite.schedule[Size].round
    OBVIOUS
  <2>2. x \in Samples(n) /\ Size > 0 /\ Positive(x)
        /\ suite.kind \in {"pilot", "boundary", "anchor", "significance"}
    BY <2>1 DEF VerdictInv
  <2>3. Measured(x, n)
    <3>1. n \in {s.schedule[Len(s.schedule)].round : s \in {s \in Suites : Len(s.schedule) > 0}}
      BY <2>1, <2>2 DEF RunnerInv, RunnerTypes, Size
    <3>2. "ttft" \in Metrics
      BY DEF Metrics
    <3> QED BY <2>2, <3>1, <3>2, SamplesAssumption DEF Measured
  <2> DEFINE percent == IF suite.kind = "pilot" THEN 2 ELSE -5
  <2>4. MeanAtMost(x, "ttft", percent)
    BY <2>2 DEF Positive, Promoted, BoundaryPositive, ConfirmedPositive, Significant
  <2>5. ASSUME NEW k \in 1 .. 2
        PROVE  100 * SumFunction([r \in Rounds(x) |->
                       RelativeDelta(x["ttft"][r]["controller"], x["ttft"][r][FixedPolicies[k]])])
                 <= percent * Unit * Cardinality(Rounds(x))
    <3>1. PICK f : f = [r \in Rounds(x) |->
                     RelativeDelta(x["ttft"][r]["controller"], x["ttft"][r][FixedPolicies[k]])]
      OBVIOUS
    <3>2. /\ SumFunction(f) \in Int /\ DeltaSum(x, "ttft") \in Int
          /\ SumFunction(f) <= DeltaSum(x, "ttft")
          /\ Rounds(x) = 1 .. n /\ Cardinality(1 .. n) \in Nat
      BY <2>3, <3>1, BestBoundsEach
    <3>3. PICK bound \in Int : bound = percent * Unit * Cardinality(Rounds(x))
      BY <3>2, UnitAssumption
    <3>4. 100 * DeltaSum(x, "ttft") <= bound
      BY <2>4, <3>3 DEF MeanAtMost
    <3> HIDE DEF percent
    <3> QED BY <3>1, <3>2, <3>3, <3>4
  <2>6. suite.kind = "significance" =>
          Cardinality({r \in Rounds(x) : Delta(x, "ttft", r) < 0}) >= 3
    <3> SUFFICES ASSUME suite.kind = "significance"
                 PROVE  Cardinality({r \in Rounds(x) : Delta(x, "ttft", r) < 0}) >= 3
      OBVIOUS
    <3>1. UpperBelowZero(x)
      BY <2>2 DEF Positive, Significant
    <3>2. 1 \in 1 .. 2
      OBVIOUS
    <3>3. Rounds(x) = 1 .. n /\ IsFiniteSet(1 .. n) /\ Deltas(x, "ttft") \in [1 .. n -> Int]
      BY <2>3, <3>2, BestBoundsEach
    <3> QED BY <3>1, <3>3, BoundNeedsThree
  <2> QED BY <2>1, <2>5, <2>6 DEF ClaimsBeatEveryFixed
<1> QED BY <1>1, VerdictInvariant, PTL
=============================================================================
