------------------------ MODULE ReflectionRunProofs ------------------------
(***************************************************************************)
(* Proofs about ReflectionRun, for every set of transcripts, findings,     *)
(* commands and concurrent invocations.                                    *)
(***************************************************************************)
EXTENDS ReflectionRun, DispatchBatchesProofs

(* The digests of a plan are measured, as its batches require.             *)
LEMMA DigestsAreMeasured ==
  ASSUME IInv, NEW D, D # {}, D \subseteq Sources, NEW n \in Nat \ {0},
         \A s \in D : digestFile[s] # Absent
  PROVE  Measured(D, SizeOf(digestFile), n)
<1>1. IsFiniteSet(D) /\ D \subseteq Int
  <2>1. IsFiniteSet(D)
    BY FS_Subset, SourcesAssumption
  <2>2. D \subseteq Int
    BY SourcesAssumption
  <2>. QED BY <2>1, <2>2
<1>2. ASSUME NEW s \in D PROVE SizeOf(digestFile)[s] \in Nat \ {0}
  <2>1. digestFile[s] \in Contents
    BY DEF IInv, TypeOK, Files
  <2>. QED BY <2>1, ContentsAssumption DEF SizeOf
<1>. QED BY <1>1, <1>2 DEF Measured

LEMMA BatchesAreTyped ==
  ASSUME NEW D, D \subseteq Sources, NEW size, NEW n, Measured(D, size, n)
  PROVE  Batches(D, size, n) \in BatchMaps
<1>1. IsFiniteSet(D) /\ Cardinality(D) \in Nat /\ Cardinality(D) <= Cardinality(Sources)
  BY FS_Subset, FS_CardinalityType, SourcesAssumption
<1>2. Cardinality(D) # 0
  BY <1>1, FS_EmptySet DEF Measured
<1>3. Cardinality(Sources) \in Nat
  BY FS_CardinalityType, SourcesAssumption
<1>4. BatchCount(D, n) \in BatchIds
  BY <1>1, <1>2, <1>3 DEF BatchCount, BatchIds, Measured
<1>. DEFINE k == BatchCount(D, n)
            given == Batches(D, size, n)
<1>5. /\ DOMAIN given = 1 .. k
      /\ UNION {given[b] : b \in DOMAIN given} = D
  BY BatchesPartition DEF IsPartition
<1>6. given = [b \in 1 .. k |-> given[b]]
  BY DEF Batches, BatchesAfter
<1>. HIDE DEF given, k
<1>7. \A b \in 1 .. k : given[b] \subseteq Sources
  BY <1>5
<1>8. given \in [1 .. k -> SUBSET Sources]
  BY <1>6, <1>7
<1>. QED BY <1>4, <1>8 DEF BatchMaps, given, k

LEMMA DigestsAreSources ==
  ASSUME NEW m \in Manifest
  PROVE  DigestsOf(m) \subseteq Sources /\ \A s \in DigestsOf(m) : m.files[s] \in Contents
BY ScopesAssumption, ContentsAssumption DEF DigestsOf, Manifest

LEMMA InitInv == ASSUME Init PROVE IInv
<1>1. TypeOK
  BY DEF Init, TypeOK, Files, NoFiles, NoReports, Labels
<1>2. ReportIsBacked
  BY DEF Init, ReportIsBacked
<1>3. \A p \in Procs : Knows(p)
  BY DEF Init, Knows, Holding, Complete, Planned
<1>. QED BY <1>1, <1>2, <1>3 DEF IInv

(* An invocation that ends keeps nothing.                                  *)
LEMMA ForgetInv ==
  ASSUME IInv, NEW p \in Procs, NEW how, Forget(p, how)
  PROVE  /\ pc' \in [Procs -> Labels]
         /\ command' \in [Procs -> Commands \cup {Absent}]
         /\ held' \in [Procs -> Manifest \cup {Absent}]
         /\ draft' \in [Procs -> Manifest \cup {Absent}]
         /\ DOMAIN heldPlan' = Procs
         /\ \A q \in Procs : heldPlan'[q] # Absent => PlanType(heldPlan'[q])
         /\ todo' \in [Procs -> SUBSET Nat]
         /\ found' \in [Procs -> SUBSET Findings]
         /\ ranked' \in [Procs -> SUBSET Group]
         /\ \A q \in Procs : Knows(q)'
<1>. USE DEF IInv
<1>1. /\ pc' \in [Procs -> Labels]
      /\ command' \in [Procs -> Commands \cup {Absent}]
      /\ held' \in [Procs -> Manifest \cup {Absent}]
      /\ draft' \in [Procs -> Manifest \cup {Absent}]
      /\ DOMAIN heldPlan' = Procs
      /\ todo' \in [Procs -> SUBSET Nat]
      /\ found' \in [Procs -> SUBSET Findings]
      /\ ranked' \in [Procs -> SUBSET Group]
  BY DEF Forget, TypeOK, Labels
<1>2. \A q \in Procs : heldPlan'[q] # Absent => PlanType(heldPlan'[q])
  BY DEF Forget, TypeOK
<1>3. ASSUME NEW q \in Procs PROVE Knows(q)'
  <2>1. CASE q = p
    BY <2>1 DEF Forget, TypeOK, Knows, Holding, Complete, Planned
  <2>2. CASE q # p
    <3>1. /\ pc'[q] = pc[q] /\ command'[q] = command[q] /\ held'[q] = held[q]
          /\ draft'[q] = draft[q] /\ heldPlan'[q] = heldPlan[q] /\ todo'[q] = todo[q]
          /\ found'[q] = found[q] /\ ranked'[q] = ranked[q]
      BY <2>2 DEF Forget, TypeOK
    <3>. QED BY <3>1 DEF Knows, DigestsOf
  <2>. QED BY <2>1, <2>2
<1>. QED BY <1>1, <1>2, <1>3

LEMMA FailInv ==
  ASSUME IInv, NEW p \in Procs, NEW how, Fail(p, how)
  PROVE  IInv'
<1>1. Forget(p, how) /\ UNCHANGED <<source, fileVars, history>>
  BY DEF Fail, Exit
<1>2. TypeOK'
  BY <1>1, ForgetInv DEF IInv, TypeOK, fileVars, PlanType
<1>3. ReportIsBacked'
  BY <1>1 DEF IInv, ReportIsBacked, fileVars, history
<1>. QED BY <1>1, <1>2, <1>3, ForgetInv DEF IInv

(* What an invocation does leaves the others alone.                        *)
LEMMA OthersKnow ==
  ASSUME IInv, NEW q \in Procs,
         pc'[q] = pc[q], command'[q] = command[q], held'[q] = held[q],
         draft'[q] = draft[q], heldPlan'[q] = heldPlan[q], todo'[q] = todo[q],
         found'[q] = found[q], ranked'[q] = ranked[q]
  PROVE  Knows(q)'
BY DEF IInv, Knows, DigestsOf

LEMMA StartInv ==
  ASSUME IInv, NEW p \in Procs, NEW c \in Commands, Start(p, c)
  PROVE  IInv'
<1>1. CASE Fail(p, "error")
  BY <1>1, FailInv
<1>2. CASE ApplyInputsValid(c)
  <2>1. /\ pc' = [pc EXCEPT ![p] = "load"] /\ command' = [command EXCEPT ![p] = c]
        /\ pc[p] = "idle"
        /\ UNCHANGED <<source, fileVars, held, draft, heldPlan, todo, found, ranked, history>>
    BY <1>2 DEF Start, Goto
  <2>2. TypeOK'
    BY <2>1 DEF IInv, TypeOK, fileVars, PlanType, Labels
  <2>3. ReportIsBacked'
    BY <2>1 DEF IInv, ReportIsBacked, fileVars, history
  <2>4. ASSUME NEW q \in Procs PROVE Knows(q)'
    <3>1. CASE q = p
      BY <3>1, <2>1 DEF IInv, TypeOK, Knows, Holding, Complete, Planned
    <3>2. CASE q # p
      BY <3>2, <2>1, OthersKnow DEF IInv, TypeOK
    <3>. QED BY <3>1, <3>2
  <2>. QED BY <2>2, <2>3, <2>4 DEF IInv
<1>. QED BY <1>1, <1>2 DEF Start

LEMMA ResumeManifestInv ==
  ASSUME IInv, NEW p \in Procs, ResumeManifest(p)
  PROVE  IInv'
<1>1. CASE Fail(p, "error")
  BY <1>1, FailInv
<1>2. CASE manifest.complete /\ manifest.scope = command[p].scope
  <2>1. /\ pc' = [pc EXCEPT ![p] = "sessions"] /\ held' = [held EXCEPT ![p] = manifest]
        /\ pc[p] = "load" /\ manifest # Absent
        /\ UNCHANGED <<source, fileVars, command, draft, heldPlan, todo, found, ranked, history>>
    BY <1>2 DEF ResumeManifest, Goto, Unchanged
  <2>2. TypeOK'
    BY <2>1 DEF IInv, TypeOK, fileVars, PlanType, Labels
  <2>3. ReportIsBacked'
    BY <2>1 DEF IInv, ReportIsBacked, fileVars, history
  <2>4. ASSUME NEW q \in Procs PROVE Knows(q)'
    <3>1. CASE q = p
      BY <3>1, <2>1, <1>2 DEF IInv, TypeOK, Knows, Holding, Complete, Planned, Labels
    <3>2. CASE q # p
      BY <3>2, <2>1, OthersKnow DEF IInv, TypeOK
    <3>. QED BY <3>1, <3>2
  <2>. QED BY <2>2, <2>3, <2>4 DEF IInv
<1>. QED BY <1>1, <1>2 DEF ResumeManifest

LEMMA ListSourcesInv ==
  ASSUME IInv, NEW p \in Procs, ListSources(p)
  PROVE  IInv'
<1>1. CASE Fail(p, "error")
  BY <1>1, FailInv
<1>2. CASE OutDirEmpty
  <2>1. PICK r \in RunIds :
          held' = [held EXCEPT ![p] =
                    [runId |-> r, scope |-> command[p].scope, files |-> NoFiles,
                     complete |-> TRUE, seal |-> Absent]]
    BY <1>2 DEF ListSources
  <2>2. /\ pc' = [pc EXCEPT ![p] = "scan"]
        /\ todo' = [todo EXCEPT ![p] = {s \in Sources : source[s] # Absent}]
        /\ pc[p] = "load"
        /\ UNCHANGED <<source, fileVars, command, draft, heldPlan, found, ranked, history>>
    BY <1>2 DEF ListSources, Goto, Unchanged
  <2>3. command[p] \in Commands
    BY <2>2 DEF IInv, Knows
  <2>4. command[p].scope \in Scopes
    BY <2>3, CommandsAssumption DEF Command
  <2>5. [runId |-> r, scope |-> command[p].scope, files |-> NoFiles,
         complete |-> TRUE, seal |-> Absent] \in Manifest
    BY <2>4 DEF Manifest, Files, NoFiles
  <2>6. TypeOK'
    BY <2>1, <2>2, <2>5, SourcesAssumption DEF IInv, TypeOK, fileVars, PlanType, Labels
  <2>7. ReportIsBacked'
    BY <2>2 DEF IInv, ReportIsBacked, fileVars, history
  <2>8. ASSUME NEW q \in Procs PROVE Knows(q)'
    <3>1. CASE q = p
      BY <3>1, <2>1, <2>2, <2>3, <2>5 DEF IInv, TypeOK, Knows, Holding, Complete, Planned, Labels
    <3>2. CASE q # p
      BY <3>2, <2>1, <2>2, OthersKnow DEF IInv, TypeOK
    <3>. QED BY <3>1, <3>2
  <2>. QED BY <2>6, <2>7, <2>8 DEF IInv
<1>. QED BY <1>1, <1>2 DEF ListSources

LEMMA ScanSourceInv ==
  ASSUME IInv, NEW p \in Procs, ScanSource(p)
  PROVE  IInv'
<1>1. PICK s \in todo[p] :
        /\ held' = [held EXCEPT ![p] = WithFile(held[p], s, source[s])]
        /\ todo' = [todo EXCEPT ![p] = @ \ {s}]
  BY DEF ScanSource
<1>2. /\ pc[p] = "scan"
      /\ UNCHANGED <<source, fileVars, pc, command, draft, heldPlan, found, ranked, history>>
  BY DEF ScanSource, Unchanged
<1>3. held[p] \in Manifest
  BY <1>2 DEF IInv, Knows, Holding, Labels
<1>4. WithFile(held[p], s, source[s]) \in Manifest
  <2>1. [held[p].files EXCEPT ![s] = source[s]] \in Files
    BY <1>3 DEF IInv, TypeOK, Files, Manifest
  <2>2. (held[p].complete /\ source[s] \notin Broken \cup {Absent}) \in BOOLEAN
    OBVIOUS
  <2>3. /\ held[p].runId \in RunIds /\ held[p].scope \in Scopes
        /\ held[p].seal \in Seal \cup {Absent}
    BY <1>3 DEF Manifest
  <2>. QED BY <2>1, <2>2, <2>3 DEF Manifest, WithFile
<1>5. TypeOK'
  <2>1. held' \in [Procs -> Manifest \cup {Absent}]
    BY <1>1, <1>4 DEF IInv, TypeOK
  <2>. QED BY <2>1, <1>1, <1>2 DEF IInv, TypeOK, fileVars, PlanType, Labels
<1>6. ReportIsBacked'
  BY <1>2 DEF IInv, ReportIsBacked, fileVars, history
<1>7. ASSUME NEW q \in Procs PROVE Knows(q)'
  <2>1. CASE q = p
    BY <2>1, <1>1, <1>2, <1>4 DEF IInv, TypeOK, Knows, Holding, Complete, Planned, Labels
  <2>2. CASE q # p
    BY <2>2, <1>1, <1>2, OthersKnow DEF IInv, TypeOK
  <2>. QED BY <2>1, <2>2
<1>. QED BY <1>5, <1>6, <1>7 DEF IInv

(* The steps that only move an invocation on, or change what its loop has  *)
(* left: the files and the other invocations stay as they are.             *)
LEMMA AdvanceInv ==
  ASSUME IInv, NEW p \in Procs, NEW label \in Labels \ {"idle"}, NEW left \in SUBSET Nat,
         pc[p] \in Holding,
         pc' = [pc EXCEPT ![p] = label], todo' = [todo EXCEPT ![p] = left],
         UNCHANGED <<source, fileVars, command, held, draft, heldPlan, found, ranked, history>>,
         label \in Complete => held[p].complete,
         label \in Planned => pc[p] \in Planned,
         label \notin Planned => found[p] = {},
         label = "reports" => left \subseteq DOMAIN heldPlan[p].batches,
         label \notin {"hash", "validate", "apply"}
  PROVE  IInv'
<1>1. TypeOK'
  BY DEF IInv, TypeOK, fileVars, PlanType
<1>2. ReportIsBacked'
  BY DEF IInv, ReportIsBacked, fileVars, history
<1>3. ASSUME NEW q \in Procs PROVE Knows(q)'
  <2>1. CASE q = p
    <3>1. /\ pc'[p] = label /\ todo'[p] = left /\ command'[p] = command[p]
          /\ held'[p] = held[p] /\ heldPlan'[p] = heldPlan[p] /\ found'[p] = found[p]
      BY DEF IInv, TypeOK
    <3>2. held[p] \in Manifest /\ command[p] \in Commands
      BY DEF IInv, Knows, Holding
    <3>3. pc[p] \in Planned =>
            /\ heldPlan[p] # Absent
            /\ \A b \in DOMAIN heldPlan[p].batches :
                 heldPlan[p].batches[b] \subseteq DigestsOf(held[p])
            /\ \A f \in found[p] : Evidence[f] \in DigestsOf(held[p])
      BY DEF IInv, Knows
    <3>4. DigestsOf(held[p])' = DigestsOf(held[p])
      BY <3>1 DEF DigestsOf
    <3>. QED BY <2>1, <3>1, <3>2, <3>3, <3>4 DEF Knows
  <2>2. CASE q # p
    BY <2>2, OthersKnow DEF IInv, TypeOK
  <2>. QED BY <2>1, <2>2
<1>. QED BY <1>1, <1>2, <1>3 DEF IInv

LEMMA ScanDoneInv ==
  ASSUME IInv, NEW p \in Procs, ScanDone(p)
  PROVE  IInv'
<1>1. held[p] \in Manifest /\ found[p] = {}
  BY DEF ScanDone, IInv, Knows, Holding, Planned, Labels
<1>2. DigestsOf(held[p]) \in SUBSET Nat
  BY <1>1, DigestsAreSources, SourcesAssumption
<1>. QED
  BY <1>1, <1>2, AdvanceInv
  DEF ScanDone, Goto, Unchanged, Labels, Holding, Complete, Planned

LEMMA RecheckSourceInv ==
  ASSUME IInv, NEW p \in Procs, RecheckSource(p)
  PROVE  IInv'
<1>1. CASE Fail(p, "error")
  BY <1>1, FailInv
<1>2. CASE ~Fail(p, "error")
  <2>1. PICK s \in todo[p] : todo' = [todo EXCEPT ![p] = todo[p] \ {s}]
    BY <1>2 DEF RecheckSource
  <2>2. /\ pc[p] = "recheck"
        /\ UNCHANGED <<source, fileVars, pc, command, held, draft, heldPlan, found, ranked, history>>
    BY <1>2 DEF RecheckSource, Unchanged
  <2>3. pc' = [pc EXCEPT ![p] = "recheck"]
    BY <2>2 DEF IInv, TypeOK
  <2>4. held[p].complete /\ found[p] = {}
    BY <2>2 DEF IInv, Knows, Holding, Complete, Planned, Labels
  <2>5. todo[p] \ {s} \in SUBSET Nat
    BY DEF IInv, TypeOK
  <2>. QED
    BY <2>1, <2>2, <2>3, <2>4, <2>5, AdvanceInv DEF Labels, Holding, Complete, Planned
<1>. QED BY <1>1, <1>2

LEMMA RecheckDoneInv ==
  ASSUME IInv, NEW p \in Procs, RecheckDone(p)
  PROVE  IInv'
<1>1. /\ pc[p] = "recheck" /\ pc' = [pc EXCEPT ![p] = "plan"]
      /\ UNCHANGED <<source, fileVars, command, held, draft, heldPlan, todo, found, ranked, history>>
  BY DEF RecheckDone, Goto, Unchanged
<1>2. held[p].complete /\ found[p] = {}
  BY <1>1 DEF IInv, Knows, Holding, Complete, Planned, Labels
<1>3. todo' = [todo EXCEPT ![p] = todo[p]] /\ todo[p] \in SUBSET Nat
  BY <1>1 DEF IInv, TypeOK
<1>. QED
  BY <1>1, <1>2, <1>3, AdvanceInv DEF Labels, Holding, Complete, Planned

LEMMA ReadsDoneInv ==
  ASSUME IInv, NEW p \in Procs, ReadsDone(p)
  PROVE  IInv'
<1>1. /\ pc[p] = "reports" /\ pc' = [pc EXCEPT ![p] = "reconcile"]
      /\ UNCHANGED <<source, fileVars, command, held, draft, heldPlan, todo, found, ranked, history>>
  BY DEF ReadsDone, Goto, Unchanged
<1>2. held[p].complete
  BY <1>1 DEF IInv, Knows, Holding, Complete, Labels
<1>3. todo' = [todo EXCEPT ![p] = todo[p]] /\ todo[p] \in SUBSET Nat
  BY <1>1 DEF IInv, TypeOK
<1>. QED
  BY <1>1, <1>2, <1>3, AdvanceInv DEF Labels, Holding, Complete, Planned

(* The steps that write files and leave the memory of every invocation     *)
(* alone: those of the host and of the world.                              *)
LEMMA OutsideInv ==
  ASSUME IInv, UNCHANGED <<procVars, finalReport, basis>>,
         source' \in Files, digestFile' \in Files,
         manifest' \in Manifest \cup {Absent},
         plan' = plan \/ plan' = Absent,
         minerReport' \in [BatchIds -> MinerReport \cup {Absent, Garbage}],
         reconRequest' = reconRequest \/ reconRequest' = Absent,
         reconReport' \in ReconReport \cup {Absent, Garbage},
         litter' \in BOOLEAN
  PROVE  IInv'
<1>1. TypeOK'
  BY DEF IInv, TypeOK, procVars, PlanType
<1>2. ReportIsBacked'
  BY DEF IInv, ReportIsBacked, DigestsOf
<1>3. ASSUME NEW q \in Procs PROVE Knows(q)'
  BY OthersKnow DEF procVars
<1>. QED BY <1>1, <1>2, <1>3 DEF IInv

LEMMA HostMinesInv ==
  ASSUME IInv, NEW b \in BatchIds, HostMines(b)
  PROVE  IInv'
<1>1. /\ plan # Absent /\ b \in DOMAIN plan.batches
      /\ UNCHANGED <<source, digestFile, manifest, plan, reconRequest, reconReport,
                     finalReport, litter, procVars, basis>>
  BY DEF HostMines, history
<1>2. plan.runId \in RunIds /\ plan.batches[b] \in SUBSET Sources
  <2>1. plan.runId \in RunIds /\ plan.batches \in BatchMaps
    BY <1>1 DEF IInv, TypeOK, PlanType
  <2>2. PICK k \in BatchIds : plan.batches \in [1 .. k -> SUBSET Sources]
    BY <2>1 DEF BatchMaps
  <2>. QED BY <1>1, <2>1, <2>2
<1>3. minerReport' \in [BatchIds -> MinerReport \cup {Absent, Garbage}]
  <2>1. CASE minerReport' = [minerReport EXCEPT ![b] = Garbage]
    BY <2>1 DEF IInv, TypeOK
  <2>2. ASSUME NEW answer \in SUBSET Findings,
               minerReport' = [minerReport EXCEPT ![b] =
                 [runId |-> plan.runId, paths |-> plan.batches[b], findings |-> answer]]
        PROVE  minerReport' \in [BatchIds -> MinerReport \cup {Absent, Garbage}]
    BY <1>2, <2>2 DEF IInv, TypeOK, MinerReport
  <2>. QED BY <2>1, <2>2 DEF HostMines
<1>. QED BY <1>1, <1>3, OutsideInv DEF IInv, TypeOK

LEMMA HostStraysInv ==
  ASSUME IInv, NEW b \in BatchIds, HostStrays(b)
  PROVE  IInv'
BY OutsideInv DEF HostStrays, history, IInv, TypeOK

LEMMA HostReconcilesInv ==
  ASSUME IInv, HostReconciles
  PROVE  IInv'
<1>1. /\ plan # Absent
      /\ UNCHANGED <<source, digestFile, manifest, plan, minerReport, reconRequest,
                     finalReport, litter, procVars, basis>>
  BY DEF HostReconciles, history
<1>2. plan.runId \in RunIds
  BY <1>1 DEF IInv, TypeOK, PlanType
<1>3. reconReport' \in ReconReport \cup {Absent, Garbage}
  BY <1>2, GroupingsAssumption DEF HostReconciles, ReconReport
<1>. QED BY <1>1, <1>3, OutsideInv DEF IInv, TypeOK

LEMMA HostDiscardsReconciliationInv ==
  ASSUME IInv, HostDiscardsReconciliation
  PROVE  IInv'
BY OutsideInv DEF HostDiscardsReconciliation, history, IInv, TypeOK

LEMMA TranscriptChangesInv ==
  ASSUME IInv, NEW s \in Sources, TranscriptChanges(s)
  PROVE  IInv'
<1>1. source' \in Files
  BY DEF TranscriptChanges, IInv, TypeOK, Files
<1>. QED
  BY <1>1, OutsideInv DEF TranscriptChanges, fileVars, history, IInv, TypeOK

LEMMA DigestChangesInv ==
  ASSUME IInv, NEW s \in Sources, DigestChanges(s)
  PROVE  IInv'
<1>1. digestFile' \in Files
  BY DEF DigestChanges, IInv, TypeOK, Files
<1>. QED
  BY <1>1, OutsideInv DEF DigestChanges, history, IInv, TypeOK

(* The steps that write the final report or a pause file and exit.         *)
LEMMA ExitInv ==
  ASSUME IInv, NEW p \in Procs, NEW how, Exit(p, how),
         UNCHANGED <<digestFile, minerReport, reconReport>>,
         manifest' \in Manifest \cup {Absent},
         plan' # Absent => PlanType(plan'),
         reconRequest' \in [runId : RunIds, items : SUBSET Findings] \cup {Absent},
         finalReport' \in FinalReport \cup {Absent}, litter' \in BOOLEAN,
         ReportIsBacked'
  PROVE  IInv'
<1>1. Forget(p, how) /\ source' = source
  BY DEF Exit
<1>2. TypeOK'
  BY <1>1, ForgetInv DEF IInv, TypeOK, PlanType
<1>. QED BY <1>1, <1>2, ForgetInv DEF IInv

LEMMA CrashInv ==
  ASSUME IInv, NEW p \in Procs, Crash(p)
  PROVE  IInv'
<1>1. /\ Forget(p, "crashed") /\ litter' \in BOOLEAN
      /\ UNCHANGED <<source, digestFile, manifest, plan, minerReport,
                     reconRequest, reconReport, finalReport, history>>
  BY DEF Crash, IInv, TypeOK
<1>2. TypeOK'
  BY <1>1, ForgetInv DEF IInv, TypeOK, PlanType
<1>3. ReportIsBacked'
  BY <1>1 DEF IInv, ReportIsBacked, DigestsOf, history
<1>. QED BY <1>1, <1>2, <1>3, ForgetInv DEF IInv

LEMMA AwaitMinersInv ==
  ASSUME IInv, NEW p \in Procs, AwaitMiners(p)
  PROVE  IInv'
<1>1. CASE Fail(p, "error")
  BY <1>1, FailInv
<1>2. CASE Exit(p, "awaiting-miners") /\ UNCHANGED <<fileVars, history>>
  <2>1. ReportIsBacked'
    BY <1>2 DEF IInv, ReportIsBacked, DigestsOf, fileVars, history
  <2>. QED BY <1>2, <2>1, ExitInv DEF IInv, TypeOK, fileVars, PlanType
<1>. QED BY <1>1, <1>2 DEF AwaitMiners

LEMMA RequestReconciliationInv ==
  ASSUME IInv, NEW p \in Procs, RequestReconciliation(p)
  PROVE  IInv'
<1>1. /\ Exit(p, "awaiting-reconciliation") /\ pc[p] = "reconcile"
      /\ reconRequest' = [runId |-> held[p].runId, items |-> found[p]]
      /\ UNCHANGED <<digestFile, manifest, plan, minerReport, reconReport,
                     finalReport, litter, history>>
  BY DEF RequestReconciliation
<1>2. held[p].runId \in RunIds /\ found[p] \in SUBSET Findings
  BY <1>1 DEF IInv, TypeOK, Knows, Holding, Labels, Manifest
<1>3. ReportIsBacked'
  BY <1>1 DEF IInv, ReportIsBacked, DigestsOf, history
<1>. QED BY <1>1, <1>2, <1>3, ExitInv DEF IInv, TypeOK, PlanType

(* The final report is typed and carries a complete manifest.              *)
LEMMA ReportIsTyped ==
  ASSUME IInv, NEW p \in Procs, pc[p] \in Complete, NEW groups \in SUBSET Group,
         NEW stage \in {"diagnosis-complete", "apply-preview", "apply-validated"},
         NEW approved \in SUBSET ClusterKeys, NEW proofs \in SUBSET ClusterKeys
  PROVE  /\ Report(p, stage, groups, approved, proofs) \in FinalReport
         /\ Report(p, stage, groups, approved, proofs).manifest.complete
<1>1. held[p] \in Manifest /\ held[p].complete
  BY DEF IInv, Knows, Complete
<1>. QED BY <1>1 DEF Report, FinalReport

LEMMA ReportNothingInv ==
  ASSUME IInv, NEW p \in Procs, ReportNothing(p)
  PROVE  IInv' /\ (finalReport' = finalReport \/ finalReport' \in FinalReport)
<1>1. CASE Fail(p, "error")
  BY <1>1, FailInv DEF Fail, fileVars
<1>2. CASE ~Fail(p, "error")
  <2>1. /\ finalReport' = Report(p, "diagnosis-complete", {}, {}, {})
        /\ basis' = {} /\ Exit(p, "diagnosis-complete") /\ pc[p] = "build"
        /\ UNCHANGED <<digestFile, manifest, plan, minerReport, reconRequest,
                       reconReport, litter>>
    BY <1>2 DEF ReportNothing
  <2>2. finalReport' \in FinalReport /\ finalReport'.manifest.complete
    BY <2>1, ReportIsTyped DEF Holding, Complete, Labels
  <2>3. finalReport'.groups = {}
    BY <2>1 DEF Report
  <2>4. ReportIsBacked'
    BY <2>1, <2>2, <2>3 DEF ReportIsBacked, WellGrouped
  <2>. QED BY <2>1, <2>2, <2>4, ExitInv DEF IInv, TypeOK, PlanType
<1>. QED BY <1>1, <1>2

LEMMA FinishInv ==
  ASSUME IInv, NEW p \in Procs, Finish(p)
  PROVE  IInv' /\ (finalReport' = finalReport \/ finalReport' \in FinalReport)
<1>1. CASE Fail(p, "error")
  BY <1>1, FailInv DEF Fail, fileVars
<1>2. CASE ~Fail(p, "error")
  <2>1. /\ finalReport' = Report(p, StageOf(command[p]), ranked[p],
                                 command[p].approved, command[p].proofs)
        /\ basis' = found[p] /\ Exit(p, StageOf(command[p])) /\ pc[p] = "apply"
        /\ UNCHANGED <<digestFile, manifest, plan, minerReport, reconRequest,
                       reconReport, litter>>
    BY <1>2 DEF Finish
  <2>2. /\ command[p] \in Commands
        /\ WellGrouped(ranked[p]) /\ \A g \in ranked[p] : g.members \subseteq found[p]
        /\ \A f \in found[p] : Evidence[f] \in DigestsOf(held[p])
    BY <2>1 DEF IInv, Knows, Planned
  <2>3. /\ command[p].approved \in SUBSET ClusterKeys /\ command[p].apply \in BOOLEAN
        /\ command[p].proofs \in SUBSET ClusterKeys /\ ranked[p] \in SUBSET Group
    BY <2>2, CommandsAssumption DEF Command, IInv, TypeOK
  <2>4. StageOf(command[p]) \in {"diagnosis-complete", "apply-preview", "apply-validated"}
    BY <2>3 DEF StageOf
  <2>5. finalReport' \in FinalReport /\ finalReport'.manifest.complete
    BY <2>1, <2>3, <2>4, ReportIsTyped DEF Holding, Complete, Labels
  <2>6. finalReport'.groups = ranked[p] /\ finalReport'.manifest = held[p]
    BY <2>1 DEF Report
  <2>7. DigestsOf(finalReport'.manifest) = DigestsOf(held[p])
    BY <2>6
  <2>8. ReportIsBacked'
    BY <2>1, <2>2, <2>5, <2>6, <2>7 DEF ReportIsBacked, WellGrouped, DigestsOf
  <2>. QED BY <2>1, <2>5, <2>8, ExitInv DEF IInv, TypeOK, PlanType
<1>. QED BY <1>1, <1>2

LEMMA CheckDigestInv ==
  ASSUME IInv, NEW p \in Procs, CheckDigest(p)
  PROVE  IInv'
<1>1. CASE Fail(p, "error")
  BY <1>1, FailInv
<1>2. CASE ~Fail(p, "error")
  <2>1. /\ pc[p] = "write" /\ pc' = [pc EXCEPT ![p] = "replace"]
        /\ UNCHANGED <<source, fileVars, command, held, draft, heldPlan, todo, found,
                       ranked, history>>
    BY <1>2 DEF CheckDigest, Goto, Unchanged
  <2>2. found[p] = {}
    BY <2>1 DEF IInv, Knows, Planned
  <2>3. todo' = [todo EXCEPT ![p] = todo[p]] /\ todo[p] \in SUBSET Nat
    BY <2>1 DEF IInv, TypeOK
  <2>. QED
    BY <2>1, <2>2, <2>3, AdvanceInv DEF Labels, Holding, Complete, Planned
<1>. QED BY <1>1, <1>2

LEMMA WriteDigestInv ==
  ASSUME IInv, NEW p \in Procs, WriteDigest(p)
  PROVE  IInv'
<1>1. PICK s \in todo[p] :
        /\ digestFile' = [digestFile EXCEPT ![s] = held[p].files[s]]
        /\ todo' = [todo EXCEPT ![p] = @ \ {s}]
  BY DEF WriteDigest
<1>2. /\ pc[p] = "replace" /\ pc' = [pc EXCEPT ![p] = "write"]
      /\ UNCHANGED <<source, manifest, plan, minerReport, reconRequest, reconReport,
                     finalReport, litter, command, held, draft, heldPlan, found, ranked,
                     history>>
  BY DEF WriteDigest, Goto, Unchanged
<1>3. held[p] \in Manifest
  BY <1>2 DEF IInv, Knows, Holding, Labels
<1>4. digestFile' \in Files
  BY <1>1, <1>3 DEF IInv, TypeOK, Files, Manifest
<1>5. TypeOK'
  BY <1>1, <1>2, <1>4 DEF IInv, TypeOK, PlanType, Labels
<1>6. ReportIsBacked'
  BY <1>2 DEF IInv, ReportIsBacked, DigestsOf, history
<1>7. ASSUME NEW q \in Procs PROVE Knows(q)'
  <2>1. CASE q = p
    BY <2>1, <1>2, <1>3 DEF IInv, TypeOK, Knows, Holding, Complete, Planned, Labels
  <2>2. CASE q # p
    BY <2>2, <1>1, <1>2, OthersKnow DEF IInv, TypeOK
  <2>. QED BY <2>1, <2>2
<1>. QED BY <1>5, <1>6, <1>7 DEF IInv

LEMMA WriteManifestInv ==
  ASSUME IInv, NEW p \in Procs, WriteManifest(p)
  PROVE  IInv'
<1>1. /\ pc[p] = "write" /\ manifest' = held[p]
      /\ UNCHANGED <<digestFile, plan, minerReport, reconRequest, reconReport,
                     finalReport, litter, history>>
  BY DEF WriteManifest
<1>2. held[p] \in Manifest
  BY <1>1 DEF IInv, Knows, Holding, Labels
<1>3. ReportIsBacked'
  BY <1>1 DEF IInv, ReportIsBacked, DigestsOf, history
<1>4. CASE Exit(p, "error")
  BY <1>1, <1>2, <1>3, <1>4, ExitInv DEF IInv, TypeOK, PlanType
<1>5. CASE held[p].complete /\ ~Exit(p, "error")
  <2>1. /\ pc' = [pc EXCEPT ![p] = "seal"]
        /\ UNCHANGED <<source, command, held, draft, heldPlan, todo, found, ranked>>
    BY <1>5 DEF WriteManifest, Goto
  <2>2. TypeOK'
    BY <1>1, <1>2, <2>1 DEF IInv, TypeOK, PlanType, Labels
  <2>3. ASSUME NEW q \in Procs PROVE Knows(q)'
    <3>1. CASE q = p
      BY <3>1, <1>1, <1>2, <1>5, <2>1
      DEF IInv, TypeOK, Knows, Holding, Complete, Planned, Labels
    <3>2. CASE q # p
      BY <3>2, <2>1, OthersKnow DEF IInv, TypeOK
    <3>. QED BY <3>1, <3>2
  <2>. QED BY <1>3, <2>2, <2>3 DEF IInv
<1>. QED BY <1>4, <1>5 DEF WriteManifest

LEMMA ReadManifestBackInv ==
  ASSUME IInv, NEW p \in Procs, ReadManifestBack(p)
  PROVE  IInv'
<1>1. CASE Fail(p, "error")
  BY <1>1, FailInv
<1>2. CASE ~Fail(p, "error")
  <2>. DEFINE blank == [hashes |-> NoFiles, scope |-> held[p].scope]
              read == [manifest EXCEPT !.seal = blank]
  <2>1. /\ pc[p] = "seal" /\ manifest # Absent
        /\ draft' = [draft EXCEPT ![p] = read]
        /\ todo' = [todo EXCEPT ![p] = DigestsOf(held[p])]
        /\ pc' = [pc EXCEPT ![p] = "hash"]
        /\ UNCHANGED <<source, fileVars, command, held, heldPlan, found, ranked, history>>
    BY <1>2 DEF ReadManifestBack, Goto, Unchanged
  <2>2. held[p] \in Manifest /\ held[p].complete /\ found[p] = {}
    BY <2>1 DEF IInv, Knows, Holding, Complete, Planned, Labels
  <2>3. blank \in Seal
    BY <2>2 DEF Seal, Manifest, Files, NoFiles
  <2>4. read \in Manifest /\ read.seal = blank
    BY <2>1, <2>3 DEF IInv, TypeOK, Manifest
  <2>. HIDE DEF read, blank
  <2>5. DigestsOf(held[p]) \in SUBSET Nat
    BY <2>2, DigestsAreSources, SourcesAssumption
  <2>6. TypeOK'
    BY <2>1, <2>4, <2>5 DEF IInv, TypeOK, PlanType, Labels, fileVars
  <2>7. ReportIsBacked'
    BY <2>1 DEF IInv, ReportIsBacked, DigestsOf, history, fileVars
  <2>8. ASSUME NEW q \in Procs PROVE Knows(q)'
    <3>1. CASE q = p
      BY <3>1, <2>1, <2>2, <2>3, <2>4, AbsentAssumption
      DEF IInv, TypeOK, Knows, Holding, Complete, Planned, Labels
    <3>2. CASE q # p
      BY <3>2, <2>1, OthersKnow DEF IInv, TypeOK
    <3>. QED BY <3>1, <3>2
  <2>. QED BY <2>6, <2>7, <2>8 DEF IInv
<1>. QED BY <1>1, <1>2

(* A hash more in a sealed manifest.                                       *)
LEMMA WithHashIsSealed ==
  ASSUME NEW m \in Manifest, m.seal # Absent, NEW s, NEW digest,
         s \in Sources => digest \in Contents \cup {Absent}
  PROVE  WithHash(m, s, digest) \in Manifest /\ WithHash(m, s, digest).seal \in Seal
<1>1. m.seal \in Seal
  BY DEF Manifest
<1>2. [m.seal EXCEPT !.hashes = [m.seal.hashes EXCEPT ![s] = digest]] \in Seal
  BY <1>1 DEF Seal, Files
<1>. QED BY <1>2 DEF WithHash, Manifest

LEMMA HashDigestInv ==
  ASSUME IInv, NEW p \in Procs, HashDigest(p)
  PROVE  IInv'
<1>1. CASE Fail(p, "error")
  BY <1>1, FailInv
<1>2. CASE ~Fail(p, "error")
  <2>1. PICK s \in todo[p] :
          /\ draft' = [draft EXCEPT ![p] = WithHash(draft[p], s, digestFile[s])]
          /\ todo' = [todo EXCEPT ![p] = @ \ {s}]
    BY <1>2 DEF HashDigest
  <2>2. /\ pc[p] = "hash"
        /\ UNCHANGED <<source, fileVars, pc, command, held, heldPlan, found, ranked,
                       history>>
    BY <1>2 DEF HashDigest, Unchanged
  <2>3. /\ held[p] \in Manifest /\ held[p].complete /\ found[p] = {}
        /\ draft[p] \in Manifest /\ draft[p].seal # Absent
    BY <2>2 DEF IInv, TypeOK, Knows, Holding, Complete, Planned, Labels
  <2>4. s \in Sources => digestFile[s] \in Contents \cup {Absent}
    BY DEF IInv, TypeOK, Files
  <2>5. /\ WithHash(draft[p], s, digestFile[s]) \in Manifest
        /\ WithHash(draft[p], s, digestFile[s]).seal \in Seal
    BY <2>3, <2>4, WithHashIsSealed
  <2>6. TypeOK'
    BY <2>1, <2>2, <2>5 DEF IInv, TypeOK, PlanType, Labels, fileVars
  <2>7. ReportIsBacked'
    BY <2>2 DEF IInv, ReportIsBacked, DigestsOf, history, fileVars
  <2>8. ASSUME NEW q \in Procs PROVE Knows(q)'
    <3>1. CASE q = p
      BY <3>1, <2>1, <2>2, <2>3, <2>5, AbsentAssumption
      DEF IInv, TypeOK, Knows, Holding, Complete, Planned, Labels
    <3>2. CASE q # p
      BY <3>2, <2>1, <2>2, OthersKnow DEF IInv, TypeOK
    <3>. QED BY <3>1, <3>2
  <2>. QED BY <2>6, <2>7, <2>8 DEF IInv
<1>. QED BY <1>1, <1>2

LEMMA SealManifestInv ==
  ASSUME IInv, NEW p \in Procs, SealManifest(p)
  PROVE  IInv'
<1>1. /\ pc[p] = "hash" /\ manifest' = draft[p]
      /\ draft' = [draft EXCEPT ![p] = Absent]
      /\ pc' = [pc EXCEPT ![p] = "plan"]
      /\ UNCHANGED <<source, digestFile, plan, minerReport, reconRequest, reconReport,
                     finalReport, litter, command, held, heldPlan, todo, found,
                     ranked, history>>
  BY DEF SealManifest, Goto, Unchanged
<1>2. held[p] \in Manifest /\ held[p].complete /\ draft[p] \in Manifest
  BY <1>1 DEF IInv, TypeOK, Knows, Holding, Complete, Labels
<1>3. TypeOK'
  BY <1>1, <1>2 DEF IInv, TypeOK, PlanType, Labels
<1>4. ReportIsBacked'
  BY <1>1 DEF IInv, ReportIsBacked, DigestsOf, history
<1>5. ASSUME NEW q \in Procs PROVE Knows(q)'
  <2>1. CASE q = p
    BY <2>1, <1>1, <1>2 DEF IInv, TypeOK, Knows, Holding, Complete, Planned, Labels
  <2>2. CASE q # p
    BY <2>2, <1>1, OthersKnow DEF IInv, TypeOK
  <2>. QED BY <2>1, <2>2
<1>. QED BY <1>3, <1>4, <1>5 DEF IInv

LEMMA CheckSessionsInv ==
  ASSUME IInv, NEW p \in Procs, CheckSessions(p)
  PROVE  IInv'
<1>1. CASE Fail(p, "error")
  BY <1>1, FailInv
<1>2. CASE ~Fail(p, "error")
  <2>1. /\ pc[p] = "sessions" /\ manifest # Absent /\ manifest.seal # Absent
        /\ held' = [held EXCEPT ![p] = [held[p] EXCEPT !.seal = manifest.seal]]
        /\ todo' = [todo EXCEPT ![p] = Scanned(held[p])]
        /\ pc' = [pc EXCEPT ![p] = "recheck"]
        /\ UNCHANGED <<source, fileVars, command, draft, heldPlan, found, ranked, history>>
    BY <1>2 DEF CheckSessions, Goto, Unchanged
  <2>2. held[p] \in Manifest /\ held[p].complete
    BY <2>1 DEF IInv, Knows, Holding, Complete, Labels
  <2>3. manifest.seal \in Seal
    BY <2>1 DEF IInv, TypeOK, Manifest
  <2>4. /\ [held[p] EXCEPT !.seal = manifest.seal] \in Manifest
        /\ [held[p] EXCEPT !.seal = manifest.seal].complete
    BY <2>2, <2>3 DEF Manifest
  <2>5. Scanned(held[p]) \in SUBSET Nat
    BY SourcesAssumption DEF Scanned
  <2>6. TypeOK'
    BY <2>1, <2>4, <2>5 DEF IInv, TypeOK, PlanType, Labels, fileVars
  <2>7. ReportIsBacked'
    BY <2>1 DEF IInv, ReportIsBacked, DigestsOf, history, fileVars
  <2>8. ASSUME NEW q \in Procs PROVE Knows(q)'
    <3>1. CASE q = p
      BY <3>1, <2>1, <2>4 DEF IInv, TypeOK, Knows, Holding, Complete, Planned, Labels
    <3>2. CASE q # p
      BY <3>2, <2>1, OthersKnow DEF IInv, TypeOK
    <3>. QED BY <3>1, <3>2
  <2>. QED BY <2>6, <2>7, <2>8 DEF IInv
<1>. QED BY <1>1, <1>2

LEMMA LoadPlanInv ==
  ASSUME IInv, NEW p \in Procs, LoadPlan(p)
  PROVE  IInv'
<1>. DEFINE label == IF plan = Absent THEN "build" ELSE "validate"
<1>1. /\ pc[p] = "plan" /\ heldPlan' = [heldPlan EXCEPT ![p] = plan]
      /\ pc' = [pc EXCEPT ![p] = label] /\ label \in {"build", "validate"}
      /\ label = "validate" => plan # Absent
      /\ UNCHANGED <<source, fileVars, command, held, draft, todo, found, ranked,
                     history>>
  BY DEF LoadPlan, Goto, Unchanged
<1>. HIDE DEF label
<1>2. held[p] \in Manifest /\ held[p].complete /\ found[p] = {}
  BY <1>1 DEF IInv, Knows, Holding, Complete, Planned, Labels
<1>3. TypeOK'
  BY <1>1 DEF IInv, TypeOK, PlanType, Labels, fileVars
<1>4. ReportIsBacked'
  BY <1>1 DEF IInv, ReportIsBacked, DigestsOf, history, fileVars
<1>5. ASSUME NEW q \in Procs PROVE Knows(q)'
  <2>1. CASE q = p
    BY <2>1, <1>1, <1>2 DEF IInv, TypeOK, Knows, Holding, Complete, Planned, Labels
  <2>2. CASE q # p
    BY <2>2, <1>1, OthersKnow DEF IInv, TypeOK
  <2>. QED BY <2>1, <2>2
<1>. QED BY <1>3, <1>4, <1>5 DEF IInv

LEMMA BuildPlanInv ==
  ASSUME IInv, NEW p \in Procs, BuildPlan(p)
  PROVE  IInv'
<1>1. CASE Fail(p, "error")
  BY <1>1, FailInv
<1>2. CASE ~Fail(p, "error")
  <2>1. /\ pc[p] = "build" /\ manifest # Absent /\ DigestsOf(held[p]) # {}
        /\ heldPlan' = [heldPlan EXCEPT ![p] = NewPlan(p)]
        /\ pc' = [pc EXCEPT ![p] = "dispatch"]
        /\ \A s \in DigestsOf(held[p]) : digestFile[s] # Absent
        /\ UNCHANGED <<source, fileVars, command, held, draft, todo, found, ranked,
                       history>>
    BY <1>2 DEF BuildPlan, Goto, Unchanged
  <2>2. /\ held[p] \in Manifest /\ held[p].complete /\ found[p] = {}
        /\ command[p].count \in Nat \ {0}
    BY <2>1, CommandsAssumption
    DEF IInv, Knows, Holding, Complete, Planned, Labels, Command
  <2>3. NewPlan(p).batches \in BatchMaps
    BY <2>1, <2>2, DigestsAreSources, DigestsAreMeasured, BatchesAreTyped DEF NewPlan
  <2>4. PlanType(NewPlan(p))
    BY <2>1, <2>2, <2>3 DEF IInv, TypeOK, PlanType, NewPlan, Manifest
  <2>5. TypeOK'
    <3>1. \A q \in Procs : heldPlan'[q] # Absent => PlanType(heldPlan'[q])
      BY <2>1, <2>4 DEF IInv, TypeOK
    <3>2. DOMAIN heldPlan' = Procs
      BY <2>1 DEF IInv, TypeOK
    <3>. HIDE DEF PlanType
    <3>3. plan' # Absent => PlanType(plan')
      BY <2>1 DEF IInv, TypeOK, fileVars
    <3>. QED BY <2>1, <3>1, <3>2, <3>3 DEF IInv, TypeOK, Labels, fileVars, PlanType
  <2>6. ReportIsBacked'
    BY <2>1 DEF IInv, ReportIsBacked, DigestsOf, history, fileVars
  <2>7. ASSUME NEW q \in Procs PROVE Knows(q)'
    <3>1. CASE q = p
      <4>1. /\ pc'[p] = "dispatch" /\ command'[p] = command[p] /\ held'[p] = held[p]
            /\ found'[p] = {}
        BY <2>1, <2>2 DEF IInv, TypeOK
      <4>2. command[p] \in Commands
        BY <2>1 DEF IInv, Knows
      <4>. QED BY <3>1, <2>2, <4>1, <4>2 DEF Knows, Holding, Complete, Planned, Labels
    <3>2. CASE q # p
      BY <3>2, <2>1, OthersKnow DEF IInv, TypeOK
    <3>. QED BY <3>1, <3>2
  <2>. QED BY <2>5, <2>6, <2>7 DEF IInv
<1>. QED BY <1>1, <1>2

LEMMA WritePlanInv ==
  ASSUME IInv, NEW p \in Procs, WritePlan(p)
  PROVE  IInv'
<1>1. /\ plan' = heldPlan[p] /\ Exit(p, "awaiting-miners")
      /\ UNCHANGED <<digestFile, manifest, minerReport, reconRequest, reconReport,
                     finalReport, litter, basis>>
  BY DEF WritePlan
<1>2. plan' # Absent => PlanType(heldPlan[p])
  BY <1>1 DEF IInv, TypeOK
<1>3. plan' # Absent => PlanType(plan')
  BY <1>1, <1>2
<1>4. ReportIsBacked'
  BY <1>1 DEF IInv, ReportIsBacked, DigestsOf
<1>. QED BY <1>1, <1>3, <1>4, ExitInv DEF IInv, TypeOK

LEMMA ValidatePlanInv ==
  ASSUME IInv, NEW p \in Procs, ValidatePlan(p)
  PROVE  IInv'
<1>1. CASE Fail(p, "error")
  BY <1>1, FailInv
<1>2. CASE ~Fail(p, "error")
  <2>1. /\ pc[p] = "validate" /\ PlanValid(heldPlan[p], held[p], command[p].count)
        /\ todo' = [todo EXCEPT ![p] = DOMAIN heldPlan[p].batches]
        /\ pc' = [pc EXCEPT ![p] = "reports"]
        /\ UNCHANGED <<source, fileVars, command, held, draft, heldPlan, found, ranked,
                       history>>
    BY <1>2 DEF ValidatePlan, Goto, Unchanged
  <2>2. /\ held[p] \in Manifest /\ held[p].complete /\ found[p] = {}
        /\ heldPlan[p] # Absent
    BY <2>1 DEF IInv, Knows, Holding, Complete, Planned, Labels
  <2>3. PlanType(heldPlan[p])
    BY <2>2 DEF IInv, TypeOK
  <2>4. DOMAIN heldPlan[p].batches \subseteq Nat
    <3>1. PICK k \in BatchIds : heldPlan[p].batches \in [1 .. k -> SUBSET Sources]
      BY <2>3 DEF PlanType, BatchMaps
    <3>. QED BY <3>1 DEF BatchIds
  <2>5. \A b \in DOMAIN heldPlan[p].batches :
          heldPlan[p].batches[b] \subseteq DigestsOf(held[p])
    BY <2>1 DEF PlanValid, IsPartition
  <2>6. TypeOK'
    BY <2>1, <2>3, <2>4 DEF IInv, TypeOK, PlanType, Labels, fileVars
  <2>7. ReportIsBacked'
    BY <2>1 DEF IInv, ReportIsBacked, DigestsOf, history, fileVars
  <2>8. ASSUME NEW q \in Procs PROVE Knows(q)'
    <3>1. CASE q = p
      <4>1. /\ pc'[p] = "reports" /\ command'[p] = command[p] /\ held'[p] = held[p]
            /\ heldPlan'[p] = heldPlan[p] /\ todo'[p] = DOMAIN heldPlan[p].batches
            /\ found'[p] = {}
        BY <2>1, <2>2 DEF IInv, TypeOK
      <4>2. DigestsOf(held[p])' = DigestsOf(held[p]) /\ command[p] \in Commands
        BY <2>1, <4>1 DEF DigestsOf, IInv, Knows
      <4>. QED
        BY <3>1, <2>1, <2>2, <2>5, <4>1, <4>2 DEF Knows, Holding, Complete, Planned
    <3>2. CASE q # p
      BY <3>2, <2>1, OthersKnow DEF IInv, TypeOK
    <3>. QED BY <3>1, <3>2
  <2>. QED BY <2>6, <2>7, <2>8 DEF IInv
<1>. QED BY <1>1, <1>2

LEMMA ReadReportInv ==
  ASSUME IInv, NEW p \in Procs, ReadReport(p)
  PROVE  IInv'
<1>1. /\ pc[p] = "reports"
      /\ UNCHANGED <<source, fileVars, command, held, draft, heldPlan, ranked, history>>
  BY DEF ReadReport, Unchanged
<1>2. PICK b \in todo[p] :
        IF ReportValid(minerReport[b], held[p].runId, heldPlan[p].batches[b])
        THEN /\ found' = [found EXCEPT ![p] = @ \cup minerReport[b].findings]
             /\ todo' = [todo EXCEPT ![p] = @ \ {b}]
             /\ UNCHANGED pc
        ELSE /\ Goto(p, "missing")
             /\ UNCHANGED <<found, todo>>
  BY DEF ReadReport
<1>3. /\ held[p] \in Manifest /\ held[p].complete /\ command[p] \in Commands
      /\ heldPlan[p] # Absent /\ PlanType(heldPlan[p])
      /\ todo[p] \subseteq DOMAIN heldPlan[p].batches
      /\ \A k \in DOMAIN heldPlan[p].batches :
           heldPlan[p].batches[k] \subseteq DigestsOf(held[p])
      /\ \A f \in found[p] : Evidence[f] \in DigestsOf(held[p])
  BY <1>1 DEF IInv, TypeOK, Knows, Holding, Complete, Planned, Labels
<1>4. ReportIsBacked'
  BY <1>1 DEF IInv, ReportIsBacked, DigestsOf, history, fileVars
<1>5. CASE ReportValid(minerReport[b], held[p].runId, heldPlan[p].batches[b])
  <2>1. /\ found' = [found EXCEPT ![p] = @ \cup minerReport[b].findings]
        /\ todo' = [todo EXCEPT ![p] = @ \ {b}]
        /\ UNCHANGED pc
    BY <1>2, <1>5
  <2>2. b \in BatchIds
    <3>1. PICK k \in BatchIds : heldPlan[p].batches \in [1 .. k -> SUBSET Sources]
      BY <1>3 DEF PlanType, BatchMaps
    <3>2. Cardinality(Sources) \in Nat
      BY SourcesAssumption, FS_CardinalityType
    <3>. QED BY <1>3, <3>1, <3>2 DEF BatchIds
  <2>3. minerReport[b] \in MinerReport
    BY <1>5, <2>2 DEF ReportValid, IInv, TypeOK
  <2>4. /\ minerReport[b].findings \in SUBSET Findings
        /\ \A f \in minerReport[b].findings : Evidence[f] \in DigestsOf(held[p])
    BY <1>3, <1>5, <2>3 DEF ReportValid, MinerReport
  <2>5. TypeOK'
    BY <1>1, <2>1, <2>4 DEF IInv, TypeOK, PlanType, Labels, fileVars
  <2>6. ASSUME NEW q \in Procs PROVE Knows(q)'
    <3>1. CASE q = p
      <4>1. /\ pc'[p] = "reports" /\ command'[p] = command[p] /\ held'[p] = held[p]
            /\ heldPlan'[p] = heldPlan[p] /\ todo'[p] = todo[p] \ {b}
            /\ found'[p] = found[p] \cup minerReport[b].findings
        BY <1>1, <2>1 DEF IInv, TypeOK
      <4>2. DigestsOf(held[p])' = DigestsOf(held[p])
        BY <4>1 DEF DigestsOf
      <4>3. \A f \in found'[p] : Evidence[f] \in DigestsOf(held[p])
        BY <1>3, <2>4, <4>1
      <4>. QED BY <3>1, <1>3, <4>1, <4>2, <4>3 DEF Knows, Holding, Complete, Planned
    <3>2. CASE q # p
      BY <3>2, <1>1, <2>1, OthersKnow DEF IInv, TypeOK
    <3>. QED BY <3>1, <3>2
  <2>. QED BY <1>4, <2>5, <2>6 DEF IInv
<1>6. CASE ~ReportValid(minerReport[b], held[p].runId, heldPlan[p].batches[b])
  <2>1. pc' = [pc EXCEPT ![p] = "missing"] /\ UNCHANGED <<found, todo>>
    BY <1>2, <1>6 DEF Goto
  <2>2. todo' = [todo EXCEPT ![p] = todo[p]] /\ todo[p] \in SUBSET Nat
    BY <2>1 DEF IInv, TypeOK
  <2>. QED
    BY <1>1, <1>3, <2>1, <2>2, AdvanceInv DEF Labels, Holding, Complete, Planned
<1>. QED BY <1>5, <1>6

(* A ranking of accepted findings in which no two clusters meet.           *)
LEMMA ToApplyInv ==
  ASSUME IInv, NEW p \in Procs, NEW groups \in SUBSET Group, ToApply(p, groups),
         pc[p] = "reconcile", WellGrouped(groups),
         \A g \in groups : g.members \subseteq found[p]
  PROVE  IInv'
<1>1. /\ ranked' = [ranked EXCEPT ![p] = groups]
      /\ pc' = [pc EXCEPT ![p] = "apply"]
      /\ UNCHANGED <<source, fileVars, command, held, draft, heldPlan, todo, found, history>>
  BY DEF ToApply, Goto, Unchanged
<1>2. TypeOK'
  BY <1>1 DEF IInv, TypeOK, PlanType, Labels, fileVars
<1>3. ReportIsBacked'
  BY <1>1 DEF IInv, ReportIsBacked, DigestsOf, history, fileVars
<1>4. ASSUME NEW q \in Procs PROVE Knows(q)'
  <2>1. CASE q = p
    <3>1. /\ held[p] \in Manifest /\ held[p].complete /\ command[p] \in Commands
          /\ heldPlan[p] # Absent
          /\ \A k \in DOMAIN heldPlan[p].batches :
               heldPlan[p].batches[k] \subseteq DigestsOf(held[p])
          /\ \A f \in found[p] : Evidence[f] \in DigestsOf(held[p])
      BY DEF IInv, Knows, Holding, Complete, Planned, Labels
    <3>2. /\ pc'[p] = "apply" /\ command'[p] = command[p] /\ held'[p] = held[p]
          /\ heldPlan'[p] = heldPlan[p] /\ found'[p] = found[p] /\ ranked'[p] = groups
      BY <1>1 DEF IInv, TypeOK
    <3>3. DigestsOf(held[p])' = DigestsOf(held[p]) /\ WellGrouped(ranked[p])'
      BY <3>2 DEF DigestsOf, WellGrouped
    <3>. QED BY <2>1, <3>1, <3>2, <3>3 DEF Knows, Holding, Complete, Planned
  <2>2. CASE q # p
    BY <2>2, <1>1, OthersKnow DEF IInv, TypeOK
  <2>. QED BY <2>1, <2>2
<1>. QED BY <1>2, <1>3, <1>4 DEF IInv

LEMMA RankFewInv ==
  ASSUME IInv, NEW p \in Procs, RankFew(p)
  PROVE  IInv'
<1>. DEFINE groups == {[key |-> ProposedKey[f], members |-> {f}] : f \in found[p]}
<1>1. /\ pc[p] = "reconcile" /\ ~NeedsReconciliation(found[p]) /\ ToApply(p, groups)
  BY DEF RankFew
<1>2. found[p] \in SUBSET Findings
  BY DEF IInv, TypeOK
<1>3. IsFiniteSet(found[p]) /\ Cardinality(found[p]) \in Nat
  BY <1>2, FindingsAssumption, FS_Subset, FS_CardinalityType
<1>4. \A f, g \in found[p] : f = g
  <2>1. Cardinality(found[p]) = 0 \/ Cardinality(found[p]) = 1
    BY <1>1, <1>3 DEF NeedsReconciliation
  <2>2. CASE Cardinality(found[p]) = 0
    BY <1>3, <2>2, FS_EmptySet
  <2>3. CASE Cardinality(found[p]) = 1
    BY <1>3, <2>3, FS_Singleton
  <2>. QED BY <2>1, <2>2, <2>3
<1>5. groups \in SUBSET Group
  BY <1>2, FindingsAssumption DEF Group
<1>6. WellGrouped(groups)
  BY <1>4 DEF WellGrouped
<1>7. \A g \in groups : g.members \subseteq found[p]
  OBVIOUS
<1>. QED BY <1>1, <1>5, <1>6, <1>7, ToApplyInv

LEMMA RankGroupsInv ==
  ASSUME IInv, NEW p \in Procs, RankGroups(p)
  PROVE  IInv'
<1>1. CASE Fail(p, "error") \/ Fail(p, "traceback")
  BY <1>1, FailInv
<1>2. CASE ~(Fail(p, "error") \/ Fail(p, "traceback"))
  <2>1. /\ pc[p] = "reconcile" /\ reconReport # Absent /\ reconRequest # Absent
        /\ GroupsValid(reconReport, reconRequest)
        /\ \A g \in reconReport.groups : g.members \subseteq found[p]
        /\ ToApply(p, reconReport.groups)
    BY <1>2 DEF RankGroups
  <2>2. reconReport \in ReconReport
    BY <2>1 DEF IInv, TypeOK, GroupsValid
  <2>3. reconReport.groups \in SUBSET Group
    BY <2>2 DEF ReconReport
  <2>4. WellGrouped(reconReport.groups)
    BY <2>1 DEF WellGrouped, GroupsValid
  <2>. QED BY <2>1, <2>3, <2>4, ToApplyInv
<1>. QED BY <1>1, <1>2

LEMMA StartOverInv ==
  ASSUME IInv, StartOver
  PROVE  IInv'
<1>1. /\ digestFile' = NoFiles /\ manifest' = Absent /\ plan' = Absent
      /\ minerReport' = NoReports
      /\ reconRequest' = Absent /\ reconReport' = Absent /\ finalReport' = Absent
      /\ litter' = FALSE /\ UNCHANGED <<source, procVars>>
  BY DEF StartOver
<1>2. TypeOK'
  BY <1>1 DEF IInv, TypeOK, PlanType, procVars, NoFiles, NoReports, Files
<1>3. ReportIsBacked'
  BY <1>1 DEF ReportIsBacked
<1>4. \A q \in Procs : Knows(q)'
  BY <1>1, OthersKnow DEF procVars
<1>. QED BY <1>2, <1>3, <1>4 DEF IInv

LEMMA NextInv ==
  ASSUME IInv, [Next]_vars
  PROVE  IInv'
<1>1. ASSUME NEW p \in Procs, NEW c \in Commands, Start(p, c) PROVE IInv'
  BY <1>1, StartInv
<1>2. ASSUME NEW p \in Procs, Invocation(p) PROVE IInv'
  BY <1>2, ResumeManifestInv, ListSourcesInv, ScanSourceInv, ScanDoneInv,
     CheckDigestInv, WriteDigestInv, WriteManifestInv, ReadManifestBackInv,
     HashDigestInv, SealManifestInv, CheckSessionsInv, RecheckSourceInv, RecheckDoneInv,
     LoadPlanInv, ReportNothingInv, BuildPlanInv, WritePlanInv, ValidatePlanInv, ReadReportInv, ReadsDoneInv, AwaitMinersInv,
     RequestReconciliationInv, RankFewInv, RankGroupsInv, FinishInv
  DEF Invocation
<1>3. ASSUME NEW p \in Procs, Crash(p) PROVE IInv'
  BY <1>3, CrashInv
<1>4. CASE Host
  BY <1>4, HostMinesInv, HostStraysInv, HostReconcilesInv,
     HostDiscardsReconciliationInv, StartOverInv DEF Host
<1>5. CASE World
  BY <1>5, TranscriptChangesInv, DigestChangesInv DEF World
<1>6. CASE UNCHANGED vars
  <2>1. UNCHANGED <<source, fileVars, procVars, history>>
    BY <1>6 DEF vars
  <2>. QED
    BY <2>1, OutsideInv DEF IInv, TypeOK, fileVars, history
<1>. QED BY <1>1, <1>2, <1>3, <1>4, <1>5, <1>6 DEF Next

-----------------------------------------------------------------------------
(* The inductive invariant holds in every state of every run.              *)
THEOREM Invariance == Spec => []IInv
<1>1. Init => IInv
  BY InitInv
<1>2. IInv /\ [Next]_vars => IInv'
  BY NextInv
<1>. QED BY <1>1, <1>2, PTL DEF Spec

(* Every file of the run directory and every invocation's memory holds a   *)
(* value of its kind.                                                      *)
THEOREM TypeCorrect == Spec => []TypeOK
<1>1. IInv => TypeOK
  BY DEF IInv
<1>. QED BY <1>1, Invariance, PTL

(* A published report speaks of a complete manifest, ranks no finding      *)
(* twice, and every finding behind it cites a digest of that manifest,     *)
(* for any number of transcripts, findings, concurrent invocations, kills  *)
(* and edits, and whatever the host writes.                                *)
THEOREM ReportBacked == Spec => []ReportIsBacked
<1>1. IInv => ReportIsBacked
  BY DEF IInv
<1>. QED BY <1>1, Invariance, PTL

-----------------------------------------------------------------------------
(***************************************************************************)
(* What the run hands to its host and to its next invocation: the ranking  *)
(* is of all accepted findings, unless overlapping invocations replace a   *)
(* plan that was dispatched; invocations that run one after the other, as  *)
(* SKILL.md has the host rerun the command, keep the plan and the sealed   *)
(* manifest, stop on stale inputs, and go through the stages of            *)
(* ReflectionHandoff with one ranking.                                     *)
(***************************************************************************)

(* An invocation keeps its place and its memory.                           *)
Same(q) ==
  UNCHANGED <<pc[q], held[q], draft[q], heldPlan[q], todo[q], found[q], ranked[q]>>

LEMMA ForgetFrame ==
  ASSUME IInv, NEW p \in Procs, NEW how, Forget(p, how)
  PROVE  pc'[p] = "idle" /\ \A q \in Procs \ {p} : Same(q)
BY DEF IInv, TypeOK, Forget, Same

LEMMA ForgetOutcome ==
  ASSUME NEW p \in Procs, NEW how, Forget(p, how), DOMAIN outcome = Procs
  PROVE  /\ DOMAIN outcome' = Procs /\ outcome'[p] = how
         /\ \A q \in Procs \ {p} : outcome'[q] = outcome[q]
BY DEF Forget

(* The files a ranking is made from, or has become.                        *)
rankFiles == <<plan, minerReport, reconRequest, finalReport, basis>>

(* The points at which an invocation relies on the plan it has loaded.     *)
Relying == {"validate"} \cup Planned

(* The steps of an invocation that do not bring it there, and the kill.    *)
Early(p) ==
  \/ ResumeManifest(p) \/ ListSources(p) \/ ScanSource(p) \/ ScanDone(p)
  \/ CheckDigest(p) \/ WriteDigest(p) \/ WriteManifest(p)
  \/ ReadManifestBack(p) \/ HashDigest(p) \/ SealManifest(p)
  \/ CheckSessions(p) \/ RecheckSource(p) \/ RecheckDone(p) \/ BuildPlan(p)
  \/ Crash(p) \/ AwaitMiners(p)

LEMMA EarlyFrame ==
  ASSUME IInv, NEW p \in Procs, Early(p)
  PROVE  /\ UNCHANGED rankFiles /\ pc'[p] \notin Relying
         /\ \A q \in Procs \ {p} : Same(q)
         /\ \/ UNCHANGED outcome
            \/ \E how \in {"error", "crashed", "awaiting-miners"} : Forget(p, how)
<1>. USE DEF rankFiles, fileVars, history, Unchanged, Relying, Planned
<1>1. ASSUME NEW how \in {"error", "crashed", "awaiting-miners"}, Forget(p, how)
      PROVE  pc'[p] \notin Relying /\ \A q \in Procs \ {p} : Same(q)
  BY <1>1, ForgetFrame
<1>2. CASE Fail(p, "error")
  BY <1>1, <1>2 DEF Fail, Exit
<1>3. CASE ResumeManifest(p)
  BY <1>2, <1>3 DEF ResumeManifest, Goto, Same, IInv, TypeOK
<1>4. CASE ListSources(p)
  BY <1>2, <1>4 DEF ListSources, Goto, Same, IInv, TypeOK
<1>5. CASE ScanSource(p)
  BY <1>5 DEF ScanSource, Same, IInv, TypeOK
<1>6. CASE ScanDone(p)
  BY <1>6 DEF ScanDone, Goto, Same, IInv, TypeOK
<1>7. CASE WriteDigest(p)
  BY <1>7 DEF WriteDigest, Goto, Same, IInv, TypeOK
<1>8. CASE WriteManifest(p)
  BY <1>1, <1>8 DEF WriteManifest, Exit, Goto, Same, IInv, TypeOK
<1>9. CASE SealManifest(p)
  BY <1>9 DEF SealManifest, Goto, Same, IInv, TypeOK
<1>10. CASE CheckSessions(p)
  BY <1>2, <1>10 DEF CheckSessions, Goto, Same, IInv, TypeOK
<1>11. CASE RecheckSource(p)
  BY <1>2, <1>11 DEF RecheckSource, Same, IInv, TypeOK
<1>12. CASE RecheckDone(p)
  BY <1>12 DEF RecheckDone, Goto, Same, IInv, TypeOK
<1>13. CASE Crash(p)
  BY <1>1, <1>13 DEF Crash
<1>14. CASE AwaitMiners(p)
  BY <1>1, <1>2, <1>14 DEF AwaitMiners, Exit
<1>15. CASE CheckDigest(p)
  BY <1>2, <1>15 DEF CheckDigest, Goto, Same, IInv, TypeOK
<1>16. CASE ReadManifestBack(p)
  BY <1>2, <1>16 DEF ReadManifestBack, Goto, Same, IInv, TypeOK
<1>17. CASE HashDigest(p)
  BY <1>2, <1>17 DEF HashDigest, Same, IInv, TypeOK
<1>18. CASE BuildPlan(p)
  BY <1>2, <1>18 DEF BuildPlan, Goto, Same, IInv, TypeOK
<1>. QED
  BY <1>3, <1>4, <1>5, <1>6, <1>7, <1>8, <1>9, <1>10, <1>11, <1>12, <1>13, <1>14,
     <1>15, <1>16, <1>17, <1>18
  DEF Early
-----------------------------------------------------------------------------
(* A host that does not rewrite: an accepted report stays, so all          *)
(* invocations agree on the findings, and the groups are still about them. *)
(* (Of one that does rewrite the contrary is known: the run                *)
(* RevisedMinerReport.)                                                    *)
AllMined == \A b \in DOMAIN plan.batches : Mined(b)
FindingsOf(batches) == UNION {minerReport[b].findings : b \in batches}
AllFound == FindingsOf(DOMAIN plan.batches)

Accounts(p) ==
  /\ pc[p] \in Relying => plan # Absent /\ heldPlan[p] = plan
  /\ pc[p] \in Planned => held[p].runId = plan.runId
  /\ pc[p] = "reports" =>
       /\ \A b \in DOMAIN plan.batches \ todo[p] : Mined(b)
       /\ found[p] = FindingsOf(DOMAIN plan.batches \ todo[p])
  /\ pc[p] \in {"reconcile", "apply"} => AllMined /\ found[p] = AllFound
  /\ pc[p] = "apply" => UNION {g.members : g \in ranked[p]} = found[p]

RequestStands ==
  reconRequest # Absent =>
    /\ plan # Absent /\ AllMined
    /\ reconRequest = [runId |-> plan.runId, items |-> AllFound]
    /\ NeedsReconciliation(AllFound)

(* The request is about the findings of all accepted reports, and so is    *)
(* what an invocation has read so far about the batches it is done with.   *)
(* DOMAIN outcome is the one part of typing that IInv leaves out.          *)
RankInv ==
  /\ RequestStands /\ \A p \in Procs : Accounts(p)
  /\ EveryFindingRanked
  /\ DOMAIN outcome = Procs /\ FailuresAreReported

LEMMA AccountsStay ==
  ASSUME UNCHANGED <<plan, minerReport>>
  PROVE  /\ AllFound' = AllFound /\ (AllMined' <=> AllMined)
         /\ \A b : Mined(b)' <=> Mined(b)
         /\ \A bs : FindingsOf(bs)' = FindingsOf(bs)
         /\ \A q \in Procs : Same(q) /\ Accounts(q) => Accounts(q)'
<1>1. /\ AllFound' = AllFound /\ (AllMined' <=> AllMined)
      /\ \A b : Mined(b)' <=> Mined(b)
  BY DEF AllFound, FindingsOf, AllMined, Mined, ReportValid
<1>2. \A bs : FindingsOf(bs)' = FindingsOf(bs)
  BY DEF FindingsOf
<1>3. ASSUME NEW q \in Procs, Same(q), Accounts(q) PROVE Accounts(q)'
  BY <1>1, <1>2, <1>3 DEF Accounts, Same
<1>. QED BY <1>1, <1>2, <1>3

(* What is known of the files of the ranking holds while they stay.        *)
LEMMA RankFilesStay ==
  ASSUME RankInv, UNCHANGED rankFiles
  PROVE  /\ RequestStands' /\ EveryFindingRanked'
         /\ AllFound' = AllFound /\ (AllMined' <=> AllMined)
         /\ \A b : Mined(b)' <=> Mined(b)
         /\ \A bs : FindingsOf(bs)' = FindingsOf(bs)
         /\ \A q \in Procs : Same(q) => Accounts(q)'
<1>1. RequestStands'
  BY AccountsStay DEF RankInv, RequestStands, NeedsReconciliation, rankFiles
<1>2. EveryFindingRanked'
  BY DEF RankInv, EveryFindingRanked, rankFiles
<1>. QED BY <1>1, <1>2, AccountsStay DEF RankInv, rankFiles

(* A step that leaves the files of the ranking alone; whoever works with   *)
(* them keeps its place or leaves.                                         *)
LEMMA QuietRank ==
  ASSUME RankInv, UNCHANGED rankFiles,
         \A q \in Procs : pc'[q] \notin Relying \/ Same(q),
         DOMAIN outcome' = Procs, FailuresAreReported'
  PROVE  RankInv'
<1>1. \A q \in Procs : pc'[q] \notin Relying => Accounts(q)'
  BY DEF Accounts, Planned, Relying
<1>. QED BY <1>1, RankFilesStay DEF RankInv

LEMMA FailRank ==
  ASSUME IInv, RankInv, NEW p \in Procs, NEW how, how # "traceback",
         Forget(p, how), UNCHANGED rankFiles
  PROVE  RankInv'
<1>1. DOMAIN outcome' = Procs /\ FailuresAreReported'
  BY ForgetOutcome DEF RankInv, FailuresAreReported
<1>2. pc'[p] \notin Relying /\ \A q \in Procs \ {p} : Same(q)
  BY ForgetFrame DEF Planned, Relying
<1>. QED BY <1>1, <1>2, QuietRank

LEMMA EarlyRank ==
  ASSUME IInv, RankInv, NEW p \in Procs, Early(p)
  PROVE  RankInv'
<1>1. /\ UNCHANGED rankFiles /\ pc'[p] \notin Relying
      /\ \A q \in Procs \ {p} : Same(q)
  BY EarlyFrame
<1>2. CASE UNCHANGED outcome
  BY <1>1, <1>2, QuietRank DEF RankInv, FailuresAreReported
<1>3. CASE \E how \in {"error", "crashed", "awaiting-miners"} : Forget(p, how)
  BY <1>1, <1>3, FailRank
<1>. QED BY <1>2, <1>3, EarlyFrame

LEMMA StartRank ==
  ASSUME IInv, RankInv, NEW p \in Procs, NEW c \in Commands, Start(p, c)
  PROVE  RankInv'
<1>1. CASE Fail(p, "error")
  BY <1>1, FailRank DEF Fail, Exit, rankFiles, fileVars, history
<1>2. CASE ~Fail(p, "error")
  <2>1. /\ pc' = [pc EXCEPT ![p] = "load"]
        /\ outcome' = [outcome EXCEPT ![p] = "running"]
        /\ UNCHANGED <<fileVars, held, draft, heldPlan, todo, found, ranked, history>>
    BY <1>2 DEF Start, Goto
  <2>2. \A q \in Procs : pc'[q] \notin Relying \/ Same(q)
    BY <2>1 DEF IInv, TypeOK, Planned, Relying, Same
  <2>3. DOMAIN outcome' = Procs /\ FailuresAreReported'
    BY <2>1 DEF RankInv, FailuresAreReported
  <2>. QED
    BY <2>1, <2>2, <2>3, QuietRank DEF rankFiles, fileVars, history
<1>. QED BY <1>1, <1>2

LEMMA LoadPlanRank ==
  ASSUME IInv, RankInv, NEW p \in Procs, LoadPlan(p)
  PROVE  RankInv'
<1>1. /\ pc[p] = "plan" /\ heldPlan' = [heldPlan EXCEPT ![p] = plan]
      /\ pc' = [pc EXCEPT ![p] = IF plan = Absent THEN "build" ELSE "validate"]
      /\ UNCHANGED rankFiles /\ UNCHANGED <<held, draft, todo, found, ranked, outcome>>
  BY DEF LoadPlan, Goto, Unchanged, rankFiles, fileVars, history
<1>2. \A q \in Procs \ {p} : Same(q)
  BY <1>1 DEF Same, IInv, TypeOK
<1>3. heldPlan'[p] = plan /\ pc'[p] = IF plan = Absent THEN "build" ELSE "validate"
  BY <1>1 DEF IInv, TypeOK
<1>4. Accounts(p)'
  BY <1>1, <1>3 DEF Accounts, Relying, Planned, rankFiles
<1>5. DOMAIN outcome' = Procs /\ FailuresAreReported'
  BY <1>1 DEF RankInv, FailuresAreReported
<1>. QED BY <1>1, <1>2, <1>4, <1>5, RankFilesStay DEF RankInv

(* A plan that is written where there was none.                            *)
LEMMA WritePlanRank ==
  ASSUME IInv, RankInv, NEW p \in Procs, WritePlan(p),
         plan # Absent => plan' = plan
  PROVE  RankInv'
<1>1. /\ Forget(p, "awaiting-miners")
      /\ UNCHANGED <<minerReport, reconRequest, finalReport, basis>>
  BY DEF WritePlan, Exit
<1>2. CASE plan # Absent
  BY <1>1, <1>2, FailRank DEF rankFiles
<1>3. CASE plan = Absent
  <2>1. DOMAIN outcome' = Procs /\ FailuresAreReported'
    BY <1>1, ForgetOutcome DEF RankInv, FailuresAreReported
  <2>2. RequestStands'
    BY <1>1, <1>3 DEF RankInv, RequestStands
  <2>3. ASSUME NEW q \in Procs PROVE Accounts(q)'
    <3>1. pc[q] \notin Relying
      BY <1>3 DEF RankInv, Accounts
    <3>2. pc'[q] \notin Relying
      BY <1>1, <3>1, ForgetFrame DEF Same, Relying, Planned
    <3>. QED BY <3>2 DEF Accounts, Relying, Planned
  <2>4. EveryFindingRanked'
    BY <1>1 DEF RankInv, EveryFindingRanked
  <2>. QED BY <2>1, <2>2, <2>3, <2>4 DEF RankInv
<1>. QED BY <1>2, <1>3

LEMMA ValidatePlanRank ==
  ASSUME IInv, RankInv, NEW p \in Procs, ValidatePlan(p)
  PROVE  RankInv'
<1>1. CASE Fail(p, "error")
  BY <1>1, FailRank DEF Fail, Exit, rankFiles, fileVars, history
<1>2. CASE ~Fail(p, "error")
  <2>1. /\ pc[p] = "validate" /\ heldPlan[p].runId = held[p].runId
        /\ todo' = [todo EXCEPT ![p] = DOMAIN heldPlan[p].batches]
        /\ pc' = [pc EXCEPT ![p] = "reports"]
        /\ UNCHANGED rankFiles
        /\ UNCHANGED <<held, draft, heldPlan, found, ranked, outcome>>
    BY <1>2 DEF ValidatePlan, PlanValid, Goto, Unchanged, rankFiles, fileVars, history
  <2>2. plan # Absent /\ heldPlan[p] = plan
    BY <2>1 DEF RankInv, Accounts, Relying
  <2>3. /\ pc'[p] = "reports" /\ held'[p] = held[p] /\ heldPlan'[p] = plan
        /\ todo'[p] = DOMAIN plan.batches /\ found'[p] = {}
    BY <2>1, <2>2 DEF IInv, TypeOK, Knows, Planned
  <2>4. Accounts(p)'
    BY <2>1, <2>2, <2>3 DEF Accounts, FindingsOf, rankFiles, Relying, Planned
  <2>5. \A q \in Procs \ {p} : Same(q)
    BY <2>1 DEF Same, IInv, TypeOK
  <2>6. DOMAIN outcome' = Procs /\ FailuresAreReported'
    BY <2>1 DEF RankInv, FailuresAreReported
  <2>. QED BY <2>1, <2>4, <2>5, <2>6, RankFilesStay DEF RankInv
<1>. QED BY <1>1, <1>2

LEMMA ReadReportRank ==
  ASSUME IInv, RankInv, NEW p \in Procs, ReadReport(p)
  PROVE  RankInv'
<1>1. /\ pc[p] = "reports" /\ UNCHANGED rankFiles
      /\ UNCHANGED <<held, draft, heldPlan, ranked, outcome>>
  BY DEF ReadReport, Unchanged, rankFiles, fileVars, history
<1>2. PICK b \in todo[p] :
        IF ReportValid(minerReport[b], held[p].runId, heldPlan[p].batches[b])
        THEN /\ found' = [found EXCEPT ![p] = @ \cup minerReport[b].findings]
             /\ todo' = [todo EXCEPT ![p] = @ \ {b}]
             /\ UNCHANGED pc
        ELSE /\ Goto(p, "missing")
             /\ UNCHANGED <<found, todo>>
  BY DEF ReadReport
<1>3. \A q \in Procs \ {p} : Same(q)
  BY <1>1, <1>2 DEF Same, IInv, TypeOK, Goto
<1>4. /\ plan # Absent /\ heldPlan[p] = plan /\ held[p].runId = plan.runId
      /\ todo[p] \subseteq DOMAIN plan.batches
      /\ \A k \in DOMAIN plan.batches \ todo[p] : Mined(k)
      /\ found[p] = FindingsOf(DOMAIN plan.batches \ todo[p])
  BY <1>1 DEF RankInv, Accounts, Planned, Relying, IInv, Knows
<1>5. Accounts(p)'
  <2>1. CASE ReportValid(minerReport[b], held[p].runId, heldPlan[p].batches[b])
    <3>1. /\ pc'[p] = "reports" /\ todo'[p] = todo[p] \ {b}
          /\ found'[p] = found[p] \cup minerReport[b].findings
          /\ held'[p] = held[p] /\ heldPlan'[p] = plan
      BY <1>1, <1>2, <1>4, <2>1 DEF IInv, TypeOK
    <3>2. Mined(b)
      BY <1>2, <1>4, <2>1 DEF Mined
    <3>3. DOMAIN plan.batches \ todo'[p] = (DOMAIN plan.batches \ todo[p]) \cup {b}
      BY <1>2, <1>4, <3>1
    <3>4. found'[p] = FindingsOf(DOMAIN plan.batches \ todo'[p])
      BY <1>4, <3>1, <3>3 DEF FindingsOf
    <3>5. plan' = plan /\ (\A k : Mined(k)' <=> Mined(k))
          /\ \A bs : FindingsOf(bs)' = FindingsOf(bs)
      BY <1>1, RankFilesStay DEF rankFiles
    <3>. QED BY <1>4, <3>1, <3>2, <3>3, <3>4, <3>5 DEF Accounts, Planned, Relying
  <2>2. CASE ~ReportValid(minerReport[b], held[p].runId, heldPlan[p].batches[b])
    <3>1. pc'[p] = "missing" /\ held'[p] = held[p] /\ heldPlan'[p] = heldPlan[p]
      BY <1>1, <1>2, <2>2 DEF Goto, IInv, TypeOK
    <3>. QED BY <1>1, <1>4, <3>1 DEF Accounts, Planned, Relying, rankFiles
  <2>. QED BY <2>1, <2>2
<1>6. DOMAIN outcome' = Procs /\ FailuresAreReported'
  BY <1>1 DEF RankInv, FailuresAreReported
<1>. QED BY <1>1, <1>3, <1>5, <1>6, RankFilesStay DEF RankInv

LEMMA ReadsDoneRank ==
  ASSUME IInv, RankInv, NEW p \in Procs, ReadsDone(p)
  PROVE  RankInv'
<1>1. /\ pc[p] = "reports" /\ todo[p] = {} /\ pc' = [pc EXCEPT ![p] = "reconcile"]
      /\ UNCHANGED rankFiles
      /\ UNCHANGED <<held, draft, heldPlan, todo, found, ranked, outcome>>
  BY DEF ReadsDone, Goto, Unchanged, rankFiles, fileVars, history
<1>2. \A q \in Procs \ {p} : Same(q)
  BY <1>1 DEF Same, IInv, TypeOK
<1>3. /\ plan # Absent /\ heldPlan[p] = plan /\ held[p].runId = plan.runId
      /\ AllMined /\ found[p] = AllFound
  BY <1>1 DEF RankInv, Accounts, Planned, Relying, AllMined, AllFound
<1>4. pc'[p] = "reconcile"
  BY <1>1 DEF IInv, TypeOK
<1>5. Accounts(p)'
  BY <1>1, <1>3, <1>4, RankFilesStay DEF Accounts, Planned, Relying, rankFiles
<1>6. DOMAIN outcome' = Procs /\ FailuresAreReported'
  BY <1>1 DEF RankInv, FailuresAreReported
<1>. QED BY <1>1, <1>2, <1>5, <1>6, RankFilesStay DEF RankInv

LEMMA RequestReconciliationRank ==
  ASSUME IInv, RankInv, NEW p \in Procs, RequestReconciliation(p)
  PROVE  RankInv'
<1>1. /\ pc[p] = "reconcile" /\ NeedsReconciliation(found[p])
      /\ reconRequest' = [runId |-> held[p].runId, items |-> found[p]]
      /\ UNCHANGED <<plan, minerReport, finalReport, basis>>
      /\ Forget(p, "awaiting-reconciliation")
  BY DEF RequestReconciliation, Exit, history
<1>2. /\ plan # Absent /\ held[p].runId = plan.runId /\ AllMined /\ found[p] = AllFound
  BY <1>1 DEF RankInv, Accounts, Planned, Relying
<1>3. RequestStands'
  BY <1>1, <1>2, AccountsStay DEF RequestStands, NeedsReconciliation
<1>4. ASSUME NEW q \in Procs PROVE Accounts(q)'
  <2>1. CASE q = p
    BY <1>1, <2>1, ForgetFrame DEF Accounts, Planned, Relying
  <2>2. CASE q # p
    BY <1>1, <2>2, ForgetFrame, AccountsStay DEF RankInv
  <2>. QED BY <2>1, <2>2
<1>5. DOMAIN outcome' = Procs /\ FailuresAreReported' /\ EveryFindingRanked'
  BY <1>1, ForgetOutcome DEF RankInv, FailuresAreReported, EveryFindingRanked
<1>. QED BY <1>3, <1>4, <1>5 DEF RankInv

(* A ranking in which every finding has its place.                         *)
LEMMA ToApplyRank ==
  ASSUME IInv, RankInv, NEW p \in Procs, NEW groups, ToApply(p, groups),
         pc[p] = "reconcile", UNION {g.members : g \in groups} = found[p]
  PROVE  RankInv'
<1>1. /\ ranked' = [ranked EXCEPT ![p] = groups] /\ pc' = [pc EXCEPT ![p] = "apply"]
      /\ UNCHANGED rankFiles /\ UNCHANGED <<held, draft, heldPlan, todo, found, outcome>>
  BY DEF ToApply, Goto, Unchanged, rankFiles, fileVars, history
<1>2. \A q \in Procs \ {p} : Same(q)
  BY <1>1 DEF Same, IInv, TypeOK
<1>3. /\ plan # Absent /\ heldPlan[p] = plan /\ held[p].runId = plan.runId
      /\ AllMined /\ found[p] = AllFound
  BY DEF RankInv, Accounts, Planned, Relying
<1>4. pc'[p] = "apply" /\ ranked'[p] = groups
  BY <1>1 DEF IInv, TypeOK
<1>5. Accounts(p)'
  BY <1>1, <1>3, <1>4, RankFilesStay DEF Accounts, Planned, Relying, rankFiles
<1>6. DOMAIN outcome' = Procs /\ FailuresAreReported'
  BY <1>1 DEF RankInv, FailuresAreReported
<1>. QED BY <1>1, <1>2, <1>5, <1>6, RankFilesStay DEF RankInv

Singles(findings) == {[key |-> ProposedKey[f], members |-> {f}] : f \in findings}

LEMMA SinglesCover ==
  ASSUME NEW findings
  PROVE  UNION {g.members : g \in Singles(findings)} = findings
<1>. DEFINE Single(f) == [key |-> ProposedKey[f], members |-> {f}]
            Members == {g.members : g \in Singles(findings)}
<1>1. \A f \in findings : Single(f) \in Singles(findings) /\ Single(f).members = {f}
  BY DEF Singles
<1>2. \A g \in Singles(findings) : \E f \in findings : g.members = {f}
  BY DEF Singles
<1>. HIDE DEF Single
<1>3. \A f \in findings : {f} \in Members
  BY <1>1
<1>4. \A m \in Members : \E f \in findings : m = {f}
  BY <1>2
<1>. HIDE DEF Members
<1>5. UNION Members = findings
  BY <1>3, <1>4
<1>. QED BY <1>5 DEF Members

LEMMA RankFewRank ==
  ASSUME IInv, RankInv, NEW p \in Procs, RankFew(p)
  PROVE  RankInv'
BY SinglesCover, ToApplyRank DEF RankFew, Singles

(* The persisted request is about the present findings, so no member of a  *)
(* group is unknown.                                                       *)
LEMMA RankGroupsRank ==
  ASSUME IInv, RankInv, NEW p \in Procs, RankGroups(p)
  PROVE  RankInv'
<1>1. CASE Fail(p, "error")
  BY <1>1, FailRank DEF Fail, Exit, rankFiles, fileVars, history
<1>2. CASE ~Fail(p, "error")
  <2>1. /\ pc[p] = "reconcile" /\ reconRequest # Absent
        /\ GroupsValid(reconReport, reconRequest)
    BY <1>2 DEF RankGroups
  <2>2. found[p] = AllFound /\ reconRequest.items = AllFound
    <3>1. found[p] = AllFound
      BY <2>1 DEF RankInv, Accounts
    <3>2. reconRequest = [runId |-> plan.runId, items |-> AllFound]
      BY <2>1 DEF RankInv, RequestStands
    <3>. QED BY <3>1, <3>2
  <2>3. UNION {g.members : g \in reconReport.groups} = found[p]
    BY <2>1, <2>2 DEF GroupsValid
  <2>4. \A g \in reconReport.groups : g.members \subseteq found[p]
    BY <2>3
  <2>5. ToApply(p, reconReport.groups)
    BY <1>2, <2>1, <2>4 DEF RankGroups
  <2>. QED BY <2>1, <2>3, <2>5, ToApplyRank
<1>. QED BY <1>1, <1>2

LEMMA PublishRank ==
  ASSUME IInv, RankInv, NEW p \in Procs, NEW how, how # "traceback", Forget(p, how),
         UNCHANGED <<plan, minerReport, reconRequest>>, EveryFindingRanked'
  PROVE  RankInv'
<1>1. RequestStands'
  BY AccountsStay DEF RankInv, RequestStands, NeedsReconciliation
<1>2. ASSUME NEW q \in Procs PROVE Accounts(q)'
  <2>1. CASE q = p
    BY <2>1, ForgetFrame DEF Accounts, Planned, Relying
  <2>2. CASE q # p
    BY <2>2, ForgetFrame, AccountsStay DEF RankInv
  <2>. QED BY <2>1, <2>2
<1>3. DOMAIN outcome' = Procs /\ FailuresAreReported'
  BY ForgetOutcome DEF RankInv, FailuresAreReported
<1>. QED BY <1>1, <1>2, <1>3 DEF RankInv

LEMMA ReportNothingRank ==
  ASSUME IInv, RankInv, NEW p \in Procs, ReportNothing(p)
  PROVE  RankInv'
<1>1. CASE Fail(p, "error")
  BY <1>1, FailRank DEF Fail, Exit, rankFiles, fileVars, history
<1>2. CASE ~Fail(p, "error")
  <2>1. /\ finalReport' = Report(p, "diagnosis-complete", {}, {}, {}) /\ basis' = {}
        /\ Forget(p, "diagnosis-complete")
        /\ UNCHANGED <<plan, minerReport, reconRequest>>
    BY <1>2 DEF ReportNothing, Exit
  <2>2. EveryFindingRanked'
    BY <2>1 DEF EveryFindingRanked, Report
  <2>. QED BY <2>1, <2>2, PublishRank
<1>. QED BY <1>1, <1>2

LEMMA FinishRank ==
  ASSUME IInv, RankInv, NEW p \in Procs, Finish(p)
  PROVE  RankInv'
<1>1. CASE Fail(p, "error")
  BY <1>1, FailRank DEF Fail, Exit, rankFiles, fileVars, history
<1>2. CASE ~Fail(p, "error")
  <2>1. /\ pc[p] = "apply" /\ basis' = found[p] /\ finalReport'.groups = ranked[p]
        /\ Forget(p, StageOf(command[p]))
        /\ UNCHANGED <<plan, minerReport, reconRequest>>
    BY <1>2 DEF Finish, Exit, Report
  <2>2. EveryFindingRanked'
    BY <2>1 DEF EveryFindingRanked, RankInv, Accounts
  <2>3. StageOf(command[p]) # "traceback"
    <3>1. command[p] \in Commands
      BY <2>1 DEF IInv, Knows
    <3>2. command[p].apply \in BOOLEAN
      BY <3>1, CommandsAssumption DEF Command
    <3>. QED BY <3>2 DEF StageOf
  <2>. QED BY <2>1, <2>2, <2>3, PublishRank
<1>. QED BY <1>1, <1>2

(* A report the host writes where none was accepted.                       *)
LEMMA NewReportRank ==
  ASSUME IInv, RankInv, UNCHANGED <<plan, reconRequest, finalReport, basis, procVars>>,
         \A k \in DOMAIN plan.batches : Mined(k) => minerReport'[k] = minerReport[k]
  PROVE  RankInv'
<1>1. /\ \A k \in DOMAIN plan.batches : Mined(k) => Mined(k)'
      /\ \A k \in DOMAIN plan.batches :
            Mined(k) => minerReport'[k].findings = minerReport[k].findings
  BY DEF Mined
<1>2. ASSUME NEW bs \in SUBSET DOMAIN plan.batches, \A k \in bs : Mined(k)
      PROVE  FindingsOf(bs)' = FindingsOf(bs) /\ \A k \in bs : Mined(k)'
  BY <1>1, <1>2 DEF FindingsOf
<1>3. AllMined => AllMined' /\ AllFound' = AllFound
  BY <1>2 DEF AllMined, AllFound
<1>4. RequestStands'
  BY <1>3 DEF RankInv, RequestStands, NeedsReconciliation
<1>5. ASSUME NEW q \in Procs PROVE Accounts(q)'
  <2>1. Accounts(q) /\ UNCHANGED <<pc, held, draft, heldPlan, todo, found, ranked>>
    BY DEF RankInv, procVars
  <2>2. DOMAIN plan.batches \ todo[q] \in SUBSET DOMAIN plan.batches
    OBVIOUS
  <2>3. pc[q] = "reports" =>
          /\ FindingsOf(DOMAIN plan.batches \ todo[q])' = FindingsOf(DOMAIN plan.batches \ todo[q])
          /\ \A k \in DOMAIN plan.batches \ todo[q] : Mined(k)'
    <3>1. CASE pc[q] = "reports"
      BY <1>1, <2>1, <3>1 DEF Accounts, FindingsOf, procVars
    <3>. QED BY <3>1
  <2>. QED BY <1>3, <2>1, <2>3 DEF Accounts
<1>6. DOMAIN outcome' = Procs /\ FailuresAreReported' /\ EveryFindingRanked'
  BY DEF RankInv, FailuresAreReported, EveryFindingRanked, procVars
<1>. QED BY <1>4, <1>5, <1>6 DEF RankInv

LEMMA HostRank ==
  ASSUME IInv, RankInv, "rewrite" \notin HostMoves, Host
  PROVE  RankInv'
<1>. plan # Absent => DOMAIN plan.batches \subseteq BatchIds
  <2>. SUFFICES ASSUME plan # Absent
                PROVE  DOMAIN plan.batches \subseteq BatchIds
    OBVIOUS
  <2>1. PICK k \in BatchIds : plan.batches \in [1 .. k -> SUBSET Sources]
    BY DEF IInv, TypeOK, PlanType, BatchMaps
  <2>2. Cardinality(Sources) \in Nat
    BY SourcesAssumption, FS_CardinalityType
  <2>. QED BY <2>1, <2>2 DEF BatchIds
<1>1. ASSUME NEW b \in BatchIds, HostMines(b) PROVE RankInv'
  <2>1. /\ plan # Absent /\ b \in DOMAIN plan.batches /\ ~Mined(b)
        /\ \E x : minerReport' = [minerReport EXCEPT ![b] = x]
        /\ UNCHANGED <<plan, reconRequest, finalReport, basis, procVars>>
    BY <1>1 DEF HostMines, history
  <2>2. \A k \in DOMAIN plan.batches : Mined(k) => minerReport'[k] = minerReport[k]
    BY <2>1 DEF IInv, TypeOK
  <2>. QED BY <2>1, <2>2, NewReportRank
<1>2. ASSUME NEW b \in BatchIds, HostStrays(b) PROVE RankInv'
  <2>1. /\ plan # Absent /\ b \notin DOMAIN plan.batches
        /\ \E x : minerReport' = [minerReport EXCEPT ![b] = x]
        /\ UNCHANGED <<plan, reconRequest, finalReport, basis, procVars>>
    BY <1>2 DEF HostStrays, history
  <2>2. \A k \in DOMAIN plan.batches : Mined(k) => minerReport'[k] = minerReport[k]
    BY <2>1 DEF IInv, TypeOK
  <2>. QED BY <2>1, <2>2, NewReportRank
<1>3. CASE HostReconciles \/ HostDiscardsReconciliation
  BY <1>3, QuietRank
  DEF HostReconciles, HostDiscardsReconciliation, rankFiles, history, procVars, Same,
      RankInv, FailuresAreReported
<1>4. CASE StartOver
  <2>1. /\ \A q \in Procs : pc[q] = "idle"
        /\ reconRequest' = Absent /\ finalReport' = Absent /\ UNCHANGED procVars
    BY <1>4 DEF StartOver
  <2>. QED
    BY <2>1 DEF RankInv, RequestStands, Accounts, Planned, Relying, EveryFindingRanked,
       FailuresAreReported, procVars
<1>. QED BY <1>1, <1>2, <1>3, <1>4 DEF Host

LEMMA WorldRank ==
  ASSUME IInv, RankInv, World
  PROVE  RankInv'
<1>1. UNCHANGED <<rankFiles, procVars>>
  BY DEF World, TranscriptChanges, DigestChanges, rankFiles, fileVars, history
<1>. QED
  BY <1>1, QuietRank DEF procVars, Same, RankInv, FailuresAreReported

(* Every step keeps the findings accounted for.                            *)
LEMMA NextRank ==
  ASSUME IInv, RankInv, "rewrite" \notin HostMoves, [Next]_vars,
         [plan # Absent => StartOver]_plan
  PROVE  RankInv'
<1>1. ASSUME NEW p \in Procs, NEW c \in Commands, Start(p, c) PROVE RankInv'
  BY <1>1, StartRank
<1>2. ASSUME NEW p \in Procs, Invocation(p) \/ Crash(p) PROVE RankInv'
  <2>1. CASE WritePlan(p)
    <3>1. plan # Absent => plan' = plan
      BY <2>1 DEF WritePlan, StartOver
    <3>. QED BY <2>1, <3>1, WritePlanRank
  <2>. QED
    BY <1>2, <2>1, EarlyRank, ReportNothingRank, LoadPlanRank, ValidatePlanRank,
       ReadReportRank, ReadsDoneRank, RequestReconciliationRank, RankFewRank,
       RankGroupsRank, FinishRank
    DEF Invocation, Early
<1>3. CASE UNCHANGED vars
  <2>1. UNCHANGED <<rankFiles, procVars>>
    BY <1>3 DEF vars, rankFiles, fileVars, history
  <2>. QED
    BY <2>1, QuietRank DEF procVars, Same, RankInv, FailuresAreReported
<1>. QED BY <1>1, <1>2, <1>3, HostRank, WorldRank DEF Next

LEMMA InitRank ==
  ASSUME Init
  PROVE  RankInv
BY DEF Init, RankInv, RequestStands, Accounts, Planned, Relying, EveryFindingRanked,
   FailuresAreReported

(* The inductive invariant of the ranking, with IInv.                      *)
THEOREM RankInvariance ==
  ASSUME "rewrite" \notin HostMoves
  PROVE  Spec /\ DispatchedPlanStays => []RankInv
<1>1. Init => RankInv
  BY InitRank
<1>2. IInv /\ RankInv /\ [Next]_vars /\ [plan # Absent => StartOver]_plan => RankInv'
  BY NextRank
<1>. QED BY <1>1, <1>2, Invariance, PTL DEF Spec, DispatchedPlanStays

(* Every finding of an accepted report is in the report's clusters, for    *)
(* any number of invocations, kills and changed inputs, as long as the     *)
(* host does not replace a report the run has accepted and no overlapping  *)
(* invocation replaces a plan that was dispatched: run_reflection looks    *)
(* for a plan (line 1205) some time before it writes one (line 1243).      *)
THEOREM AllRanked ==
  ASSUME "rewrite" \notin HostMoves
  PROVE  Spec /\ DispatchedPlanStays => []EveryFindingRanked
<1>1. RankInv => EveryFindingRanked
  BY DEF RankInv
<1>. QED BY <1>1, RankInvariance, PTL

(* Under the same conditions the look-up by_id[...] of run_reflection      *)
(* never raises: each failure is one that main() reports.                  *)
THEOREM NoTraceback ==
  ASSUME "rewrite" \notin HostMoves
  PROVE  Spec /\ DispatchedPlanStays => []FailuresAreReported
<1>1. RankInv => FailuresAreReported
  BY DEF RankInv
<1>. QED BY <1>1, RankInvariance, PTL
-----------------------------------------------------------------------------
(* One invocation at a time, any number of them one after the other: Procs *)
(* are the places to run in, and there is only one.                        *)
Alone == \A p, q \in Procs : p = q

(* The manifest an invocation has in memory is the one on disk; while it   *)
(* builds a plan there is none yet.                                        *)
Persisted(p) ==
  /\ pc[p] \in {"scan", "write", "replace"} =>
       manifest = Absent /\ plan = Absent /\ finalReport = Absent /\ held[p].seal = Absent
  /\ pc[p] \in Complete =>
       /\ manifest # Absent /\ manifest.complete
       /\ manifest.files = held[p].files /\ manifest.scope = held[p].scope
       /\ manifest.runId = held[p].runId
  /\ pc[p] \in {"seal", "hash"} =>
       manifest.seal = Absent /\ plan = Absent /\ finalReport = Absent
  /\ pc[p] = "hash" =>
       /\ draft[p].files = manifest.files /\ draft[p].scope = manifest.scope
       /\ draft[p].runId = manifest.runId /\ draft[p].complete = manifest.complete
  /\ pc[p] \in {"recheck"} \cup Working => manifest.seal # Absent
  /\ pc[p] = "recheck" => held[p].seal = manifest.seal
  /\ pc[p] \in {"build", "dispatch"} => plan = Absent
  /\ pc[p] = "dispatch" =>
       /\ heldPlan[p].manifestHash = manifest /\ heldPlan[p].runId = held[p].runId
       /\ DigestsOf(held[p]) # {}

(* An input that has differed from the start still does, and what differs  *)
(* when the recheck begins is among what it has left.                      *)
Rechecks(p) ==
  /\ stale[p] \subseteq Differing(source, digestFile)
  /\ pc[p] \in {"idle", "scan", "write", "replace", "seal", "hash"} \cup Working =>
       stale[p] = {}
  /\ pc[p] = "recheck" => \A d \in stale[p] : d[2] \in todo[p]

(* What was written rests on what was written before it.                   *)
Ordered ==
  /\ plan # Absent \/ finalReport # Absent =>
       manifest # Absent /\ manifest.complete /\ manifest.seal # Absent
  /\ plan # Absent => plan.manifestHash = manifest /\ plan.runId = manifest.runId

AloneInv ==
  /\ DOMAIN stale = Procs /\ Ordered
  /\ \A p \in Procs : Persisted(p) /\ Rechecks(p)

(* The files an input is compared with or listed from.                     *)
inputFiles == <<source, digestFile, manifest, plan, finalReport>>

LEMMA InputsStay ==
  ASSUME UNCHANGED inputFiles
  PROVE  Differing(source, digestFile)' = Differing(source, digestFile)
BY DEF inputFiles, Differing, Scanned, DigestsOf

(* The inputs and what was written stay; who runs, keeps its place, works  *)
(* on, or leaves.                                                          *)
LEMMA KeepAlone ==
  ASSUME IInv, AloneInv, UNCHANGED inputFiles, DOMAIN stale' = Procs,
         \A q \in Procs : \/ pc'[q] = "idle" /\ stale'[q] = {}
                          \/ UNCHANGED <<pc[q], held[q], draft[q], heldPlan[q],
                                         todo[q], stale[q]>>
                          \/ /\ pc[q] \in Working
                             /\ pc'[q] \in Working \ {"build", "dispatch"}
                             /\ UNCHANGED <<held[q], stale[q]>>
  PROVE  AloneInv'
<1>1. Ordered'
  BY DEF AloneInv, Ordered, inputFiles
<1>2. ASSUME NEW q \in Procs PROVE Persisted(q)' /\ Rechecks(q)'
  <2>1. CASE pc'[q] = "idle" /\ stale'[q] = {}
    BY <2>1 DEF Persisted, Rechecks, Complete, Holding, Working
  <2>2. CASE UNCHANGED <<pc[q], held[q], draft[q], heldPlan[q], todo[q], stale[q]>>
    BY <2>2, InputsStay DEF AloneInv, Persisted, Rechecks, inputFiles, DigestsOf
  <2>3. CASE /\ pc[q] \in Working /\ pc'[q] \in Working \ {"build", "dispatch"}
             /\ UNCHANGED <<held[q], stale[q]>>
    <3>1. /\ pc[q] \in Complete
          /\ pc'[q] \notin {"scan", "write", "replace", "seal", "hash", "recheck", "idle"}
      BY <2>3 DEF Working, Complete, Holding, Labels
    <3>. QED
      BY <2>3, <3>1, InputsStay DEF AloneInv, Persisted, Rechecks, inputFiles
  <2>. QED BY <2>1, <2>2, <2>3
<1>. QED BY <1>1, <1>2 DEF AloneInv

LEMMA ForgetAlone ==
  ASSUME IInv, AloneInv, NEW p \in Procs, NEW how, Forget(p, how), UNCHANGED inputFiles
  PROVE  AloneInv'
<1>1. /\ DOMAIN stale' = Procs /\ pc'[p] = "idle" /\ stale'[p] = {}
      /\ \A q \in Procs \ {p} :
           UNCHANGED <<pc[q], held[q], draft[q], heldPlan[q], todo[q], stale[q]>>
  BY DEF Forget, AloneInv, IInv, TypeOK
<1>. QED BY <1>1, KeepAlone

(* With one invocation, its own place and memory are all there is.         *)
LEMMA StepAlone ==
  ASSUME Alone, NEW p \in Procs, DOMAIN stale' = Procs, Ordered',
         Persisted(p)', Rechecks(p)'
  PROVE  AloneInv'
BY DEF Alone, AloneInv

LEMMA StartAlone ==
  ASSUME Alone, IInv, AloneInv, NEW p \in Procs, NEW c \in Commands, Start(p, c)
  PROVE  AloneInv'
<1>1. CASE Fail(p, "error")
  BY <1>1, ForgetAlone DEF Fail, Exit, inputFiles, fileVars
<1>2. CASE ~Fail(p, "error")
  <2>1. /\ pc'[p] = "load" /\ stale'[p] = Differing(source, digestFile)
        /\ DOMAIN stale' = Procs /\ UNCHANGED inputFiles
    BY <1>2 DEF Start, Goto, AloneInv, IInv, TypeOK, inputFiles, fileVars
  <2>2. Persisted(p)' /\ Rechecks(p)'
    BY <2>1, InputsStay DEF Persisted, Rechecks, Complete, Holding, Working
  <2>3. Ordered'
    BY <2>1 DEF AloneInv, Ordered, inputFiles
  <2>. QED BY <2>1, <2>2, <2>3, StepAlone
<1>. QED BY <1>1, <1>2

LEMMA ResumeManifestAlone ==
  ASSUME Alone, IInv, AloneInv, NEW p \in Procs, ResumeManifest(p)
  PROVE  AloneInv'
<1>1. CASE Fail(p, "error")
  BY <1>1, ForgetAlone DEF Fail, Exit, inputFiles, fileVars
<1>2. CASE ~Fail(p, "error")
  <2>1. /\ pc'[p] = "sessions" /\ held'[p] = manifest /\ stale' = stale
        /\ manifest # Absent /\ manifest.complete /\ UNCHANGED inputFiles
    BY <1>2 DEF ResumeManifest, Goto, Unchanged, IInv, TypeOK, inputFiles, fileVars
  <2>2. Persisted(p)' /\ Rechecks(p)'
    BY <2>1, InputsStay DEF AloneInv, Persisted, Rechecks, Complete, Holding, Working,
       inputFiles
  <2>3. Ordered' /\ DOMAIN stale' = Procs
    BY <2>1 DEF AloneInv, Ordered, inputFiles
  <2>. QED BY <2>1, <2>2, <2>3, StepAlone
<1>. QED BY <1>1, <1>2

LEMMA ListSourcesAlone ==
  ASSUME Alone, IInv, AloneInv, NEW p \in Procs, ListSources(p)
  PROVE  AloneInv'
<1>1. CASE Fail(p, "error")
  BY <1>1, ForgetAlone DEF Fail, Exit, inputFiles, fileVars
<1>2. CASE ~Fail(p, "error")
  <2>1. /\ OutDirEmpty /\ pc'[p] = "scan" /\ held'[p].seal = Absent /\ stale' = stale
        /\ UNCHANGED inputFiles
    BY <1>2 DEF ListSources, Goto, Unchanged, IInv, TypeOK, inputFiles, fileVars
  <2>2. manifest = Absent /\ plan = Absent /\ finalReport = Absent
    BY <2>1 DEF OutDirEmpty
  <2>3. stale[p] = {}
    BY <2>2 DEF AloneInv, Rechecks, Differing
  <2>4. Persisted(p)' /\ Rechecks(p)'
    BY <2>1, <2>2, <2>3 DEF Persisted, Rechecks, Complete, Holding, Working, inputFiles
  <2>5. Ordered' /\ DOMAIN stale' = Procs
    BY <2>1 DEF AloneInv, Ordered, inputFiles
  <2>. QED BY <2>1, <2>4, <2>5, StepAlone
<1>. QED BY <1>1, <1>2

LEMMA ScanAlone ==
  ASSUME Alone, IInv, AloneInv, NEW p \in Procs, ScanSource(p) \/ ScanDone(p)
  PROVE  AloneInv'
<1>1. /\ pc[p] = "scan" /\ pc'[p] \in {"scan", "write"} /\ held'[p].seal = held[p].seal
      /\ stale' = stale /\ UNCHANGED inputFiles
  BY DEF ScanSource, ScanDone, WithFile, Goto, Unchanged, IInv, TypeOK, inputFiles, fileVars
<1>2. Persisted(p)' /\ Rechecks(p)'
  BY <1>1, InputsStay DEF AloneInv, Persisted, Rechecks, Complete, Holding, Working,
     inputFiles
<1>3. Ordered' /\ DOMAIN stale' = Procs
  BY <1>1 DEF AloneInv, Ordered, inputFiles
<1>. QED BY <1>1, <1>2, <1>3, StepAlone

LEMMA WriteDigestAlone ==
  ASSUME Alone, IInv, AloneInv, NEW p \in Procs, CheckDigest(p) \/ WriteDigest(p)
  PROVE  AloneInv'
<1>1. CASE Fail(p, "error")
  BY <1>1, ForgetAlone DEF Fail, Exit, inputFiles, fileVars
<1>2. CASE ~Fail(p, "error")
  <2>1. /\ pc[p] \in {"write", "replace"} /\ pc'[p] \in {"write", "replace"}
        /\ UNCHANGED <<held, stale, manifest, plan, finalReport>>
    BY <1>2 DEF CheckDigest, WriteDigest, Goto, Unchanged, IInv, TypeOK, fileVars
  <2>2. manifest = Absent /\ stale[p] = {}
    BY <2>1 DEF AloneInv, Persisted, Rechecks
  <2>3. Persisted(p)' /\ Rechecks(p)'
    BY <2>1, <2>2 DEF AloneInv, Persisted, Rechecks, Complete, Holding, Working
  <2>4. Ordered' /\ DOMAIN stale' = Procs
    BY <2>1 DEF AloneInv, Ordered
  <2>. QED BY <2>1, <2>3, <2>4, StepAlone
<1>. QED BY <1>1, <1>2

LEMMA WriteManifestAlone ==
  ASSUME Alone, IInv, AloneInv, NEW p \in Procs, WriteManifest(p)
  PROVE  AloneInv'
<1>1. /\ pc[p] = "write" /\ manifest' = held[p] /\ UNCHANGED <<plan, finalReport>>
      /\ held[p] \in Manifest
      /\ plan = Absent /\ finalReport = Absent /\ held[p].seal = Absent
  BY DEF WriteManifest, AloneInv, Persisted, IInv, Knows, Holding, Labels
<1>2. Ordered'
  BY <1>1 DEF Ordered
<1>3. CASE Exit(p, "error")
  <2>1. pc'[p] = "idle" /\ stale'[p] = {} /\ DOMAIN stale' = Procs
    BY <1>3 DEF Exit, Forget, IInv, TypeOK, AloneInv
  <2>2. Persisted(p)' /\ Rechecks(p)'
    BY <2>1 DEF Persisted, Rechecks, Complete, Holding, Working
  <2>. QED BY <1>2, <2>1, <2>2, StepAlone
<1>4. CASE held[p].complete /\ ~Exit(p, "error")
  <2>1. pc'[p] = "seal" /\ UNCHANGED <<held, stale>> /\ manifest' # Absent
    BY <1>1, <1>4, AbsentAssumption DEF WriteManifest, Goto, IInv, TypeOK
  <2>2. Persisted(p)' /\ Rechecks(p)'
    BY <1>1, <1>4, <2>1 DEF AloneInv, Persisted, Rechecks, Complete, Holding, Working
  <2>. QED BY <1>2, <2>1, <2>2, StepAlone DEF AloneInv
<1>. QED BY <1>3, <1>4 DEF WriteManifest

LEMMA ReadManifestBackAlone ==
  ASSUME Alone, IInv, AloneInv, NEW p \in Procs, ReadManifestBack(p)
  PROVE  AloneInv'
<1>1. CASE Fail(p, "error")
  BY <1>1, ForgetAlone DEF Fail, Exit, inputFiles, fileVars
<1>2. CASE ~Fail(p, "error")
  <2>. DEFINE blank == [hashes |-> NoFiles, scope |-> held[p].scope]
              read == [manifest EXCEPT !.seal = blank]
  <2>1. /\ pc[p] = "seal" /\ pc'[p] = "hash" /\ manifest # Absent /\ draft'[p] = read
        /\ UNCHANGED <<held, stale, inputFiles>>
    BY <1>2
    DEF ReadManifestBack, Goto, Unchanged, IInv, TypeOK, inputFiles, fileVars
  <2>2. /\ read.files = manifest.files /\ read.scope = manifest.scope
        /\ read.runId = manifest.runId /\ read.complete = manifest.complete
    BY <2>1 DEF IInv, TypeOK, Manifest
  <2>. HIDE DEF read
  <2>3. Persisted(p)' /\ Rechecks(p)'
    BY <2>1, <2>2, InputsStay
    DEF AloneInv, Persisted, Rechecks, Complete, Holding, Working, Labels, inputFiles
  <2>4. Ordered' /\ DOMAIN stale' = Procs
    BY <2>1 DEF AloneInv, Ordered, inputFiles
  <2>. QED BY <2>3, <2>4, StepAlone
<1>. QED BY <1>1, <1>2

LEMMA HashDigestAlone ==
  ASSUME Alone, IInv, AloneInv, NEW p \in Procs, HashDigest(p)
  PROVE  AloneInv'
<1>1. CASE Fail(p, "error")
  BY <1>1, ForgetAlone DEF Fail, Exit, inputFiles, fileVars
<1>2. CASE ~Fail(p, "error")
  <2>1. PICK s \in todo[p] :
          draft' = [draft EXCEPT ![p] = WithHash(draft[p], s, digestFile[s])]
    BY <1>2 DEF HashDigest
  <2>2. pc[p] = "hash" /\ UNCHANGED <<pc, held, stale, inputFiles>>
    BY <1>2 DEF HashDigest, Unchanged, inputFiles, fileVars
  <2>3. draft[p] \in Manifest /\ draft'[p] = WithHash(draft[p], s, digestFile[s])
    BY <2>1, <2>2 DEF IInv, TypeOK, Knows
  <2>4. /\ draft'[p].files = draft[p].files /\ draft'[p].scope = draft[p].scope
        /\ draft'[p].runId = draft[p].runId /\ draft'[p].complete = draft[p].complete
    BY <2>3 DEF WithHash, Manifest
  <2>5. Persisted(p)' /\ Rechecks(p)'
    BY <2>2, <2>4, InputsStay
    DEF AloneInv, Persisted, Rechecks, Complete, Holding, Working, Labels, inputFiles
  <2>6. Ordered' /\ DOMAIN stale' = Procs
    BY <2>2 DEF AloneInv, Ordered, inputFiles
  <2>. QED BY <2>5, <2>6, StepAlone
<1>. QED BY <1>1, <1>2

LEMMA SealManifestAlone ==
  ASSUME Alone, IInv, AloneInv, NEW p \in Procs, SealManifest(p)
  PROVE  AloneInv'
<1>1. /\ pc[p] = "hash" /\ pc'[p] = "plan" /\ manifest' = draft[p]
      /\ UNCHANGED <<held, stale, plan, finalReport>>
  BY DEF SealManifest, Goto, Unchanged, IInv, TypeOK
<1>2. /\ manifest' \in Manifest /\ manifest'.seal # Absent
      /\ manifest'.files = manifest.files /\ manifest'.scope = manifest.scope
      /\ manifest'.runId = manifest.runId /\ manifest'.complete = manifest.complete
  BY <1>1 DEF AloneInv, Persisted, IInv, TypeOK, Knows
<1>3. /\ manifest' # Absent /\ stale'[p] = {} /\ plan' = Absent /\ finalReport' = Absent
      /\ DOMAIN stale' = Procs
  BY <1>1, <1>2, AbsentAssumption DEF AloneInv, Rechecks, Persisted
<1>4. Persisted(p)' /\ Rechecks(p)'
  BY <1>1, <1>2, <1>3
  DEF AloneInv, Persisted, Rechecks, Complete, Holding, Working, Labels
<1>5. Ordered'
  BY <1>3 DEF Ordered
<1>. QED BY <1>3, <1>4, <1>5, StepAlone

(* What differs is among what the recheck will look at: the session sets   *)
(* are the same, and a digest belongs to a transcript that was scanned.    *)
LEMMA CheckSessionsAlone ==
  ASSUME Alone, IInv, AloneInv, NEW p \in Procs, CheckSessions(p)
  PROVE  AloneInv'
<1>1. CASE Fail(p, "error")
  BY <1>1, ForgetAlone DEF Fail, Exit, inputFiles, fileVars
<1>2. CASE ~Fail(p, "error")
  <2>1. /\ pc[p] = "sessions" /\ manifest # Absent /\ manifest.seal # Absent
        /\ Sessions(source, held[p].scope) = Sessions(held[p].files, held[p].scope)
        /\ held' = [held EXCEPT ![p] = [held[p] EXCEPT !.seal = manifest.seal]]
        /\ todo' = [todo EXCEPT ![p] = Scanned(held[p])]
        /\ pc' = [pc EXCEPT ![p] = "recheck"]
        /\ stale' = stale /\ UNCHANGED inputFiles
    BY <1>2 DEF CheckSessions, Goto, Unchanged, inputFiles, fileVars
  <2>2. /\ held[p] \in Manifest /\ manifest \in Manifest
        /\ manifest.files = held[p].files /\ manifest.scope = held[p].scope
        /\ manifest.runId = held[p].runId /\ manifest.complete
    BY <2>1 DEF AloneInv, Persisted, IInv, TypeOK, Knows, Complete, Holding, Labels
  <2>3. /\ held'[p].seal = manifest.seal /\ held'[p].files = held[p].files
        /\ held'[p].scope = held[p].scope /\ held'[p].runId = held[p].runId
        /\ todo'[p] = Scanned(manifest) /\ pc'[p] = "recheck"
    <3>1. held'[p] = [held[p] EXCEPT !.seal = manifest.seal]
      BY <2>1 DEF IInv, TypeOK
    <3>2. todo'[p] = Scanned(held[p]) /\ Scanned(held[p]) = Scanned(manifest)
      BY <2>1, <2>2 DEF IInv, TypeOK, Scanned
    <3>. QED BY <2>1, <2>2, <3>1, <3>2 DEF IInv, TypeOK, Manifest
  <2>4. \A d \in Differing(source, digestFile) : d[2] \in Scanned(manifest)
    <3>1. ASSUME NEW s \in Selected[manifest.scope], source[s] # manifest.files[s]
          PROVE  s \in Scanned(manifest)
      <4>1. s \in Sources
        BY <2>2, ScopesAssumption DEF Manifest
      <4>. QED BY <2>1, <2>2, <3>1, <4>1 DEF Sessions, Scanned
    <3>2. DigestsOf(manifest) \subseteq Scanned(manifest)
      BY <2>2, DigestsAreSources, ContentsAssumption DEF Scanned
    <3>3. ASSUME NEW d \in Differing(source, digestFile)
          PROVE  \E s : /\ d = <<"transcript", s>> \/ d = <<"digest", s>>
                        /\ s \in Scanned(manifest)
      BY <2>1, <3>1, <3>2 DEF Differing
    <3>. QED BY <3>3
  <2>5. Persisted(p)' /\ Rechecks(p)'
    <3>1. Persisted(p)'
      BY <2>1, <2>2, <2>3 DEF Persisted, Complete, Holding, Working, Labels, inputFiles
    <3>2. Rechecks(p)'
      BY <2>1, <2>3, <2>4, InputsStay DEF AloneInv, Rechecks, Working
    <3>. QED BY <3>1, <3>2
  <2>6. Ordered' /\ DOMAIN stale' = Procs
    BY <2>1 DEF AloneInv, Ordered, inputFiles
  <2>. QED BY <2>5, <2>6, StepAlone
<1>. QED BY <1>1, <1>2

(* What has just been found as the manifest records it is not among the    *)
(* inputs that have differed all along.                                    *)
LEMMA RecheckSourceAlone ==
  ASSUME Alone, IInv, AloneInv, NEW p \in Procs, RecheckSource(p)
  PROVE  AloneInv'
<1>1. CASE Fail(p, "error")
  BY <1>1, ForgetAlone DEF Fail, Exit, inputFiles, fileVars
<1>2. CASE ~Fail(p, "error")
  <2>1. PICK s \in todo[p] :
          /\ source[s] = held[p].files[s]
          /\ s \in DigestsOf(held[p]) => digestFile[s] = held[p].seal.hashes[s]
          /\ todo' = [todo EXCEPT ![p] = @ \ {s}]
    BY <1>2 DEF RecheckSource
  <2>2. /\ pc[p] = "recheck" /\ UNCHANGED <<pc, held, stale, inputFiles>>
    BY <1>2 DEF RecheckSource, Unchanged, inputFiles, fileVars
  <2>3. /\ manifest # Absent /\ manifest.seal # Absent /\ held[p].seal = manifest.seal
        /\ manifest.files = held[p].files /\ manifest.scope = held[p].scope
    BY <2>2 DEF AloneInv, Persisted, Complete, Holding, Labels
  <2>4. DigestsOf(manifest) = DigestsOf(held[p])
    BY <2>3 DEF DigestsOf
  <2>5. \A d \in Differing(source, digestFile) : d[2] # s
    <3>1. source[s] = manifest.files[s]
          /\ (s \in DigestsOf(manifest) => digestFile[s] = manifest.seal.hashes[s])
      BY <2>1, <2>3, <2>4
    <3>2. ASSUME NEW d \in Differing(source, digestFile)
          PROVE  \E t : \/ d = <<"transcript", t>> /\ source[t] # manifest.files[t]
                        \/ /\ d = <<"digest", t>> /\ t \in DigestsOf(manifest)
                           /\ digestFile[t] # manifest.seal.hashes[t]
      BY <2>3 DEF Differing
    <3>. QED BY <3>1, <3>2
  <2>6. \A d \in stale[p] : d[2] \in todo[p] \ {s}
    BY <2>2, <2>5 DEF AloneInv, Rechecks
  <2>7. Persisted(p)' /\ Rechecks(p)'
    <3>1. todo'[p] = todo[p] \ {s}
      BY <2>1 DEF IInv, TypeOK
    <3>. QED
      BY <2>2, <2>6, <3>1, InputsStay DEF AloneInv, Persisted, Rechecks, Working, inputFiles
  <2>8. Ordered' /\ DOMAIN stale' = Procs
    BY <2>2 DEF AloneInv, Ordered, inputFiles
  <2>. QED BY <2>7, <2>8, StepAlone
<1>. QED BY <1>1, <1>2

LEMMA RecheckDoneAlone ==
  ASSUME Alone, IInv, AloneInv, NEW p \in Procs, RecheckDone(p)
  PROVE  AloneInv'
<1>1. /\ pc[p] = "recheck" /\ todo[p] = {} /\ pc'[p] = "plan"
      /\ UNCHANGED <<held, stale, inputFiles>>
  BY DEF RecheckDone, Goto, Unchanged, IInv, TypeOK, inputFiles, fileVars
<1>2. stale[p] = {}
  BY <1>1 DEF AloneInv, Rechecks
<1>3. Persisted(p)' /\ Rechecks(p)'
  BY <1>1, <1>2 DEF AloneInv, Persisted, Rechecks, Complete, Holding, Working, Labels,
     inputFiles
<1>4. Ordered' /\ DOMAIN stale' = Procs
  BY <1>1 DEF AloneInv, Ordered, inputFiles
<1>. QED BY <1>3, <1>4, StepAlone

(* The steps after the recheck that leave the inputs and the plan alone.   *)
LEMMA WorkAlone ==
  ASSUME Alone, IInv, AloneInv, NEW p \in Procs,
         \/ ValidatePlan(p) \/ ReadReport(p) \/ ReadsDone(p) \/ AwaitMiners(p)
         \/ RequestReconciliation(p) \/ RankFew(p) \/ RankGroups(p) \/ Crash(p)
  PROVE  AloneInv'
<1>1. ASSUME NEW how, Forget(p, how), UNCHANGED inputFiles PROVE AloneInv'
  BY <1>1, ForgetAlone
<1>2. ASSUME NEW how, Fail(p, how) PROVE AloneInv'
  BY <1>1, <1>2 DEF Fail, Exit, inputFiles, fileVars
<1>3. ASSUME pc[p] \in Working, pc'[p] \in Working \ {"build", "dispatch"},
             UNCHANGED <<held, stale, inputFiles>>
      PROVE  AloneInv'
  BY <1>3, KeepAlone DEF Alone, AloneInv
<1>4. ASSUME NEW groups, ToApply(p, groups), pc[p] = "reconcile" PROVE AloneInv'
  BY <1>3, <1>4 DEF ToApply, Goto, Unchanged, Working, inputFiles, fileVars, IInv, TypeOK
<1>5. CASE ValidatePlan(p)
  BY <1>2, <1>3, <1>5
  DEF ValidatePlan, Goto, Unchanged, Working, inputFiles, fileVars, IInv, TypeOK
<1>6. CASE ReadReport(p)
  <2>1. /\ pc[p] = "reports" /\ pc'[p] \in {"reports", "missing"}
        /\ UNCHANGED <<held, stale, inputFiles>>
    BY <1>6 DEF ReadReport, Goto, Unchanged, inputFiles, fileVars, IInv, TypeOK
  <2>. QED BY <1>3, <2>1 DEF Working
<1>7. CASE ReadsDone(p)
  BY <1>3, <1>7
  DEF ReadsDone, Goto, Unchanged, Working, inputFiles, fileVars, IInv, TypeOK
<1>8. CASE AwaitMiners(p)
  BY <1>1, <1>2, <1>8 DEF AwaitMiners, Exit, inputFiles, fileVars
<1>9. CASE RequestReconciliation(p)
  BY <1>1, <1>9 DEF RequestReconciliation, Exit, inputFiles
<1>10. CASE RankFew(p)
  BY <1>4, <1>10 DEF RankFew
<1>11. CASE RankGroups(p)
  BY <1>2, <1>4, <1>11 DEF RankGroups
<1>12. CASE Crash(p)
  BY <1>1, <1>12 DEF Crash, inputFiles
<1>. QED BY <1>5, <1>6, <1>7, <1>8, <1>9, <1>10, <1>11, <1>12

(* A plan is built when there is none.                                     *)
LEMMA LoadPlanAlone ==
  ASSUME Alone, IInv, AloneInv, NEW p \in Procs, LoadPlan(p) \/ BuildPlan(p)
  PROVE  AloneInv'
<1>1. CASE Fail(p, "error")
  BY <1>1, ForgetAlone DEF Fail, Exit, inputFiles, fileVars
<1>2. CASE ~Fail(p, "error")
  <2>1. /\ pc[p] \in {"plan", "build"} /\ pc'[p] \in {"validate", "build", "dispatch"}
        /\ pc'[p] # "validate" => plan = Absent
        /\ UNCHANGED <<held, stale, inputFiles>>
    BY <1>2
    DEF LoadPlan, BuildPlan, Goto, Unchanged, IInv, TypeOK, inputFiles, fileVars,
        AloneInv, Persisted
  <2>2. pc'[p] = "dispatch" =>
          /\ heldPlan'[p].manifestHash = manifest /\ heldPlan'[p].runId = held[p].runId
          /\ DigestsOf(held[p]) # {}
    <3>1. CASE LoadPlan(p)
      BY <3>1 DEF LoadPlan, Goto, IInv, TypeOK
    <3>2. CASE BuildPlan(p)
      <4>1. heldPlan'[p] = NewPlan(p) /\ DigestsOf(held[p]) # {}
        BY <1>2, <3>2 DEF BuildPlan, IInv, TypeOK
      <4>. QED BY <4>1 DEF NewPlan
    <3>. QED BY <3>1, <3>2
  <2>3. DigestsOf(held[p])' = DigestsOf(held[p])
    BY <2>1 DEF DigestsOf
  <2>4. Persisted(p)' /\ Rechecks(p)'
    BY <2>1, <2>2, <2>3, InputsStay
    DEF AloneInv, Persisted, Rechecks, Complete, Holding, Working, Labels, inputFiles
  <2>5. Ordered' /\ DOMAIN stale' = Procs
    BY <2>1 DEF AloneInv, Ordered, inputFiles
  <2>. QED BY <2>4, <2>5, StepAlone
<1>. QED BY <1>1, <1>2

(* What an invocation at work writes, it writes about the sealed manifest. *)
LEMMA WriteAlone ==
  ASSUME Alone, IInv, AloneInv, NEW p \in Procs,
         ReportNothing(p) \/ WritePlan(p) \/ Finish(p)
  PROVE  AloneInv'
<1>1. CASE Fail(p, "error")
  BY <1>1, ForgetAlone DEF Fail, Exit, inputFiles, fileVars
<1>2. CASE ~Fail(p, "error")
  <2>1. /\ pc[p] \in Working /\ manifest' = manifest /\ \E how : Forget(p, how)
    BY <1>2 DEF ReportNothing, WritePlan, Finish, Exit, Working
  <2>2. /\ manifest # Absent /\ manifest.complete /\ manifest.seal # Absent
        /\ manifest.runId = held[p].runId
    BY <2>1 DEF AloneInv, Persisted, Working, Complete, Holding, Labels
  <2>3. plan' = plan \/ (plan'.manifestHash = manifest /\ plan'.runId = held[p].runId)
    BY <1>2 DEF ReportNothing, WritePlan, Finish, AloneInv, Persisted
  <2>4. Ordered'
    BY <2>1, <2>2, <2>3 DEF AloneInv, Ordered
  <2>5. pc'[p] = "idle" /\ stale'[p] = {} /\ DOMAIN stale' = Procs
    BY <2>1 DEF Forget, IInv, TypeOK, AloneInv
  <2>6. Persisted(p)' /\ Rechecks(p)'
    BY <2>5 DEF Persisted, Rechecks, Complete, Holding, Working
  <2>. QED BY <2>4, <2>5, <2>6, StepAlone
<1>. QED BY <1>1, <1>2

LEMMA HostAlone ==
  ASSUME Alone, IInv, AloneInv, Host
  PROVE  AloneInv'
<1>1. CASE StartOver
  <2>1. /\ \A q \in Procs : pc[q] = "idle"
        /\ manifest' = Absent /\ plan' = Absent /\ finalReport' = Absent
        /\ UNCHANGED <<procVars, stale>>
    BY <1>1 DEF StartOver
  <2>2. Ordered'
    BY <2>1 DEF Ordered
  <2>3. ASSUME NEW q \in Procs PROVE Persisted(q)' /\ Rechecks(q)'
    BY <2>1
    DEF AloneInv, Persisted, Rechecks, Complete, Holding, Working, procVars
  <2>. QED BY <2>1, <2>2, <2>3 DEF AloneInv
<1>2. CASE ~StartOver
  <2>1. UNCHANGED <<inputFiles, procVars, stale>>
    BY <1>2 DEF Host, HostMines, HostStrays, HostReconciles, HostDiscardsReconciliation,
       inputFiles
  <2>. QED BY <2>1, KeepAlone DEF AloneInv, procVars
<1>. QED BY <1>1, <1>2

LEMMA WorldAlone ==
  ASSUME Alone, IInv, AloneInv, World
  PROVE  AloneInv'
<1>1. /\ UNCHANGED <<manifest, plan, finalReport, procVars>>
      /\ stale' = [q \in Procs |-> stale[q] \cap Differing(source', digestFile')]
  BY DEF World, TranscriptChanges, DigestChanges, fileVars
<1>2. Ordered'
  BY <1>1 DEF AloneInv, Ordered
<1>3. Differing(source', digestFile') = Differing(source, digestFile)'
  BY <1>1 DEF Differing, Scanned, DigestsOf
<1>4. ASSUME NEW q \in Procs PROVE Persisted(q)' /\ Rechecks(q)'
  <2>1. stale'[q] \subseteq stale[q] /\ stale'[q] \subseteq Differing(source, digestFile)'
    BY <1>1, <1>3
  <2>2. UNCHANGED <<pc[q], held[q], draft[q], heldPlan[q], todo[q]>>
    BY <1>1 DEF procVars
  <2>3. Persisted(q)'
    BY <1>1, <2>2 DEF AloneInv, Persisted, DigestsOf
  <2>4. Rechecks(q)'
    BY <2>1, <2>2 DEF AloneInv, Rechecks
  <2>. QED BY <2>3, <2>4
<1>. QED BY <1>1, <1>2, <1>4 DEF AloneInv

LEMMA NextAlone ==
  ASSUME Alone, IInv, AloneInv, [Next]_vars
  PROVE  AloneInv'
<1>1. ASSUME NEW p \in Procs, NEW c \in Commands, Start(p, c) PROVE AloneInv'
  BY <1>1, StartAlone
<1>2. ASSUME NEW p \in Procs, Invocation(p) \/ Crash(p) PROVE AloneInv'
  BY <1>2, ResumeManifestAlone, ListSourcesAlone, ScanAlone, WriteDigestAlone,
     WriteManifestAlone, ReadManifestBackAlone, HashDigestAlone, SealManifestAlone,
     CheckSessionsAlone, RecheckSourceAlone, RecheckDoneAlone, LoadPlanAlone, WorkAlone,
     WriteAlone
  DEF Invocation
<1>3. CASE UNCHANGED vars
  BY <1>3, KeepAlone DEF vars, inputFiles, fileVars, procVars, AloneInv
<1>. QED BY <1>1, <1>2, <1>3, HostAlone, WorldAlone DEF Next

LEMMA InitAlone ==
  ASSUME Init
  PROVE  AloneInv
BY DEF Init, AloneInv, Ordered, Persisted, Rechecks, Complete, Holding, Working

(* The inductive invariant of invocations that do not overlap.             *)
THEOREM AloneInvariance ==
  ASSUME Alone
  PROVE  Spec => []AloneInv
<1>1. Init => AloneInv
  BY InitAlone
<1>2. IInv /\ AloneInv /\ [Next]_vars => AloneInv'
  BY NextAlone
<1>. QED BY <1>1, <1>2, Invariance, PTL DEF Spec

(* Dispatch, reconciliation and the report only happen in an invocation in *)
(* which every transcript and digest was once as the manifest records it:  *)
(* _validate_continuation_manifest leaves out none that can differ.        *)
(* Whatever the host does, and wherever an invocation is killed.           *)
THEOREM StaleInputsStop ==
  ASSUME Alone
  PROVE  Spec => []StaleInputsStopTheRun
<1>1. AloneInv => StaleInputsStopTheRun
  BY DEF AloneInv, Rechecks, StaleInputsStopTheRun
<1>. QED BY <1>1, AloneInvariance, PTL

(* The manifest and the plan are written where the code writes them, and   *)
(* go away with the directory.                                             *)
LEMMA Writers ==
  ASSUME [Next]_vars
  PROVE  /\ \/ plan' = plan \/ StartOver
            \/ \E p \in Procs : WritePlan(p)
         /\ \/ manifest' = manifest \/ StartOver
            \/ \E p \in Procs : WriteManifest(p) \/ SealManifest(p)
<1>1. ASSUME NEW p \in Procs, Invocation(p) \/ Crash(p)
      PROVE  /\ plan' = plan \/ WritePlan(p)
             /\ manifest' = manifest \/ WriteManifest(p) \/ SealManifest(p)
  BY <1>1
  DEF Invocation, ResumeManifest, ListSources, ScanSource, ScanDone, CheckDigest,
      WriteDigest, WriteManifest, ReadManifestBack, HashDigest, SealManifest,
      CheckSessions, RecheckSource, RecheckDone, LoadPlan, ReportNothing, BuildPlan,
      WritePlan, ValidatePlan, ReadReport, ReadsDone, AwaitMiners,
      RequestReconciliation, RankFew, RankGroups, ToApply, Finish, Crash, Fail, fileVars
<1>2. ASSUME NEW p \in Procs, NEW c \in Commands, Start(p, c)
      PROVE  UNCHANGED <<manifest, plan>>
  BY <1>2 DEF Start, Fail, fileVars
<1>3. ASSUME World \/ (Host /\ ~StartOver) \/ UNCHANGED vars
      PROVE  UNCHANGED <<manifest, plan>>
  BY <1>3
  DEF World, TranscriptChanges, DigestChanges, Host, HostMines, HostStrays,
      HostReconciles, HostDiscardsReconciliation, vars, fileVars
<1>. QED BY <1>1, <1>2, <1>3 DEF Next

(* Without overlap the plan is written once: the invocation that writes it *)
(* found none, and no other has run since.                                 *)
THEOREM PlanStays ==
  ASSUME Alone
  PROVE  Spec => DispatchedPlanStays
<1>1. AloneInv /\ [Next]_vars => [plan # Absent => StartOver]_plan
  BY Writers DEF WritePlan, AloneInv, Persisted
<1>. QED BY <1>1, AloneInvariance, PTL DEF Spec, DispatchedPlanStays

(* So the ranking is accounted for.                                        *)
LEMMA RankedAlone ==
  ASSUME Alone, "rewrite" \notin HostMoves
  PROVE  Spec => []RankInv
BY RankInvariance, PlanStays, PTL

(* A plan splits the digests of the persisted manifest, on disk and before *)
(* it is written.                                                          *)
Splits(d) ==
  /\ IsPartition(d.batches, DigestsOf(manifest))
  /\ \A b \in DOMAIN d.batches : d.bytes[b] > 0
PlanSplits ==
  /\ plan # Absent => Splits(plan)
  /\ \A p \in Procs : pc[p] = "dispatch" => Splits(heldPlan[p])

LEMMA NewPlanSplits ==
  ASSUME IInv, AloneInv, NEW p \in Procs, BuildPlan(p), ~ Fail(p, "error")
  PROVE  Splits(heldPlan'[p])
<1>. DEFINE D == DigestsOf(held[p])
            size == SizeOf(digestFile)
            n == command[p].count
            given == Batches(D, size, n)
            made == heldPlan'[p]
<1>1. /\ pc[p] = "build" /\ made = NewPlan(p) /\ D # {}
      /\ \A s \in D : digestFile[s] # Absent
  BY DEF BuildPlan, IInv, TypeOK
<1>2. held[p] \in Manifest /\ n \in Nat \ {0}
  BY <1>1, CommandsAssumption DEF IInv, Knows, Holding, Labels, Command
<1>3. Measured(D, size, n)
  BY <1>1, <1>2, DigestsAreSources, DigestsAreMeasured
<1>4. D = DigestsOf(manifest)
  BY <1>1 DEF AloneInv, Persisted, Complete, Holding, Labels, DigestsOf
<1>5. made.batches = given /\ made.bytes = [b \in DOMAIN given |-> TotalBytes(given[b], size)]
  BY <1>1 DEF NewPlan, PlanBytes
<1>6. DOMAIN given = 1 .. BatchCount(D, n) /\ IsPartition(given, D)
  BY <1>3, BatchesPartition
<1>7. \A b \in 1 .. BatchCount(D, n) : TotalBytes(given[b], size) > 0
  BY <1>3, NoBatchIsEmpty
<1>. HIDE DEF D, size, n, given, made
<1>8. /\ IsPartition(made.batches, DigestsOf(manifest))
      /\ \A b \in DOMAIN made.batches : made.bytes[b] > 0
  BY <1>4, <1>5, <1>6, <1>7
<1>. QED BY <1>8 DEF Splits, made

(* Only BuildPlan leads to the writing of a plan.                          *)
LEMMA NotDispatched ==
  ASSUME IInv, NEW p \in Procs, Invocation(p) \/ Crash(p), ~BuildPlan(p)
  PROVE  pc'[p] # "dispatch"
<1>1. ASSUME NEW how, Forget(p, how) PROVE pc'[p] # "dispatch"
  BY <1>1, ForgetFrame
<1>2. ASSUME NEW how, Fail(p, how) \/ Exit(p, how) PROVE pc'[p] # "dispatch"
  BY <1>1, <1>2 DEF Fail, Exit
<1>3. CASE \/ ResumeManifest(p) \/ ListSources(p) \/ ScanSource(p) \/ ScanDone(p)
           \/ CheckDigest(p) \/ WriteDigest(p) \/ WriteManifest(p)
           \/ ReadManifestBack(p) \/ HashDigest(p) \/ SealManifest(p)
  BY <1>2, <1>3
  DEF ResumeManifest, ListSources, ScanSource, ScanDone, CheckDigest, WriteDigest,
      WriteManifest, ReadManifestBack, HashDigest, SealManifest, Goto, IInv, TypeOK
<1>4. CASE \/ CheckSessions(p) \/ RecheckSource(p) \/ RecheckDone(p) \/ LoadPlan(p)
           \/ ReportNothing(p) \/ WritePlan(p) \/ ValidatePlan(p)
  BY <1>2, <1>4
  DEF CheckSessions, RecheckSource, RecheckDone, LoadPlan, ReportNothing, WritePlan,
      ValidatePlan, Goto, IInv, TypeOK
<1>5. CASE \/ ReadReport(p) \/ ReadsDone(p) \/ AwaitMiners(p)
           \/ RequestReconciliation(p) \/ RankFew(p) \/ RankGroups(p) \/ Finish(p)
  BY <1>2, <1>5
  DEF ReadReport, ReadsDone, AwaitMiners, RequestReconciliation, RankFew, RankGroups,
      ToApply, Finish, Goto, IInv, TypeOK
<1>6. CASE Crash(p)
  BY <1>1, <1>6 DEF Crash
<1>. QED BY <1>3, <1>4, <1>5, <1>6 DEF Invocation

LEMMA SplitsStays ==
  ASSUME manifest' = manifest, NEW d, Splits(d)
  PROVE  Splits(d)'
BY DEF Splits, IsPartition, DigestsOf

LEMMA NextSplits ==
  ASSUME Alone, IInv, AloneInv, PlanSplits, [Next]_vars
  PROVE  PlanSplits'
<1>1. ASSUME NEW p \in Procs, Invocation(p) \/ Crash(p) PROVE PlanSplits'
  <2>1. CASE WritePlan(p)
    <3>1. pc[p] = "dispatch" /\ plan' = heldPlan[p] /\ manifest' = manifest
      BY <2>1 DEF WritePlan
    <3>2. Splits(plan')
      BY <3>1 DEF PlanSplits
    <3>3. Splits(plan)'
      BY <3>1, <3>2 DEF Splits, IsPartition, DigestsOf
    <3>4. pc'[p] # "dispatch"
      BY <2>1, ForgetFrame DEF WritePlan, Exit
    <3>. QED BY <3>3, <3>4 DEF PlanSplits, Alone
  <2>2. CASE BuildPlan(p)
    <3>1. UNCHANGED <<plan, manifest>>
      BY <2>2 DEF BuildPlan, Fail, fileVars
    <3>2. plan' # Absent => Splits(plan)'
      BY <3>1, SplitsStays DEF PlanSplits
    <3>3. pc'[p] = "dispatch" => Splits(heldPlan[p])'
      <4>1. CASE Fail(p, "error")
        BY <4>1, ForgetFrame DEF Fail, Exit
      <4>2. CASE ~Fail(p, "error")
        <5>1. Splits(heldPlan'[p])
          BY <2>2, <4>2, NewPlanSplits
        <5>. QED BY <3>1, <5>1 DEF Splits, IsPartition, DigestsOf
      <4>. QED BY <4>1, <4>2
    <3>. QED BY <3>2, <3>3 DEF PlanSplits, Alone
  <2>3. CASE WriteManifest(p) \/ SealManifest(p)
    <3>1. plan' = Absent
      BY <2>3 DEF WriteManifest, SealManifest, AloneInv, Persisted
    <3>2. pc'[p] # "dispatch"
      BY <2>3, NotDispatched DEF Invocation, WriteManifest, SealManifest, BuildPlan
    <3>. QED BY <3>1, <3>2 DEF PlanSplits, Alone
  <2>4. CASE ~ (WritePlan(p) \/ BuildPlan(p) \/ WriteManifest(p) \/ SealManifest(p))
    <3>1. pc'[p] # "dispatch"
      BY <1>1, <2>4, NotDispatched
    <3>2. UNCHANGED <<plan, manifest>>
      BY <1>1, <2>4
      DEF Invocation, ResumeManifest, ListSources, ScanSource, ScanDone, CheckDigest,
          WriteDigest, ReadManifestBack, HashDigest, CheckSessions, RecheckSource,
          RecheckDone, LoadPlan, ReportNothing, ValidatePlan, ReadReport, ReadsDone,
          AwaitMiners, RequestReconciliation, RankFew, RankGroups, ToApply, Finish,
          Crash, Fail, fileVars
    <3>. QED BY <3>1, <3>2, SplitsStays DEF PlanSplits, Alone
  <2>. QED BY <2>1, <2>2, <2>3, <2>4
<1>2. ASSUME NEW p \in Procs, NEW c \in Commands, Start(p, c) PROVE PlanSplits'
  <2>1. UNCHANGED <<plan, manifest>>
    BY <1>2 DEF Start, Fail, fileVars
  <2>2. pc'[p] # "dispatch"
    BY <1>2, ForgetFrame DEF Start, Fail, Exit, Goto, IInv, TypeOK
  <2>. QED BY <2>1, <2>2, SplitsStays DEF PlanSplits, Alone
<1>3. CASE StartOver
  BY <1>3 DEF StartOver, PlanSplits, procVars
<1>4. CASE World \/ (Host /\ ~StartOver) \/ UNCHANGED vars
  <2>1. UNCHANGED <<plan, manifest, pc, heldPlan>>
    BY <1>4
    DEF World, TranscriptChanges, DigestChanges, Host, HostMines, HostStrays,
        HostReconciles, HostDiscardsReconciliation, vars, fileVars, procVars
  <2>. QED BY <2>1, SplitsStays DEF PlanSplits
<1>. QED BY <1>1, <1>2, <1>3, <1>4 DEF Next

(* Whatever the transcripts and their sizes, wherever invocations are      *)
(* killed, and whatever the host does: the plan on disk is the plan of the *)
(* manifest on disk, gives each digest to one miner, and has no batch      *)
(* without bytes, which DispatchBatch.from_json would refuse.              *)
THEOREM PlanFits ==
  ASSUME Alone
  PROVE  Spec => []PlanFitsManifest
<1>1. Init => PlanSplits
  BY DEF Init, PlanSplits
<1>2. IInv /\ AloneInv /\ PlanSplits /\ [Next]_vars => PlanSplits'
  BY NextSplits
<1>3. AloneInv /\ PlanSplits => PlanFitsManifest
  BY DEF AloneInv, Ordered, PlanSplits, Splits, PlanFitsManifest
<1>. QED BY <1>1, <1>2, <1>3, Invariance, AloneInvariance, PTL DEF Spec

(* Only the invocation that scanned writes a manifest, and no manifest, or *)
(* one without a seal, was there before.                                   *)
LEMMA ManifestSteps ==
  ASSUME Alone, IInv, AloneInv, [Next]_vars, manifest # Absent, manifest.seal # Absent
  PROVE  manifest' = manifest \/ OutDirEmpty'
<1>1. ASSUME NEW p \in Procs, WriteManifest(p) \/ SealManifest(p)
      PROVE  FALSE
  BY <1>1 DEF WriteManifest, SealManifest, AloneInv, Persisted
<1>2. StartOver => OutDirEmpty'
  BY DEF StartOver, OutDirEmpty, NoFiles, NoReports
<1>. QED BY <1>1, <1>2, Writers

(* A sealed manifest is not written again while its directory is in use.   *)
THEOREM SealStays ==
  ASSUME Alone
  PROVE  Spec => SealedManifestStays
<1>1. IInv /\ AloneInv /\ [Next]_vars =>
        [(manifest # Absent /\ manifest.seal # Absent) =>
           (manifest' = manifest \/ OutDirEmpty')]_manifest
  BY ManifestSteps
<1>. QED BY <1>1, Invariance, AloneInvariance, PTL DEF Spec, SealedManifestStays
-----------------------------------------------------------------------------
(* A host that keeps the answers it gave: no accepted report is rewritten  *)
(* and the groups are not thrown away.                                     *)
KeepsAnswers == "rewrite" \notin HostMoves /\ "discard" \notin HostMoves

(* All that the ranking depends on is there, and what it will be.          *)
Answered == plan # Absent /\ AllMined /\ (NeedsReconciliation(AllFound) => Reconciled)
Ranking ==
  IF NeedsReconciliation(AllFound) THEN reconReport.groups ELSE Singles(AllFound)

Settled ==
  /\ \A p \in Procs : pc[p] = "apply" => Answered /\ ranked[p] = Ranking
  /\ finalReport # Absent =>
       \/ plan = Absent /\ DigestsOf(manifest) = {} /\ finalReport.groups = {}
       \/ Answered /\ finalReport.groups = Ranking

(* No invocation and no host takes an accepted answer back.                *)
LEMMA AnswersStay ==
  ASSUME IInv, KeepsAnswers, [Next]_vars, plan # Absent, plan' # Absent
  PROVE  /\ \A b \in DOMAIN plan.batches : Mined(b) => minerReport'[b] = minerReport[b]
         /\ Reconciled => UNCHANGED <<reconReport, reconRequest>>
<1>1. ASSUME NEW p \in Procs, Invocation(p) \/ Crash(p)
      PROVE  UNCHANGED <<minerReport, reconReport>>
             /\ (reconReport # Absent => reconRequest' = reconRequest)
  BY <1>1
  DEF Invocation, ResumeManifest, ListSources, ScanSource, ScanDone, CheckDigest,
      WriteDigest, WriteManifest, ReadManifestBack, HashDigest, SealManifest,
      CheckSessions, RecheckSource, RecheckDone, LoadPlan, ReportNothing, BuildPlan,
      WritePlan, ValidatePlan,
      ReadReport, ReadsDone, AwaitMiners, RequestReconciliation, RankFew, RankGroups,
      ToApply, Finish, Crash, Fail, fileVars
<1>2. ASSUME NEW p \in Procs, NEW c \in Commands, Start(p, c)
      PROVE  UNCHANGED <<minerReport, reconReport, reconRequest>>
  BY <1>2 DEF Start, Fail, fileVars
<1>3. CASE World
  BY <1>3 DEF World, TranscriptChanges, DigestChanges, fileVars
<1>4. ASSUME NEW b \in BatchIds, HostMines(b) \/ HostStrays(b)
      PROVE  /\ \A k \in DOMAIN plan.batches : Mined(k) => minerReport'[k] = minerReport[k]
             /\ UNCHANGED <<reconReport, reconRequest>>
  <2>1. /\ b \in DOMAIN plan.batches => ~Mined(b)
        /\ \E x : minerReport' = [minerReport EXCEPT ![b] = x]
        /\ UNCHANGED <<reconReport, reconRequest>>
    BY <1>4 DEF HostMines, HostStrays, KeepsAnswers
  <2>. QED BY <2>1 DEF IInv, TypeOK
<1>5. CASE HostReconciles
  BY <1>5 DEF HostReconciles, KeepsAnswers
<1>6. ~HostDiscardsReconciliation /\ ~StartOver
  BY DEF HostDiscardsReconciliation, StartOver, KeepsAnswers
<1>7. CASE UNCHANGED vars
  BY <1>7 DEF vars, fileVars
<1>. QED BY <1>1, <1>2, <1>3, <1>4, <1>5, <1>6, <1>7 DEF Next, Host, Reconciled

(* So the ranking is determined once all answers are there.                *)
LEMMA RankingStays ==
  ASSUME IInv, KeepsAnswers, [Next]_vars, Answered, plan' = plan
  PROVE  Answered' /\ Ranking' = Ranking
<1>1. /\ \A b \in DOMAIN plan.batches : minerReport'[b] = minerReport[b]
      /\ Reconciled => UNCHANGED <<reconReport, reconRequest>>
  BY AnswersStay DEF Answered, AllMined
<1>2. AllMined' /\ AllFound' = AllFound
  BY <1>1 DEF AllMined, AllFound, FindingsOf, Mined, Answered
<1>3. NeedsReconciliation(AllFound)' <=> NeedsReconciliation(AllFound)
  BY <1>2 DEF NeedsReconciliation
<1>4. Reconciled => Reconciled' /\ reconReport' = reconReport
  BY <1>1 DEF Reconciled
<1>5. Singles(AllFound)' = Singles(AllFound)
  BY <1>2 DEF Singles
<1>. QED BY <1>2, <1>3, <1>4, <1>5 DEF Answered, Ranking

LEMMA SettledStays ==
  ASSUME Alone, KeepsAnswers, IInv, AloneInv, Settled, [Next]_vars,
         UNCHANGED <<plan, finalReport>>,
         \A q \in Procs : \/ pc'[q] # "apply"
                          \/ pc[q] = "apply" /\ ranked'[q] = ranked[q]
  PROVE  Settled'
<1>1. ASSUME finalReport # Absent PROVE manifest' = manifest
  <2>1. manifest # Absent /\ manifest.seal # Absent
    BY <1>1 DEF AloneInv, Ordered
  <2>2. ~OutDirEmpty'
    BY <1>1 DEF OutDirEmpty
  <2>. QED BY <2>1, <2>2, ManifestSteps
<1>2. finalReport # Absent => DigestsOf(manifest)' = DigestsOf(manifest)
  BY <1>1 DEF DigestsOf
<1>. QED BY <1>2, RankingStays DEF Settled

LEMMA ForgetSettled ==
  ASSUME Alone, KeepsAnswers, IInv, AloneInv, Settled, [Next]_vars,
         UNCHANGED <<plan, finalReport>>, NEW p \in Procs, NEW how, Forget(p, how)
  PROVE  Settled'
BY ForgetFrame, SettledStays DEF Alone

(* The manifest in memory has the digests of the one on disk.              *)
LEMMA HeldDigests ==
  ASSUME AloneInv, NEW p \in Procs, pc[p] \in Complete
  PROVE  DigestsOf(held[p]) = DigestsOf(manifest)
BY DEF AloneInv, Persisted, DigestsOf

(* An invocation about to report, and a report, have the one ranking that  *)
(* the answers determine.                                                  *)
LEMMA NextSettled ==
  ASSUME Alone, KeepsAnswers, IInv, RankInv, AloneInv, Settled, [Next]_vars
  PROVE  Settled'
<1>1. ASSUME NEW p \in Procs, Early(p) PROVE Settled'
  <2>1. /\ UNCHANGED <<plan, finalReport>> /\ pc'[p] # "apply"
    BY <1>1, EarlyFrame DEF rankFiles, Relying, Planned
  <2>. QED BY <2>1, SettledStays DEF Alone
<1>2. ASSUME NEW p \in Procs, NEW how, Fail(p, how) PROVE Settled'
  BY <1>2, ForgetSettled DEF Fail, Exit, fileVars
<1>3. ASSUME NEW p \in Procs, NEW c \in Commands, Start(p, c) PROVE Settled'
  BY <1>2, <1>3, SettledStays DEF Start, Goto, Alone, IInv, TypeOK, fileVars
<1>4. ASSUME NEW p \in Procs,
             LoadPlan(p) \/ ValidatePlan(p) \/ ReadReport(p) \/ ReadsDone(p)
      PROVE  Settled'
  <2>1. CASE Fail(p, "error")
    BY <1>2, <2>1
  <2>2. CASE ~Fail(p, "error")
    <3>1. UNCHANGED <<plan, finalReport>> /\ pc'[p] # "apply"
      BY <1>4, <2>2
      DEF LoadPlan, ValidatePlan, ReadReport, ReadsDone, Goto, IInv, TypeOK, fileVars
    <3>. QED BY <3>1, SettledStays DEF Alone
  <2>. QED BY <2>1, <2>2
<1>5. ASSUME NEW p \in Procs, RequestReconciliation(p) PROVE Settled'
  BY <1>5, ForgetSettled DEF RequestReconciliation, Exit
<1>6. ASSUME NEW p \in Procs, WritePlan(p) PROVE Settled'
  <2>1. /\ pc[p] = "dispatch" /\ finalReport' = finalReport /\ Forget(p, "awaiting-miners")
    BY <1>6 DEF WritePlan, Exit
  <2>2. plan = Absent /\ DigestsOf(held[p]) # {}
    BY <2>1 DEF AloneInv, Persisted
  <2>3. finalReport = Absent
    BY <2>1, <2>2, HeldDigests DEF Settled, Answered, Complete, Holding, Labels
  <2>4. pc'[p] = "idle"
    BY <2>1, ForgetFrame
  <2>. QED BY <2>1, <2>3, <2>4 DEF Settled, Alone
<1>7. ASSUME NEW p \in Procs, ReportNothing(p) PROVE Settled'
  <2>1. CASE Fail(p, "error")
    BY <1>2, <2>1
  <2>2. CASE ~Fail(p, "error")
    <3>1. /\ pc[p] = "build" /\ plan = Absent /\ DigestsOf(held[p]) = {}
          /\ finalReport'.groups = {} /\ Forget(p, "diagnosis-complete")
          /\ UNCHANGED <<plan, manifest>>
      BY <1>7, <2>2 DEF ReportNothing, Report, Exit, AloneInv, Persisted
    <3>2. DigestsOf(manifest)' = {}
      BY <3>1, HeldDigests DEF Complete, Holding, Labels, DigestsOf
    <3>3. pc'[p] = "idle"
      BY <3>1, ForgetFrame
    <3>. QED BY <3>1, <3>2, <3>3 DEF Settled, Alone
  <2>. QED BY <2>1, <2>2
<1>8. ASSUME NEW p \in Procs, NEW groups, ToApply(p, groups), Answered, groups = Ranking
      PROVE  Settled'
  <2>1. UNCHANGED <<plan, finalReport, manifest>> /\ ranked'[p] = groups
    BY <1>8 DEF ToApply, IInv, TypeOK, fileVars
  <2>2. Answered' /\ Ranking' = Ranking
    BY <1>8, <2>1, RankingStays
  <2>3. DigestsOf(manifest)' = DigestsOf(manifest)
    BY <2>1 DEF DigestsOf
  <2>. QED BY <1>8, <2>1, <2>2, <2>3 DEF Settled, Alone
<1>9. ASSUME NEW p \in Procs, RankFew(p) PROVE Settled'
  <2>1. /\ plan # Absent /\ AllMined /\ found[p] = AllFound
        /\ ~NeedsReconciliation(AllFound)
    BY <1>9 DEF RankFew, RankInv, Accounts, Relying, Planned
  <2>2. ToApply(p, Singles(AllFound))
    BY <1>9, <2>1 DEF RankFew, Singles
  <2>. QED BY <1>8, <2>1, <2>2 DEF Answered, Ranking
<1>10. ASSUME NEW p \in Procs, RankGroups(p) PROVE Settled'
  <2>1. CASE \E how : Fail(p, how)
    BY <1>2, <2>1
  <2>2. CASE ~\E how : Fail(p, how)
    <3>1. /\ plan # Absent /\ AllMined /\ found[p] = AllFound
          /\ NeedsReconciliation(AllFound)
      BY <1>10 DEF RankGroups, RankInv, Accounts, Relying, Planned
    <3>2. Reconciled /\ ToApply(p, reconReport.groups)
      BY <1>10, <2>2 DEF RankGroups, Reconciled
    <3>. QED BY <1>8, <3>1, <3>2 DEF Answered, Ranking
  <2>. QED BY <2>1, <2>2
<1>11. ASSUME NEW p \in Procs, Finish(p) PROVE Settled'
  <2>1. CASE Fail(p, "error")
    BY <1>2, <2>1
  <2>2. CASE ~Fail(p, "error")
    <3>1. /\ pc[p] = "apply" /\ finalReport'.groups = ranked[p] /\ plan' = plan
          /\ Forget(p, StageOf(command[p]))
      BY <1>11, <2>2 DEF Finish, Report, Exit
    <3>2. Answered' /\ Ranking' = ranked[p]
      BY <3>1, RankingStays DEF Settled
    <3>3. pc'[p] = "idle"
      BY <3>1, ForgetFrame
    <3>. QED BY <3>1, <3>2, <3>3 DEF Settled, Alone
  <2>. QED BY <2>1, <2>2
<1>12. CASE StartOver
  BY <1>12 DEF StartOver, Settled, procVars
<1>13. CASE World \/ (Host /\ ~StartOver) \/ UNCHANGED vars
  <2>1. UNCHANGED <<plan, finalReport, procVars>>
    BY <1>13
    DEF World, TranscriptChanges, DigestChanges, Host, HostMines, HostStrays,
        HostReconciles, HostDiscardsReconciliation, vars, fileVars
  <2>. QED BY <2>1, SettledStays DEF procVars
<1>14. ASSUME NEW p \in Procs, Invocation(p) \/ Crash(p) PROVE Settled'
  BY <1>14, <1>1, <1>4, <1>5, <1>6, <1>7, <1>9, <1>10, <1>11 DEF Invocation, Early
<1>. QED BY <1>3, <1>12, <1>13, <1>14 DEF Next

LEMMA InitSettled ==
  ASSUME Init
  PROVE  Settled
BY DEF Init, Settled

(* The inductive invariant of the published ranking.                       *)
THEOREM SettledInvariance ==
  ASSUME Alone, KeepsAnswers
  PROVE  Spec => []Settled
<1>1. Init => Settled
  BY InitSettled
<1>2. IInv /\ RankInv /\ AloneInv /\ Settled /\ [Next]_vars => Settled'
  BY NextSettled
<1>3. Spec => []RankInv
  BY RankedAlone DEF KeepsAnswers
<1>. QED BY <1>1, <1>2, <1>3, Invariance, AloneInvariance, PTL DEF Spec

(* A ranking is published by the invocation that made it and by no other   *)
(* step; a report that is there has the same one.                          *)
LEMMA Published ==
  ASSUME IInv, AloneInv, RankInv, Settled, [Next]_vars, finalReport' # finalReport
  PROVE  \/ OutDirEmpty' /\ StartOver
         \/ /\ UNCHANGED <<manifest, plan, reconRequest>>
            /\ \/ /\ plan = Absent /\ manifest # Absent /\ finalReport'.groups = {}
               \/ Answered /\ finalReport'.groups = Ranking
            /\ finalReport' # Absent
            /\ finalReport # Absent => finalReport'.groups = finalReport.groups
<1>1. ASSUME NEW p \in Procs, ReportNothing(p)
      PROVE  /\ UNCHANGED <<manifest, plan, reconRequest>> /\ finalReport' # Absent
             /\ plan = Absent /\ manifest # Absent /\ finalReport'.groups = {}
             /\ finalReport # Absent => finalReport.groups = {}
  <2>1. /\ pc[p] = "build" /\ plan = Absent /\ finalReport'.groups = {}
        /\ UNCHANGED <<manifest, plan, reconRequest>>
    BY <1>1 DEF ReportNothing, Report, Fail, fileVars, AloneInv, Persisted
  <2>2. manifest # Absent
    BY <2>1 DEF AloneInv, Persisted, Complete, Holding, Labels
  <2>3. finalReport # Absent => finalReport.groups = {}
    BY <2>1 DEF Settled, Answered
  <2>4. finalReport' # Absent
    BY <1>1, ReportNothingInv, AbsentAssumption
  <2>. QED BY <2>1, <2>2, <2>3, <2>4
<1>2. ASSUME NEW p \in Procs, Finish(p)
      PROVE  /\ UNCHANGED <<manifest, plan, reconRequest>> /\ finalReport' # Absent
             /\ Answered /\ finalReport'.groups = Ranking
             /\ finalReport # Absent => finalReport.groups = Ranking
  <2>1. /\ pc[p] = "apply" /\ finalReport'.groups = ranked[p]
        /\ UNCHANGED <<manifest, plan, reconRequest>>
    BY <1>2 DEF Finish, Report, Fail, fileVars
  <2>2. Answered /\ ranked[p] = Ranking
    BY <2>1 DEF Settled
  <2>3. finalReport' # Absent
    BY <1>2, FinishInv, AbsentAssumption
  <2>. QED BY <2>1, <2>2, <2>3 DEF Settled, Answered
<1>3. ASSUME NEW p \in Procs, Invocation(p) \/ Crash(p), ~ReportNothing(p), ~Finish(p)
      PROVE  finalReport' = finalReport
  BY <1>3
  DEF Invocation, ResumeManifest, ListSources, ScanSource, ScanDone, CheckDigest,
      WriteDigest, WriteManifest, ReadManifestBack, HashDigest, SealManifest,
      CheckSessions, RecheckSource, RecheckDone, LoadPlan, BuildPlan, WritePlan,
      ValidatePlan,
      ReadReport, ReadsDone, AwaitMiners, RequestReconciliation, RankFew, RankGroups,
      ToApply, Crash, Fail, fileVars
<1>4. StartOver => OutDirEmpty'
  BY DEF StartOver, OutDirEmpty, NoFiles, NoReports
<1>5. ASSUME NEW p \in Procs, NEW c \in Commands, Start(p, c)
      PROVE  finalReport' = finalReport
  BY <1>5 DEF Start, Fail, fileVars
<1>6. ASSUME World \/ (Host /\ ~StartOver) \/ UNCHANGED vars
      PROVE  finalReport' = finalReport
  BY <1>6
  DEF World, TranscriptChanges, DigestChanges, Host, HostMines, HostStrays,
      HostReconciles, HostDiscardsReconciliation, vars, fileVars
<1>. QED BY <1>1, <1>2, <1>3, <1>4, <1>5, <1>6 DEF Next

(* A rerun of a finished run reports the same ranking, so the consent of a *)
(* diagnosis is about the clusters the Apply invocation acts on.           *)
THEOREM RerunReproduces ==
  ASSUME Alone, KeepsAnswers
  PROVE  Spec => RerunReproducesRanking
<1>1. IInv /\ RankInv /\ AloneInv /\ Settled /\ [Next]_vars =>
        [finalReport # Absent /\ finalReport' # Absent =>
           finalReport'.groups = finalReport.groups]_finalReport
  BY Published DEF OutDirEmpty
<1>2. Spec => []RankInv
  BY RankedAlone DEF KeepsAnswers
<1>. QED
  BY <1>1, <1>2, Invariance, AloneInvariance, SettledInvariance, PTL
  DEF Spec, RerunReproducesRanking
-----------------------------------------------------------------------------
(* The implementation of ReflectionHandoff: its stages are told by which   *)
(* files there are, so each step is looked at for the files it writes.     *)

(* The ranking of the answers has every finding and no empty cluster.      *)
LEMMA SoundRanking ==
  ASSUME RankInv, Answered
  PROVE  /\ \A g \in Ranking : g.members # {}
         /\ UNION {g.members : g \in Ranking} = AllFound
<1>1. CASE NeedsReconciliation(AllFound)
  <2>1. Reconciled /\ Ranking = reconReport.groups
    BY <1>1 DEF Answered, Ranking
  <2>2. reconRequest.items = AllFound
    <3>1. reconRequest = [runId |-> plan.runId, items |-> AllFound]
      BY <2>1 DEF RankInv, RequestStands, Reconciled
    <3>. QED BY <3>1
  <2>. QED BY <2>1, <2>2 DEF Reconciled, GroupsValid
<1>2. CASE ~NeedsReconciliation(AllFound)
  <2>1. Ranking = Singles(AllFound)
    BY <1>2 DEF Ranking
  <2>2. \A g \in Singles(AllFound) : g.members # {}
    BY DEF Singles
  <2>. QED BY <2>1, <2>2, SinglesCover
<1>. QED BY <1>1, <1>2

(* The request is there exactly when the ranking needed reconciliation.    *)
LEMMA RequestTells ==
  ASSUME RankInv, Answered
  PROVE  NeedsReconciliation(AllFound) <=> reconRequest # Absent
BY DEF RankInv, RequestStands, Answered, Reconciled

LEMMA FindingsAreFinite ==
  ASSUME IInv, Answered
  PROVE  AllFound \subseteq Findings /\ Cardinality(AllFound) \in Nat
<1>1. ASSUME NEW b \in DOMAIN plan.batches PROVE minerReport[b].findings \subseteq Findings
  <2>1. b \in BatchIds
    <3>1. PICK k \in BatchIds : plan.batches \in [1 .. k -> SUBSET Sources]
      BY DEF IInv, TypeOK, PlanType, BatchMaps, Answered
    <3>2. Cardinality(Sources) \in Nat
      BY SourcesAssumption, FS_CardinalityType
    <3>. QED BY <3>1, <3>2 DEF BatchIds
  <2>2. minerReport[b] \in MinerReport
    BY <2>1 DEF Answered, AllMined, Mined, ReportValid, IInv, TypeOK
  <2>. QED BY <2>2 DEF MinerReport
<1>2. AllFound \subseteq Findings
  BY <1>1 DEF AllFound, FindingsOf
<1>. QED BY <1>2, FindingsAssumption, FS_Subset, FS_CardinalityType

(* Both modules count with FiniteSets.                                     *)
LEMMA SameCardinality == \A S : Handoff!Cardinality(S) = Cardinality(S)
BY DEF Handoff!Cardinality, Cardinality

LEMMA PublishStep ==
  ASSUME IInv, IInv', RankInv, AloneInv, Settled, [Next]_vars,
         finalReport = Absent, finalReport' # Absent
  PROVE  Handoff!Publish
<1>1. /\ UNCHANGED <<manifest, plan, reconRequest>>
      /\ \/ /\ plan = Absent /\ manifest # Absent /\ finalReport'.groups = {}
         \/ Answered /\ finalReport'.groups = Ranking
  BY Published DEF OutDirEmpty
<1>2. finalReport'.groups \in Handoff!Rankings
  <2>1. finalReport' \in FinalReport
    BY DEF IInv, TypeOK
  <2>. QED BY <2>1 DEF FinalReport, Group, Handoff!Rankings
<1>3. \A g, h \in finalReport'.groups :
        g # h => g.key # h.key /\ g.members \cap h.members = {}
  BY DEF IInv, ReportIsBacked, WellGrouped
<1>4. CASE plan = Absent /\ manifest # Absent /\ finalReport'.groups = {}
  <2>1. reconRequest = Absent
    BY <1>4 DEF RankInv, RequestStands
  <2>. QED
    BY <1>1, <1>2, <1>4, <2>1 DEF Handoff!Publish, Handoff!Sound
<1>5. CASE Answered /\ finalReport'.groups = Ranking
  <2>1. /\ \A g \in finalReport'.groups : g.members # {}
        /\ Handoff!Ranked(finalReport'.groups) = AllFound
    BY <1>5, SoundRanking DEF Handoff!Ranked
  <2>2. Handoff!Sound(finalReport'.groups)
    BY <1>3, <2>1 DEF Handoff!Sound
  <2>3. Cardinality(AllFound) \in Nat /\ plan # Absent
    BY <1>5, FindingsAreFinite DEF Answered
  <2>4. CASE reconRequest = Absent
    <3>1. Cardinality(AllFound) <= 1
      BY <1>5, <2>3, <2>4, RequestTells DEF NeedsReconciliation
    <3>. QED BY <1>1, <1>2, <2>1, <2>2, <2>3, <2>4, <3>1, SameCardinality DEF Handoff!Publish
  <2>5. CASE reconRequest # Absent
    <3>1. Cardinality(AllFound) > 1
      BY <1>5, <2>5, RequestTells DEF NeedsReconciliation
    <3>. QED BY <1>1, <1>2, <2>1, <2>2, <2>3, <2>5, <3>1, SameCardinality DEF Handoff!Publish
  <2>. QED BY <2>4, <2>5
<1>. QED BY <1>1, <1>4, <1>5

(* One step of the run is one step of the abstraction, or none.            *)
LEMMA HandoffStep ==
  ASSUME IInv, IInv', RankInv, AloneInv, AloneInv', Settled, [Next]_vars
  PROVE  [Handoff!Next]_(Handoff!vars)
<1>. USE DEF Handoff!Next, Handoff!vars
<1>1. CASE finalReport' # finalReport
  <2>1. CASE OutDirEmpty' /\ StartOver
    BY <2>1 DEF StartOver, Handoff!Discard
  <2>2. CASE finalReport = Absent /\ finalReport' # Absent
    BY <2>2, PublishStep
  <2>3. CASE finalReport # Absent /\ ~StartOver
    <3>1. finalReport' # Absent /\ finalReport'.groups = finalReport.groups
      BY <1>1, <2>3, Published
    <3>. QED BY <2>3, <3>1
  <2>. QED BY <1>1, <2>1, <2>2, <2>3, Published
<1>2. CASE finalReport' = finalReport /\ finalReport # Absent
  BY <1>2
<1>3. CASE finalReport' = Absent /\ finalReport = Absent
  <2>1. ASSUME NEW p \in Procs, WriteManifest(p) PROVE [Handoff!Next]_(Handoff!vars)
    <3>1. /\ manifest = Absent /\ plan = Absent /\ reconRequest = Absent
          /\ UNCHANGED <<plan, reconRequest>>
      BY <2>1 DEF WriteManifest, AloneInv, Persisted, RankInv, RequestStands
    <3>. QED BY <1>3, <3>1 DEF Handoff!Digest
  <2>2. ASSUME NEW p \in Procs, SealManifest(p) PROVE [Handoff!Next]_(Handoff!vars)
    <3>1. /\ pc[p] = "hash" /\ manifest # Absent /\ pc'[p] = "plan"
          /\ UNCHANGED <<plan, reconRequest>>
      BY <2>2
      DEF SealManifest, Goto, IInv, TypeOK, AloneInv, Persisted, Complete, Holding, Labels
    <3>2. manifest' # Absent
      BY <3>1 DEF AloneInv, Persisted, Complete, Holding, Labels
    <3>. QED BY <1>3, <3>1, <3>2
  <2>3. ASSUME NEW p \in Procs, WritePlan(p) PROVE [Handoff!Next]_(Handoff!vars)
    <3>1. /\ manifest # Absent /\ plan = Absent /\ reconRequest = Absent
          /\ UNCHANGED <<manifest, reconRequest>>
      BY <2>3
      DEF WritePlan, AloneInv, Persisted, RankInv, RequestStands, Complete, Holding, Labels
    <3>. QED BY <1>3, <3>1 DEF Handoff!Dispatch
  <2>4. ASSUME NEW p \in Procs, RequestReconciliation(p)
        PROVE  [Handoff!Next]_(Handoff!vars)
    <3>1. /\ plan # Absent /\ UNCHANGED <<manifest, plan>>
          /\ reconRequest' = [runId |-> plan.runId, items |-> AllFound]
      BY <2>4 DEF RequestReconciliation, RankInv, Accounts, Relying, Planned
    <3>2. reconRequest # Absent => reconRequest' = reconRequest
      BY <3>1 DEF RankInv, RequestStands
    <3>. QED BY <1>3, <3>1, <3>2 DEF Handoff!AskReconciliation
  <2>5. CASE StartOver
    BY <1>3, <2>5 DEF StartOver, Handoff!Discard
  <2>6. ASSUME UNCHANGED <<manifest, plan, reconRequest>>
        PROVE  [Handoff!Next]_(Handoff!vars)
    BY <1>3, <2>6
  <2>7. ASSUME NEW p \in Procs, Invocation(p) \/ Crash(p),
               ~WriteManifest(p), ~SealManifest(p), ~WritePlan(p), ~RequestReconciliation(p)
        PROVE  UNCHANGED <<manifest, plan, reconRequest>>
    BY <2>7
    DEF Invocation, ResumeManifest, ListSources, ScanSource, ScanDone, CheckDigest,
      WriteDigest,
        ReadManifestBack, HashDigest, CheckSessions, RecheckSource, RecheckDone,
        LoadPlan, ReportNothing, BuildPlan, ValidatePlan,
        ReadReport, ReadsDone, AwaitMiners, RankFew, RankGroups, ToApply, Finish, Crash,
        Fail, fileVars
  <2>8. ASSUME NEW p \in Procs, NEW c \in Commands, Start(p, c)
        PROVE  UNCHANGED <<manifest, plan, reconRequest>>
    BY <2>8 DEF Start, Fail, fileVars
  <2>9. ASSUME World \/ (Host /\ ~StartOver) \/ UNCHANGED vars
        PROVE  UNCHANGED <<manifest, plan, reconRequest>>
    BY <2>9
    DEF World, TranscriptChanges, DigestChanges, Host, HostMines, HostStrays,
        HostReconciles, HostDiscardsReconciliation, vars, fileVars
  <2>. QED BY <2>1, <2>2, <2>3, <2>4, <2>5, <2>6, <2>7, <2>8, <2>9 DEF Next
<1>. QED BY <1>1, <1>2, <1>3

(* The run directory goes through the stages that ReflectionHandoff        *)
(* promises, in their order, and what it publishes is sound: step by step, *)
(* for every number of findings, commands, edits and kills.                *)
THEOREM Implements ==
  ASSUME Alone, KeepsAnswers
  PROVE  Spec => ImplementsHandoff
<1>1. Init => Handoff!Init
  BY DEF Init, Handoff!Init
<1>2. IInv /\ IInv' /\ RankInv /\ AloneInv /\ AloneInv' /\ Settled /\ [Next]_vars =>
        [Handoff!Next]_(Handoff!vars)
  BY HandoffStep
<1>3. Spec => []RankInv
  BY RankedAlone DEF KeepsAnswers
<1>. QED
  BY <1>1, <1>2, <1>3, Invariance, AloneInvariance, SettledInvariance, PTL
  DEF Spec, ImplementsHandoff, Handoff!Spec
=============================================================================
