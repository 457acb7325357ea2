--------------------------- MODULE ReflectionRun ---------------------------
(***************************************************************************)
(* The staged reflection run of src/scripts/reflect_setup.py               *)
(* (run_reflection and the functions it calls, with run_digest of          *)
(* digest.py). One invocation is a process that reads and writes the files *)
(* of the run directory step by step and exits; whatever survives it is on *)
(* disk. Between and during invocations the host writes miner reports and  *)
(* the reconciliation report, transcripts change, and an invocation may    *)
(* be killed.                                                              *)
(*                                                                         *)
(* A file hash is collision-free, so a hash is modelled by the hashed      *)
(* value; a new run id (uuid4) is one no invocation holds.                 *)
(***************************************************************************)
EXTENDS Integers, FiniteSets, DispatchBatches

CONSTANTS
  Sources,       (* transcript paths, as their rank in path order          *)
  Contents,      (* what a transcript may hold                             *)
  Signals,       (* the contents that yield in-scope signals               *)
  Broken,        (* the contents with a malformed line                     *)
  Bytes,         (* size of the digest of a content                        *)
  Scopes,        (* project filter and subagent choice of a command        *)
  Selected,      (* the transcripts a scope selects                        *)
  Findings,      (* merged findings a miner can report                     *)
  Evidence,      (* the transcript whose digest a finding cites            *)
  ProposedKey,   (* the cluster key the miner proposes                     *)
  ClusterKeys,
  Groupings,     (* sets of groups a reconciler may answer with            *)
  Commands,      (* command lines the host runs                            *)
  Procs,         (* invocations that may run at the same time              *)
  HostMoves,     (* liberties of the host, see the host's actions          *)
  RunIds,        (* uuid4 values                                           *)
  MaxEdits,      (* bound: changes to transcripts and digests              *)
  MaxCrashes,    (* bound: killed invocations                              *)
  Absent,        (* no such file                                           *)
  Garbage        (* a file the parser rejects                              *)

ASSUME SourcesAssumption == Sources \subseteq Nat /\ IsFiniteSet(Sources)
ASSUME ContentsAssumption ==
  /\ Signals \subseteq Contents /\ Broken \subseteq Contents
  /\ Absent \notin Contents
  /\ Bytes \in [Contents -> Nat \ {0}]
ASSUME ScopesAssumption == Selected \in [Scopes -> SUBSET Sources]
ASSUME FindingsAssumption ==
  /\ IsFiniteSet(Findings)
  /\ Evidence \in [Findings -> Sources]
  /\ ProposedKey \in [Findings -> ClusterKeys]
Group == [key : ClusterKeys, members : SUBSET Findings]
ASSUME GroupingsAssumption == Groupings \subseteq SUBSET Group
Command == [count : Nat \ {0}, scope : Scopes, apply : BOOLEAN,
            approved : SUBSET ClusterKeys, requests : SUBSET ClusterKeys,
            workspaces : SUBSET ClusterKeys, proofs : SUBSET ClusterKeys,
            ledgerParses : BOOLEAN, previewsHold : BOOLEAN]
ASSUME CommandsAssumption == Commands \subseteq Command
ASSUME BoundsAssumption == MaxEdits \in Nat /\ MaxCrashes \in Nat

VARIABLES
  source,         (* the transcripts                                       *)
  digestFile,     (* <out>/<transcript>.md: the content it digests         *)
  manifest,       (* <out>/manifest.json                                   *)
  plan,           (* <out>/dispatch-plan.json                              *)
  minerReport,    (* <out>/miner-reports/<batch>.json                      *)
  reconRequest,   (* <out>/reconciliation-request.json                     *)
  reconReport,    (* <out>/reconciliation-report.json                      *)
  finalReport,    (* <out>/reflection-report.json                          *)
  litter,         (* a killed invocation left a temporary file in <out>    *)
  pc, command,    (* of every invocation                                   *)
  held,           (* the manifest an invocation holds in memory            *)
  draft,          (* the manifest it is about to put the hashes into       *)
  heldPlan,       (* the dispatch plan it holds in memory                  *)
  todo,           (* what its current loop has left                        *)
  found,          (* the merged findings of the reports it has read        *)
  ranked,         (* the clusters it ranks                                 *)
  outcome,        (* how the last invocation ended                         *)
  edits, crashes,
  basis,          (* history: the findings behind finalReport              *)
  stale           (* history: inputs that have differed from the manifest  *)
                  (* ever since the invocation started                     *)

fileVars == <<digestFile, manifest, plan, minerReport, reconRequest,
              reconReport, finalReport, litter>>
procVars == <<pc, command, held, draft, heldPlan, todo, found, ranked, outcome>>
history == <<basis>>
vars == <<source, fileVars, procVars, edits, crashes, history, stale>>

BatchIds == 1 .. Cardinality(Sources)

NoFiles == [s \in Sources |-> Absent]
NoReports == [b \in BatchIds |-> Absent]

-----------------------------------------------------------------------------
(* What is read off a manifest: the transcripts that were scanned, those   *)
(* with a digest (_manifest_digest_paths), the selected sessions           *)
(* (_manifest_session_paths).                                              *)
(* Mutant: only transcripts with a digest count as scanned.                *)
ScannedWithDigestOnly(m) == {s \in Sources : m.files[s] \in Signals}
Scanned(m) == {s \in Sources : m.files[s] # Absent}

DigestsOf(m) ==
  {s \in Selected[m.scope] : m.files[s] \in Signals}

Sessions(files, scope) == {s \in Selected[scope] : files[s] # Absent}

SizeOf(files) == [s \in Sources |-> IF files[s] = Absent THEN 0 ELSE Bytes[files[s]]]

(* _prepare_output: the directory is missing or empty.                     *)
OutDirEmpty ==
  /\ digestFile = NoFiles /\ minerReport = NoReports /\ ~litter
  /\ Absent = manifest /\ Absent = plan /\ Absent = reconRequest
  /\ Absent = reconReport /\ Absent = finalReport

(* The loops over files go in path order.                                  *)
IsNext(x, S) == x \in S /\ \A y \in S : x <= y

Goto(p, label) == pc' = [pc EXCEPT ![p] = label]

(* The process ends; its memory goes with it.                              *)
Forget(p, how) ==
  /\ pc' = [pc EXCEPT ![p] = "idle"]
  /\ outcome' = [outcome EXCEPT ![p] = how]
  /\ command' = [command EXCEPT ![p] = Absent]
  /\ held' = [held EXCEPT ![p] = Absent]
  /\ draft' = [draft EXCEPT ![p] = Absent]
  /\ heldPlan' = [heldPlan EXCEPT ![p] = Absent]
  /\ todo' = [todo EXCEPT ![p] = {}]
  /\ found' = [found EXCEPT ![p] = {}]
  /\ ranked' = [ranked EXCEPT ![p] = {}]
  /\ stale' = [stale EXCEPT ![p] = {}]

Exit(p, how) == Forget(p, how) /\ UNCHANGED <<source, edits, crashes>>

(* An exception: "error" is one main() reports, with exit code 2;          *)
(* "traceback" is one it does not catch. Nothing is written.               *)
Fail(p, how) == Exit(p, how) /\ UNCHANGED <<fileVars, history>>

Init ==
  /\ source \in [Sources -> Contents \cup {Absent}]
  /\ digestFile = NoFiles /\ manifest = Absent /\ plan = Absent
  /\ minerReport = NoReports
  /\ reconRequest = Absent /\ reconReport = Absent /\ finalReport = Absent
  /\ litter = FALSE
  /\ pc = [p \in Procs |-> "idle"]
  /\ command = [p \in Procs |-> Absent]
  /\ held = [p \in Procs |-> Absent]
  /\ draft = [p \in Procs |-> Absent]
  /\ heldPlan = [p \in Procs |-> Absent]
  /\ todo = [p \in Procs |-> {}]
  /\ found = [p \in Procs |-> {}]
  /\ ranked = [p \in Procs |-> {}]
  /\ outcome = [p \in Procs |-> "none"]
  /\ edits = 0 /\ crashes = 0
  /\ basis = {}
  /\ stale = [p \in Procs |-> {}]

-----------------------------------------------------------------------------
(* main and the head of run_reflection: the Apply inputs are checked first *)
(* (_apply_inputs), then the manifest is loaded.                           *)

ApplyInputsValid(c) ==
  IF c.apply
  THEN c.approved # {} /\ c.requests # {} /\ c.workspaces # {}
  ELSE c.approved = {} /\ c.requests = {} /\ c.workspaces = {} /\ c.proofs = {}

(* The inputs that differ from the persisted manifest at this moment.      *)
Differing(files, digests) ==
  IF manifest = Absent \/ manifest.seal = Absent THEN {}
  ELSE {<<"transcript", s>> : s \in
          {t \in Scanned(manifest) \cup Selected[manifest.scope] :
             files[t] # manifest.files[t]}}
       \cup {<<"digest", s>> : s \in
          {t \in DigestsOf(manifest) : digests[t] # manifest.seal.hashes[t]}}

Start(p, c) ==
  /\ pc[p] = "idle"
  /\ IF ApplyInputsValid(c)
     THEN /\ Goto(p, "load")
          /\ command' = [command EXCEPT ![p] = c]
          /\ outcome' = [outcome EXCEPT ![p] = "running"]
          /\ stale' = [stale EXCEPT ![p] = Differing(source, digestFile)]
          /\ UNCHANGED <<source, fileVars, held, draft, heldPlan, todo, found, ranked,
                         edits, crashes, history>>
     ELSE Fail(p, "error")

Unchanged == UNCHANGED <<source, edits, crashes, history, stale>>

(* _load_manifest finds a manifest the command may continue.               *)
ResumeManifest(p) ==
  /\ pc[p] = "load" /\ manifest # Absent
  /\ IF manifest.complete /\ manifest.scope = command[p].scope
     THEN /\ held' = [held EXCEPT ![p] = manifest]
          /\ Goto(p, "sessions")
          /\ Unchanged
          /\ UNCHANGED <<fileVars, command, draft, heldPlan, todo, found, ranked,
                         outcome>>
     ELSE Fail(p, "error")

-----------------------------------------------------------------------------
(* run_digest: no manifest yet. The directory must be empty; the candidate *)
(* transcripts are listed, scanned one by one, their digests written one   *)
(* by one, and the manifest last.                                          *)

ListSources(p) ==
  /\ pc[p] = "load" /\ manifest = Absent
  /\ IF OutDirEmpty
     THEN /\ \E r \in RunIds :
               /\ \A q \in Procs : held[q] # Absent => held[q].runId # r
               /\ held' = [held EXCEPT ![p] =
                    [runId |-> r, scope |-> command[p].scope, files |-> NoFiles,
                     complete |-> TRUE, seal |-> Absent]]
          /\ todo' = [todo EXCEPT ![p] = {s \in Sources : source[s] # Absent}]
          /\ Goto(p, "scan")
          /\ Unchanged
          /\ UNCHANGED <<fileVars, command, draft, heldPlan, found, ranked, outcome>>
     ELSE Fail(p, "error")

(* A transcript with a malformed line, or one removed since it was listed, *)
(* makes the manifest incomplete.                                          *)
WithFile(m, s, content) ==
  [runId |-> m.runId, scope |-> m.scope, seal |-> m.seal,
   files |-> [m.files EXCEPT ![s] = content],
   complete |-> m.complete /\ content \notin Broken \cup {Absent}]

ScanSource(p) ==
  /\ pc[p] = "scan"
  /\ \E s \in todo[p] :
       /\ IsNext(s, todo[p])
       /\ held' = [held EXCEPT ![p] = WithFile(held[p], s, source[s])]
       /\ todo' = [todo EXCEPT ![p] = @ \ {s}]
  /\ Unchanged
  /\ UNCHANGED <<fileVars, pc, command, draft, heldPlan, found, ranked, outcome>>

ScanDone(p) ==
  /\ pc[p] = "scan" /\ todo[p] = {}
  /\ todo' = [todo EXCEPT ![p] = DigestsOf(held[p])]
  /\ Goto(p, "write")
  /\ Unchanged
  /\ UNCHANGED <<fileVars, command, held, draft, heldPlan, found, ranked, outcome>>

Collides(s) == digestFile[s] # Absent

(* _write_typed_digest looks whether the digest exists, and _atomic_write  *)
(* replaces whatever is there when it has written its temporary file.      *)
CheckDigest(p) ==
  /\ pc[p] = "write"
  /\ \E s \in todo[p] :
       /\ IsNext(s, todo[p])
       /\ IF ~Collides(s)
          THEN /\ Goto(p, "replace")
               /\ Unchanged
               /\ UNCHANGED <<fileVars, command, held, draft, heldPlan, todo, found,
                              ranked, outcome>>
          ELSE Fail(p, "error")

WriteDigest(p) ==
  /\ pc[p] = "replace"
  /\ \E s \in todo[p] :
       /\ IsNext(s, todo[p])
       /\ digestFile' = [digestFile EXCEPT ![s] = held[p].files[s]]
       /\ todo' = [todo EXCEPT ![p] = @ \ {s}]
  /\ Goto(p, "write")
  /\ Unchanged
  /\ UNCHANGED <<manifest, plan, minerReport, reconRequest, reconReport, finalReport,
                 litter, command, held, draft, heldPlan, found, ranked, outcome>>

(* Mutant: the digest hashes are not persisted before the plan is built.   *)
WriteManifestOnly(p) ==
  /\ pc[p] = "write" /\ todo[p] = {}
  /\ manifest' = held[p]
  /\ UNCHANGED <<digestFile, plan, minerReport, reconRequest, reconReport,
                 finalReport, litter, history>>
  /\ IF held[p].complete
     THEN /\ Goto(p, "plan")
          /\ UNCHANGED <<source, command, held, draft, heldPlan, todo, found, ranked,
                         outcome, edits, crashes, stale>>
     ELSE Exit(p, "error")

(* The manifest is written even when it is incomplete, which then stops    *)
(* this run and every later one (IncompleteDigestError).                   *)
WriteManifest(p) ==
  /\ pc[p] = "write" /\ todo[p] = {}
  /\ manifest' = held[p]
  /\ UNCHANGED <<digestFile, plan, minerReport, reconRequest, reconReport,
                 finalReport, litter, history>>
  /\ IF held[p].complete
     THEN /\ Goto(p, "seal")
          /\ UNCHANGED <<source, command, held, draft, heldPlan, todo, found, ranked,
                         outcome, edits, crashes, stale>>
     ELSE Exit(p, "error")

(* _persist_digest_hashes: the manifest on disk is read back, the digests  *)
(* are hashed one by one, and the manifest is replaced by one that carries *)
(* the hashes and the hash of the scope.                                   *)
ReadManifestBack(p) ==
  /\ pc[p] = "seal"
  /\ IF manifest # Absent
     THEN /\ draft' = [draft EXCEPT ![p] = [manifest EXCEPT !.seal =
                 [hashes |-> NoFiles, scope |-> held[p].scope]]]
          /\ todo' = [todo EXCEPT ![p] = DigestsOf(held[p])]
          /\ Goto(p, "hash")
          /\ Unchanged
          /\ UNCHANGED <<fileVars, command, held, heldPlan, found, ranked, outcome>>
     ELSE Fail(p, "error")

WithHash(m, s, digest) ==
  [m EXCEPT !.seal = [m.seal EXCEPT !.hashes = [m.seal.hashes EXCEPT ![s] = digest]]]

HashDigest(p) ==
  /\ pc[p] = "hash"
  /\ \E s \in todo[p] :
       /\ IsNext(s, todo[p])
       /\ IF digestFile[s] # Absent
          THEN /\ draft' = [draft EXCEPT ![p] = WithHash(draft[p], s, digestFile[s])]
               /\ todo' = [todo EXCEPT ![p] = @ \ {s}]
               /\ Unchanged
               /\ UNCHANGED <<fileVars, pc, command, held, heldPlan, found, ranked,
                              outcome>>
          ELSE Fail(p, "error")

SealManifest(p) ==
  /\ pc[p] = "hash" /\ todo[p] = {}
  /\ manifest' = draft[p]
  /\ draft' = [draft EXCEPT ![p] = Absent]
  /\ Goto(p, "plan")
  /\ Unchanged
  /\ UNCHANGED <<digestFile, plan, minerReport, reconRequest, reconReport, finalReport,
                 litter, command, held, heldPlan, todo, found, ranked, outcome>>

-----------------------------------------------------------------------------
(* _validate_continuation_manifest: the seal and the session set, then     *)
(* every transcript of the manifest with its digest.                       *)

CheckSessions(p) ==
  /\ pc[p] = "sessions"
  /\ IF /\ manifest # Absent /\ manifest.seal # Absent
        /\ {s \in Sources : manifest.seal.hashes[s] # Absent} = DigestsOf(held[p])
        /\ manifest.seal.scope = held[p].scope
        /\ Sessions(source, held[p].scope) = Sessions(held[p].files, held[p].scope)
     THEN /\ held' = [held EXCEPT ![p] = [held[p] EXCEPT !.seal = manifest.seal]]
          /\ todo' = [todo EXCEPT ![p] = Scanned(held[p])]
          /\ Goto(p, "recheck")
          /\ Unchanged
          /\ UNCHANGED <<fileVars, command, draft, heldPlan, found, ranked, outcome>>
     ELSE Fail(p, "error")

RecheckSource(p) ==
  /\ pc[p] = "recheck"
  /\ \E s \in todo[p] :
       /\ IsNext(s, todo[p])
       /\ IF /\ source[s] = held[p].files[s]
             /\ s \in DigestsOf(held[p]) => digestFile[s] = held[p].seal.hashes[s]
          THEN /\ todo' = [todo EXCEPT ![p] = @ \ {s}]
               /\ Unchanged
               /\ UNCHANGED <<fileVars, pc, command, held, draft, heldPlan, found, ranked,
                              outcome>>
          ELSE Fail(p, "error")

(* Mutant: a continuation hashes the digests again.                        *)
RecheckThenSealAgain(p) ==
  /\ pc[p] = "recheck" /\ todo[p] = {}
  /\ Goto(p, "seal")
  /\ Unchanged
  /\ UNCHANGED <<fileVars, command, held, draft, heldPlan, todo, found, ranked, outcome>>

RecheckDone(p) ==
  /\ pc[p] = "recheck" /\ todo[p] = {}
  /\ Goto(p, "plan")
  /\ Unchanged
  /\ UNCHANGED <<fileVars, command, held, draft, heldPlan, todo, found, ranked, outcome>>

-----------------------------------------------------------------------------
(* The dispatch plan: loaded, and built if there was none, else validated. *)

(* Mutant: a continuation builds the plan again.                           *)
PlanAgain(p) ==
  /\ pc[p] = "plan"
  /\ Goto(p, "build")
  /\ Unchanged
  /\ UNCHANGED <<fileVars, command, held, draft, heldPlan, todo, found, ranked, outcome>>

LoadPlan(p) ==
  /\ pc[p] = "plan"
  /\ heldPlan' = [heldPlan EXCEPT ![p] = plan]
  /\ Goto(p, IF plan = Absent THEN "build" ELSE "validate")
  /\ Unchanged
  /\ UNCHANGED <<fileVars, command, held, draft, todo, found, ranked, outcome>>

Report(p, stage, groups, approved, proofs) ==
  [manifest |-> held[p], stage |-> stage, groups |-> groups,
   approved |-> approved, proofs |-> proofs]

(* No digest, so nothing to mine: an empty report, whatever the command    *)
(* approves.                                                               *)
ReportNothing(p) ==
  /\ pc[p] = "build" /\ DigestsOf(held[p]) = {}
  /\ IF command[p].ledgerParses
     THEN /\ finalReport' = Report(p, "diagnosis-complete", {}, {}, {})
          /\ basis' = {}
          /\ UNCHANGED <<digestFile, manifest, plan, minerReport, reconRequest,
                         reconReport, litter>>
          /\ Exit(p, "diagnosis-complete")
     ELSE Fail(p, "error")

PlanBytes(batches, size) == [b \in DOMAIN batches |-> TotalBytes(batches[b], size)]

(* _build_dispatch_plan                                                    *)
NewPlan(p) ==
  LET size == SizeOf(digestFile)
      batches == Batches(DigestsOf(held[p]), size, command[p].count)
  IN  [runId |-> held[p].runId, manifestHash |-> manifest, batches |-> batches,
       bytes |-> PlanBytes(batches, size)]

BuildPlan(p) ==
  /\ pc[p] = "build" /\ DigestsOf(held[p]) # {}
  /\ IF manifest # Absent /\ (\A s \in DigestsOf(held[p]) : digestFile[s] # Absent)
     THEN /\ heldPlan' = [heldPlan EXCEPT ![p] = NewPlan(p)]
          /\ Goto(p, "dispatch")
          /\ Unchanged
          /\ UNCHANGED <<fileVars, command, held, draft, todo, found, ranked, outcome>>
     ELSE Fail(p, "error")

(* The plan replaces whatever is there by now.                             *)
WritePlan(p) ==
  /\ pc[p] = "dispatch"
  /\ plan' = heldPlan[p]
  /\ UNCHANGED <<digestFile, manifest, minerReport, reconRequest, reconReport,
                 finalReport, litter, basis>>
  /\ Exit(p, "awaiting-miners")

(* DispatchPlan.from_json and _validate_dispatch_plan                      *)
PlanValid(d, m, count) ==
  /\ \A b \in DOMAIN d.batches : d.bytes[b] > 0
  /\ d.runId = m.runId
  /\ d.manifestHash = manifest
  /\ DOMAIN d.batches = 1 .. BatchCount(DigestsOf(m), count)
  /\ IsPartition(d.batches, DigestsOf(m))
  /\ \A s \in DigestsOf(m) : digestFile[s] # Absent
  /\ d.bytes = PlanBytes(d.batches, SizeOf(digestFile))
  /\ \A b \in BatchIds \ DOMAIN d.batches : minerReport[b] = Absent

ValidatePlan(p) ==
  /\ pc[p] = "validate"
  /\ IF PlanValid(heldPlan[p], held[p], command[p].count)
     THEN /\ todo' = [todo EXCEPT ![p] = DOMAIN heldPlan[p].batches]
          /\ Goto(p, "reports")
          /\ Unchanged
          /\ UNCHANGED <<fileVars, command, held, draft, heldPlan, found, ranked,
                         outcome>>
     ELSE Fail(p, "error")

-----------------------------------------------------------------------------
(* _load_plan_reports: the reports are read in batch order and parsed      *)
(* against their batch; the first bad one ends the loop.                   *)

(* Mutant: the evidence may lie outside the batch.                         *)
ReportValidForAnyBatch(report, runId, batch) ==
  report \notin {Absent, Garbage} /\ report.runId = runId /\ report.paths = batch

ReportValid(report, runId, batch) ==
  /\ report \notin {Absent, Garbage}
  /\ report.runId = runId
  /\ report.paths = batch
  /\ \A f \in report.findings : Evidence[f] \in batch

ReadReport(p) ==
  /\ pc[p] = "reports"
  /\ \E b \in todo[p] :
       /\ IsNext(b, todo[p])
       /\ IF ReportValid(minerReport[b], held[p].runId, heldPlan[p].batches[b])
          THEN /\ found' = [found EXCEPT ![p] = @ \cup minerReport[b].findings]
               /\ todo' = [todo EXCEPT ![p] = @ \ {b}]
               /\ UNCHANGED pc
          ELSE /\ Goto(p, "missing")
               /\ UNCHANGED <<found, todo>>
  /\ Unchanged
  /\ UNCHANGED <<fileVars, command, held, draft, heldPlan, ranked, outcome>>

ReadsDone(p) ==
  /\ pc[p] = "reports" /\ todo[p] = {}
  /\ Goto(p, "reconcile")
  /\ Unchanged
  /\ UNCHANGED <<fileVars, command, held, draft, heldPlan, todo, found, ranked, outcome>>

(* The handler of ReportValidationError looks again which reports exist:   *)
(* if one is missing the run waits, else the error stands.                 *)
(* Mutant: an invalid report is passed over.                               *)
MinersOptional(p) ==
  /\ pc[p] = "missing"
  /\ Goto(p, "reconcile")
  /\ Unchanged
  /\ UNCHANGED <<fileVars, command, held, draft, heldPlan, todo, found, ranked, outcome>>

AwaitMiners(p) ==
  /\ pc[p] = "missing"
  /\ IF \E b \in DOMAIN heldPlan[p].batches : minerReport[b] = Absent
     THEN Exit(p, "awaiting-miners") /\ UNCHANGED <<fileVars, history>>
     ELSE Fail(p, "error")

-----------------------------------------------------------------------------
(* Reconciliation of more than one finding.                                *)

(* Mutant: an off-by-one in the fast path.                                 *)
NeedsReconciliationOfThree(findings) == Cardinality(findings) > 2

NeedsReconciliation(findings) == Cardinality(findings) > 1

RequestReconciliation(p) ==
  /\ pc[p] = "reconcile" /\ NeedsReconciliation(found[p]) /\ reconReport = Absent
  /\ reconRequest' = [runId |-> held[p].runId, items |-> found[p]]
  /\ UNCHANGED <<digestFile, manifest, plan, minerReport, reconReport, finalReport,
                 litter, history>>
  /\ Exit(p, "awaiting-reconciliation")

ToApply(p, groups) ==
  /\ ranked' = [ranked EXCEPT ![p] = groups]
  /\ Goto(p, "apply")
  /\ Unchanged
  /\ UNCHANGED <<fileVars, command, held, draft, heldPlan, todo, found, outcome>>

RankFew(p) ==
  /\ pc[p] = "reconcile" /\ ~NeedsReconciliation(found[p])
  /\ ToApply(p, {[key |-> ProposedKey[f], members |-> {f}] : f \in found[p]})

(* parse_report and validate_groups: every item of the request in exactly  *)
(* one group, no other item, no two groups of the same key.                *)
(* Mutant: missing items are not rejected.                                 *)
GroupsWithoutMissingCheck(report, request) ==
  /\ report # Garbage /\ report.runId = request.runId
  /\ \A g, h \in report.groups :
       g # h => g.key # h.key /\ g.members \cap h.members = {}
  /\ UNION {g.members : g \in report.groups} \subseteq request.items

(* Mutant: unknown items are not rejected.                                 *)
GroupsWithoutUnknownCheck(report, request) ==
  /\ report # Garbage /\ report.runId = request.runId
  /\ \A g, h \in report.groups :
       g # h => g.key # h.key /\ g.members \cap h.members = {}
  /\ request.items \subseteq UNION {g.members : g \in report.groups}

GroupsValid(report, request) ==
  /\ report # Garbage /\ report.runId = request.runId
  /\ \A g, h \in report.groups :
       g # h => g.key # h.key /\ g.members \cap h.members = {}
  /\ UNION {g.members : g \in report.groups} = request.items

(* The groups are validated against the persisted request, then looked up  *)
(* among the current findings: by_id[...] raises KeyError for a member that*)
(* is no longer reported; a group without members has no summary.          *)
RankGroups(p) ==
  /\ pc[p] = "reconcile" /\ NeedsReconciliation(found[p]) /\ reconReport # Absent
  /\ IF /\ reconRequest # Absent /\ reconRequest.runId = held[p].runId
        /\ GroupsValid(reconReport, reconRequest)
     THEN IF \E g \in reconReport.groups : ~(g.members \subseteq found[p])
          THEN Fail(p, "traceback")
          ELSE IF \E g \in reconReport.groups : g.members = {}
          THEN Fail(p, "error")
          ELSE ToApply(p, reconReport.groups)
     ELSE Fail(p, "error")

-----------------------------------------------------------------------------
(* The ranked candidates, the Apply checks and the final report.           *)
(* Two fields of the command stand for what is decided from files outside  *)
(* the run directory: the ledger parses; the previews build and do not     *)
(* overlap and the proofs hold.                                            *)

ApplyAllowed(c, groups) ==
  c.apply =>
    /\ c.approved \subseteq {g.key : g \in groups}
    /\ c.requests = c.approved
    /\ c.workspaces = c.approved
    /\ c.proofs \subseteq c.approved
    /\ c.previewsHold

StageOf(c) ==
  CASE c.apply /\ c.proofs # {} -> "apply-validated"
    [] c.apply /\ c.proofs = {} -> "apply-preview"
    [] OTHER -> "diagnosis-complete"

Finish(p) ==
  /\ pc[p] = "apply"
  /\ IF command[p].ledgerParses /\ ApplyAllowed(command[p], ranked[p])
     THEN /\ finalReport' = Report(p, StageOf(command[p]), ranked[p],
                                   command[p].approved, command[p].proofs)
          /\ basis' = found[p]
          /\ UNCHANGED <<digestFile, manifest, plan, minerReport, reconRequest,
                         reconReport, litter>>
          /\ Exit(p, StageOf(command[p]))
     ELSE Fail(p, "error")

(* An invocation is killed. Files are replaced atomically, so every file   *)
(* is whole; a write that was under way leaves its temporary file, which   *)
(* matters as long as the directory is otherwise empty.                    *)
Crash(p) ==
  /\ pc[p] # "idle" /\ crashes < MaxCrashes
  /\ litter' \in {litter, litter \/ pc[p] = "replace"
                             \/ (pc[p] = "write" /\ todo[p] = {})}
  /\ crashes' = crashes + 1
  /\ Forget(p, "crashed")
  /\ UNCHANGED <<source, edits, digestFile, manifest, plan, minerReport,
                 reconRequest, reconReport, finalReport, history>>

-----------------------------------------------------------------------------
(* The host and the world. A host that has no "rewrite" move replaces a    *)
(* file of its own only when the run would reject it.                      *)

Mined(b) ==
  /\ plan # Absent /\ b \in DOMAIN plan.batches
  /\ ReportValid(minerReport[b], plan.runId, plan.batches[b])

(* A miner's answer for a planned batch: findings of its own batch or of   *)
(* another, or no JSON at all.                                             *)
HostMines(b) ==
  /\ plan # Absent /\ b \in DOMAIN plan.batches
  /\ Mined(b) => "rewrite" \in HostMoves
  /\ \/ \E answer \in SUBSET Findings :
          minerReport' = [minerReport EXCEPT ![b] =
             [runId |-> plan.runId, paths |-> plan.batches[b], findings |-> answer]]
     \/ minerReport' = [minerReport EXCEPT ![b] = Garbage]
  /\ UNCHANGED <<source, digestFile, manifest, plan, reconRequest, reconReport,
                 finalReport, litter, procVars, edits, crashes, history, stale>>

(* A file in miner-reports/ that no batch prescribes, written or removed.  *)
HostStrays(b) ==
  /\ "stray" \in HostMoves
  /\ plan # Absent /\ b \notin DOMAIN plan.batches
  /\ minerReport' = [minerReport EXCEPT ![b] =
                       IF minerReport[b] = Absent THEN Garbage ELSE Absent]
  /\ UNCHANGED <<source, digestFile, manifest, plan, reconRequest, reconReport,
                 finalReport, litter, procVars, edits, crashes, history, stale>>

Reconciled ==
  /\ reconReport # Absent /\ reconRequest # Absent
  /\ GroupsValid(reconReport, reconRequest)
  /\ \A g \in reconReport.groups : g.members # {}

HostReconciles ==
  /\ plan # Absent
  /\ reconRequest # Absent \/ "early" \in HostMoves
  /\ Reconciled => "rewrite" \in HostMoves
  /\ \/ \E answer \in Groupings :
          reconReport' = [runId |-> plan.runId, groups |-> answer]
     \/ reconReport' = Garbage
  /\ UNCHANGED <<source, digestFile, manifest, plan, minerReport, reconRequest,
                 finalReport, litter, procVars, edits, crashes, history, stale>>

HostDiscardsReconciliation ==
  /\ "discard" \in HostMoves /\ reconReport # Absent
  /\ reconReport' = Absent
  /\ UNCHANGED <<source, digestFile, manifest, plan, minerReport, reconRequest,
                 finalReport, litter, procVars, edits, crashes, history, stale>>

(* The run directory cannot be continued: every invocation will fail.      *)
Stuck ==
  \/ manifest = Absent /\ ~OutDirEmpty
  \/ /\ manifest # Absent
     /\ \/ ~manifest.complete
        \/ manifest.seal = Absent
        \/ Differing(source, digestFile) # {}

(* The host gives up on such a directory and uses an empty one.            *)
StartOver ==
  /\ "startover" \in HostMoves
  /\ \A p \in Procs : pc[p] = "idle"
  /\ Stuck
  /\ digestFile' = NoFiles /\ manifest' = Absent /\ plan' = Absent
  /\ minerReport' = NoReports
  /\ reconRequest' = Absent /\ reconReport' = Absent /\ finalReport' = Absent
  /\ litter' = FALSE /\ basis' = {}
  /\ UNCHANGED <<source, procVars, edits, crashes, stale>>

(* A session is appended to, appears or disappears.                        *)
TranscriptChanges(s) ==
  /\ edits < MaxEdits
  /\ edits' = edits + 1
  /\ \E c \in (Contents \cup {Absent}) \ {source[s]} :
       source' = [source EXCEPT ![s] = c]
  /\ stale' = [p \in Procs |-> stale[p] \cap Differing(source', digestFile)]
  /\ UNCHANGED <<fileVars, procVars, crashes, history>>

(* A digest file is changed behind the run's back.                         *)
DigestChanges(s) ==
  /\ "tamper" \in HostMoves
  /\ edits < MaxEdits
  /\ edits' = edits + 1
  /\ digestFile[s] # Absent
  /\ \E c \in (Contents \cup {Absent}) \ {digestFile[s]} :
       digestFile' = [digestFile EXCEPT ![s] = c]
  /\ stale' = [p \in Procs |-> stale[p] \cap Differing(source, digestFile')]
  /\ UNCHANGED <<source, manifest, plan, minerReport, reconRequest, reconReport,
                 finalReport, litter, procVars, crashes, history>>

Invocation(p) ==
  \/ ResumeManifest(p) \/ ListSources(p) \/ ScanSource(p) \/ ScanDone(p)
  \/ CheckDigest(p) \/ WriteDigest(p) \/ WriteManifest(p)
  \/ ReadManifestBack(p) \/ HashDigest(p) \/ SealManifest(p)
  \/ CheckSessions(p) \/ RecheckSource(p) \/ RecheckDone(p)
  \/ LoadPlan(p) \/ ReportNothing(p) \/ BuildPlan(p) \/ WritePlan(p)
  \/ ValidatePlan(p)
  \/ ReadReport(p) \/ ReadsDone(p) \/ AwaitMiners(p)
  \/ RequestReconciliation(p) \/ RankFew(p) \/ RankGroups(p) \/ Finish(p)

Host ==
  \/ \E b \in BatchIds : HostMines(b) \/ HostStrays(b)
  \/ HostReconciles \/ HostDiscardsReconciliation \/ StartOver

World == \E s \in Sources : TranscriptChanges(s) \/ DigestChanges(s)

Next ==
  \/ \E p \in Procs : \E c \in Commands : Start(p, c)
  \/ \E p \in Procs : Invocation(p) \/ Crash(p)
  \/ Host
  \/ World

Spec == Init /\ [][Next]_vars

(* The fairness of a host that follows SKILL.md: an invocation that is not *)
(* killed runs to its end; the host reruns the command, gets an acceptable *)
(* answer from every miner and from the reconciler in the end, and, told   *)
(* again and again that a directory cannot be continued, uses another.     *)
HostAnswers(b) == HostMines(b) /\ Mined(b)'
HostGroups == HostReconciles /\ Reconciled'

Fairness ==
  /\ \A p \in Procs : /\ WF_vars(Invocation(p))
                       /\ WF_vars(\E c \in Commands : Start(p, c))
  /\ \A b \in BatchIds : WF_vars(HostAnswers(b))
  /\ WF_vars(HostGroups)
  /\ SF_vars(StartOver)

FairSpec == Spec /\ Fairness

-----------------------------------------------------------------------------
(* Types.                                                                  *)
Files == [Sources -> Contents \cup {Absent}]
Seal == [hashes : Files, scope : Scopes]
Manifest == [runId : RunIds, scope : Scopes, files : Files, complete : BOOLEAN,
             seal : Seal \cup {Absent}]
BatchMaps == UNION {[1 .. k -> SUBSET Sources] : k \in BatchIds}
PlanType(x) ==
  /\ x.runId \in RunIds /\ x.manifestHash \in Manifest /\ x.batches \in BatchMaps
MinerReport == [runId : RunIds, paths : SUBSET Sources, findings : SUBSET Findings]
ReconReport == [runId : RunIds, groups : SUBSET Group]
FinalReport ==
  [manifest : Manifest, groups : SUBSET Group,
   stage : {"diagnosis-complete", "apply-preview", "apply-validated"},
   approved : SUBSET ClusterKeys, proofs : SUBSET ClusterKeys]
ASSUME AbsentAssumption == Absent \notin Manifest \cup Seal \cup FinalReport
Labels == {"idle", "load", "scan", "write", "replace", "seal", "hash", "sessions",
           "recheck", "plan", "validate", "build", "dispatch", "reports", "missing",
           "reconcile", "apply"}

(* Every file and every invocation's memory holds a value of its kind.     *)
TypeOK ==
  /\ source \in Files /\ digestFile \in Files
  /\ manifest \in Manifest \cup {Absent}
  /\ plan # Absent => PlanType(plan)
  /\ minerReport \in [BatchIds -> MinerReport \cup {Absent, Garbage}]
  /\ reconRequest \in [runId : RunIds, items : SUBSET Findings] \cup {Absent}
  /\ reconReport \in ReconReport \cup {Absent, Garbage}
  /\ finalReport \in FinalReport \cup {Absent}
  /\ litter \in BOOLEAN
  /\ pc \in [Procs -> Labels]
  /\ command \in [Procs -> Commands \cup {Absent}]
  /\ held \in [Procs -> Manifest \cup {Absent}]
  /\ draft \in [Procs -> Manifest \cup {Absent}]
  /\ DOMAIN heldPlan = Procs
  /\ \A p \in Procs : heldPlan[p] # Absent => PlanType(heldPlan[p])
  /\ todo \in [Procs -> SUBSET Nat]
  /\ found \in [Procs -> SUBSET Findings]
  /\ ranked \in [Procs -> SUBSET Group]

(* The keys of a ranking are distinct and its clusters disjoint.           *)
WellGrouped(groups) ==
  \A g, h \in groups : g # h => g.key # h.key /\ g.members \cap h.members = {}

(* The final report speaks of evidence of a complete manifest: no finding  *)
(* is ranked twice, none is ranked that no accepted miner report holds,    *)
(* and each one cites a digest of the manifest the report carries ("A      *)
(* partial manifest or incomplete batch cannot be reported as complete",   *)
(* SKILL.md). It holds whatever the host writes, however invocations       *)
(* interleave and wherever they are killed.                                *)
ReportIsBacked ==
  finalReport # Absent =>
    /\ finalReport.manifest.complete
    /\ WellGrouped(finalReport.groups)
    /\ \A g \in finalReport.groups : g.members \subseteq basis
    /\ \A f \in basis : Evidence[f] \in DigestsOf(finalReport.manifest)

(* Past these points an invocation holds a manifest, a complete manifest,  *)
(* a validated plan.                                                       *)
Holding == Labels \ {"idle", "load"}
Complete == Holding \ {"scan", "write", "replace"}
Planned == {"reports", "missing", "reconcile", "apply"}

(* What an invocation knows: the manifest it works on is complete, the     *)
(* batches of its plan hold digests of that manifest, every finding it has *)
(* accepted cites one of these digests, and its clusters are made of       *)
(* accepted findings.                                                      *)
Knows(p) ==
  /\ pc[p] # "idle" => command[p] \in Commands
  /\ pc[p] \in Holding => held[p] \in Manifest
  /\ pc[p] \in Complete => held[p].complete
  /\ pc[p] = "hash" => draft[p] # Absent /\ draft[p].seal # Absent
  /\ pc[p] = "validate" => heldPlan[p] # Absent
  /\ pc[p] \in Planned =>
       /\ heldPlan[p] # Absent
       /\ \A b \in DOMAIN heldPlan[p].batches :
            heldPlan[p].batches[b] \subseteq DigestsOf(held[p])
       /\ \A f \in found[p] : Evidence[f] \in DigestsOf(held[p])
  /\ pc[p] \notin Planned => found[p] = {}
  /\ pc[p] = "reports" => todo[p] \subseteq DOMAIN heldPlan[p].batches
  /\ pc[p] = "apply" =>
       WellGrouped(ranked[p]) /\ \A g \in ranked[p] : g.members \subseteq found[p]

(* The inductive invariant behind ReportIsBacked: no other invocation, kill*)
(* or host takes from an invocation what it has established.               *)
IInv == TypeOK /\ ReportIsBacked /\ \A p \in Procs : Knows(p)

(* Dispatch, reconciliation and reporting only happen in an invocation     *)
(* that saw every transcript and digest in the state the manifest records: *)
(* an input that differed all along stops it (continuation validation,     *)
(* "a changed manifest, any changed digest size/hash ... fail closed").    *)
Working == {"plan", "validate", "build", "dispatch", "reports", "missing",
            "reconcile", "apply"}
StaleInputsStopTheRun == \A p \in Procs : pc[p] \in Working => stale[p] = {}

(* A persisted plan is always the plan of the persisted manifest, splits   *)
(* its digests among the miners and can be loaded back: a run is never     *)
(* rejected because of what an earlier invocation of it wrote, wherever    *)
(* that one was killed.                                                    *)
PlanFitsManifest ==
  plan # Absent =>
    /\ plan.manifestHash = manifest /\ plan.runId = manifest.runId
    /\ manifest.complete /\ manifest.seal # Absent
    /\ IsPartition(plan.batches, DigestsOf(manifest))
    /\ \A b \in DOMAIN plan.batches : plan.bytes[b] > 0

(* Every finding of an accepted miner report appears in the ranking, in    *)
(* exactly the clusters of the reconciler (REFERENCE.md:170-171, 261-271). *)
EveryFindingRanked ==
  finalReport # Absent => basis = UNION {g.members : g \in finalReport.groups}

(* Failures are reported: no invocation ends in an exception main() does   *)
(* not catch.                                                              *)
FailuresAreReported == \A p \in Procs : outcome[p] # "traceback"

(* Rerunning a finished run reproduces its ranking: the consent a human    *)
(* gave to a cluster of the diagnosis is still about that cluster when the *)
(* Apply invocation writes its report.                                     *)
RerunReproducesRanking ==
  [][finalReport # Absent /\ finalReport' # Absent =>
       finalReport'.groups = finalReport.groups]_finalReport

(* The run ends in a report: whatever the miners first answer, whenever a  *)
(* report arrives during an invocation, and although an invocation may be  *)
(* killed and a transcript may change under the run.                       *)
RunCompletes == <>(finalReport # Absent)

(* The sealed manifest of a run is never rewritten: what the miners were   *)
(* dispatched against stays what the report is validated against. It only  *)
(* goes away with the whole directory.                                     *)
SealedManifestStays ==
  [][(manifest # Absent /\ manifest.seal # Absent) =>
       (manifest' = manifest \/ OutDirEmpty')]_manifest

(* A dispatched plan is never replaced: what the miners were asked stays   *)
(* what their reports are read against. It only goes away with the whole   *)
(* directory.                                                              *)
DispatchedPlanStays == [][plan # Absent => StartOver]_plan

(* The run directory as the host sees it, and the promise that a run goes  *)
(* through its stages in order, skips reconciliation only for fewer than   *)
(* two findings, and never revises what it published.                      *)
Handoff == INSTANCE ReflectionHandoff WITH
  stage <- IF finalReport # Absent THEN "complete"
           ELSE IF reconRequest # Absent THEN "awaiting-reconciliation"
           ELSE IF plan # Absent THEN "awaiting-miners"
           ELSE IF manifest # Absent THEN "digested"
           ELSE "none",
  ranking <- IF finalReport # Absent THEN finalReport.groups ELSE {}

ImplementsHandoff == Handoff!Spec
=============================================================================
