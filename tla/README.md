# Verification of reflect-setup

TLA+ models of reflect-setup (the Python tool under `src/scripts`), the TLC
runs that check them, and proofs that TLAPS checks. The models are written from
the code. The documents (`src/SKILL.md`, `src/REFERENCE.md`, `src/README.md`)
are used only to say what the code promises.

    tlc -workers 2 -config WriteOnce.cfg MCReflectionRun.tla     # one run
    tlapm InstallSkillProofs.tla                                 # one proof

`PROJECT.json` lists the components, the runs with their properties, a mutation
of the code for every property (each makes its property fail), the source lines
each definition stands for, the hazards and the theorems.

## 1. The system

reflect-setup reads the transcripts of coding sessions, has them mined for
recurring problems, ranks these, and helps to fix them. It is a command that is
run again and again on one output directory. Between two runs a *host* (the
agent that uses the skill) dispatches miners and a reconciler, puts their
reports into the directory, has fixes made, and keeps a ledger. Nothing stays
in memory from one run to the next. So the core is a state machine whose state
is a directory, and whose steps are processes that may be killed, may meet
files that have changed since they were read, and may find reports of any kind.

### Inventory

| component | source | state | operations | models |
|---|---|---|---|---|
| Staged run | `reflect_setup.py` | manifest, plan, reports and requests in the output directory | `run_reflection`, `main` | ReflectionRun, ReflectionHandoff |
| Digest | `digest.py` | a digest per transcript, manifest | `run_digest` | ReflectionRun (file by file), DigestScan (line by line, under sessions that write) |
| Dispatch batching | `reflect_setup.py` | the plan | `_build_dispatch_plan` | DispatchBatches, BatchAssignment, FindingsPipeline |
| Miner report contract | `miner_contract.py` | none | `parse_report`, `merge_reports` | MinerFindings, FindingsPipeline (as data), ReflectionRun (as files) |
| Reconciliation, host input | `reconciliation.py`, `workflow_contract.py` | none | parse and validate reports | ReflectionRun, FindingsPipeline (JSON field checks are left out) |
| Fix verification | `verification.py`, `coverage_model.py` | none | `verify_fix`, `_verify_ledger` | FixVerification, FixLifecycle |
| Ledger | `ledger.py` | a text file of entries | `update_ledger`, `validate_transition` | LedgerTransitions, LedgerFields, LedgerEntries, LedgerUpdate |
| Apply gate | `apply.py`, `reflect_setup.py` | none: previews are computed twice | `build_preview`, `check_scope_overlap`, `validate_proof` | ApplyGate |
| Installer | `runtime.py`, `install.py` | the skill root | `install_skill` | InstallSkill |
| Scoring | `scoring.py` | none | `compute_metrics`, `score_candidate`, `rank_candidates` | Scoring, FindingsPipeline |
| Evaluation, benchmark | `evaluate.py`, `benchmark_driver.py` | none | drive the run over fixtures | not modelled |
| Fix artifacts | `fixes/*.py` | files it writes | `fix.py`, `verify.py` | not modelled |

How they interact. An invocation of the staged run calls the digest, batching
and the contracts, and talks to the host only through files:
`manifest.json`, `dispatch-plan.json`, `miner-reports/*.json`,
`reconciliation-request.json`, `reconciliation-report.json`,
`reflection-report.json`. It ends after each stage; the exit tells the host what
is awaited. A diagnosis reads the ledger and verifies its applied fixes; the
host passes the verdicts on to `update_ledger`. With approvals, the run builds
Apply previews; with proofs, a later invocation judges them. The installer puts
the tool itself in place and shares nothing with the rest.

What is hard in it, and what makes each part right:

- *Staged run.* Kills between two file operations; inputs that change under a
  run or between two checks; reports that are early, left over, malformed, or
  replaced; two invocations at once. Right means: what is published is backed
  by a complete manifest and by findings that cite it; changed inputs stop the
  run; a host that plays by the rules gets its report in the end.
- *Digest.* Transcripts grow while they are read, and are listed and read by
  two pairs of functions. Right means: a manifest that says it is complete holds
  all of the bytes it hashed and nothing of a line half written; one that a
  continuation accepts numbers its lines rightly; none is refused for nothing.
- *Findings.* One observation may be claimed several times, cut and counted in
  several ways, by several miners. Right means: it counts once and arrives; what
  a candidate is scored by is what the manifest says; nobody's order decides.
- *Ledger.* Edits by line number while lines move; retries; kills. Right means:
  the file parses at all times, changes only where it should, counts nothing
  twice, and moves all its entries at once or none.
- *Fix verification.* Two functions with no common code, a verdict and a
  transition, decide about one entry. Right means: resolved only on evidence,
  regressed only for a cause, operating only because a person said so.
- *Apply gate.* What is approved and what is judged are computed at different
  times from different trees. Right means: validated changes are within what was
  approved, belong to one approval, and honest work passes.
- *Installer.* Reads a directory three times while it changes, and races for
  the target. Right means: what it vouches for existed at one moment, and it
  destroys nothing.

`PROJECT.json` lists every hazard at its line, with the properties that cover
it or the reason why none does.

## 2. The modules

### ReflectionRun

One process per invocation, one action per file operation, in the order of
`run_reflection`: `Start` (Apply inputs), `ResumeManifest` or `ListSources`,
`ScanSource`/`ScanDone`, `CheckDigest`/`WriteDigest`, `WriteManifest`,
`ReadManifestBack`, `HashDigest`, `SealManifest`, `CheckSessions`,
`RecheckSource`/`RecheckDone`, `LoadPlan`, `ReportNothing`, `BuildPlan`,
`WritePlan`, `ValidatePlan`, `ReadReport`/`ReadsDone`, `AwaitMiners`,
`RequestReconciliation`, `RankFew`, `RankGroups`, `Finish`; `Crash` at any
point. The variables `source ... litter` are the files, `pc ... outcome` the
memory of the invocations, which `Forget` clears. The host acts at any time
(`HostMines`, `HostStrays`, `HostReconciles`, `HostDiscardsReconciliation`,
`StartOver`), and so does the world (`TranscriptChanges`, `DigestChanges`).

- A transcript's content is a model value with a digest size, `Signals` or not,
  `Broken` or not. A hash is the value it is the hash of: no collisions.
- A check and the write it is for are two steps, between which other invocations
  run: a digest is looked for and then replaced, the manifest is read back,
  the digests are hashed one by one and the manifest is replaced, a plan is
  looked for, built and written.
- `ListSources` merges finding no manifest with the check that the directory is
  empty. The two look at the same directory without a write in between by the
  invocation itself.
- `HostMoves` names the liberties a host takes, so that a run can say which it
  allows: "stray" (a file in `miner-reports` that no batch
  prescribes), "rewrite" (a valid answer is
  replaced by another), "discard", "early" (a reconciliation report before its
  request), "tamper" (digests change), "startover" (an empty directory).
- History variables: `basis` (the findings behind the published report),
  `stale` (the inputs that have differed from the manifest ever since an
  invocation started).

`ReflectionHandoff` is the abstract promise: five stages and a ranking. The
refinement mapping (`ImplementsHandoff`) computes the stage from the files that
are there. `DispatchBatches` has the partition as a recursive function, which
ReflectionRun uses; `BatchAssignment` has it as the loop of the code. `Orders`
is what the models use for Python's `sorted`: the list in which the n-th
element has n-1 elements before it.

### DigestScan

The scan of `_scan_typed_source`, the only place where the tool reads what
others write at that moment, and the continuation's check of what it left. A
session writes its script, entry by entry, each in three pieces: two halves of
the text and the newline. `ReadLine` reads to the next newline *or to the end of
what is there*, as a Python file does, and numbers what it gets. So a text read
before its newline counts as a line, and the newline as another, blank one.
`Create`, `Write` and `Vanish` are the sessions; `List`, `Open`, `ReadLine`,
`Record`, `WriteManifest` the digest; `Load`, `Discover`, `CompareSessions`,
`CompareHash`, `CompareSource`, `Accept` and `Refuse` the check, which may be
made any number of times. A hash is the number of pieces read, because a
transcript only grows. What the miners and the reconciler do with the manifest
is left to ReflectionRun, which takes a transcript for one value.

The reference is `TrueIndex(p, n)`: the index of a transcript of `n` pieces at
rest, said without reading.

### MinerFindings, Scoring, FindingsPipeline

The data that goes through a run. `MinerFindings` is `_parse_finding` and
`merge_reports`, `Scoring` is `compute_metrics`, `score_candidate` and
`rank_candidates`, both as operators. `FindingsPipeline` extends
`BatchAssignment`: the loop assigns digests (`AssignDigest`), miners report what
is accepted of any few claims (`Mine`), the reports are merged or refused and
asked for again (`Merge`, `MineAgain`), grouped (`KeepAsItIs`, `Reconcile`) and
ranked with the bonus for failed fixes (`Rank`, or `RankFails` for a key without
letters and digits). The code sums a mean in floating point, in the order of the
members. Its result differs from the exact one only half-way between two
ten-thousandths, and there `RoundsDown`, a set of sequences of counts and values,
says which way it goes: the proofs hold for every such set, and the run takes one
that depends on the order and groups of sixteen observations, the smallest
number that has a half-way mean. A score is rounded exactly.

### FixVerification, LedgerTransitions, FixLifecycle

The first two are `verify_fix` with `_coverage_contribution`, and
`validate_transition` with `_status_update`, as operators. `FixLifecycle` is one
entry over any number of observation windows: what is observed is chosen, an
invocation diagnoses (without labelled evidence) or the host verifies (with its
own), and the ledger is updated with the verdict, a status, or an entry. The
verdict is kept from window to window until the host closes it, so an update may
come late and twice.

### LedgerFields, LedgerEntries, LedgerUpdate

`LedgerEntries` is the abstract ledger: a function from ids to fields that a
call changes in one step. `LedgerUpdate` is `update_ledger` on lines: parse,
edit one field per step by the line numbers of the parse, parse again, write a
temporary file, replace; killed anywhere. A line is a key, a typed value and
whether it ends in a newline. Quoting and mixed line ends are left out. Lines
that run into each other because a newline is missing are modelled (`Glued`).

### ApplyGate

A file tree, a host input, the previews a human has consented to, and fixers
that write, delete and link below their workspace. `Validate` is the second
invocation, which builds the previews again on the tree of that moment, for all
proofs or for those that are done. The host reports the paths that changed
honestly: the code has nothing to check that with. Workspace roots stay in
place.

### InstallSkill

`install_skill` entry by entry: first scan, check of the target, link, or stage,
copy, second scan, verification of each copied file and rename, by any number of
installers, while people edit the source and touch the target. A copy in place is
hashed path by path (`CheckTarget`, `Rehash`, `RehashDone`), and may change or be
replaced in between. Every change of the source has a time of its own (the code
compares size and nanosecond times).

An entry of the source may be a link to a directory, which the scan passes over,
or a link to a file, which is scanned and hashed as the file and copied as a link.
The links point to one file outside the source and the copy (`outside`, by an
absolute path), which is written at any time (`EditOutside`). A link appears in the
source together with a new version of that file; a link put back to a file
unchanged since would bring an old time with it, which two scans could not tell
from the one before.

## 3. What is checked

Every run finishes within five minutes with two workers.

| run | question | properties |
|---|---|---|
| `digest_scan` | What is read of transcripts that are being written, and does the check of it accept the right ones? | TypeOK, CompleteMeansWhole, AcceptedIndexIsTrue, RefusedForAReason |
| `findings_pipeline` | Is the plan a balanced partition, the same as the function, and does the ranking account for what the miners saw, whatever way the work was split? | PlanLoadsBack, Balanced, LoopComputesBatches, RankingAccountsForReports, MetricsAreOfTheManifest, RankingIgnoresGroupOrder, FailedFixRises |
| `write_once` | Does a run keep its promise to a host that never replaces a valid answer, with ten command lines, a changed transcript and a kill? | TypeOK, PlanFitsManifest, DispatchedPlanStays, RerunReproducesRanking, ImplementsHandoff |
| `careless_host` | What survives a host that rewrites, discards, tampers and starts over? | ReportIsBacked, StaleInputsStopTheRun, SealedManifestStays |
| `two_invocations` | What survives two invocations of one command line at once, with three findings, early and malformed groupings? | IInv, EveryFindingRanked, FailuresAreReported |
| `recovery` | Does a run end in a report? | RunCompletes |
| `fix_lifecycle` | Do verdict and transition agree with the evidence, over any number of windows? | TypeOK, ResolvedOnlyWhenOperating, RegressionHasCause, MovedAsRecommended |
| `ledger` | Do two calls, killed and repeated, change the text as the abstract ledger changes? | LedgerAlwaysParses, UntouchedLinesStay, RetryChangesNothing, ImplementsEntries |
| `apply_gate` | Are validated changes within one approval, and is good work accepted? | TypeOK, ChangesHaveOneOwner, ChangesUnderTargets, GoodProofsAccepted |
| `install` | What do two installers leave behind and what do they accept while the source and the target change? | TypeOK, OneSourceState, NeverOverwrites, SuccessMeansInstalled, ReinstallAccepted |
| `revised_miner_report` | *violation* of EveryFindingRanked | see section 5 |
| `ledger_out_of_order` | *violation* of UntouchedLinesStay | see section 5 |

What the properties say stands in a comment above each definition.

### Bounds, and why they are enough

- *ReflectionRun*: two transcripts, so that one may be broken, out of scope or
  without signals while the other goes on, and so that there are one or two
  batches; three findings in `two_invocations`, the fewest for a grouping that
  leaves out one of a group, or names one that is not reported. Groupings
  include the malformed ones: an item left out, assigned twice, an empty group,
  a key used twice. One change and one kill: each is looked for at every one of
  the steps of an invocation, and after it the run continues without bound.
  `two_invocations` has one command line, with one batch, and no change of an
  input: what two invocations do to each other with several command lines or a
  changing transcript is in section 5.
  Two run ids suffice for two invocations: an id is only taken while the
  directory is empty.
- *DigestScan*: two transcripts, one of two entries and one of one, so that a
  line can be torn, or numbered wrongly, with another after it, and one session
  write while the other's transcript is read. Eight pairs of scripts have
  between them an entry with and without signals, too early, undated, broken,
  and every kind of session metadata: none, unusable, of a user, of a subagent,
  and a second one after the first. Five scopes in both runtimes.
- *FindingsPipeline*: all sets of up to four digests of sizes 1 to 3 for up to
  three batches: ties, a digest that outweighs the others, and more batches
  than digests all occur. Two digests share a session, so that one cluster is
  reported from two batches; two claims overlap, two contradict each other, two
  cite one line for different things, and six are false, each in one respect.
  Up to two claims in a report, which makes up to four merged findings, in all
  groupings under two keys, one of them in the ledger.
- *FixLifecycle*: two references, so that "two different references" can fail;
  windows of one observation of every kind or two telling ones. The number of
  windows is not bounded.
- *LedgerUpdate*: three entries, of which two, with one between them, are
  touched; entries that lack fields and entries that have all; comments before,
  in and after entries; two calls, which may be equal. The updates include an
  entry with a blank wired check, which is only found out by the second parse.
  `ledger` touches entries in the order of the file, on ledgers that end in a
  newline or in a field that is replaced. Neither condition can be dropped:
  see divergences 2 and 5.
- *ApplyGate*: a root, a nested root with a file, and a file beside it, each
  absent, file, directory or link; two fixers; three changes.
- *InstallSkill*: two paths, one of them the manifest's; two contents, a link to
  a directory, one to a file, or nothing; two calls, by one or two installers.
  Two changes, of the source or of the file links point to, which is what it
  takes to change a file between the first scan and the copy and to change it
  back before the second scan. The source starts without a file of the
  manifest's name, which a change may make, and with a file or a link to a file.
  The target changes without bound.

`CHECK_DEADLOCK FALSE` is set where the bounds stop the system: the ranking
ends the pipeline, an incomplete manifest the scan; the ledger's calls and the gate's writes are used up.

### Fairness

Only `recovery` assumes any. An invocation that is not killed runs to its end
(WF: the process is sequential and waits for nobody). The host runs the command
again (WF: SKILL.md, steps 4 and 6, "rerun the same command") and gets an
acceptable answer from every miner and from the reconciler in the end (WF on
`HostAnswers`, `HostGroups`: the same steps ask for the prescribed reports; a
rejected one has to be replaced). It uses another directory when told again
and again that this one cannot be continued (SF, because each rerun disables it
for a while; SKILL.md, step 3, has every run begin "into a new scratch
directory"). Nothing else gets a run out of a directory that a kill has left
between the digests and the sealed manifest, or whose transcripts have changed.

## 4. What is proved

Each component with theorems has a module `<Component>Proofs`.
`DispatchBatchesProofs` has lemmas only: on the partition, and on induction,
sums and orders in general; `ReflectionRunProofs`, `FindingsPipelineProofs` and
`LedgerUpdateProofs` build on it. Theorems named Invariance state the inductive
invariant of their module.

| theorem | statement | under |
|---|---|---|
| ReflectionRunProofs!Invariance | `Spec => []IInv` | |
| ReflectionRunProofs!TypeCorrect | `Spec => []TypeOK` | |
| ReflectionRunProofs!ReportBacked | `Spec => []ReportIsBacked` | |
| ReflectionRunProofs!AllRanked | `Spec /\ DispatchedPlanStays => []EveryFindingRanked` | no "rewrite" |
| ReflectionRunProofs!NoTraceback | `Spec /\ DispatchedPlanStays => []FailuresAreReported` | no "rewrite" |
| ReflectionRunProofs!PlanStays | `Spec => DispatchedPlanStays` | Alone |
| ReflectionRunProofs!StaleInputsStop | `Spec => []StaleInputsStopTheRun` | Alone |
| ReflectionRunProofs!SealStays | `Spec => SealedManifestStays` | Alone |
| ReflectionRunProofs!PlanFits | `Spec => []PlanFitsManifest` | Alone |
| ReflectionRunProofs!RerunReproduces | `Spec => RerunReproducesRanking` | Alone, KeepsAnswers |
| ReflectionRunProofs!Implements | `Spec => ImplementsHandoff` | Alone, KeepsAnswers |
| LedgerUpdateProofs!AlwaysParses | `Spec => []LedgerAlwaysParses` | |
| LedgerUpdateProofs!LinesStay | `Spec => UntouchedLinesStay` | WholeLines, FileOrder |
| LedgerUpdateProofs!RetryStays | `Spec => RetryChangesNothing` | WholeLines, FileOrder |
| LedgerUpdateProofs!EntriesImplemented | `Spec => ImplementsEntries` | WholeLines, FileOrder |
| DigestScanProofs!CompleteIsWhole | `Spec => []CompleteMeansWhole` | |
| DigestScanProofs!AcceptedIsRight | `Spec => []AcceptedIndexIsTrue` | |
| DigestScanProofs!TypeCorrect | `Spec => []TypeOK` | |
| DigestScanProofs!RefusalHasReason | `Spec => []RefusedForAReason` | HaveProjects |
| FindingsPipelineProofs!LoadsBack | `Spec => []PlanLoadsBack` | |
| FindingsPipelineProofs!BatchesBalanced | `Spec => []Balanced` | |
| FindingsPipelineProofs!LoopComputes | `Spec => []LoopComputesBatches` | |
| FindingsPipelineProofs!AccountsForReports | `PipelineSpec => []RankingAccountsForReports` | |
| FindingsPipelineProofs!MetricsOfTheManifest | `PipelineSpec => []MetricsAreOfTheManifest` | |
| FindingsPipelineProofs!RisesWhenFixFailed | `PipelineSpec => []FailedFixRises` | |
| FindingsPipelineProofs!IgnoresGroupOrder | `PipelineSpec => []RankingIgnoresGroupOrder` | |
| FixLifecycleProofs!TypeCorrect | `Spec => []TypeOK` | |
| FixLifecycleProofs!OnlyByHand | `Spec => OperatingOnlyByHand` | |
| FixLifecycleProofs!ResolvedWithEvidence | `Spec => ResolvedOnlyWhenOperating` | |
| FixLifecycleProofs!FallsBackForCause | `Spec => RegressionHasCause` | |
| FixLifecycleProofs!AsRecommended | `Spec => MovedAsRecommended` | |
| InstallSkillProofs!TypeCorrect | `Spec => []TypeOK` | |
| InstallSkillProofs!TargetStays | `Spec => NeverOverwrites` | |
| InstallSkillProofs!VouchedTogether | `Spec => []OneSourceState` | |
| InstallSkillProofs!SuccessIsTrue | `Spec => SuccessMeansInstalled` | |
| InstallSkillProofs!ReinstallIsAccepted | `Spec => ReinstallAccepted` | |
| ApplyGateProofs!TypeCorrect | `Spec => []TypeOK` | |
| ApplyGateProofs!TargetsKept | `Spec => []ChangesUnderTargets` | |
| ApplyGateProofs!OneOwner | `Spec => []ChangesHaveOneOwner` | |
| ApplyGateProofs!HonestFixersPass | `Spec => []GoodProofsAccepted` | |

They hold for all values of the constants that satisfy the named assumptions:
finite sets of transcripts and findings, well-typed tables, initial ledgers
that parse, calls that list each of their entries once and bring finitely many
findings with them (`LedgerAssumption`), transcripts of finite length in some order, an initial source older
than any change, well-typed host inputs, paths that are sequences of names,
file trees in which what is not a directory has nothing below it
(`GateAssumption`), claims in the form the parser asks for before it looks at
the manifest, such as counts above 0 and a sureness of 0 to 10
(`ClaimsAssumption`), an index whose times are integers (`PipelineAssumption`),
and marks for "none" that are no values of another kind
(`AbsentAssumption`, the last conjunct of `ScanAssumption`). In particular they
hold for any number of invocations, installers, fixers, entries, changes and
kills: the bounds appear in the models as guards, with any natural number as
their value.

Where a theorem has a hypothesis of its own, it is needed:

- *No "rewrite"* (the host does not replace an accepted report by another one):
  without it `revised_miner_report` shows a finding that is lost.
- *DispatchedPlanStays* (no invocation replaces a plan that was dispatched), in
  AllRanked and NoTraceback: the code looks for a plan and writes one in
  different steps. PlanStays has this for invocations one after the other;
  for overlapping ones it is an assumption, and what happens without it is
  divergence 4.
- *Alone* (`Procs` has one element, in which invocations run one after the
  other, killed anywhere): the host of SKILL.md (steps 4 and 6) reruns the
  command when the last one has returned. Two invocations that overlap do break
  the sealed manifest, and the plan no longer fits it: divergences 3 and 4.
- *KeepsAnswers*: no "rewrite" and no "discard". A host that throws the groups away
  and has others made gets another ranking.
- *HaveProjects*: every transcript has a project. `codex_project` always finds a
  name; a Claude transcript has one unless it lies directly under the root,
  which is divergence 13.
- *WholeLines* (every line of the ledger ends in a newline): without it an
  inserted field may run into the last line, which is divergence 5. Where
  nothing is inserted there, the ledger may end without one; TLC checks this
  in `ledger`.
- *FileOrder* (calls name their entries in the order in which the file has
  them): without it `ledger_out_of_order` shows an edit that hits a line of
  another entry, which is divergence 2.

*ReportBacked.* `ReportIsBacked` speaks of a file that one step writes from the
memory of an invocation. It is not inductive: nothing in it says that the
clusters in memory come from accepted findings, or that these cite the
manifest. `IInv` adds `Knows(p)`: past given points of its program an invocation holds a
complete manifest, a plan whose batches are digests of that manifest, findings
that cite these, and clusters made of the findings. The point of the proof is
that `Knows` speaks only of memory: no host, world, kill or other invocation
can take it away, although each may change every file the invocation has read.
There is one lemma per action; `AdvanceInv`, `ExitInv`, `FailInv` and
`OutsideInv` are the shapes the actions have in common. TLC checks `IInv` in
`two_invocations`.

*AllRanked, NoTraceback.* What `Knows` leaves out is that nothing is missing.
`RankInv` adds `Accounts(p)`: what an invocation has found is exactly the findings of
the accepted reports of the batches it is done with, and the clusters it ranks
have exactly these members; and `RequestStands`: the request on disk is about
the findings of all accepted reports. These relate memory and files, so here
the other invocations do matter: none takes an accepted report back, and only
an empty directory gets a new plan. The latter is the hypothesis
DispatchedPlanStays, and all that is needed of the others: invocations may
overlap, and write digests, manifests and requests over each other.

*PlanStays.* An invocation that is about to write a plan found none, and
`AloneInv` keeps that there is none while no other runs.

*StaleInputsStop, SealStays.* For one invocation at a time, `AloneInv` says that
what it holds of the manifest is what is on disk (`Persisted`), that a plan or
a report rests on the sealed manifest it names (`Ordered`), and that an input
which has differed since the start still differs and has not been rechecked yet
(`Rechecks`). So the recheck comes across it before anything is ranked.

*PlanFits.* `PlanFitsManifest` relates two files, of which one is written twice.
`Ordered` has the plan name the sealed manifest and its run id. New is what
`Batches` makes of the digests: `BatchesPartition` (every digest in exactly one
batch) and `NoBatchIsEmpty`. The latter is the interesting one. `Lightest` never
gives a second digest to a batch while another is empty, since an empty batch is
the lightest and digests have a positive size; so with at most as many batches
as digests, each gets one. It rests on the cap in `BatchCount`, and on digest
files not being empty.

*LoadsBack, BatchesBalanced, LoopComputes.* `LoopInv` says that after *a* digests the
loop has the loads and batches that the function has after *a* steps, and that
the batches are balanced. `Balanced` alone is not inductive: that the digest just
given away is the lightest of its batch needs that the ones before were no
smaller, hence the order by size. `PipelinePlan` carries all three over to
`PipelineSpec`, since its steps are steps of the loop or leave the loop alone
(`PipelineLoop`).

*AccountsForReports, MetricsOfTheManifest, RisesWhenFixFailed, IgnoresGroupOrder.* None of
the four is a property of a step: each compares the final ranking with the
reports, the manifest, or another ranking. `PipelineInv` says what each stage was
computed from: the reports hold accepted claims, the findings are the merge of
the reports, the groups are a partition of the findings with every member listed
once and keys of their own, and the ranking is `RankingOf` of these. The four
theorems follow from this by what the operators compute.

- For AccountsForReports three sums are shown to be equal, one stage at a time:
  over what is observed and over the merged findings (`MergedAccounts`: the
  claims on one line of one cluster have one count, or the merge had refused
  them), over the findings and over the groups (`GroupsAccount`), over the groups
  and over the candidates (`CandidatesAccount`; candidates differ in their keys).
- For MetricsOfTheManifest, what a miner wrote as time or project was accepted only
  because it is that of the index (`AcceptedIsSound`), and merging and grouping
  add no evidence.
- For RisesWhenFixFailed, a failed fix adds to the score of its own candidate, or
  leaves it at the cap (`ScoreRises`). The place of a candidate is the number of
  those ahead of it (`PlaceIs`), and these become fewer (`FewerAhead`).
- For IgnoresGroupOrder, keys break all ties (`BeforeOrders`), and so as many are
  ahead of a candidate in any order of the groups (`SameNumberAhead`). That the
  order of the *members* of a group does not matter is false: divergence 17.

Sums and sorted lists are defined by recursion, and the induction theorems of
the library cannot be used here, because they take a predicate as a parameter.
`EveryNumber` and `Subsets` in DispatchBatchesProofs are the same inductions over a
*set* of good numbers, or of good subsets, both proved from the least element
of a set of naturals. From them follow the lemmas on sums (`SumWithout`,
`SumUnion`, `SumMoved`, `SumParts`) and on lists in order (`Places`, `Sorted`).

*RerunReproduces, Implements.* `Settled`: whoever ranks, and whoever has ranked,
used `Ranking`, a function of the accepted answers; and with `KeepsAnswers` no
step changes an answer that has been accepted (`AnswersStay`). The refinement follows action
by action: each step moves the stage of `ReflectionHandoff` as its actions do,
or leaves it, and the published ranking is the one the stage allows.

*AcceptedIsRight.* A scan of a transcript that is being written may number lines
too high, since a torn line counts twice. The invariant says that it never
numbers one too low, and that the scan of a continuation, which starts
when all hashed pieces are there, numbers the hashed lines rightly. Why the
comparison of the two then suffices: take the first line that the record
numbers wrongly. The second scan has it under its right number, so the record
gives that number to a line too, and this one comes earlier, since no number is too
low; but earlier lines are numbered rightly, a contradiction (`NumbersAreRight`,
by the least element of a set of naturals).

*RefusalHasReason.* The converse: a transcript that is as it was hashed, and
recorded rightly, is not refused. `ReasonInv` says that the two ways of listing
sessions (what the digest took for a session, and what the continuation
discovers) agree on such a transcript (`SameSessions`), and that the two scans
do (`SameAgain`). A reason to refuse does not go away: a transcript only grows
or vanishes, and the records stay.

*VouchedTogether.* `OneSourceState` asks for one past moment at which the source
held all installed files. The invariant gives each installer past its first
scan a *witness*: the source as it was when that scan ended. What the
scan recorded and the source still has, the witness has too, because a change
gives a file a time that no scan has seen; hence also what the second scan
sees again unchanged; and at the rename the second scan equals the first. Files that came and went unseen are
in the witness, or are not, without harm: this is why the property says the
witness *held* the files, not that it was equal to them.

*SuccessIsTrue.* The check of a copy in place takes as many steps as the copy has
paths, and meanwhile the copy may be edited, removed, or replaced by another
installation. `AuditOK` says, of a check that nothing has disturbed yet, that what
has been found is what the copy holds at the paths already passed, and that the
paths to come are the rest. When none are left, what was found is all of the copy.

*ReinstallIsAccepted.* `Pristine`: until somebody edits the source, every scan in
progress, finished scan, staging directory and untouched copy is as the source
is, at the paths passed so far. So a second scan makes the hashes of the first,
and a check finds what the scan lists: a link to a file reads as the file in both.

*CompleteIsWhole.* `CompleteMeansWhole` speaks of records; what makes them right
is a property of the scan in progress. As long as the scan has met no malformed
line, it stands between two lines or before a newline, its metadata is that of
the first usable `session_meta` of the entries it has passed (`MetaIs`, which
says so without the `CHOOSE` of the code's result), and its signals are those of
these entries, up to the numbers of their lines (`SignalsAre`). `LineKeepsTruth`
is the step: a line is blank, adds its entry, or is malformed. A session that
goes on writing takes nothing back, and the scripts are fixed.

*TargetsKept, OneOwner, HonestFixersPass.* The gate compares a proof with
previews it builds again, on a tree the fixers have changed since the human
looked. `Agreement` says what is left of the consent: cluster, root, targets,
dirty paths and commands are the same, only which targets are directories may
differ; no two previews overlap; fixers stay in their workspaces; validated ones
changed nothing outside targets. Two validated fixers with one path between
them would then have overlapping targets (`DisjointChanges`). That an honest
proof is accepted (`HonestProofsHold`) needs that the previews *can* be built
again: `Previewable`, together with a tree without links on the way.

*ResolvedWithEvidence, FallsBackForCause, AsRecommended.* The invariant ties a verdict to the
window: it was computed from the window that is open, with or without the labels
of the host, or it is older than the window and states nothing of the symptom,
and then no transition accepts it. The rest is about the two functions:
three passes imply what `ResolvedOnlyWhenOperating` asks for (`AllPass`), a
failure implies a cause (`Failure`), by lemmas that turn the records of the code
back into observations (`RecursShown`, `InvocationsShown`, `OutcomesShown`), and
a transition that is accepted is the one `RecommendedStatus` names
(`TransitionIsRecommended`).

*LinesStay, RetryStays, EntriesImplemented.* `update_ledger` makes its edits by
the line numbers of a parse that is out of date after the first insertion.
`UpdateInv` says why this is right.

- What an edit does is said once for both kinds (`Rewritten`: a line is replaced,
  or a line is inserted at the end of its entry): the lines above keep their
  numbers, the lines below move together. So the entries start in the same order, each
  with its lines, and the one that is edited has one field more or another value
  (`RewrittenKeeps`).
- `Editable` says of the edits still to be made that the block recorded for each is
  the one a parse *now* would find. It is kept because edits go from the last
  entry to the first (`AllEditsAre`, with FileOrder), so what is edited next lies above
  what moved. Edits of the same entry find their block because the code moves
  its recorded end along.
- `Becomes` says that every field of a named entry is what the abstract ledger
  makes of it, or has an edit waiting. The code decides on edits field by
  field, and leaves out those that would change nothing; the abstract ledger
  has one value for the entry. That both come to the same is `GoalReached`.
- For RetryStays, an entry that is where a call wants it needs no edit but those
  that write what is there (`GoalStays`): the status transition is idempotent
  (`StatusStays`), the sessions are all old, the dates within bounds. `Settled` keeps
  this of the last call that was written: crashes and refused calls do not
  touch the file, and another call that is written takes its place.

TLC found no violation of `UpdateInv` on the ledgers of `ledger` that satisfy
the hypotheses, before it was proved.

*AlwaysParses*: a temporary file exists only if it parses. *TargetStays* and
*OnlyByHand* need no invariant: each action keeps what is said. (No run checks
OperatingOnlyByHand, which is a matter of one guard.)

### Only model-checked

- `RunCompletes`: liveness under fairness.
- EveryFindingRanked and FailuresAreReported where overlapping invocations of one
  command line replace each other's plan (`two_invocations`).
- The ledger's three properties for a ledger without its last newline, into
  whose last entry nothing is inserted.

## 5. Known divergences

Runs that TLC finds violated, each a disagreement of code and documents:

1. `revised_miner_report`. The grouping is validated against the persisted
   reconciliation request only (`reflect_setup.py:1329`). A miner report that is
   replaced by a valid one with one more finding after the request was written
   loses that finding without an error.
2. `ledger_out_of_order`. `update_ledger` works through
   `reversed(list(updates))` (`ledger.py:573`), the reverse of the caller's
   order and not of the file's. With a later entry named first, an edit by line
   number overwrites a line of another entry.

Others that were met while modelling, for which no run is kept. The models
behave like the code in each case; the properties that are checked are the ones
that hold in spite of it.

3. `digest.py:435`: a digest is looked for before it is composed and written to
   a temporary file, and `os.replace` (412) replaces whatever is there. Two
   invocations that overlap on an empty directory pass that check both, and the
   later one replaces the digest of the other, by another one when the
   transcript has grown in between (the design document, lines 223-224: "an
   existing digest is never overwritten").
4. `reflect_setup.py:1205` and 1243: a plan is looked for and written in different
   steps, and the write replaces what is there. Overlapping invocations that
   start on one directory with different `--miner-batches`, or that have written
   manifests over each other (3), can replace a plan that miners have reported
   to, or leave one that does not fit the manifest. With PlanFitsManifest added
   to `two_invocations`, TLC finds it violated. Mostly later invocations are then
   stopped by the hash of the manifest or the paths of the reports. But a
   request made from the old plan's reports may also meet the reports of the new
   plan, and the look-up at line 1335 then raises a KeyError that main does not
   catch. SKILL.md (steps 4 and 6) runs one invocation after the other, for which
   PlanStays and PlanFits are proved.
5. `ledger.py:436`: a field inserted after a last line without a newline is
   joined to it: a comment swallows the field, a title takes it in (docstring at
   542: "Existing comments and unrelated fields remain byte-for-byte
   unchanged"). With such ledgers in `Files`, TLC finds UntouchedLinesStay
   violated.
6. `ledger.py:355`: a resolved entry whose symptom recurs while its outcome is
   unknown is refused, not regressed (REFERENCE.md:237: "A resolved entry
   regresses when its symptom recurs"). RegressionHasCause speaks of the
   regressions that are made.
7. `verification.py:212`: the contributions of two coverage records can overlap,
   and depend on the order of the records (docstring at 183: "This preserves
   disjoint evidence keys"). ResolvedOnlyWhenOperating demands two different
   references, which does hold.
8. `runtime.py:385`: a second copy-install is rejected when the source holds a
   link to a directory or a manifest of its own (README.md:39: "Reinstalling an
   identical managed copy is idempotent").
9. `reflect_setup.py:712`: the batch count may change between invocations if
   both values are at least the number of digests (SKILL.md:77: "fixed for the
   life of a run"). The plan is the same, so nothing follows from it.
10. `reflect_setup.py:1391`: directory targets are established again when a proof
   is judged, so a target that became a directory after the approval widens the
   scope (test_apply.py:63), and an approved directory that is gone makes an
   honest proof fail. ChangesUnderTargets and GoodProofsAccepted state what is
   left.
11. `reflect_setup.py:1130`: of two workspace bindings spelled the same the last
   one is used (REFERENCE.md:343: duplicates are "rejected instead of hidden by
   object-key replacement").
12. `reflect_setup.py:968`: the summary and rationale of a reconciled group are
    not used in the ranking (REFERENCE.md:265-268); the summary is the shortest
    paraphrase.
13. `digest.py:521`: a Claude transcript that lies directly under the root has
    the project "", and `_load_manifest` (`reflect_setup.py:371`) refuses an
    index entry without a project. A run with signals in such a transcript
    writes a manifest that is complete and can never be continued
    (REFERENCE.md: "A later invocation with the same run directory reuses its
    complete manifest"). With `Folder[a] = NoProject` TLC finds
    RefusedForAReason violated; the run keeps transcripts in project folders.
14. `scoring.py:214`: a group with two findings that cite one line (a complaint
    about it and a failure in it) counts the line twice and lists it once, with
    the kind of the member that comes first (REFERENCE.md:200: "overlapping
    reports count each evidence key once", :305: "so each score explains
    itself"). RankingAccountsForReports counts what is said of a line, not
    lines, and RankingIgnoresGroupOrder leaves the order of the members alone.
15. `reflect_setup.py:989-1015`: the ledger is verified against the keys that
    the miners proposed, while the regression bonus is looked up under the keys
    of the reconciler (REFERENCE.md:230: "current recurrence fails"). A
    recurrence that the reconciler gives the name of its ledger entry, the
    miners another, is not seen as one; the other way round it is seen, but the
    candidate gets no bonus. FailedFixRises speaks of the fixes that are seen to
    fail under the name of a candidate.
16. `reflect_setup.py:1352`: the one finding of a run whose proposed key has no
    letters or digits passes every check of the miner's report and then fails
    the run (`RankFails`); with two findings the reconciler renames it.
17. `scoring.py:126-130`: a mean is a floating-point sum in the order of a group's
    members, so the order may decide its fourth decimal. Before Python 3.12 (whose
    `sum` compensates) the members (count, confidence) (1, .1), (1, .2), (1, .3),
    (13, .1) have the mean 0.1188, and 0.1187 when .1 and .3 change places. The
    members come in the order of the reconciler's report, so two reports of the
    same groups may differ in a score. RankingIgnoresGroupOrder is about the order
    of the groups only.
18. `runtime.py:265` and 428: a link to a file is hashed as the file it points to
    and copied as a link. When that file changes, an installed copy that nobody
    has touched no longer reads as its manifest lists it; the next installation
    then rejects it. No property says that a copy holds what its manifest lists.
    The model's links are absolute; a relative one is copied as it is, and one that
    leads elsewhere from there fails the verification, since the staging directory
    lies beside the target.
19. `ledger.py:92` and 508: the ledger is read with universal newlines and written
    with `newline=""`, so one with CRLF line ends has LF afterwards, in every line
    (docstring at 542, as in 5). The models' lines have one kind of end.

What does not hold, and is not promised: with two invocations on one directory,
PlanFitsManifest, DispatchedPlanStays and SealedManifestStays fail (3, 4). Two
callers of `update_ledger` at once lose updates: it takes no lock.

## 6. What is not modelled

The recognition of signals in transcript lines (which texts are errors,
interrupts, or the user's), JSON field checks, wording, the rationale of a
score, the choice of a runtime and the reading of a commit in `runtime.py`:
pure functions of one text, whose results are inputs of the models. Evaluation
and benchmark drivers, which run the rest over fixtures and compare, and the
fixers under `fixes/`, which write fixed texts: they keep no state of their own
between steps. Floating point, but for the side a half-way mean is rounded to: a
score half-way between two ten-thousandths is rounded up.

## 7. Plan

Done, in this order: ReflectionRun with its abstraction and first proofs; the
verification of fixes and the ledger; the Apply gate; the installer; the scan
of live transcripts; the findings from batch to ranking.

Next, on the model:

1. A composition of FixLifecycle with LedgerUpdate: the verdict of one
   invocation, written by a caller that may be killed, read by the next.
2. Two callers of `update_ledger`, with what a lock would have to give.
3. A composition of FindingsPipeline with FixVerification: which names a
   recurrence has to have to be seen (divergence 15).

Next, to prove: a weaker hypothesis than WholeLines, that nothing is inserted
after a line without a newline; and the theorems of the compositions above.
Every safety property of the runs is proved; `RunCompletes` needs ENABLED, which
the prover does not have.
