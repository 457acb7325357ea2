-------------------------- MODULE FindingsPipeline --------------------------
(***************************************************************************)
(* From the digests to the ranking, as data: the digests are assigned to   *)
(* batches, every miner reports what it found in its batch, the reports    *)
(* are merged, the reconciler groups the merged findings, and the groups   *)
(* are scored and ranked, with a bonus for a fix that is seen to fail.     *)
(* The files this goes through, and what happens to them in between, are   *)
(* in ReflectionRun, which takes merged findings and their groups as       *)
(* given; here they are made.                                              *)
(***************************************************************************)
EXTENDS BatchAssignment, MinerFindings, Scoring, SequencesExt

CONSTANTS
    Claims,     \* what a miner may come to claim
    MaxClaims,  \* bound: claims in a report
    Slugs,      \* the cluster keys the reconciler may use
    ClusterId,  \* _cluster_id: of a cluster key, or NoId
    NoId,       \* of a key without letters and digits
    Ledger,     \* the ids of the ledger's entries with an applied fix
    Missing     \* no report

ASSUME PipelineAssumption ==
    /\ \A line \in DOMAIN Index : line \in DOMAIN Time /\ Time[line] \in Int
    /\ Slugs \subseteq DOMAIN ClusterId /\ Slugs \subseteq Int
    /\ \A key \in Slugs : ClusterId[key] # NoId

(* The form of a claim, which _parse_finding and _parse_evidence ask for   *)
(* before they look at the manifest.                                       *)
ASSUME ClaimsAssumption ==
    \A f \in Claims :
        /\ Key[f.spelling] \in Int /\ f.sure \in 0 .. 10
        /\ f.type \in {"failure", "complaint", "correction", "friction"}
        /\ IsFiniteSet(f.evidence)
        /\ \A e \in f.evidence :
              /\ e.count \in Nat \ {0}
              /\ e = [line |-> e.line, count |-> e.count, time |-> e.time,
                      project |-> e.project]

VARIABLES
    reports,    \* of the batches: sets of claims, or Missing
    stage,      \* "mine", "merged", "grouped", "ranked"; "refused", "failed"
    findings,   \* the merged findings
    grouped,    \* the groups, in the order of the reconciliation report
    failing,    \* the ledger entries whose fix is verified to fail
    ranked      \* the candidates in their order

pipeline == <<reports, stage, findings, grouped, failing, ranked>>
plan == <<size, count, sized, loads, batches>>

PipelineInit ==
    /\ Init
    /\ reports = [b \in 1 .. BatchCount(Digests, count) |-> Missing]
    /\ stage = "mine"
    /\ findings = {} /\ grouped = <<>> /\ failing = {} /\ ranked = <<>>

AssignDigest == Assign /\ UNCHANGED pipeline

(* A miner hands in a report that parse_report accepts.                    *)
Mine(b) ==
    /\ Planned /\ stage = "mine" /\ reports[b] = Missing
    /\ \E claimed \in SUBSET {f \in Claims : Accepts(f, batches[b])} :
          /\ IsFiniteSet(claimed) /\ Cardinality(claimed) <= MaxClaims
          /\ reports' = [reports EXCEPT ![b] = claimed]
    /\ UNCHANGED <<plan, stage, findings, grouped, failing, ranked>>

Reported == UNION {reports[b] : b \in DOMAIN reports}

(* merge_reports *)
Merge ==
    /\ stage = "mine" /\ \A b \in DOMAIN reports : reports[b] # Missing
    /\ IF Mergeable(Reported)
       THEN stage' = "merged" /\ findings' = Merged(Reported)
       ELSE stage' = "refused" /\ UNCHANGED findings
    /\ UNCHANGED <<plan, reports, grouped, failing, ranked>>

(* After a refusal a miner is asked again.                                 *)
MineAgain(b) ==
    /\ stage = "refused"
    /\ stage' = "mine" /\ reports' = [reports EXCEPT ![b] = Missing]
    /\ UNCHANGED <<plan, findings, grouped, failing, ranked>>

(* The groups of a reconciliation report, of the findings keyed by it:     *)
(* see validate_groups.                                                    *)
GroupsOf(keyed) ==
    LET used == {keyed[f] : f \in findings}
        keys == InOrder(used, {p \in used \X used : p[1] < p[2]})
    IN  [i \in DOMAIN keys |->
            [key |-> keys[i],
             members |-> SetToSeq({f \in findings : keyed[f] = keys[i]})]]

(* No more than one finding needs no reconciler.                           *)
KeepAsItIs ==
    /\ stage = "merged" /\ Cardinality(findings) <= 1
    /\ stage' = "grouped"
    /\ grouped' = SetToSeq({[key |-> f.key, members |-> <<f>>] : f \in findings})
    /\ UNCHANGED <<plan, reports, findings, failing, ranked>>

Reconcile ==
    /\ stage = "merged" /\ Cardinality(findings) > 1
    /\ stage' = "grouped"
    /\ \E keyed \in [findings -> Slugs] : grouped' = GroupsOf(keyed)
    /\ UNCHANGED <<plan, reports, findings, failing, ranked>>

(* _verify_ledger: a fix fails when a miner proposes its cluster again, or *)
(* when the coverage records say so (see FixVerification).                 *)
Recurring == {id \in Ledger : \E f \in findings : ClusterId[f.key] = id}

(* regression_counts.get(_cluster_id(cluster_key), 0) *)
Regressions(key, failed) == IF ClusterId[key] \in failed THEN 1 ELSE 0

(* _rank_grouped, for groups in a given order. *)
RankingOf(groups, failed) ==
    Ranked([i \in DOMAIN groups |-> Candidate(groups[i], Regressions(groups[i].key, failed))])

(* _candidate_map wants an id for every candidate. *)
HaveIds == \A i \in DOMAIN grouped : ClusterId[grouped[i].key] # NoId

Rank ==
    /\ stage = "grouped" /\ HaveIds
    /\ stage' = "ranked"
    /\ \E covered \in SUBSET Ledger : failing' = Recurring \cup covered
    /\ ranked' = RankingOf(grouped, failing')
    /\ UNCHANGED <<plan, reports, findings, grouped>>

RankFails ==
    /\ stage = "grouped" /\ ~ HaveIds
    /\ stage' = "failed"
    /\ UNCHANGED <<plan, reports, findings, grouped, failing, ranked>>

PipelineNext ==
    \/ AssignDigest
    \/ \E b \in DOMAIN reports : Mine(b) \/ MineAgain(b)
    \/ Merge \/ KeepAsItIs \/ Reconcile \/ Rank \/ RankFails

PipelineSpec == PipelineInit /\ [][PipelineNext]_<<vars, pipeline>>

-----------------------------------------------------------------------------
Candidates == {ranked[i] : i \in DOMAIN ranked}

LinesOf(candidate) == {e.line : e \in candidate.evidence}

(* Everything said in a report, once.                                      *)
Observations ==
    UNION {{[cluster |-> Cluster(f), line |-> e.line, count |-> e.count] :
               e \in f.evidence} : f \in Reported}

(***************************************************************************)
(* Whatever way the digests are spread over the miners, and however these  *)
(* cut what they saw into findings, nothing of it is lost or counted       *)
(* twice on its way to the ranking: the occurrences of all candidates are  *)
(* the observations of all reports, each counted once, and the candidates  *)
(* cite the lines the reports cite.  ("Overlapping reports count each      *)
(* evidence key once.")                                                    *)
(***************************************************************************)
RankingAccountsForReports ==
    stage = "ranked" =>
        /\ SumFunction([c \in Candidates |-> c.metrics.occurrences])
              = SumFunction([o \in Observations |-> o.count])
        /\ UNION {LinesOf(c) : c \in Candidates} = {o.line : o \in Observations}

(***************************************************************************)
(* The sessions, projects, days and dates of a candidate are those of the  *)
(* manifest's index at the lines the candidate cites, although they were   *)
(* taken from what miners wrote.  ("Invented metadata [...] and            *)
(* mixed-session findings fail closed.")                                   *)
(***************************************************************************)
MetricsAreOfTheManifest ==
    \A c \in Candidates :
        LET digests == {Digest(line) : line \in LinesOf(c)}
            times == {Time[line] : line \in LinesOf(c)}
        IN  /\ c.metrics.sessions = Cardinality({Session[d] : d \in digests})
            /\ c.metrics.projects = Cardinality({Project[d] : d \in digests})
            /\ c.metrics.days = Cardinality({t \div 24 : t \in times})
            /\ c.metrics.firstSeen = Min(times) /\ c.metrics.lastSeen = Max(times)

Reorderings(seq) == {[i \in DOMAIN seq |-> seq[p[i]]] : p \in Bijection(DOMAIN seq, DOMAIN seq)}

(***************************************************************************)
(* The order in which the reconciler lists the groups decides neither rank *)
(* nor score, on equal scores neither: the human sees the same list for    *)
(* the same groups.  (The order of the members of a group may decide a     *)
(* score: see WeightedMean.)                                               *)
(***************************************************************************)
RankingIgnoresGroupOrder ==
    stage = "ranked" =>
        \A groups \in Reorderings(grouped) : RankingOf(groups, failing) = ranked

Place(key, ranking) == CHOOSE i \in DOMAIN ranking : ranking[i].key = key

(***************************************************************************)
(* A fix that is seen to fail brings its problem no further down the list  *)
(* than it would be without the fix, whatever else fails.  ("A fix that    *)
(* failed in real use rises rather than falls.")                           *)
(***************************************************************************)
FailedFixRises ==
    stage = "ranked" =>
        \A c \in Candidates :
            Place(c.key, ranked)
                <= Place(c.key, RankingOf(grouped, failing \ {ClusterId[c.key]}))
=============================================================================
