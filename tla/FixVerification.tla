--------------------------- MODULE FixVerification ---------------------------
(***************************************************************************)
(* From what the host observed of an artifact to the verdict on a fix      *)
(* (src/scripts/coverage_model.py, src/scripts/verification.py).           *)
(*                                                                         *)
(* A reference is known by its evidence key (digest path, source line), so *)
(* that a set of references is a set of keys.  Labelled evidence is a set  *)
(* of pairs <<reference, label>>; which order it has decides nothing.  The *)
(* order of the coverage records does, and they stay a sequence.           *)
(***************************************************************************)
LOCAL INSTANCE Naturals
LOCAL INSTANCE Sequences

CONSTANTS
    Artifacts,  \* the artifact identifiers of the inventory
    Refs        \* evidence keys

Labels == {"symptom-absent", "symptom-recurred", "invoked", "outcome-pass", "outcome-fail"}

Observation == [artifact: Artifacts, declared: BOOLEAN, eligible: BOOLEAN,
                triggers: SUBSET Refs, preventions: SUBSET Refs, recurred: BOOLEAN]

(* Mutant: an unknown outcome counts as a recurrence. *)
AssessCoverageBlackOrWhite(o) ==
    [artifact |-> o.artifact, declared |-> o.declared, eligible |-> o.eligible,
     triggers |-> o.triggers, preventions |-> o.preventions,
     triggered |-> o.triggers # {},
     prevented |-> IF /\ o.triggers # {} /\ o.preventions # {} /\ ~ o.recurred
                      /\ o.triggers \intersect o.preventions = {} THEN "yes"
                   ELSE "no"]

(***************************************************************************)
(* assess_coverage.  prevented is None in the code when the outcome is not *)
(* known: "unknown" here.                                                  *)
(***************************************************************************)
AssessCoverage(o) ==
    [artifact |-> o.artifact, declared |-> o.declared, eligible |-> o.eligible,
     triggers |-> o.triggers, preventions |-> o.preventions,
     triggered |-> o.triggers # {},
     prevented |-> IF o.recurred THEN "no"
                   ELSE IF /\ o.triggers # {} /\ o.preventions # {}
                           /\ o.triggers \intersect o.preventions = {} THEN "yes"
                   ELSE "unknown"]

-----------------------------------------------------------------------------
(* The evidence a run of the coverage records contributes.                 *)

LabelsOf(evidence) == {e[2] : e \in evidence}
KeysOf(evidence) == {e[1] : e \in evidence}

Counted(records, targets) ==
    {i \in DOMAIN records :
        records[i].artifact \in targets /\ records[i].declared /\ records[i].eligible}

Recurs(records, targets) ==
    \E i \in Counted(records, targets) : records[i].prevented = "no"

Invocations(records, targets, upTo) ==
    UNION {records[i].triggers : i \in {j \in Counted(records, targets) : j <= upTo}}

CoverageInvocation(records, targets) ==
    {<<ref, "invoked">> : ref \in Invocations(records, targets, Len(records))}

(***************************************************************************)
(* A prevention reference counts unless it is an invocation reference by   *)
(* the time its record is read: explicit evidence, or, without any, the    *)
(* triggers of this record and of the records before it.                   *)
(***************************************************************************)
InvocationsKnownAt(records, targets, invocation, i) ==
    IF invocation = {} THEN Invocations(records, targets, i) ELSE KeysOf(invocation)

CoverageOutcome(records, targets, invocation) ==
    UNION {LET r == records[i]
           IN  {<<ref, IF r.prevented = "yes" THEN "outcome-pass" ELSE "outcome-fail">> :
                   ref \in r.preventions
                             \ InvocationsKnownAt(records, targets, invocation, i)} :
           i \in {j \in Counted(records, targets) :
                      records[j].triggered /\ records[j].prevented # "unknown"}}

-----------------------------------------------------------------------------
(* The three checks.                                                       *)

SymptomStatus(evidence, recurs) ==
    IF recurs \/ "symptom-recurred" \in LabelsOf(evidence) THEN "fail"
    ELSE IF "symptom-absent" \in LabelsOf(evidence) THEN "pass"
    ELSE "insufficient"

InvocationStatus(evidence) ==
    IF LabelsOf(evidence) \intersect {"outcome-fail", "symptom-recurred"} # {} THEN "fail"
    ELSE IF "invoked" \in LabelsOf(evidence) THEN "pass"
    ELSE "insufficient"

(* Mutant: a reference may prove both the invocation and the outcome. *)
OutcomeStatusOfAny(evidence, invocation) ==
    IF "outcome-fail" \in LabelsOf(evidence) THEN "fail"
    ELSE IF "outcome-pass" \in LabelsOf(evidence) THEN "pass"
    ELSE "insufficient"

OutcomeStatus(evidence, invocation) ==
    IF KeysOf(evidence) \intersect KeysOf(invocation) # {} THEN "insufficient"
    ELSE IF "outcome-fail" \in LabelsOf(evidence) THEN "fail"
    ELSE IF "outcome-pass" \in LabelsOf(evidence) THEN "pass"
    ELSE "insufficient"

Overall(checks) ==
    LET all == {checks.symptom, checks.invocation, checks.outcome}
    IN  IF "fail" \in all THEN "fail" ELSE IF "insufficient" \in all THEN "insufficient" ELSE "pass"

RecommendedStatus(checks) ==
    CASE Overall(checks) = "pass" -> "resolved"
      [] Overall(checks) = "fail" -> "built-not-operating"
      [] Overall(checks) = "insufficient" -> "fix-applied"

(***************************************************************************)
(* verify_fix.  evidence is what the host labelled itself for each check,  *)
(* found the references of the findings in the entry's cluster.            *)
(***************************************************************************)
AllInvocation(evidence, records, targets) ==
    IF evidence.invocation # {} THEN evidence.invocation
                                ELSE CoverageInvocation(records, targets)

AllOutcome(evidence, records, targets) ==
    IF evidence.outcome # {} THEN evidence.outcome
                             ELSE CoverageOutcome(records, targets, evidence.invocation)

VerifyFix(targets, evidence, found, records) ==
    LET invocation == AllInvocation(evidence, records, targets)
        outcome == AllOutcome(evidence, records, targets)
        symptom == evidence.symptom \cup {<<ref, "symptom-recurred">> : ref \in found}
    IN  [symptom |-> SymptomStatus(symptom, Recurs(records, targets)),
         invocation |-> InvocationStatus(invocation),
         outcome |-> OutcomeStatus(outcome, invocation)]
=============================================================================
