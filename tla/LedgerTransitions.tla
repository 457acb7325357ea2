-------------------------- MODULE LedgerTransitions --------------------------
(***************************************************************************)
(* The status of a ledger entry and the two ways to move it                *)
(* (src/scripts/ledger.py): by the three checks of a verification, or by a *)
(* plain request.  An operator that stands for a function that may raise   *)
(* LedgerTransitionError returns Refused in that case.                     *)
(***************************************************************************)

Statuses == {"new", "fix-applied", "built-not-operating", "monitor", "wont-fix", "resolved"}

\* _REQUIRED_WIRED_CHECK: a fix exists, and with it a check and its artifacts.
Operating == {"fix-applied", "built-not-operating", "resolved"}

CheckStatuses == {"pass", "fail", "insufficient"}
Checks == [symptom: CheckStatuses, invocation: CheckStatuses, outcome: CheckStatuses]

Refused == "refused"

(* Mutant: a failed outcome does not count. *)
OperatingFailureButOutcome(v) ==
    v.symptom = "fail" \/ v.invocation # "pass"

(* A check that failed, or an invocation that nothing shows. *)
OperatingFailure(v) ==
    v.symptom = "fail" \/ v.invocation # "pass" \/ v.outcome = "fail"

ValidateTransition(current, v) ==
    IF "insufficient" \in {v.symptom, v.outcome} THEN Refused
    ELSE IF current \notin Operating THEN current
    ELSE IF OperatingFailure(v) THEN "built-not-operating"
    ELSE "resolved"

(***************************************************************************)
(* A caller hands over a verification, a status, or a LedgerEntry (status, *)
(* wired_check, artifact_ids).  A pair of a status and a verification      *)
(* counts as the verification.                                             *)
(***************************************************************************)
MayRequest(current, status) ==
    status # current => {current, status} \intersect Operating = {}

EntryAllowed(current, update) ==
    /\ MayRequest(current, update.status)
    /\ update.status \in Operating => update.artifacts # {}

StatusUpdate(current, update) ==
    CASE update.kind = "checks" -> ValidateTransition(current, update.checks)
      [] update.kind = "status" ->
            IF MayRequest(current, update.status) THEN update.status ELSE Refused
      [] update.kind = "entry" ->
            IF EntryAllowed(current, update) THEN update.status ELSE Refused
=============================================================================
