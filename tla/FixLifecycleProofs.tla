------------------------- MODULE FixLifecycleProofs -------------------------
(***************************************************************************)
(* How a ledger entry comes to be operating, is resolved, and falls back,  *)
(* for all observations and all evidence.                                  *)
(***************************************************************************)
EXTENDS FixLifecycle, TLAPS

(* A verdict does not make an entry operating that was not. *)
LEMMA VerdictKeepsOutside ==
    ASSUME NEW current, current \notin Operating, NEW v
    PROVE  ValidateTransition(current, v) \notin Operating
  BY DEF ValidateTransition, Operating, Refused

(* No update does: a request may not name an operating status. *)
LEMMA UpdateKeepsOutside ==
    ASSUME NEW current, current \notin Operating, NEW update,
           update.kind \in {"checks", "status", "entry"}
    PROVE  StatusUpdate(current, update) \notin Operating
  <1>1. CASE update.kind = "checks"
    BY <1>1, VerdictKeepsOutside DEF StatusUpdate
  <1>2. CASE update.kind = "status"
    BY <1>2 DEF StatusUpdate, MayRequest, Operating, Refused
  <1>3. CASE update.kind = "entry"
    BY <1>3 DEF StatusUpdate, EntryAllowed, MayRequest, Operating, Refused
  <1> QED
    BY <1>1, <1>2, <1>3

(* update_ledger with such an update. *)
LEMMA UpdateLedgerKeepsOutside ==
    ASSUME status \notin Operating, NEW update,
           update.kind \in {"checks", "status", "entry"}, UpdateLedger(update)
    PROVE  status' \notin Operating
  BY UpdateKeepsOutside DEF UpdateLedger

(***************************************************************************)
(* No update of the ledger makes an entry operating that was not, whatever *)
(* the windows show and whatever is asked for (_status_update: "operating- *)
(* state updates require explicit verification").                          *)
(***************************************************************************)
THEOREM OnlyByHand == Spec => OperatingOnlyByHand
  <1>1. ASSUME [Next]_vars, status \notin Operating, status' \in Operating
        PROVE  ApplyFix
    <2>1. CASE UpdateWithVerdict
      BY <1>1, <2>1, UpdateLedgerKeepsOutside DEF UpdateWithVerdict
    <2>2. CASE UpdateOnRequest
      BY <1>1, <2>2, UpdateLedgerKeepsOutside DEF UpdateOnRequest
    <2>3. CASE Observe \/ CloseWindow \/ Diagnose \/ HostVerifies
      BY <1>1, <2>3 DEF Observe, CloseWindow, Diagnose, HostVerifies
    <2>4. CASE UNCHANGED vars
      BY <1>1, <2>4 DEF vars
    <2> QED
      BY <1>1, <2>1, <2>2, <2>3, <2>4 DEF Next
  <1>2. [Next]_vars => [status \notin Operating /\ status' \in Operating => ApplyFix]_vars
    BY <1>1
  <1> QED
    BY <1>2, PTL DEF Spec, OperatingOnlyByHand

-----------------------------------------------------------------------------
(* What a verdict says of the window it was computed from. *)

(* The verdict is of this window, or of none and then without a statement. *)
IInv ==
    /\ window.observations \in Seq(Observation)
    /\ window.evidence \in [symptom: Evidence, invocation: Evidence, outcome: Evidence]
    /\ verdict # None =>
          \/ verdict = Verify(window, NoEvidence)
          \/ verdict = Verify(window, window.evidence)
          \/ verdict.symptom = "insufficient"

LEMMA CountedIsShown ==
    ASSUME window.observations \in Seq(Observation),
           NEW i \in Counted(Records(window), Targets)
    PROVE  /\ window.observations[i] \in Shown
           /\ window.observations[i] \in Observation
           /\ Records(window)[i] = AssessCoverage(window.observations[i])
  BY DEF Counted, Records, AssessCoverage, Shown

LEMMA ShownIsCounted ==
    ASSUME window.observations \in Seq(Observation), NEW o \in Shown
    PROVE  \E i \in Counted(Records(window), Targets) :
              o = window.observations[i] /\ Records(window)[i] = AssessCoverage(o)
  BY DEF Counted, Records, AssessCoverage, Shown

(* A recurrence among the records is one of the observations. *)
LEMMA RecursShown ==
    ASSUME window.observations \in Seq(Observation)
    PROVE  Recurs(Records(window), Targets) <=> \E o \in Shown : o.recurred
  <1>1. \A o \in Observation : AssessCoverage(o).prevented = "no" <=> o.recurred
    BY DEF AssessCoverage, Observation
  <1>2. ASSUME NEW i \in Counted(Records(window), Targets), Records(window)[i].prevented = "no"
        PROVE  \E o \in Shown : o.recurred
    BY <1>1, <1>2, CountedIsShown
  <1>3. ASSUME NEW o \in Shown, o.recurred
        PROVE  Recurs(Records(window), Targets)
    <2>1. PICK i \in Counted(Records(window), Targets) :
             o = window.observations[i] /\ Records(window)[i] = AssessCoverage(o)
      BY ShownIsCounted
    <2>2. o \in Observation
      BY <2>1, CountedIsShown
    <2> QED
      BY <1>1, <1>3, <2>1, <2>2 DEF Recurs
  <1> QED
    BY <1>2, <1>3 DEF Recurs

(* The invocations of the records are those of the observations. *)
LEMMA InvocationsShown ==
    ASSUME window.observations \in Seq(Observation)
    PROVE  /\ \A e \in CoverageInvocation(Records(window), Targets) :
                 e[2] = "invoked" /\ e[1] \in Refs /\ \E o \in Shown : e[1] \in o.triggers
           /\ \A o \in Shown : \A ref \in o.triggers :
                 <<ref, "invoked">> \in CoverageInvocation(Records(window), Targets)
  <1> DEFINE records == Records(window)
  <1>1. \A o \in Observation : AssessCoverage(o).triggers = o.triggers /\ o.triggers \subseteq Refs
    BY DEF AssessCoverage, Observation
  <1>2. \A i \in Counted(records, Targets) : i \in Nat /\ i <= Len(records)
    BY DEF Counted, Records
  <1>3. ASSUME NEW e \in CoverageInvocation(records, Targets)
        PROVE  e[2] = "invoked" /\ e[1] \in Refs /\ \E o \in Shown : e[1] \in o.triggers
    <2>1. PICK i \in Counted(records, Targets) : e[1] \in records[i].triggers /\ e[2] = "invoked"
      BY DEF CoverageInvocation, Invocations
    <2> QED
      BY <1>1, <2>1, CountedIsShown
  <1>4. ASSUME NEW o \in Shown, NEW ref \in o.triggers
        PROVE  <<ref, "invoked">> \in CoverageInvocation(records, Targets)
    <2>1. PICK i \in Counted(records, Targets) :
             o = window.observations[i] /\ records[i] = AssessCoverage(o)
      BY ShownIsCounted
    <2>2. ref \in records[i].triggers
      BY <1>1, <2>1, CountedIsShown
    <2> QED
      BY <1>2, <2>1, <2>2 DEF CoverageInvocation, Invocations
  <1> QED
    BY <1>3, <1>4

(* An outcome among the records is one of the observations. *)
LEMMA OutcomesShown ==
    ASSUME window.observations \in Seq(Observation), NEW invocation,
           NEW e \in CoverageOutcome(Records(window), Targets, invocation)
    PROVE  /\ e[1] \in Refs /\ e[2] \in {"outcome-pass", "outcome-fail"}
           /\ e[2] = "outcome-pass" => SuccessSeen(e[1])
           /\ e[2] = "outcome-fail" => \E o \in Shown : o.recurred
  <1> DEFINE records == Records(window)
  <1>1. PICK i \in Counted(records, Targets) :
           /\ records[i].triggered /\ records[i].prevented # "unknown"
           /\ e[1] \in records[i].preventions
           /\ e[2] = IF records[i].prevented = "yes" THEN "outcome-pass" ELSE "outcome-fail"
    BY DEF CoverageOutcome
  <1>2. PICK o \in Shown : o \in Observation /\ records[i] = AssessCoverage(o)
    BY <1>1, CountedIsShown
  <1>3. /\ o.preventions \subseteq Refs /\ e[1] \in o.preventions
        /\ records[i].prevented = "yes" => ~ o.recurred /\ e[1] \notin o.triggers
        /\ records[i].prevented \in {"yes", "no", "unknown"}
        /\ records[i].prevented = "no" => o.recurred
    BY <1>1, <1>2 DEF AssessCoverage, Observation
  <1> QED
    BY <1>1, <1>2, <1>3 DEF SuccessSeen

-----------------------------------------------------------------------------
(* The invariant. *)

LEMMA VerdictOfNothing ==
    ASSUME window = Unobserved
    PROVE  Verify(window, NoEvidence).symptom = "insufficient"
  BY DEF Unobserved, NoEvidence, Verify, VerifyFix, SymptomStatus, LabelsOf, Recurs, Counted, Records

LEMMA InitIInv == Init => IInv
  BY LifecycleAssumption DEF Init, IInv, Unobserved, NoEvidence, Evidence

LEMMA NextIInv == IInv /\ [Next]_vars => IInv'
  <1> SUFFICES ASSUME IInv, [Next]_vars
               PROVE  IInv'
    OBVIOUS
  <1>1. CASE Observe
    <2>1. verdict # None => verdict.symptom = "insufficient"
      <3>1. window.evidence = NoEvidence /\ window = Unobserved
        BY <1>1 DEF Observe, Unobserved
      <3> QED
        BY <3>1, VerdictOfNothing DEF IInv
    <2>2. /\ window'.observations \in Seq(Observation)
          /\ window'.evidence \in [symptom: Evidence, invocation: Evidence, outcome: Evidence]
      BY <1>1, LifecycleAssumption DEF Observe, NoEvidence, Evidence
    <2> QED
      BY <1>1, <2>1, <2>2 DEF Observe, IInv
  <1>2. CASE CloseWindow
    BY <1>2 DEF CloseWindow, IInv, Unobserved, NoEvidence, Evidence
  <1>3. CASE Diagnose \/ HostVerifies
    BY <1>3 DEF Diagnose, HostVerifies, IInv, Verify, Records
  <1>4. CASE ApplyFix \/ UpdateWithVerdict \/ UpdateOnRequest \/ UNCHANGED vars
    <2>1. UNCHANGED <<window, verdict>>
      BY <1>4 DEF ApplyFix, UpdateWithVerdict, UpdateOnRequest, UpdateLedger, vars
    <2> QED
      BY <2>1 DEF IInv, Verify, Records
  <1> QED
    BY <1>1, <1>2, <1>3, <1>4 DEF Next

-----------------------------------------------------------------------------
(* Resolved and no longer resolved. *)

(* Only a verdict moves an entry to "resolved" or away from it. *)
LEMMA ResolvedByVerdict ==
    ASSUME [Next]_vars, (status = "resolved") # (status' = "resolved")
    PROVE  UpdateWithVerdict
  <1>1. ASSUME NEW update, update.kind \in {"status", "entry"}, UpdateLedger(update)
        PROVE  FALSE
    BY <1>1 DEF UpdateLedger, StatusUpdate, MayRequest, EntryAllowed, Operating, Refused
  <1>2. ~ UpdateOnRequest
    <2>1. ASSUME NEW s, NEW artifacts
          PROVE  /\ ~ UpdateLedger([kind |-> "status", status |-> s])
                 /\ ~ UpdateLedger([kind |-> "entry", status |-> s, artifacts |-> artifacts])
      <3> DEFINE plain == [kind |-> "status", status |-> s]
                 entry == [kind |-> "entry", status |-> s, artifacts |-> artifacts]
      <3>1. plain.kind = "status" /\ entry.kind = "entry"
        OBVIOUS
      <3> HIDE DEF plain, entry
      <3>2. ~ UpdateLedger(plain) /\ ~ UpdateLedger(entry)
        BY <1>1, <3>1
      <3> QED
        BY <3>2 DEF plain, entry
    <2> QED
      BY <2>1 DEF UpdateOnRequest
  <1> QED
    BY <1>2 DEF Next, Observe, CloseWindow, ApplyFix, Diagnose, HostVerifies, vars

(* A verdict of three passes. *)
LEMMA AllPass ==
    ASSUME IInv, verdict # None,
           verdict.symptom = "pass", verdict.invocation = "pass", verdict.outcome = "pass"
    PROVE  /\ ~ SymptomSeen
           /\ \E e \in window.evidence.symptom : e[2] = "symptom-absent"
           /\ \E i, o \in Refs : i # o /\ InvocationSeen(i) /\ SuccessSeen(o)
  <1> DEFINE records == Records(window)
             found == {<<ref, "symptom-recurred">> : ref \in window.found}
  <1>1. PICK evidence \in {NoEvidence, window.evidence} : verdict = Verify(window, evidence)
    BY DEF IInv
  <1>2. /\ SymptomStatus(evidence.symptom \cup found, Recurs(records, Targets)) = "pass"
        /\ InvocationStatus(AllInvocation(evidence, records, Targets)) = "pass"
        /\ OutcomeStatus(AllOutcome(evidence, records, Targets),
                         AllInvocation(evidence, records, Targets)) = "pass"
    BY <1>1 DEF Verify, VerifyFix
  <1>3. /\ ~ Recurs(records, Targets)
        /\ "symptom-recurred" \notin LabelsOf(evidence.symptom \cup found)
        /\ \E e \in evidence.symptom \cup found : e[2] = "symptom-absent"
    BY <1>2 DEF SymptomStatus, LabelsOf
  <1>4. \E e \in evidence.symptom : e[2] = "symptom-absent"
    BY <1>3
  <1>5. evidence = window.evidence
    BY <1>1, <1>4 DEF NoEvidence
  <1>6. window.found = {}
    <2>1. ASSUME NEW ref \in window.found
          PROVE  "symptom-recurred" \in LabelsOf(evidence.symptom \cup found)
      <3>1. <<ref, "symptom-recurred">> \in evidence.symptom \cup found
        OBVIOUS
      <3> HIDE DEF found
      <3> QED
        BY <3>1 DEF LabelsOf
    <2> QED
      BY <1>3, <2>1
  <1>7. ~ SymptomSeen
    BY <1>3, <1>5, <1>6, RecursShown DEF SymptomSeen, LabelsOf, IInv
  <1>8. PICK i \in AllInvocation(evidence, records, Targets) : i[2] = "invoked"
    BY <1>2 DEF InvocationStatus, LabelsOf
  <1>9. i[1] \in Refs /\ InvocationSeen(i[1])
    <2>1. CASE i \in window.evidence.invocation
      <3>1. i = <<i[1], i[2]>> /\ i[1] \in Refs
        BY <2>1 DEF IInv, Evidence
      <3> QED
        BY <1>8, <2>1, <3>1 DEF InvocationSeen
    <2>2. CASE i \in CoverageInvocation(records, Targets)
      BY <2>2, InvocationsShown DEF InvocationSeen, IInv
    <2> QED
      BY <1>5, <1>8, <2>1, <2>2 DEF AllInvocation
  <1>10. PICK o \in AllOutcome(evidence, records, Targets) : o[2] = "outcome-pass"
    BY <1>2 DEF OutcomeStatus, LabelsOf
  <1>11. o[1] \in Refs /\ SuccessSeen(o[1])
    <2>1. CASE o \in window.evidence.outcome
      <3>1. o = <<o[1], o[2]>> /\ o[1] \in Refs
        BY <2>1 DEF IInv, Evidence
      <3> QED
        BY <1>10, <2>1, <3>1 DEF SuccessSeen
    <2>2. CASE o \in CoverageOutcome(records, Targets, evidence.invocation)
      BY <1>10, <2>2, OutcomesShown DEF IInv
    <2> QED
      BY <1>5, <1>10, <2>1, <2>2 DEF AllOutcome
  <1>12. i[1] # o[1]
    BY <1>2, <1>8, <1>10 DEF OutcomeStatus, KeysOf
  <1> QED
    BY <1>4, <1>5, <1>7, <1>9, <1>11, <1>12

(* A verdict that takes an operating entry back. *)
LEMMA Failure ==
    ASSUME IInv, verdict # None, verdict.symptom # "insufficient", OperatingFailure(verdict)
    PROVE  \/ SymptomSeen
           \/ \E e \in window.evidence.outcome : e[2] = "outcome-fail"
           \/ \E e \in window.evidence.invocation : e[2] # "invoked"
           \/ \A ref \in Refs : ~ InvocationSeen(ref)
  <1> DEFINE records == Records(window)
             found == {<<ref, "symptom-recurred">> : ref \in window.found}
  <1> SUFFICES ASSUME ~ SymptomSeen,
                      \A e \in window.evidence.outcome : e[2] # "outcome-fail",
                      \A e \in window.evidence.invocation : e[2] = "invoked"
               PROVE  \A ref \in Refs : ~ InvocationSeen(ref)
    OBVIOUS
  <1>1. PICK evidence \in {NoEvidence, window.evidence} : verdict = Verify(window, evidence)
    BY DEF IInv
  <1>2. /\ verdict.symptom = SymptomStatus(evidence.symptom \cup found, Recurs(records, Targets))
        /\ verdict.invocation = InvocationStatus(AllInvocation(evidence, records, Targets))
        /\ verdict.outcome = OutcomeStatus(AllOutcome(evidence, records, Targets),
                                           AllInvocation(evidence, records, Targets))
    BY <1>1 DEF Verify, VerifyFix
  <1>3. ~ Recurs(records, Targets) /\ window.found = {} /\ ~ \E o \in Shown : o.recurred
    BY RecursShown DEF SymptomSeen, IInv
  <1>4. "symptom-recurred" \notin LabelsOf(evidence.symptom \cup found)
    BY <1>1, <1>3 DEF LabelsOf, SymptomSeen, NoEvidence
  <1>5. verdict.symptom = "pass"
    BY <1>2, <1>3, <1>4 DEF SymptomStatus
  <1>6. evidence = window.evidence
    <2>1. "symptom-absent" \in LabelsOf(evidence.symptom \cup found)
      BY <1>2, <1>5 DEF SymptomStatus
    <2> QED
      BY <1>1, <1>3, <2>1 DEF NoEvidence, LabelsOf
  <1>7. verdict.outcome # "fail"
    <2>1. \A e \in AllOutcome(evidence, records, Targets) : e[2] # "outcome-fail"
      BY <1>3, <1>6, OutcomesShown DEF AllOutcome, IInv
    <2> QED
      BY <1>2, <2>1 DEF OutcomeStatus, LabelsOf
  <1>8. verdict.invocation # "pass"
    BY <1>5, <1>7 DEF OperatingFailure
  <1>9. \A e \in AllInvocation(evidence, records, Targets) : e[2] = "invoked"
    BY <1>6, InvocationsShown DEF AllInvocation, IInv
  <1>10. AllInvocation(evidence, records, Targets) = {}
    BY <1>2, <1>8, <1>9 DEF InvocationStatus, LabelsOf
  <1>11. window.evidence.invocation = {} /\ CoverageInvocation(records, Targets) = {}
    BY <1>6, <1>10 DEF AllInvocation
  <1> QED
    BY <1>11, InvocationsShown DEF InvocationSeen, IInv

(***************************************************************************)
(* An entry is resolved only when its fix was in operation and the window  *)
(* shows no recurrence, the absence of the symptom, an invocation and,     *)
(* with another reference, a success (verify_fix with                      *)
(* validate_transition), whatever the window holds.                        *)
(***************************************************************************)
THEOREM ResolvedWithEvidence == Spec => ResolvedOnlyWhenOperating
  <1> DEFINE P == status # "resolved" /\ status' = "resolved" =>
                    /\ status \in {"fix-applied", "built-not-operating"}
                    /\ ~ SymptomSeen
                    /\ \E e \in window.evidence.symptom : e[2] = "symptom-absent"
                    /\ \E i, o \in Refs : i # o /\ InvocationSeen(i) /\ SuccessSeen(o)
  <1>1. ASSUME IInv, [Next]_vars, status # "resolved", status' = "resolved"
        PROVE  P
    <2>1. verdict # None /\ ValidateTransition(status, verdict) = "resolved"
      BY <1>1, ResolvedByVerdict DEF UpdateWithVerdict, UpdateLedger, StatusUpdate, Refused
    <2>2. /\ status \in Operating \ {"resolved"} /\ ~ OperatingFailure(verdict)
          /\ verdict.symptom # "insufficient" /\ verdict.outcome # "insufficient"
      BY <1>1, <2>1 DEF ValidateTransition, Refused
    <2>3. verdict.symptom = "pass" /\ verdict.invocation = "pass" /\ verdict.outcome = "pass"
      <3>1. \/ verdict = Verify(window, NoEvidence)
            \/ verdict = Verify(window, window.evidence)
        BY <1>1, <2>1, <2>2 DEF IInv
      <3>2. verdict.symptom \in CheckStatuses /\ verdict.outcome \in CheckStatuses
        BY <3>1 DEF Verify, VerifyFix, SymptomStatus, OutcomeStatus, CheckStatuses
      <3> QED
        BY <2>2, <3>2 DEF OperatingFailure, CheckStatuses
    <2> QED
      BY <1>1, <2>1, <2>2, <2>3, AllPass DEF Operating
  <1>2. IInv /\ [Next]_vars => [P]_vars
    BY <1>1
  <1> QED
    BY InitIInv, NextIInv, <1>2, PTL DEF Spec, ResolvedOnlyWhenOperating

(***************************************************************************)
(* A resolved entry falls back only for a cause that the window shows      *)
(* (verify_fix with validate_transition), whatever the window holds.       *)
(***************************************************************************)
THEOREM FallsBackForCause == Spec => RegressionHasCause
  <1> DEFINE P == status = "resolved" /\ status' # "resolved" =>
                    /\ status' = "built-not-operating"
                    /\ \/ SymptomSeen
                       \/ \E e \in window.evidence.outcome : e[2] = "outcome-fail"
                       \/ \E e \in window.evidence.invocation : e[2] # "invoked"
                       \/ \A ref \in Refs : ~ InvocationSeen(ref)
  <1>1. ASSUME IInv, [Next]_vars, status = "resolved", status' # "resolved"
        PROVE  P
    <2>1. /\ verdict # None /\ status' = ValidateTransition(status, verdict)
          /\ ValidateTransition(status, verdict) # Refused
      BY <1>1, ResolvedByVerdict DEF UpdateWithVerdict, UpdateLedger, StatusUpdate
    <2>2. /\ status' = "built-not-operating" /\ OperatingFailure(verdict)
          /\ verdict.symptom # "insufficient"
      BY <1>1, <2>1 DEF ValidateTransition, Operating
    <2> QED
      BY <1>1, <2>1, <2>2, Failure
  <1>2. IInv /\ [Next]_vars => [P]_vars
    BY <1>1
  <1> QED
    BY InitIInv, NextIInv, <1>2, PTL DEF Spec, RegressionHasCause

-----------------------------------------------------------------------------
(* Types, and the two functions that say what a verdict means.             *)

LEMMA VerdictIsChecks ==
    ASSUME NEW targets, NEW evidence, NEW found, NEW records
    PROVE  VerifyFix(targets, evidence, found, records) \in Checks
  <1>1. \A e, b : SymptomStatus(e, b) \in CheckStatuses
    BY DEF SymptomStatus, CheckStatuses
  <1>2. \A e : InvocationStatus(e) \in CheckStatuses
    BY DEF InvocationStatus, CheckStatuses
  <1>3. \A e, i : OutcomeStatus(e, i) \in CheckStatuses
    BY DEF OutcomeStatus, CheckStatuses
  <1> QED
    BY <1>1, <1>2, <1>3 DEF VerifyFix, Checks

LEMMA UpdateIsStatus ==
    ASSUME TypeOK, NEW update, UpdateLedger(update),
           \/ update.kind = "checks"
           \/ update.kind \in {"status", "entry"} /\ update.status \in Statuses
    PROVE  status' \in Statuses
  BY DEF TypeOK, UpdateLedger, StatusUpdate, ValidateTransition, Statuses, Refused

(* Every variable keeps to its type: no refused update is written, and     *)
(* verify_fix answers every window.                                        *)
THEOREM TypeCorrect == Spec => []TypeOK
  <1>1. Init => TypeOK
    BY LifecycleAssumption DEF Init, TypeOK, Unobserved
  <1>2. TypeOK /\ [Next]_vars => TypeOK'
    <2> SUFFICES ASSUME TypeOK, [Next]_vars
                 PROVE  TypeOK'
      OBVIOUS
    <2>1. CASE Observe
      BY <2>1 DEF Observe, TypeOK
    <2>2. CASE CloseWindow
      BY <2>2, LifecycleAssumption DEF CloseWindow, TypeOK, Unobserved
    <2>3. CASE ApplyFix
      BY <2>3 DEF ApplyFix, TypeOK, Statuses
    <2>4. CASE Diagnose \/ HostVerifies
      BY <2>4, VerdictIsChecks DEF Diagnose, HostVerifies, Verify, TypeOK
    <2>5. CASE UpdateWithVerdict
      <3>1. status' \in Statuses
        <4> DEFINE update == [kind |-> "checks", checks |-> verdict]
        <4>1. UpdateLedger(update)
          BY <2>5 DEF UpdateWithVerdict
        <4>2. update.kind = "checks"
          OBVIOUS
        <4> HIDE DEF update
        <4> QED
          BY <4>1, <4>2, UpdateIsStatus
      <3> QED
        BY <2>5, <3>1 DEF UpdateWithVerdict, UpdateLedger, TypeOK
    <2>6. CASE UpdateOnRequest
      <3>1. PICK update :
               /\ UpdateLedger(update)
               /\ update.kind \in {"status", "entry"} /\ update.status \in Statuses
        <4>1. PICK s \in Statuses, artifacts \in {{}, Targets} :
                 \/ UpdateLedger([kind |-> "status", status |-> s])
                 \/ UpdateLedger([kind |-> "entry", status |-> s, artifacts |-> artifacts])
          BY <2>6 DEF UpdateOnRequest
        <4> DEFINE plain == [kind |-> "status", status |-> s]
                   entry == [kind |-> "entry", status |-> s, artifacts |-> artifacts]
        <4>2. /\ plain.kind = "status" /\ plain.status = s
              /\ entry.kind = "entry" /\ entry.status = s
          OBVIOUS
        <4>3. UpdateLedger(plain) \/ UpdateLedger(entry)
          BY <4>1
        <4> HIDE DEF plain, entry
        <4> QED
          BY <4>2, <4>3
      <3>2. status' \in Statuses /\ UNCHANGED <<window, verdict>>
        BY <3>1, UpdateIsStatus DEF UpdateLedger
      <3> QED
        BY <3>2 DEF TypeOK
    <2>7. CASE UNCHANGED vars
      BY <2>7 DEF vars, TypeOK
    <2> QED
      BY <2>1, <2>2, <2>3, <2>4, <2>5, <2>6, <2>7 DEF Next
  <1> QED
    BY <1>1, <1>2, PTL DEF Spec

(* Where a verdict moves an entry, and where the report sends it.          *)
LEMMA TransitionIsRecommended ==
    ASSUME NEW current, NEW v \in Checks,
           ValidateTransition(current, v) \notin {Refused, current}
    PROVE  ValidateTransition(current, v) =
              IF v.invocation = "insufficient" THEN "built-not-operating"
                                               ELSE RecommendedStatus(v)
  <1>1. /\ v.symptom \in {"pass", "fail"} /\ v.outcome \in {"pass", "fail"}
        /\ v.invocation \in {"pass", "fail", "insufficient"}
        /\ ValidateTransition(current, v) =
              IF OperatingFailure(v) THEN "built-not-operating" ELSE "resolved"
    BY DEF ValidateTransition, Checks, CheckStatuses, Refused
  <1>2. CASE v.invocation = "insufficient"
    BY <1>1, <1>2 DEF OperatingFailure
  <1>3. CASE "fail" \in {v.symptom, v.invocation, v.outcome} /\ v.invocation # "insufficient"
    BY <1>1, <1>3 DEF OperatingFailure, RecommendedStatus, Overall
  <1>4. CASE v.symptom = "pass" /\ v.invocation = "pass" /\ v.outcome = "pass"
    BY <1>4, <1>1 DEF OperatingFailure, RecommendedStatus, Overall
  <1> QED
    BY <1>1, <1>2, <1>3, <1>4

(***************************************************************************)
(* verify_fix and validate_transition, which share no code, agree on every *)
(* verdict that moves an entry, up to the missing invocation.              *)
(***************************************************************************)
THEOREM AsRecommended == Spec => MovedAsRecommended
  <1>1. ASSUME TypeOK, status' # status, UpdateWithVerdict
        PROVE  status' = IF verdict.invocation = "insufficient" THEN "built-not-operating"
                                                                ELSE RecommendedStatus(verdict)
    <2>1. /\ verdict \in Checks /\ status' = ValidateTransition(status, verdict)
          /\ ValidateTransition(status, verdict) # Refused
      BY <1>1 DEF UpdateWithVerdict, UpdateLedger, StatusUpdate, TypeOK
    <2> QED
      BY <1>1, <2>1, TransitionIsRecommended
  <1>2. TypeOK /\ [Next]_vars =>
          [status' # status /\ UpdateWithVerdict =>
             status' = IF verdict.invocation = "insufficient" THEN "built-not-operating"
                                                              ELSE RecommendedStatus(verdict)]_vars
    BY <1>1
  <1> QED
    BY <1>2, TypeCorrect, PTL DEF Spec, MovedAsRecommended
=============================================================================
