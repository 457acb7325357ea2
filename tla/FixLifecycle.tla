---------------------------- MODULE FixLifecycle ----------------------------
(***************************************************************************)
(* One ledger entry from the day its cluster is found to the day its fix   *)
(* is shown to work, over several observation windows.  In each window the *)
(* host collects observations, the run or the host itself verifies the fix *)
(* (_verify_ledger, verify_fix), and the host passes the verdict to        *)
(* update_ledger (src/scripts/reflect_setup.py, verification.py,           *)
(* ledger.py).                                                             *)
(***************************************************************************)
EXTENDS LedgerTransitions, FixVerification, Naturals, Sequences

CONSTANTS
    Targets,            \* the entry's artifact_ids
    WindowObservations, \* what a window may show: sequences of observations
    HostEvidence,       \* what the host labels itself: a set of records
                        \* [symptom, invocation, outcome]
    None                \* no verdict

Evidence == SUBSET (Refs \X Labels)
NoEvidence == [symptom |-> {}, invocation |-> {}, outcome |-> {}]
Unobserved == [observations |-> <<>>, found |-> {}, evidence |-> NoEvidence]

ASSUME LifecycleAssumption ==
    /\ Targets \subseteq Artifacts
    /\ WindowObservations \subseteq Seq(Observation) /\ <<>> \in WindowObservations
    /\ HostEvidence \subseteq [symptom: Evidence, invocation: Evidence, outcome: Evidence]
    /\ None \notin Checks

VARIABLES
    status,     \* the entry's status in the ledger
    window,     \* what is observed in the current window
    verdict     \* the verification computed from it, or None

vars == <<status, window, verdict>>

TypeOK ==
    /\ status \in Statuses
    /\ window \in [observations: WindowObservations, found: SUBSET Refs,
                   evidence: HostEvidence \cup {NoEvidence}]
    /\ verdict \in Checks \cup {None}

Records(w) == [i \in DOMAIN w.observations |-> AssessCoverage(w.observations[i])]

Verify(w, evidence) == VerifyFix(Targets, evidence, w.found, Records(w))

Init ==
    /\ status \in Statuses \ Operating
    /\ window = Unobserved
    /\ verdict = None

(* What a window of transcripts shows, and the end of a window. *)
Observe ==
    /\ window = Unobserved
    /\ \E o \in WindowObservations, f \in SUBSET Refs, e \in HostEvidence \cup {NoEvidence} :
          window' = [observations |-> o, found |-> f, evidence |-> e]
    /\ UNCHANGED <<status, verdict>>

CloseWindow ==
    /\ window' = Unobserved
    /\ verdict' = None
    /\ UNCHANGED status

(* The host writes the fix, and notes it in the ledger by hand. *)
ApplyFix ==
    /\ status \in {"new", "monitor"}
    /\ status' = "fix-applied"
    /\ UNCHANGED <<window, verdict>>

(* A diagnosis run: _verify_ledger has no labelled evidence to pass on. *)
Diagnose ==
    /\ status \in Operating
    /\ verdict' = Verify(window, NoEvidence)
    /\ UNCHANGED <<status, window>>

(* The host calls verify_fix with the evidence it labelled. *)
HostVerifies ==
    /\ verdict' = Verify(window, window.evidence)
    /\ UNCHANGED <<status, window>>

(* Mutant: the entry is taken to be what is asked for. *)
UpdateLedgerTo(update) ==
    /\ status' = StatusUpdate(status, update)
    /\ UNCHANGED <<window, verdict>>

(* update_ledger with an update; a refused one raises and writes nothing. *)
UpdateLedger(update) ==
    /\ LET target == StatusUpdate(status, update)
       IN  status' = IF target = Refused THEN status ELSE target
    /\ UNCHANGED <<window, verdict>>

UpdateWithVerdict == verdict # None /\ UpdateLedger([kind |-> "checks", checks |-> verdict])

UpdateOnRequest ==
    \E s \in Statuses, artifacts \in {{}, Targets} :
        \/ UpdateLedger([kind |-> "status", status |-> s])
        \/ UpdateLedger([kind |-> "entry", status |-> s, artifacts |-> artifacts])

Next ==
    \/ Observe \/ CloseWindow \/ ApplyFix
    \/ Diagnose \/ HostVerifies
    \/ UpdateWithVerdict \/ UpdateOnRequest

Spec == Init /\ [][Next]_vars

-----------------------------------------------------------------------------
(* What the window shows, said without the code's operators. *)

Shown == {window.observations[i] : i \in
             {j \in DOMAIN window.observations :
                 LET o == window.observations[j]
                 IN  o.artifact \in Targets /\ o.declared /\ o.eligible}}

SymptomSeen ==
    \/ window.found # {}
    \/ \E o \in Shown : o.recurred
    \/ \E e \in window.evidence.symptom : e[2] = "symptom-recurred"

InvocationSeen(ref) ==
    <<ref, "invoked">> \in window.evidence.invocation \/ \E o \in Shown : ref \in o.triggers

SuccessSeen(ref) ==
    \/ <<ref, "outcome-pass">> \in window.evidence.outcome
    \/ \E o \in Shown : ref \in o.preventions /\ ~ o.recurred /\ ref \notin o.triggers

(***************************************************************************)
(* An entry is resolved only when its fix was in operation and the window  *)
(* shows no recurrence, states the absence of the symptom, and has one     *)
(* reference for the invocation and another one for the success.           *)
(* (REFERENCE.md: "resolved only when all three pass"; verify_fix and      *)
(* validate_transition together.)                                          *)
(***************************************************************************)
ResolvedOnlyWhenOperating ==
    [][status # "resolved" /\ status' = "resolved" =>
          /\ status \in {"fix-applied", "built-not-operating"}
          /\ ~ SymptomSeen
          /\ \E e \in window.evidence.symptom : e[2] = "symptom-absent"
          /\ \E i, o \in Refs : i # o /\ InvocationSeen(i) /\ SuccessSeen(o)]_vars

(***************************************************************************)
(* A resolved entry falls back only for a cause the window shows: the      *)
(* symptom, a failed outcome, or no sign that the artifact is in use.      *)
(***************************************************************************)
RegressionHasCause ==
    [][status = "resolved" /\ status' # "resolved" =>
          /\ status' = "built-not-operating"
          /\ \/ SymptomSeen
             \/ \E e \in window.evidence.outcome : e[2] = "outcome-fail"
             \/ \E e \in window.evidence.invocation : e[2] # "invoked"
             \/ \A ref \in Refs : ~ InvocationSeen(ref)]_vars

(***************************************************************************)
(* No update of the ledger makes an entry operating that was not: that a   *)
(* fix exists is something only the host's own hand can say.               *)
(* (_status_update: "operating-state updates require explicit              *)
(* verification".)                                                         *)
(***************************************************************************)
OperatingOnlyByHand ==
    [][status \notin Operating /\ status' \in Operating => ApplyFix]_vars

(***************************************************************************)
(* When a verdict moves an entry, it moves it to the status the report     *)
(* recommended, except that a missing invocation, for which the report     *)
(* recommends "fix-applied", makes it "built-not-operating".  The two      *)
(* functions (verify_fix, validate_transition) do not share code.          *)
(***************************************************************************)
MovedAsRecommended ==
    [][status' # status /\ UpdateWithVerdict =>
          status' = IF verdict.invocation = "insufficient" THEN "built-not-operating"
                                                           ELSE RecommendedStatus(verdict)]_vars

=============================================================================
