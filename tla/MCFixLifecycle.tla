--------------------------- MODULE MCFixLifecycle ---------------------------
(* Instances of FixLifecycle for TLC, and mutations of its definitions.    *)
EXTENDS FixLifecycle

CONSTANTS hook, skill, r1, r2

(* Every observation of the targeted artifact on two references, and one   *)
(* each that must not count: another artifact, not declared, not eligible. *)
MCObservations ==
    [artifact: {hook}, declared: {TRUE}, eligible: {TRUE},
     triggers: SUBSET Refs, preventions: SUBSET Refs, recurred: BOOLEAN]
    \cup {[artifact |-> a, declared |-> d, eligible |-> e,
           triggers |-> {r1}, preventions |-> {r2}, recurred |-> FALSE] :
             <<a, d, e>> \in {<<skill, TRUE, TRUE>>, <<hook, FALSE, TRUE>>, <<hook, TRUE, FALSE>>}}

(* Windows of one observation of any kind, or of two of the telling ones: *)
(* a success, a success the other way round, a mere trigger, a recurrence. *)
Seen(triggers, preventions, recurred) ==
    [artifact |-> hook, declared |-> TRUE, eligible |-> TRUE,
     triggers |-> triggers, preventions |-> preventions, recurred |-> recurred]
MCTelling == {Seen({r1}, {r2}, FALSE), Seen({r2}, {r1}, FALSE), Seen({r2}, {}, FALSE),
              Seen({r1}, {r2}, TRUE)}

MCWindows == {<<>>} \cup {<<o>> : o \in MCObservations} \cup
             {<<o, p>> : o, p \in MCTelling}

MCHostEvidence ==
    [symptom: {{}, {<<r1, "symptom-absent">>}, {<<r1, "symptom-absent">>, <<r2, "symptom-recurred">>}},
     invocation: {{}, {<<r1, "invoked">>}},
     outcome: {{}, {<<r2, "outcome-pass">>}, {<<r2, "outcome-fail">>}}]
=============================================================================
