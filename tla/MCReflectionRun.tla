-------------------------- MODULE MCReflectionRun --------------------------
(***************************************************************************)
(* Constants of the runs of ReflectionRun.                                 *)
(***************************************************************************)
EXTENDS ReflectionRun, TLC

CONSTANTS quiet, signal, broken,      (* transcript contents               *)
          everything, onlyFirst,      (* scopes                            *)
          f1, f2, f3,                 (* findings                          *)
          k1, k2                      (* cluster keys                      *)

MCBytes == quiet :> 1 @@ signal :> 2 @@ broken :> 1
MCContents == {quiet, signal, broken}
MCSelected == everything :> {1, 2} @@ onlyFirst :> {1}
MCFindings == {f1, f2}
MCEvidence == f1 :> 1 @@ f2 :> 2
MCProposedKey == f1 :> k1 @@ f2 :> k1
MCKeys == {k1, k2}

MCOneContent == {signal}
MCBytesOfOne == signal :> 2

MCTwoContents == {quiet, signal}
MCBytesOfTwo == quiet :> 1 @@ signal :> 2

(* Three findings, two of the same transcript.                             *)
MC3Findings == {f1, f2, f3}
MC3Evidence == f1 :> 1 @@ f2 :> 2 @@ f3 :> 2
MC3ProposedKey == f1 :> k1 @@ f2 :> k1 @@ f3 :> k2

MCSymmetry == Permutations(Procs) \cup Permutations(RunIds)

G(k, m) == [key |-> k, members |-> m]

(* One group, two groups; an item left out, assigned twice, an empty group,*)
(* a key used twice.                                                       *)
MCGroupings ==
  {{G(k1, {f1, f2})}, {G(k1, {f1}), G(k2, {f2})},
   {G(k2, {f1})}, {G(k1, {f1, f2}), G(k2, {f2})},
   {G(k1, {f1, f2}), G(k2, {})}, {G(k1, {f1}), G(k1, {f2})}}

(* Groups of three findings: of two, of all in one, of all in two.         *)
MC3Groupings ==
  {{G(k1, {f1, f2})}, {G(k1, {f1, f2, f3})}, {G(k1, {f1}), G(k2, {f2, f3})}}

Diagnose(n, scope) ==
  [count |-> n, scope |-> scope, apply |-> FALSE, approved |-> {}, requests |-> {},
   workspaces |-> {}, proofs |-> {}, ledgerParses |-> TRUE, previewsHold |-> TRUE]

Apply(approved, requests, proofs) ==
  [Diagnose(2, everything) EXCEPT !.apply = TRUE, !.approved = approved,
     !.requests = requests, !.workspaces = requests, !.proofs = proofs]

OneCommand == {Diagnose(2, everything)}
OneBatch == {Diagnose(1, everything)}

(* Diagnoses, one of another scope, one of another batch count; consents   *)
(* to a cluster, with a proof, and one that lacks its request.             *)
AllCommands ==
  {Diagnose(2, everything), Diagnose(1, everything), Diagnose(3, everything),
   Diagnose(2, onlyFirst),
   Apply({k1}, {k1}, {}), Apply({k1}, {k1}, {k1}), Apply({k1, k2}, {k1}, {}),
   [Apply({k1}, {k1}, {}) EXCEPT !.previewsHold = FALSE],
   [Diagnose(2, everything) EXCEPT !.approved = {k1}],
   [Diagnose(2, everything) EXCEPT !.ledgerParses = FALSE]}

=============================================================================
