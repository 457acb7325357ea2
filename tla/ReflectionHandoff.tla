------------------------- MODULE ReflectionHandoff -------------------------
(***************************************************************************)
(* What a reflection run promises its host, without files or invocations:  *)
(* the stages of a run directory (RunStage of                              *)
(* src/scripts/workflow_contract.py, and the two states before the first   *)
(* pause) and the ranking it publishes.                                    *)
(***************************************************************************)
EXTENDS FiniteSets, Integers

CONSTANTS Findings, ClusterKeys

VARIABLES stage, ranking

vars == <<stage, ranking>>

Rankings == SUBSET [key : ClusterKeys, members : SUBSET Findings]

(* Clusters are disjoint, none is empty, and no two share a key.           *)
Sound(r) ==
  /\ \A g \in r : g.members # {}
  /\ \A g, h \in r : g # h => g.key # h.key /\ g.members \cap h.members = {}

Ranked(r) == UNION {g.members : g \in r}

Init == stage = "none" /\ ranking = {}

Digest == stage = "none" /\ stage' = "digested" /\ UNCHANGED ranking

Dispatch == stage = "digested" /\ stage' = "awaiting-miners" /\ UNCHANGED ranking

AskReconciliation ==
  /\ stage = "awaiting-miners"
  /\ stage' = "awaiting-reconciliation"
  /\ UNCHANGED ranking

(* Without digests nothing is ranked; without reconciliation at most one   *)
(* finding is; after reconciliation at least two are.                      *)
Publish ==
  /\ ranking' \in Rankings /\ Sound(ranking')
  /\ \/ stage = "digested" /\ ranking' = {}
     \/ stage = "awaiting-miners" /\ Cardinality(Ranked(ranking')) <= 1
     \/ stage = "awaiting-reconciliation" /\ Cardinality(Ranked(ranking')) > 1
  /\ stage' = "complete"

(* The directory is given up.                                              *)
Discard == stage # "none" /\ stage' = "none" /\ ranking' = {}

Next == Digest \/ Dispatch \/ AskReconciliation \/ Publish \/ Discard

Spec == Init /\ [][Next]_vars
=============================================================================
