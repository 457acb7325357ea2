-------------------------- MODULE BatchAssignment --------------------------
(***************************************************************************)
(* The assignment loop of _build_dispatch_plan                             *)
(* (src/scripts/reflect_setup.py), one digest per step, from every set of  *)
(* digests, sizes and --miner-batches value. It relates the loop to the    *)
(* function Batches of DispatchBatches, the one the run model uses, and    *)
(* states what the resulting plan promises the miners.                     *)
(***************************************************************************)
EXTENDS DispatchBatches

CONSTANTS MaxDigests,   (* bound: digests of a run                         *)
          MaxSize,      (* bound: bytes of a digest                        *)
          MaxCount      (* bound: the --miner-batches values               *)

ASSUME BatchBounds ==
  MaxDigests \in Nat \ {0} /\ MaxSize \in Nat \ {0} /\ MaxCount \in Nat \ {0}

VARIABLES size,      (* the digests and their byte sizes                   *)
          count,     (* --miner-batches                                    *)
          sized,     (* the digests not yet given to a batch, in order     *)
          loads,     (* bytes per batch                                    *)
          batches    (* digests per batch                                  *)

vars == <<size, count, sized, loads, batches>>

Digests == DOMAIN size

Init ==
  /\ \E n \in 1 .. MaxDigests : size \in [1 .. n -> 1 .. MaxSize]
  /\ count \in 1 .. MaxCount
  /\ sized = BySize(Digests, size)
  /\ loads = [b \in 1 .. BatchCount(Digests, count) |-> 0]
  /\ batches = [b \in 1 .. BatchCount(Digests, count) |-> {}]

AssignWithoutLoad ==
  /\ sized # <<>>
  /\ batches' = [batches EXCEPT ![Lightest(loads)] = @ \cup {Head(sized)}]
  /\ sized' = Tail(sized)
  /\ UNCHANGED <<size, count, loads>>

Assign ==
  /\ sized # <<>>
  /\ LET target == Lightest(loads)
     IN  /\ loads' = [loads EXCEPT ![target] = @ + size[Head(sized)]]
         /\ batches' = [batches EXCEPT ![target] = @ \cup {Head(sized)}]
  /\ sized' = Tail(sized)
  /\ UNCHANGED <<size, count>>

Next == Assign

Spec == Init /\ [][Next]_vars

Planned == sized = <<>>

-----------------------------------------------------------------------------
(* Every digest reaches exactly one miner and no batch is empty. An empty  *)
(* batch has total_bytes 0, which DispatchBatch.from_json rejects: the     *)
(* plan just written could never be loaded by the next invocation.         *)
PlanLoadsBack ==
  Planned => /\ IsPartition(batches, Digests)
             /\ \A b \in DOMAIN batches : TotalBytes(batches[b], size) > 0

(* The batches are byte-balanced (REFERENCE.md:150): no batch is         *)
(* heavier than another by more than the lightest digest it holds, at any  *)
(* moment of the loop.                                                     *)
Balanced ==
  \A b, c \in DOMAIN batches :
    \A d \in batches[b] : loads[b] - loads[c] <= size[d]

(* The loop computes the function Batches, whatever ties it meets: a rerun *)
(* that rebuilds a lost plan rebuilds the same plan.                       *)
LoopComputesBatches == Planned => batches = Batches(Digests, size, count)
=============================================================================
