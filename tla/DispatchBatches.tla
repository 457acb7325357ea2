-------------------------- MODULE DispatchBatches --------------------------
(***************************************************************************)
(* The partition of digest files into miner batches, from                  *)
(* _build_dispatch_plan of src/scripts/reflect_setup.py: digests sorted by *)
(* descending size, then path, each one given to the lightest batch so     *)
(* far, the lowest batch index breaking a tie.                             *)
(*                                                                         *)
(* A digest is named by a number, its rank in path order; `size' maps the  *)
(* digests to their size in bytes.                                         *)
(***************************************************************************)
EXTENDS Orders, Sequences, Functions

UncappedBatchCount(digests, count) == count

(* The number of batches of a plan for `digests' under --miner-batches.    *)
BatchCount(digests, count) ==
  IF Cardinality(digests) < count THEN Cardinality(digests) ELSE count

ByPath(digests, size) == InOrder(digests, {p \in digests \X digests : p[1] < p[2]})

(* sized.sort(key=lambda item: (-item[0], item[1]))                        *)
BySize(digests, size) ==
  InOrder(digests,
          {p \in digests \X digests :
              \/ size[p[1]] > size[p[2]]
              \/ size[p[1]] = size[p[2]] /\ p[1] < p[2]})

(* min(range(batch_count), key=lambda index: (loads[index], index))        *)
Lightest(load) ==
  CHOOSE b \in DOMAIN load :
    \A c \in DOMAIN load : load[b] < load[c] \/ (load[b] = load[c] /\ b <= c)

(* total_bytes of a batch                                                  *)
TotalBytes(batch, size) == SumFunctionOnSet(size, batch)

(* The load of every batch after the first n digests, as a function of n.   *)
Loads(digests, size, count) ==
  LET order == BySize(digests, size)
      load[n \in 0 .. Len(order)] ==
        IF n = 0
        THEN [b \in 1 .. BatchCount(digests, count) |-> 0]
        ELSE [load[n - 1] EXCEPT ![Lightest(load[n - 1])] = @ + size[order[n]]]
  IN  load

(* The batches after the first n digests, each given to the lightest then. *)
BatchesAfter(n, digests, size, count) ==
  LET order == BySize(digests, size)
      load == Loads(digests, size, count)
  IN  [b \in 1 .. BatchCount(digests, count) |->
        {order[m] : m \in {i \in 1 .. n : Lightest(load[i - 1]) = b}}]

Batches(digests, size, count) ==
  BatchesAfter(Cardinality(digests), digests, size, count)

(* The partition _validate_dispatch_plan requires of a persisted plan.     *)
IsPartition(batches, digests) ==
  /\ \A b, c \in DOMAIN batches : b # c => batches[b] \cap batches[c] = {}
  /\ UNION {batches[b] : b \in DOMAIN batches} = digests
=============================================================================
