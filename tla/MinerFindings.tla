--------------------------- MODULE MinerFindings ---------------------------
(***************************************************************************)
(* What a miner may claim about its digests, and what the reports of all   *)
(* miners become (src/scripts/miner_contract.py).                          *)
(*                                                                         *)
(* A line is <<digest, number>>.  A finding is a record [spelling, type,   *)
(* session, says, sure, count, evidence]: the proposed key as the miner    *)
(* spells it, a paraphrase <<its length, its rank among the texts>>, the    *)
(* confidence in tenths, and a set of references [line, count, time,       *)
(* project].                                                               *)
(***************************************************************************)
EXTENDS FiniteSetsExt

CONSTANTS
    Index,      \* the manifest's evidence index: which kinds of signal the
                \* retained lines have
    Time,       \* of the retained lines, in hours
    Session,    \* of the digests
    Project,    \* of the digests
    Key         \* normalize_cluster_key: of a spelling, as a rank in order

Digest(line) == line[1]

(* _index_kind_matches *)
KindMatches(type, kind) ==
    \/ kind = "user"
    \/ kind = "error" /\ type = "failure"
    \/ kind = "interrupt" /\ type \in {"failure", "friction"}

Counts(evidence) == SumFunction([e \in evidence |-> e.count])

OneCountPerLine(evidence) ==
    \A d, e \in evidence : d.line = e.line => d.count = e.count

(* _parse_evidence, _matching_index_entries, for a batch of digests.       *)
Cites(e, type, batch) ==
    /\ e.line \in DOMAIN Index
    /\ Digest(e.line) \in batch
    /\ e.time = Time[e.line]
    /\ e.project = Project[Digest(e.line)]
    /\ \E kind \in Index[e.line] : KindMatches(type, kind)

(* Mutant: the session of a finding is the miner's word.                   *)
AcceptsAnySession(f, batch) ==
    /\ f.evidence # {}
    /\ \A e \in f.evidence : Cites(e, f.type, batch)
    /\ OneCountPerLine(f.evidence)
    /\ f.count = Counts(f.evidence)

(* _parse_finding *)
Accepts(f, batch) ==
    /\ f.evidence # {}
    /\ \A e \in f.evidence : Cites(e, f.type, batch)
    /\ OneCountPerLine(f.evidence)
    /\ f.count = Counts(f.evidence)
    /\ {Session[Digest(e.line)] : e \in f.evidence} = {f.session}

-----------------------------------------------------------------------------
(* merge_reports *)

Cluster(f) == [key |-> Key[f.spelling], type |-> f.type, session |-> f.session]

Alike(claims, f) == {g \in claims : Cluster(g) = Cluster(f)}

Evidence(claims) == UNION {f.evidence : f \in claims}

(* Reports that parse one by one may still not go together.                *)
Mergeable(claims) == \A f \in claims : OneCountPerLine(Evidence(Alike(claims, f)))

(* The representative's paraphrase: the first in the order of the texts.    *)
FirstText(says) == CHOOSE p \in says : \A q \in says : p[2] <= q[2]

(* Mutant: the counts of the findings are added up.                        *)
MergedOfAddedUp(alike) ==
    LET one == CHOOSE f \in alike : TRUE
    IN  [key |-> Key[one.spelling], type |-> one.type, session |-> one.session,
         says |-> FirstText({f.says : f \in alike}), sure |-> Max({f.sure : f \in alike}),
         evidence |-> Evidence(alike),
         count |-> SumFunction([f \in alike |-> f.count])]

MergedOf(alike) ==
    LET one == CHOOSE f \in alike : TRUE
    IN  [key |-> Key[one.spelling], type |-> one.type, session |-> one.session,
         says |-> FirstText({f.says : f \in alike}), sure |-> Max({f.sure : f \in alike}),
         evidence |-> Evidence(alike),
         count |-> Counts(Evidence(alike))]

Merged(claims) == {MergedOf(Alike(claims, f)) : f \in claims}
=============================================================================
