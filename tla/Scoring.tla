------------------------------ MODULE Scoring ------------------------------
(***************************************************************************)
(* From groups of merged findings to the ranking (src/scripts/scoring.py,  *)
(* _rank_grouped of src/scripts/reflect_setup.py).                         *)
(*                                                                         *)
(* A group is [key, members], its members a sequence of merged findings.   *)
(* A rounded mean counts ten-thousandths, a score before it is rounded     *)
(* hundred-thousandths.  In the code they are floating-point numbers.      *)
(* These agree with exact ones but for numbers half-way between two        *)
(* ten-thousandths: a mean is summed in the order of the members, so that  *)
(* the error of the sum, and with it the side such a mean falls on,        *)
(* depends on the order.  RoundsDown leaves it open.  A score half-way is  *)
(* rounded up here.                                                        *)
(***************************************************************************)
EXTENDS Orders, Sequences, FiniteSetsExt

CONSTANT RoundsDown  \* the sequences of <<count, value>> whose mean, half-way
                     \* between two ten-thousandths, is rounded down

Least(n, bound) == IF n < bound THEN n ELSE bound

Rounded(n, d) == (2 * n + d) \div (2 * d)

HalfWay(n, d) == (2 * n + d) % (2 * d) = 0

Occurrences(members) == SumFunction([i \in DOMAIN members |-> members[i].count])

(* _occurrence_weighted_mean, of the members' values in tenths.            *)
WeightedMean(members, values) ==
    LET weighted == SumFunction([i \in DOMAIN members |-> members[i].count * values[i]])
        mean == Rounded(1000 * weighted, Occurrences(members))
    IN  IF /\ HalfWay(1000 * weighted, Occurrences(members))
           /\ [i \in DOMAIN members |-> <<members[i].count, values[i]>>] \in RoundsDown
        THEN mean - 1 ELSE mean

Impact(f) == CASE f.type = "failure"    -> 10
               [] f.type = "complaint"  -> 9
               [] f.type = "correction" -> 8
               [] f.type = "friction"   -> 7

References(members) == UNION {members[i].evidence : i \in DOMAIN members}

(* compute_metrics *)
Metrics(members, regressions) ==
    LET references == References(members)
        times == {e.time : e \in references}
    IN  [occurrences |-> Occurrences(members),
         sessions    |-> Cardinality({members[i].session : i \in DOMAIN members}),
         projects    |-> Cardinality({e.project : e \in references}),
         days        |-> Cardinality({t \div 24 : t \in times}),
         firstSeen   |-> Min(times),
         lastSeen    |-> Max(times),
         regressions |-> regressions,
         confidence  |-> WeightedMean(members, [i \in DOMAIN members |-> members[i].sure]),
         impact      |-> WeightedMean(members, [i \in DOMAIN members |-> Impact(members[i])])]

(* Mutant: a fix that failed is a penalty. *)
ScorePenalised(m) ==
    Rounded(3000 * Least(m.occurrences, 10) + 4000 * Least(m.sessions, 5)
            + 5000 * Least(m.projects, 3) + 3000 * Least(m.days, 5)
            + m.confidence + m.impact - 10000 * Least(m.regressions, 1), 10)

Score(m) ==
    Rounded(3000 * Least(m.occurrences, 10) + 4000 * Least(m.sessions, 5)
            + 5000 * Least(m.projects, 3) + 3000 * Least(m.days, 5)
            + m.confidence + m.impact + 10000 * Least(m.regressions, 1), 10)

CitedBefore(members, i, line) ==
    \E h \in 1 .. i - 1 :
        /\ members[h].session = members[i].session
        /\ \E e \in members[h].evidence : e.line = line

(* _candidate_evidence: of the references to a line of a session, the      *)
(* first one, with its kind and its count.                                 *)
CandidateEvidence(members) ==
    UNION {{[session |-> members[i].session, line |-> e.line,
             kind |-> members[i].type, count |-> e.count] :
                e \in {r \in members[i].evidence : ~ CitedBefore(members, i, r.line)}} :
           i \in DOMAIN members}

Paraphrases(members) == {members[i].says : i \in DOMAIN members}

(* The shortest of the paraphrases <<length, text>>.                       *)
Shortest(says) ==
    CHOOSE p \in says : \A q \in says : p[1] < q[1] \/ (p[1] = q[1] /\ p[2] <= q[2])

(* score_candidate *)
Candidate(group, regressions) ==
    LET metrics == Metrics(group.members, regressions)
    IN  [key |-> group.key,
         summary |-> Shortest(Paraphrases(group.members)),
         paraphrases |-> Paraphrases(group.members),
         types |-> {group.members[i].type : i \in DOMAIN group.members},
         evidence |-> CandidateEvidence(group.members),
         score |-> Score(metrics),
         metrics |-> metrics]

-----------------------------------------------------------------------------
(* Mutant: candidates that were seen first at the same time stay as they   *)
(* come.                                                                   *)
BeforeWithoutKey(c, d) ==
    \/ c.score > d.score
    \/ /\ c.score = d.score
       /\ \/ c.metrics.regressions > d.metrics.regressions
          \/ /\ c.metrics.regressions = d.metrics.regressions
             /\ c.metrics.firstSeen < d.metrics.firstSeen

(* The order of rank_candidates; here a regression count is 0 or 1.        *)
Before(c, d) ==
    \/ c.score > d.score
    \/ /\ c.score = d.score
       /\ \/ c.metrics.regressions > d.metrics.regressions
          \/ /\ c.metrics.regressions = d.metrics.regressions
             /\ \/ c.metrics.firstSeen < d.metrics.firstSeen
                \/ c.metrics.firstSeen = d.metrics.firstSeen /\ c.key < d.key

(* rank_candidates: a stable sort. *)
Ranked(candidates) ==
    LET places == DOMAIN candidates
        order == InOrder(places, {p \in places \X places :
                                     \/ Before(candidates[p[1]], candidates[p[2]])
                                     \/ /\ ~ Before(candidates[p[2]], candidates[p[1]])
                                        /\ p[1] < p[2]})
    IN  [i \in DOMAIN candidates |-> candidates[order[i]]]
=============================================================================
