------------------------- MODULE MCFindingsPipeline -------------------------
(* Four digests, the first two of one session that went on in a second     *)
(* file; two projects, two days.                                           *)
EXTENDS FindingsPipeline, TLC

CONSTANTS s, t, u, P, Q, idA, idB

MCIndex == <<1, 1>> :> {"user"} @@ <<1, 2>> :> {"user", "error"}
           @@ <<2, 1>> :> {"interrupt"} @@ <<3, 1>> :> {"user"}
MCTime == <<1, 1>> :> 5 @@ <<1, 2>> :> 6 @@ <<2, 1>> :> 30 @@ <<3, 1>> :> 5
MCSession == <<s, s, t, u>>
MCProject == <<P, P, Q, Q>>

(* The keys a, b, and one of signs only.                                   *)
MCKey == "A" :> 1 @@ " a" :> 1 @@ "b" :> 2 @@ "?!" :> 3
MCClusterId == <<idA, idB, NoId>>
MCSlugs == {1, 2}

At(line, n) ==
    [line |-> line, count |-> n, time |-> MCTime[line], project |-> MCProject[line[1]]]

Claim(spelling, type, session, says, sure, evidence) ==
    [spelling |-> spelling, type |-> type, session |-> session, says |-> says,
     sure |-> sure, evidence |-> evidence, count |-> Counts(evidence)]

(* One failure as it may be cut up, spelled and counted by several miners; *)
(* complaints in two sessions; a claim under a key that is no name.        *)
MCHonest ==
    {Claim("A", "failure", s, <<9, 1>>, 9, {At(<<1, 1>>, 1)}),
     Claim(" a", "failure", s, <<4, 2>>, 6, {At(<<1, 1>>, 1), At(<<1, 2>>, 2)}),
     Claim("A", "failure", s, <<7, 3>>, 7, {At(<<1, 2>>, 3)}),
     Claim(" a", "failure", s, <<6, 4>>, 8, {At(<<2, 1>>, 13)}),
     Claim("b", "complaint", s, <<5, 5>>, 5, {At(<<1, 1>>, 1)}),
     Claim("b", "complaint", t, <<8, 6>>, 5, {At(<<3, 1>>, 1)}),
     Claim("?!", "correction", t, <<3, 7>>, 5, {At(<<3, 1>>, 1)})}

(* Claims that no batch makes true.                                        *)
MCWrong ==
    {Claim("A", "failure", s, <<9, 1>>, 9, {At(<<1, 1>>, 1), At(<<3, 1>>, 1)}),
     Claim("A", "failure", t, <<9, 1>>, 9, {At(<<1, 1>>, 1)}),
     Claim("b", "complaint", s, <<9, 1>>, 9, {At(<<2, 1>>, 1)}),
     Claim("b", "complaint", s, <<9, 1>>, 9, {[At(<<1, 1>>, 1) EXCEPT !.time = 1]}),
     Claim("b", "complaint", s, <<9, 1>>, 9, {[At(<<1, 1>>, 1) EXCEPT !.project = Q]}),
     [Claim("b", "complaint", s, <<9, 1>>, 9, {At(<<1, 1>>, 1)}) EXCEPT !.count = 2]}

(* Sixteen observations in a group make half-way means; the side depends   *)
(* on the order of the members.                                            *)
MCRoundsDown == {terms \in Seq((1 .. 20) \X (5 .. 10)) :
                     terms[1][2] < terms[Len(terms)][2]}

MCClaims == MCHonest \cup MCWrong
=============================================================================
