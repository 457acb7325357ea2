-------------------------- MODULE ApplyGateProofs --------------------------
(***************************************************************************)
(* Proofs about the Apply gate, for any projects, host inputs, outputs and *)
(* number of changes.                                                      *)
(***************************************************************************)
EXTENDS ApplyGate, WellFoundedInduction, TLAPS

-----------------------------------------------------------------------------
(* Prefixes of paths. *)
Path == Seq(STRING)

LEMMA PrefixPointwise ==
    ASSUME NEW s \in Path, NEW t \in Path
    PROVE  IsPrefix(s, t) <=> Len(s) <= Len(t) /\ \A i \in 1 .. Len(s) : s[i] = t[i]
BY DEF IsPrefix, Path

LEMMA PrefixReflexive ==
    ASSUME NEW s \in Path
    PROVE  IsPrefix(s, s)
BY PrefixPointwise DEF Path

LEMMA PrefixTransitive ==
    ASSUME NEW s \in Path, NEW t \in Path, NEW u \in Path, IsPrefix(s, t), IsPrefix(t, u)
    PROVE  IsPrefix(s, u)
BY PrefixPointwise DEF Path

LEMMA PrefixAntisymmetric ==
    ASSUME NEW s \in Path, NEW t \in Path, IsPrefix(s, t), IsPrefix(t, s)
    PROVE  s = t
BY PrefixPointwise DEF Path

LEMMA PrefixesComparable ==
    ASSUME NEW s \in Path, NEW t \in Path, NEW u \in Path, IsPrefix(s, u), IsPrefix(t, u)
    PROVE  IsPrefix(s, t) \/ IsPrefix(t, s)
BY PrefixPointwise DEF Path

LEMMA FrontIsPrefix ==
    ASSUME NEW s \in Path, s # <<>>
    PROVE  /\ Front(s) \in Path
           /\ IsPrefix(Front(s), s)
           /\ Front(s) # s
           /\ \A t \in Path : IsPrefix(t, s) /\ t # s => IsPrefix(t, Front(s))
  <1>1. Len(s) \in Nat \ {0}
    BY DEF Path
  <1>2. Front(s) \in Path /\ Len(Front(s)) = Len(s) - 1
    BY <1>1 DEF Front, Path
  <1>3. \A i \in 1 .. Len(s) - 1 : Front(s)[i] = s[i]
    BY <1>1 DEF Front, Path
  <1>4. IsPrefix(Front(s), s)
    BY <1>1, <1>2, <1>3, PrefixPointwise
  <1>5. ASSUME NEW t \in Path, IsPrefix(t, s), t # s
        PROVE  IsPrefix(t, Front(s))
    <2>1. Len(t) \in Nat /\ Len(t) <= Len(s) /\ \A i \in 1 .. Len(t) : t[i] = s[i]
      BY <1>5, PrefixPointwise DEF Path
    <2>2. Len(t) # Len(s)
      BY <2>1, <1>5, PrefixPointwise, PrefixAntisymmetric
    <2>. QED
      BY <1>1, <1>2, <1>3, <2>1, <2>2, PrefixPointwise
  <1>. QED
    BY <1>1, <1>2, <1>4, <1>5

LEMMA ConcatIsBelow ==
    ASSUME NEW s \in Path, NEW t \in Path, t # <<>>
    PROVE  s \o t \in Path /\ Below(s \o t, s)
  <1>1. /\ s \o t \in Path /\ Len(s \o t) = Len(s) + Len(t)
        /\ Len(s) \in Nat /\ Len(t) \in Nat \ {0}
        /\ \A i \in 1 .. Len(s) : (s \o t)[i] = s[i]
    BY DEF Path
  <1>2. IsPrefix(s, s \o t)
    <2>. DEFINE u == s \o t
    <2>1. u \in Path /\ Len(s) <= Len(u) /\ \A i \in 1 .. Len(s) : s[i] = u[i]
      BY <1>1
    <2>. HIDE DEF u
    <2>2. IsPrefix(s, u)
      BY <2>1, PrefixPointwise
    <2>. QED
      BY <2>2 DEF u
  <1>3. s # s \o t
    BY <1>1
  <1>. QED
    BY <1>1, <1>2, <1>3 DEF Below, IsStrictPrefix

-----------------------------------------------------------------------------
(* What the gate looks up in an accepted input is there.  In particular    *)
(* there is a last one of the workspaces with the same id.                 *)
LEMMA LastOf ==
    ASSUME NEW n \in Nat, NEW T, T \subseteq 1 .. n, T # {}
    PROVE  \E x \in T : \A y \in T : y <= x
  <1>. DEFINE down == {n - x : x \in T}
  <1>1. down \subseteq Nat /\ down # {}
    <2>1. \A x \in T : n - x \in Nat
      BY SMT
    <2>. QED
      BY <2>1
  <1>2. \E d \in down : \A e \in down : ~ (<<e, d>> \in OpToRel(<, Nat))
    <2>. HIDE DEF down
    <2>. QED
      BY <1>1, NatLessThanWellFounded, WFMin
  <1>3. PICK d \in down : \A e \in down : ~ (e < d)
    <2>1. PICK d \in down : \A e \in down : ~ (<<e, d>> \in OpToRel(<, Nat))
      BY <1>2
    <2>2. \A e \in down : e < d => <<e, d>> \in OpToRel(<, Nat)
      BY <1>1 DEF OpToRel
    <2>. QED
      BY <2>1, <2>2
  <1>4. PICK x \in T : d = n - x
    OBVIOUS
  <1>5. \A y \in T : ~ (n - y < n - x)
    BY <1>3, <1>4
  <1>. HIDE DEF down
  <1>6. \A y \in T : y \in Int
    OBVIOUS
  <1>7. \A y \in T : y <= x
    BY <1>5, <1>6
  <1>. QED
    BY <1>7

LEMMA RequestIsOneOf ==
    ASSUME NEW in \in Inputs, InputAccepted(in), NEW c \in Approved(in)
    PROVE  RequestOf(in, c) \in Request
  <1>1. in.requests \in Seq(Request)
    BY GateAssumption
  <1>2. \E i \in DOMAIN in.requests : SlugOf(in.requests[i]) = c
    BY DEF InputAccepted, SlugsOf
  <1>. QED
    BY <1>1, <1>2 DEF RequestOf

LEMMA WorkspaceIsOneOf ==
    ASSUME NEW in \in Inputs, InputAccepted(in), NEW c \in Approved(in)
    PROVE  WorkspaceOf(in, c) \in Workspace
  <1>. DEFINE ws == in.workspaces
  <1>1. ws \in Seq(Workspace) /\ Len(ws) \in Nat /\ DOMAIN ws = 1 .. Len(ws)
    BY GateAssumption
  <1>2. PICK i \in DOMAIN ws : SlugOf(ws[i]) = c
    BY DEF InputAccepted, SlugsOf
  <1>. DEFINE T == {j \in DOMAIN ws : ws[j].id = ws[i].id}
  <1>3. PICK last \in T : \A j \in T : j <= last
    BY <1>1, <1>2, LastOf
  <1>4. last \in Effective(ws) /\ SlugOf(ws[last]) = c
    BY <1>2, <1>3 DEF Effective, SlugOf
  <1>. QED
    BY <1>1, <1>4 DEF WorkspaceOf, Effective

-----------------------------------------------------------------------------
(***************************************************************************)
(* What of a preview does not depend on the project, and what the host     *)
(* input says it is.                                                       *)
(***************************************************************************)
Lasting(v) == [cluster |-> v.cluster, root |-> v.root, targets |-> v.targets,
               baseline |-> v.baseline, commands |-> v.commands]

AsRequested(in, c) ==
    [cluster |-> c, root |-> WorkspaceOf(in, c).root,
     targets |-> Absolute(WorkspaceOf(in, c).root, RequestOf(in, c).targets),
     baseline |-> Absolute(WorkspaceOf(in, c).root, WorkspaceOf(in, c).dirty),
     commands |-> RequestOf(in, c).commands]

(* The input can be previewed if no part of a path is a link. *)
Previewable(in, c) ==
    /\ ~ WorkspaceOf(in, c).conflicted
    /\ \A path \in WorkspaceOf(in, c).dirty \cup RequestOf(in, c).targets : path # <<>>
    /\ RequestOf(in, c).targets # {} /\ RequestOf(in, c).commands # {}

(***************************************************************************)
(* What the human saw stays the gate's measure: a preview built again is   *)
(* the one consented to, but for which of its targets are directories; the *)
(* previews do not overlap; a fixer stays in its workspace; and one that   *)
(* has been validated has changed nothing outside its targets.             *)
(***************************************************************************)
Agreement ==
    /\ input = None =>
          consented = {} /\ validated = {} /\ changed = [c \in Clusters |-> {}]
    /\ input # None =>
          /\ InputAccepted(input)
          /\ \A c \in Approved(input) :
                Previewable(input, c) /\ \E v \in consented : v.cluster = c
          /\ validated \subseteq Approved(input)
          /\ \A v \in consented :
                /\ v.cluster \in Approved(input)
                /\ Lasting(v) = AsRequested(input, v.cluster)
                /\ v.dirs \subseteq v.targets \cap Paths
                /\ \A path \in changed[v.cluster] : Below(path, v.root)
                /\ v.cluster \in validated =>
                      \A path \in changed[v.cluster] \ v.baseline :
                          \E t \in v.targets : IsPrefix(t, path)
          /\ \A v, w \in consented : v.cluster = w.cluster => v = w
          /\ \A v, w \in consented : v # w => ~ Overlap(v, w)

IInv == TypeOK /\ Agreement
-----------------------------------------------------------------------------
LEMMA PreviewFields ==
    ASSUME NEW in \in Inputs, InputAccepted(in), NEW c \in Approved(in)
    PROVE  LET v == Preview(in, c)
               r == RequestOf(in, c)
               w == WorkspaceOf(in, c)
           IN  /\ v.cluster = c /\ v.root = w.root /\ v.commands = r.commands
               /\ v.targets = Absolute(w.root, r.targets)
               /\ v.baseline = Absolute(w.root, w.dirty)
               /\ v.dirs = {t \in v.targets : t \in Paths /\ tree[t] = "dir"}
               /\ w.root \in Paths /\ r.targets \subseteq Path /\ w.dirty \subseteq Path
               /\ c \in Clusters
  <1>1. RequestOf(in, c) \in Request /\ WorkspaceOf(in, c) \in Workspace
    BY RequestIsOneOf, WorkspaceIsOneOf
  <1>2. c \in Clusters
    BY GateAssumption DEF Approved, Clusters
  <1>. QED
    BY <1>1, <1>2 DEF Preview, Request, Workspace, Path

(* But for the directories, a preview does not depend on the project. *)
LEMMA PreviewIsAsRequested ==
    ASSUME NEW in \in Inputs, NEW c
    PROVE  Lasting(Preview(in, c)) = AsRequested(in, c)
BY DEF Lasting, Preview, AsRequested

LEMMA TargetsArePaths ==
    ASSUME IInv, input # None, NEW v \in consented
    PROVE  /\ v.root \in Path /\ v.targets \subseteq Path /\ v.baseline \subseteq Path
           /\ \A path \in v.baseline : Below(path, v.root)
  <1>1. input \in Inputs /\ InputAccepted(input) /\ v.cluster \in Approved(input)
        /\ Lasting(v) = AsRequested(input, v.cluster)
        /\ Previewable(input, v.cluster)
    BY DEF IInv, TypeOK, Agreement
  <1>. DEFINE r == RequestOf(input, v.cluster)
              w == WorkspaceOf(input, v.cluster)
  <1>2. /\ v.root = w.root /\ v.targets = Absolute(w.root, r.targets)
        /\ v.baseline = Absolute(w.root, w.dirty)
        /\ w.root \in Path /\ r.targets \subseteq Path /\ w.dirty \subseteq Path
    BY <1>1, PreviewFields, GateAssumption DEF Lasting, AsRequested, Path
  <1>3. \A path \in w.dirty \cup r.targets :
           w.root \o path \in Path /\ Below(w.root \o path, w.root)
    BY <1>1, <1>2, ConcatIsBelow DEF Previewable
  <1>. QED
    BY <1>2, <1>3 DEF Absolute

LEMMA ConsentedIsUnique ==
    ASSUME IInv, input # None, NEW v \in consented
    PROVE  ConsentedTo(v.cluster) = v
BY DEF IInv, Agreement, ConsentedTo

-----------------------------------------------------------------------------
(* Every step keeps the agreement. *)
LEMMA InitInv == ASSUME Init PROVE IInv
BY GateAssumption DEF Init, IInv, TypeOK, Agreement, Clusters

LEMMA ConsentInv ==
    ASSUME IInv, Consent
    PROVE  IInv'
  <1>1. PICK in \in Inputs : PreviewsHold(in) /\ input' = in /\ consented' = Previews(in)
    BY DEF Consent
  <1>2. input = None /\ UNCHANGED <<tree, changed, writes, validated>>
    BY DEF Consent
  <1>3. InputAccepted(in) /\ in # None
    BY <1>1, GateAssumption DEF PreviewsHold
  <1>4. \A c \in Approved(in) :
          /\ Preview(in, c).cluster = c /\ c \in Clusters /\ Preview(in, c).root \in Paths
          /\ Preview(in, c).dirs \subseteq Preview(in, c).targets \cap Paths
    BY <1>3, PreviewFields
  <1>5. \A v \in consented' : v.cluster \in Approved(in) /\ v = Preview(in, v.cluster)
    BY <1>1, <1>4 DEF Previews
  <1>6. TypeOK'
    BY <1>1, <1>2, <1>4, <1>5 DEF IInv, TypeOK, Agreement, Clusters, Rooted
  <1>7. \A c \in Approved(in) : Previewable(in, c)
    BY <1>1 DEF PreviewsHold, PreviewBuilds, PathsAccepted, Previewable
  <1>8. validated = {} /\ \A c \in Approved(in) : changed[c] = {}
    BY <1>2, <1>4 DEF IInv, Agreement
  <1>9. \A v, w \in consented' : v # w => ~ Overlap(v, w)
    BY <1>1 DEF PreviewsHold
  <1>10. \A c \in Approved(in) : \E v \in consented' : v.cluster = c
    BY <1>1, <1>4 DEF Previews
  <1>11. \A v \in consented' : Lasting(v) = AsRequested(in, v.cluster)
    BY <1>5, PreviewIsAsRequested
  <1>. QED
    BY <1>1, <1>2, <1>3, <1>4, <1>5, <1>6, <1>7, <1>8, <1>9, <1>10, <1>11
    DEF IInv, Agreement
(* A fixer that is not validated yet works in its own workspace. *)
LEMMA FixInv ==
    ASSUME IInv, input # None, NEW c \in Approved(input) \ validated, NEW p,
           NEW after \in [Paths -> Kinds], Rooted(after),
           NEW touched \in SUBSET Paths,
           \A q \in touched : Below(q, WorkspaceOf(input, c).root),
           Fix(c, p, after, touched)
    PROVE  IInv'
  <1>1. /\ writes < MaxWrites /\ writes' = writes + 1 /\ tree' = after
        /\ changed' = [changed EXCEPT ![c] = @ \cup touched]
        /\ UNCHANGED <<input, consented, validated>>
    BY DEF Fix
  <1>2. TypeOK'
    <2>1. changed' \in [Clusters -> SUBSET Paths]
      BY <1>1 DEF IInv, TypeOK
    <2>2. writes' \in 0 .. MaxWrites
      BY <1>1, GateAssumption DEF IInv, TypeOK
    <2>3. tree' \in [Paths -> Kinds] /\ Rooted(tree')
      BY <1>1
    <2>. QED
      BY <1>1, <2>1, <2>2, <2>3 DEF IInv, TypeOK, Rooted
  <1>3. ASSUME NEW v \in consented
        PROVE  /\ \A path \in changed'[v.cluster] : Below(path, v.root)
               /\ v.cluster \in validated => changed'[v.cluster] = changed[v.cluster]
    <2>1. v.cluster \in Clusters /\ v.root = WorkspaceOf(input, v.cluster).root
          /\ \A path \in changed[v.cluster] : Below(path, v.root)
      BY DEF IInv, TypeOK, Agreement, Lasting, AsRequested
    <2>2. CASE v.cluster = c
      BY <1>1, <2>1, <2>2 DEF IInv, TypeOK
    <2>3. CASE v.cluster # c
      BY <1>1, <2>1, <2>3 DEF IInv, TypeOK
    <2>. QED
      BY <2>2, <2>3
  <1>4. Agreement'
    BY <1>1, <1>3 DEF IInv, Agreement
  <1>. QED
    BY <1>2, <1>4 DEF IInv

LEMMA WriteInv ==
    ASSUME IInv, input # None, NEW c \in Approved(input) \ validated, Write(c)
    PROVE  IInv'
  <1>1. PICK p \in Writable(c), kind \in {"file", "dir", "link"} :
          /\ tree[p] # "dir" /\ tree[Front(p)] = "dir"
          /\ Fix(c, p, [tree EXCEPT ![p] = kind], {p})
    BY DEF Write
  <1>2. p \in Paths /\ p \in Path /\ Below(p, WorkspaceOf(input, c).root)
    BY GateAssumption DEF Writable, Path
  <1>. DEFINE after == [tree EXCEPT ![p] = kind]
  <1>3. after \in [Paths -> Kinds]
    BY DEF IInv, TypeOK, Kinds
  <1>4. Rooted(after)
    <2>. SUFFICES ASSUME NEW q \in Paths, after[q] # "absent", Front(q) \in Paths
                  PROVE  after[Front(q)] = "dir"
      BY DEF Rooted
    <2>1. CASE q = p
      BY <1>1, <2>1 DEF IInv, TypeOK
    <2>2. CASE q # p
      BY <1>1, <2>2 DEF IInv, TypeOK, Rooted
    <2>. QED
      BY <2>1, <2>2
  <1>5. Fix(c, p, after, {p}) /\ {p} \in SUBSET Paths
        /\ \A q \in {p} : Below(q, WorkspaceOf(input, c).root)
    BY <1>1, <1>2
  <1>. HIDE DEF after
  <1>. QED
    BY <1>3, <1>4, <1>5, FixInv

LEMMA DeleteInv ==
    ASSUME IInv, input # None, NEW c \in Approved(input) \ validated, Delete(c)
    PROVE  IInv'
  <1>. DEFINE Gone(p) == {q \in Paths : IsPrefix(p, q) /\ tree[q] # "absent"}
              After(p) == [q \in Paths |-> IF q \in Gone(p) THEN "absent" ELSE tree[q]]
  <1>1. PICK p \in Writable(c) : tree[p] # "absent" /\ Fix(c, p, After(p), Gone(p))
    BY DEF Delete
  <1>2. p \in Path /\ Below(p, WorkspaceOf(input, c).root) /\ WorkspaceOf(input, c).root \in Path
    BY GateAssumption, PreviewFields DEF Writable, Path, IInv, TypeOK, Agreement
  <1>3. After(p) \in [Paths -> Kinds]
    BY DEF IInv, TypeOK, Kinds
  <1>4. \A q \in Gone(p) : Below(q, WorkspaceOf(input, c).root)
    <2>. SUFFICES ASSUME NEW q \in Gone(p)
                  PROVE  Below(q, WorkspaceOf(input, c).root)
      OBVIOUS
    <2>1. q \in Path /\ IsPrefix(p, q)
      BY GateAssumption DEF Path
    <2>2. IsPrefix(WorkspaceOf(input, c).root, q)
      BY <1>2, <2>1, PrefixTransitive DEF Below, IsStrictPrefix
    <2>3. WorkspaceOf(input, c).root # q
      BY <1>2, <2>1, PrefixAntisymmetric DEF Below, IsStrictPrefix
    <2>. QED
      BY <2>2, <2>3 DEF Below, IsStrictPrefix
  <1>5. Rooted(After(p))
    <2>. SUFFICES ASSUME NEW q \in Paths, After(p)[q] # "absent", Front(q) \in Paths
                  PROVE  After(p)[Front(q)] = "dir"
      BY DEF Rooted
    <2>1. q \in Path /\ q \notin Gone(p) /\ tree[q] # "absent" /\ ~ IsPrefix(p, q)
      BY GateAssumption DEF Path
    <2>2. tree[Front(q)] = "dir"
      BY <2>1 DEF IInv, TypeOK, Rooted
    <2>3. ~ IsPrefix(p, Front(q))
      <3>1. CASE q = <<>>
        <4>1. Front(q) = q
          BY <3>1 DEF Front
        <4>. QED
          BY <4>1, <2>1
      <3>2. CASE q # <<>>
        BY <3>2, <1>2, <2>1, FrontIsPrefix, PrefixTransitive
      <3>. QED
        BY <3>1, <3>2
    <2>. QED
      BY <2>2, <2>3
  <1>6. Gone(p) \in SUBSET Paths
    OBVIOUS
  <1>. HIDE DEF Gone, After
  <1>. QED
    BY <1>1, <1>3, <1>4, <1>5, <1>6, FixInv

LEMMA ValidateInv ==
    ASSUME IInv, Validate
    PROVE  IInv'
  <1>1. PICK cs \in SUBSET Approved(input) \ {{}} :
          /\ \A c \in cs : \E reported \in Reports(c), output \in Outputs :
                ProofHolds(Preview(input, c), [reported |-> reported, output |-> output])
          /\ validated' = validated \cup cs
    BY DEF Validate
  <1>2. input # None /\ UNCHANGED <<tree, input, consented, changed, writes>>
    BY DEF Validate
  <1>3. ASSUME NEW v \in consented, v.cluster \in cs,
               NEW path \in changed[v.cluster] \ v.baseline
        PROVE  \E t \in v.targets : IsPrefix(t, path)
    <2>. DEFINE w == Preview(input, v.cluster)
    <2>1. input \in Inputs /\ InputAccepted(input) /\ v.cluster \in Approved(input)
          /\ Lasting(v) = Lasting(w) /\ v.cluster \in Clusters
      BY <1>2, PreviewIsAsRequested DEF IInv, TypeOK, Agreement
    <2>2. w.targets = v.targets /\ w.baseline = v.baseline
          /\ w.dirs \subseteq w.targets
      BY <2>1, PreviewFields DEF Lasting
    <2>3. path \in Path /\ v.targets \subseteq Path
      BY <1>2, <2>1, TargetsArePaths, GateAssumption DEF IInv, TypeOK, Path
    <2>4. \A reported \in Reports(v.cluster) : path \in reported
      BY DEF Reports
    <2>5. path \in w.baseline \/ InScope(w, path)
      BY <1>1, <1>3, <2>4 DEF ProofHolds
    <2>6. CASE path \in w.targets
      BY <2>2, <2>3, <2>6, PrefixReflexive
    <2>7. CASE \E d \in w.dirs : Below(path, d)
      BY <2>2, <2>7 DEF Below, IsStrictPrefix
    <2>. QED
      BY <2>2, <2>5, <2>6, <2>7 DEF InScope
  <1>4. TypeOK'
    <2>1. \A c \in cs : \E v \in consented : v.cluster = c
      BY <1>2 DEF IInv, Agreement
    <2>. QED
      BY <1>1, <1>2, <2>1 DEF IInv, TypeOK, Rooted
  <1>5. Agreement'
    BY <1>1, <1>2, <1>3 DEF IInv, Agreement
  <1>. QED
    BY <1>4, <1>5 DEF IInv

(* The previews the human saw stay the measure of every later invocation. *)
THEOREM Invariance == Spec => []IInv
  <1>1. Init => IInv
    BY InitInv
  <1>2. IInv /\ [Next]_vars => IInv'
    <2>. SUFFICES ASSUME IInv, [Next]_vars
                  PROVE  IInv'
      OBVIOUS
    <2>1. CASE Consent
      BY <2>1, ConsentInv
    <2>2. CASE input # None /\ \E c \in Approved(input) \ validated : Write(c) \/ Delete(c)
      BY <2>2, WriteInv, DeleteInv
    <2>3. CASE Validate
      BY <2>3, ValidateInv
    <2>4. CASE UNCHANGED vars
      BY <2>4 DEF vars, IInv, TypeOK, Agreement, Rooted
    <2>. QED
      BY <2>1, <2>2, <2>3, <2>4 DEF Next
  <1>. QED
    BY <1>1, <1>2, PTL DEF Spec
-----------------------------------------------------------------------------
(* Types, and a tree without a file inside a file. *)
THEOREM TypeCorrect == Spec => []TypeOK
BY Invariance, PTL DEF IInv

LEMMA KeptToTargets ==
    ASSUME IInv
    PROVE  ChangesUnderTargets
  <1>. SUFFICES ASSUME NEW c \in validated, NEW path \in NewPaths(c)
                PROVE  \E t \in ConsentedTo(c).targets : IsPrefix(t, path)
    BY DEF ChangesUnderTargets
  <1>1. input # None
    BY DEF IInv, Agreement
  <1>2. PICK v \in consented : v.cluster = c
    BY <1>1 DEF IInv, Agreement
  <1>3. ConsentedTo(c) = v
    BY <1>1, <1>2, ConsentedIsUnique
  <1>. QED
    BY <1>1, <1>2, <1>3 DEF NewPaths, IInv, Agreement

(***************************************************************************)
(* A validated fixer has kept to the targets the human saw, whatever the   *)
(* project, the roots and the targets are and however the fixers           *)
(* interleave with the invocations that judge them.                        *)
(***************************************************************************)
THEOREM TargetsKept == Spec => []ChangesUnderTargets
BY Invariance, KeptToTargets, PTL

LEMMA DisjointChanges ==
    ASSUME IInv
    PROVE  ChangesHaveOneOwner
  <1>. SUFFICES ASSUME NEW c \in validated, NEW d \in validated, c # d,
                       NEW path \in NewPaths(c), path \in NewPaths(d)
                PROVE  FALSE
    BY DEF ChangesHaveOneOwner
  <1>1. input # None
    BY DEF IInv, Agreement
  <1>2. PICK v \in consented : v.cluster = c
    BY <1>1 DEF IInv, Agreement
  <1>3. PICK w \in consented : w.cluster = d
    BY <1>1 DEF IInv, Agreement
  <1>4. ConsentedTo(c) = v /\ ConsentedTo(d) = w
    BY <1>1, <1>2, <1>3, ConsentedIsUnique
  <1>5. PICK s \in v.targets : IsPrefix(s, path)
    BY <1>4, KeptToTargets DEF ChangesUnderTargets
  <1>6. PICK t \in w.targets : IsPrefix(t, path)
    BY <1>4, KeptToTargets DEF ChangesUnderTargets
  <1>7. path \in Path /\ s \in Path /\ t \in Path
    BY <1>1, <1>2, TargetsArePaths, GateAssumption DEF NewPaths, IInv, TypeOK, Path
  <1>8. Overlap(v, w)
    BY <1>5, <1>6, <1>7, PrefixesComparable DEF Overlap
  <1>. QED
    BY <1>1, <1>2, <1>3, <1>8 DEF IInv, Agreement

(***************************************************************************)
(* No two validated fixers account for the same new change: scopes that    *)
(* do not overlap when the human agrees never come to overlap.             *)
(***************************************************************************)
THEOREM OneOwner == Spec => []ChangesHaveOneOwner
BY Invariance, DisjointChanges, PTL

LEMMA HonestProofsHold ==
    ASSUME IInv
    PROVE  GoodProofsAccepted
  <1>. SUFFICES ASSUME input # None, \A p \in Paths : tree[p] # "link",
                       \A c \in Approved(input) : WellBehaved(c)
                PROVE  /\ PreviewsHold(input)
                       /\ \A c \in Approved(input) :
                             \A reported \in Reports(c), output \in Outputs :
                                OutputAccepted(ConsentedTo(c), output) =>
                                   ProofHolds(Preview(input, c),
                                              [reported |-> reported, output |-> output])
    BY DEF GoodProofsAccepted
  <1>1. input \in Inputs /\ InputAccepted(input)
    BY DEF IInv, TypeOK, Agreement
  <1>2. ASSUME NEW c \in Approved(input)
        PROVE  \E v \in consented : v.cluster = c /\ ConsentedTo(c) = v
                                    /\ Lasting(v) = Lasting(Preview(input, c))
    BY ConsentedIsUnique, <1>1, PreviewIsAsRequested DEF IInv, Agreement
  <1>3. PreviewsHold(input)
    <2>1. ASSUME NEW c \in Approved(input) PROVE PreviewBuilds(input, c)
      BY <2>1 DEF IInv, Agreement, Previewable, PreviewBuilds, PathsAccepted, Plain
    <2>2. ASSUME NEW v \in Previews(input), NEW w \in Previews(input), v # w
          PROVE  ~ Overlap(v, w)
      <3>1. PICK c \in Approved(input) : v = Preview(input, c)
        BY DEF Previews
      <3>2. PICK d \in Approved(input) : w = Preview(input, d)
        BY DEF Previews
      <3>3. PICK x \in consented : x.cluster = c /\ Lasting(x) = Lasting(v)
        BY <3>1, <1>2
      <3>4. PICK y \in consented : y.cluster = d /\ Lasting(y) = Lasting(w)
        BY <3>2, <1>2
      <3>5. x # y /\ x.targets = v.targets /\ y.targets = w.targets
        BY <2>2, <3>1, <3>2, <3>3, <3>4 DEF Lasting
      <3>. QED
        BY <3>5 DEF IInv, Agreement, Overlap
    <2>. QED
      BY <1>1, <2>1, <2>2 DEF PreviewsHold
  <1>4. ASSUME NEW c \in Approved(input), NEW reported \in Reports(c),
               NEW output \in Outputs, OutputAccepted(ConsentedTo(c), output)
        PROVE  ProofHolds(Preview(input, c), [reported |-> reported, output |-> output])
    <2>. DEFINE w == Preview(input, c)
    <2>1. PICK v \in consented : /\ v.cluster = c /\ ConsentedTo(c) = v
                                 /\ Lasting(v) = Lasting(w)
      BY <1>2
    <2>2. /\ w.root = v.root /\ w.targets = v.targets /\ w.baseline = v.baseline
          /\ w.commands = v.commands
      BY <2>1 DEF Lasting
    <2>3. OutputAccepted(w, output)
      BY <1>4, <2>1, <2>2 DEF OutputAccepted
    <2>4. \A d \in v.dirs : d \in w.dirs
      BY <1>1, <2>1, <2>2, PreviewFields DEF WellBehaved, IInv, Agreement
    <2>5. ASSUME NEW path \in reported
          PROVE  /\ Below(path, w.root)
                 /\ Plain(w.root, SubSeq(path, Len(w.root) + 1, Len(path)))
                 /\ path \in w.baseline \/ InScope(w, path)
      <3>1. path \in changed[c] \/ path \in w.baseline
        BY DEF Reports
      <3>2. Below(path, w.root)
        BY <2>1, <2>2, <3>1, TargetsArePaths DEF IInv, Agreement
      <3>3. Plain(w.root, SubSeq(path, Len(w.root) + 1, Len(path)))
        BY DEF Plain
      <3>4. path \in w.baseline \/ InScope(w, path)
        BY <2>1, <2>2, <2>4, <3>1 DEF WellBehaved, NewPaths, InScope
      <3>. QED
        BY <3>2, <3>3, <3>4
    <2>. HIDE DEF w
    <2>6. ProofHolds(w, [reported |-> reported, output |-> output])
      BY <2>3, <2>5 DEF ProofHolds
    <2>. QED
      BY <2>6 DEF w
  <1>. QED
    BY <1>3, <1>4

(***************************************************************************)
(* A fixer that kept to its preview, made no links and left the approved   *)
(* directories in place is never refused: the gate is sound and, for such  *)
(* fixers, complete.                                                       *)
(***************************************************************************)
THEOREM HonestFixersPass == Spec => []GoodProofsAccepted
BY Invariance, HonestProofsHold, PTL
=============================================================================
