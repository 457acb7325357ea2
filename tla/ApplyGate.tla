----------------------------- MODULE ApplyGate -----------------------------
(***************************************************************************)
(* The Apply gate: a human approves previews, fixers work on the project,  *)
(* and a later invocation judges their proofs (src/scripts/apply.py, and   *)
(* the Apply part of run_reflection in src/scripts/reflect_setup.py).      *)
(*                                                                         *)
(* The two invocations share no state.  The second one gets the same host  *)
(* input plus the proofs, and builds the previews again, on the project as *)
(* the fixers have left it.                                                *)
(*                                                                         *)
(* A path is a sequence of names from the root of the file system.  The    *)
(* paths of a request, a workspace or a proof are relative to a root.      *)
(***************************************************************************)
EXTENDS Naturals, FiniteSets, Sequences, SequencesExt

CONSTANTS
    Paths,          \* the paths of the projects, closed under parents
    Ids,            \* cluster ids as they are written
    Canonical,      \* the kebab slug of each, see _canonical_cluster_id
    Candidates,     \* the slugs of the ranked clusters
    Inputs,         \* host inputs, without proofs: records [approved,
                    \*   requests, workspaces] of sequences
    Trees,          \* the projects to start with
    Outputs,        \* verification outputs: sequences of <<command, result>>
    None,
    MaxWrites       \* bound on what the fixers do

Kinds == {"absent", "file", "dir", "link"}

Request == [id: Ids, targets: SUBSET Seq(STRING), commands: SUBSET STRING]
Workspace == [id: Ids, root: Paths, dirty: SUBSET Seq(STRING), conflicted: BOOLEAN]

(* What a path that is there lies in is a directory. *)
Rooted(t) == \A p \in Paths : t[p] # "absent" /\ Front(p) \in Paths => t[Front(p)] = "dir"

ASSUME GateAssumption ==
    /\ Paths \subseteq Seq(STRING)
    /\ Canonical \in [Ids -> STRING]
    /\ \A t \in Trees : t \in [Paths -> Kinds] /\ Rooted(t)
    /\ None \notin Inputs
    /\ \A in \in Inputs :
          /\ in.approved \in Seq(Ids)
          /\ in.requests \in Seq(Request) /\ in.workspaces \in Seq(Workspace)
    /\ MaxWrites \in Nat

VARIABLES
    tree,       \* what is at each path
    input,      \* the host input the human has consented to, or None
    consented,  \* the previews the human has seen
    changed,    \* history: per cluster, the paths its fixer has changed
    writes,     \* the number of changes made
    validated   \* the clusters whose proofs an invocation has accepted

vars == <<tree, input, consented, changed, writes, validated>>

Clusters == {Canonical[id] : id \in Ids}

TypeOK ==
    /\ tree \in [Paths -> Kinds]
    /\ Rooted(tree)
    /\ input \in Inputs \cup {None}
    /\ \A v \in consented : v.cluster \in Clusters /\ v.root \in Paths /\ v.dirs \subseteq v.targets
    /\ changed \in [Clusters -> SUBSET Paths]
    /\ writes \in 0..MaxWrites
    /\ validated \subseteq {v.cluster : v \in consented}

-----------------------------------------------------------------------------
(* The host input: _apply_inputs and the checks of run_reflection.         *)

SlugOf(x) == Canonical[x.id]
SlugsOf(s) == {SlugOf(s[i]) : i \in DOMAIN s}
NoTwoSlugs(s) == \A i, j \in DOMAIN s : SlugOf(s[i]) = SlugOf(s[j]) => i = j

Approved(in) == {Canonical[in.approved[i]] : i \in DOMAIN in.approved}
RequestOf(in, c) == in.requests[CHOOSE i \in DOMAIN in.requests : SlugOf(in.requests[i]) = c]

(* Workspaces pass through a dictionary keyed by the id as it is written:  *)
(* of two with the same id the last one stays.                             *)
Effective(workspaces) ==
    {i \in DOMAIN workspaces :
        \A j \in DOMAIN workspaces : workspaces[j].id = workspaces[i].id => j <= i}
WorkspaceOf(in, c) ==
    in.workspaces[CHOOSE i \in Effective(in.workspaces) : SlugOf(in.workspaces[i]) = c]

InputAccepted(in) ==
    /\ in.approved # <<>> /\ in.requests # <<>> /\ in.workspaces # <<>>
    /\ \A i, j \in DOMAIN in.approved :
          Canonical[in.approved[i]] = Canonical[in.approved[j]] => i = j
    /\ NoTwoSlugs(in.requests)
    /\ \A i, j \in Effective(in.workspaces) :
          SlugOf(in.workspaces[i]) = SlugOf(in.workspaces[j]) => i = j
    /\ Approved(in) \subseteq Candidates
    /\ SlugsOf(in.requests) = Approved(in)
    /\ SlugsOf(in.workspaces) = Approved(in)

-----------------------------------------------------------------------------
(* Previews: build_preview and check_scope_overlap.                        *)

Below(p, q) == IsStrictPrefix(q, p)

(* A path is taken as it is written, so no part of it may be a link.       *)
Plain(root, path) ==
    \A q \in Paths : Below(q, root) /\ IsPrefix(q, root \o path) => tree[q] # "link"

PathsAccepted(root, paths) == \A path \in paths : path # <<>> /\ Plain(root, path)

Absolute(root, paths) == {root \o path : path \in paths}

(* Mutant: what counts is whether there is a directory to write to. *)
PreviewOfParents(in, c) ==
    LET r == RequestOf(in, c)
        w == WorkspaceOf(in, c)
        targets == Absolute(w.root, r.targets)
    IN  [cluster |-> c, root |-> w.root, targets |-> targets,
         dirs |-> {Front(t) : t \in targets},
         baseline |-> Absolute(w.root, w.dirty), commands |-> r.commands]

Preview(in, c) ==
    LET r == RequestOf(in, c)
        w == WorkspaceOf(in, c)
        targets == Absolute(w.root, r.targets)
    IN  [cluster |-> c, root |-> w.root, targets |-> targets,
         dirs |-> {t \in targets : t \in Paths /\ tree[t] = "dir"},
         baseline |-> Absolute(w.root, w.dirty), commands |-> r.commands]

Previews(in) == {Preview(in, c) : c \in Approved(in)}

PreviewBuilds(in, c) ==
    LET r == RequestOf(in, c)
        w == WorkspaceOf(in, c)
    IN  /\ ~ w.conflicted
        /\ PathsAccepted(w.root, w.dirty) /\ PathsAccepted(w.root, r.targets)
        /\ r.targets # {} /\ r.commands # {}

(* Mutant: only equal targets overlap. *)
OverlapOfEqual(v, w) == v.targets \intersect w.targets # {}

Overlap(v, w) == \E p \in v.targets, q \in w.targets : IsPrefix(p, q) \/ IsPrefix(q, p)

PreviewsHold(in) ==
    /\ InputAccepted(in)
    /\ \A c \in Approved(in) : PreviewBuilds(in, c)
    /\ \A v, w \in Previews(in) : v # w => ~ Overlap(v, w)

-----------------------------------------------------------------------------
(* Proofs: validate_proof.  A proof is [reported, output].                 *)

(* Mutant: next to a target. *)
InScopeOfParent(v, path) == \E t \in v.targets : Below(path, Front(t))

InScope(v, path) == path \in v.targets \/ \E d \in v.dirs : Below(path, d)

(* Every declared command reports a literal PASS, once, and nothing failed. *)
OutputAccepted(v, output) ==
    /\ output # <<>>
    /\ \A i \in DOMAIN output : output[i][2] = "PASS" /\ output[i][1] \in v.commands
    /\ \A command \in v.commands : Cardinality({i \in DOMAIN output : output[i][1] = command}) = 1

(* Mutant: what was dirty before is not allowed for. *)
ProofHoldsWithoutBaseline(v, proof) ==
    /\ OutputAccepted(v, proof.output)
    /\ \A path \in proof.reported :
          /\ Below(path, v.root) /\ Plain(v.root, SubSeq(path, Len(v.root) + 1, Len(path)))
          /\ InScope(v, path)

ProofHolds(v, proof) ==
    /\ OutputAccepted(v, proof.output)
    /\ \A path \in proof.reported :
          /\ Below(path, v.root) /\ Plain(v.root, SubSeq(path, Len(v.root) + 1, Len(path)))
          /\ path \in v.baseline \/ InScope(v, path)

-----------------------------------------------------------------------------
Init ==
    /\ tree \in Trees
    /\ input = None /\ consented = {}
    /\ changed = [c \in Clusters |-> {}]
    /\ writes = 0
    /\ validated = {}

(* An invocation without proofs, and a human who agrees to what it shows. *)
Consent ==
    /\ input = None
    /\ \E in \in Inputs :
          /\ PreviewsHold(in)
          /\ input' = in
          /\ consented' = Previews(in)
    /\ UNCHANGED <<tree, changed, writes, validated>>

(* The fixer of an approved cluster does something in its workspace.  The  *)
(* roots themselves stay.                                                  *)
Writable(c) ==
    {p \in Paths : /\ Below(p, WorkspaceOf(input, c).root)
                   /\ \A v \in consented : ~ IsPrefix(p, v.root)}

Fix(c, p, after, touched) ==
    /\ writes < MaxWrites /\ writes' = writes + 1
    /\ tree' = after
    /\ changed' = [changed EXCEPT ![c] = @ \cup touched]
    /\ UNCHANGED <<input, consented, validated>>

Write(c) ==
    \E p \in Writable(c), kind \in {"file", "dir", "link"} :
        /\ tree[p] # "dir" /\ tree[Front(p)] = "dir"
        /\ Fix(c, p, [tree EXCEPT ![p] = kind], {p})

Delete(c) ==
    \E p \in Writable(c) :
        /\ tree[p] # "absent"
        /\ LET gone == {q \in Paths : IsPrefix(p, q) /\ tree[q] # "absent"}
           IN  Fix(c, p, [q \in Paths |-> IF q \in gone THEN "absent" ELSE tree[q]], gone)

(* What a host says it changed: the fixer's paths, or all that is dirty.   *)
Reports(c) == {changed[c], changed[c] \cup Preview(input, c).baseline}

(* An invocation with proofs, of all fixers or of the ones that are done:  *)
(* everything is checked again.  A rejection leaves things as they are.    *)
Validate ==
    /\ input # None
    /\ PreviewsHold(input)
    /\ \E cs \in SUBSET Approved(input) \ {{}} :
          /\ \A c \in cs : \E reported \in Reports(c), output \in Outputs :
                ProofHolds(Preview(input, c), [reported |-> reported, output |-> output])
          /\ validated' = validated \cup cs
    /\ UNCHANGED <<tree, input, consented, changed, writes>>

Next ==
    \/ Consent
    \/ /\ input # None
       /\ \E c \in Approved(input) \ validated : Write(c) \/ Delete(c)
    \/ Validate

Spec == Init /\ [][Next]_vars
-----------------------------------------------------------------------------
ConsentedTo(c) == CHOOSE v \in consented : v.cluster = c
NewPaths(c) == changed[c] \ ConsentedTo(c).baseline

(***************************************************************************)
(* No two validated proofs account for the same new change:                *)
(* approved scopes are disjoint whatever the roots and the targets are,    *)
(* and stay so while the fixers work side by side (check_scope_overlap and *)
(* validate_proof together; REFERENCE.md on Apply: "scope overlaps fail    *)
(* before any host execution").                                            *)
(***************************************************************************)
ChangesHaveOneOwner ==
    \A c, d \in validated : c # d => NewPaths(c) \intersect NewPaths(d) = {}

(***************************************************************************)
(* A validated fixer has kept to the targets the human saw: each of its    *)
(* new changes is one of them or lies below one, at whatever time the      *)
(* directories among them came to be.                                      *)
(***************************************************************************)
ChangesUnderTargets ==
    \A c \in validated : \A path \in NewPaths(c) :
        \E t \in ConsentedTo(c).targets : IsPrefix(t, path)

(***************************************************************************)
(* Fixers that keep to the previews the human saw, make no links and leave *)
(* the approved directories in place can always prove it, also to a gate   *)
(* that has nothing but their project, and also when their report names    *)
(* what was dirty before.                                                  *)
(***************************************************************************)
WellBehaved(c) ==
    /\ \A path \in NewPaths(c) : InScope(ConsentedTo(c), path)
    /\ \A t \in ConsentedTo(c).dirs : tree[t] = "dir"

GoodProofsAccepted ==
    input # None /\ (\A p \in Paths : tree[p] # "link")
                 /\ (\A c \in Approved(input) : WellBehaved(c)) =>
        /\ PreviewsHold(input)
        /\ \A c \in Approved(input) : \A reported \in Reports(c), output \in Outputs :
              OutputAccepted(ConsentedTo(c), output) =>
                  ProofHolds(Preview(input, c), [reported |-> reported, output |-> output])

=============================================================================
