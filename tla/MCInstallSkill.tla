--------------------------- MODULE MCInstallSkill ---------------------------
(* Two installers and a source of one file or link and no manifest, to start with. *)
EXTENDS InstallSkill, TLC

CONSTANTS old, new, first, second

At0(what) == [what |-> what, stamp |-> 0]

MCSources == {1 :> Absent @@ 2 :> At0(two) : two \in {FileLink, old, new}}

MCSymmetry == Permutations({first, second}) \cup Permutations({old, new})

=============================================================================
