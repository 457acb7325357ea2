---------------------------- MODULE InstallSkill ----------------------------
(***************************************************************************)
(* install_skill (src/scripts/runtime.py): one or more installers, a       *)
(* source directory that is being worked on, and one target.               *)
(*                                                                         *)
(* A source entry is Absent, or [what, stamp] with the content of a file,  *)
(* DirLink (a symbolic link to a directory) or FileLink (one to a file     *)
(* outside the source), and the time of its last change; no two changes    *)
(* have the same time.  A link to a file is scanned and checked as the     *)
(* file it points to, and copied as a link.  A hash stands for the         *)
(* contents it is made of.                                                 *)
(***************************************************************************)
EXTENDS Naturals, FiniteSets

CONSTANTS
    Names,          \* relative paths, numbered in sorted order
    ManifestName,   \* the path of .reflect-setup-source.json
    Contents,       \* contents of files
    DirLink,
    FileLink,
    Manifest,       \* what an installer's manifest is among the copied files
    Absent,
    Sources,        \* the source directories to start with
    Procs,          \* installers
    MaxEdits,       \* bound on the changes of the source
    MaxRuns         \* bound on the calls of install_skill

ASSUME InstallAssumption ==
    /\ Names \subseteq Nat /\ IsFiniteSet(Names)
    /\ {DirLink, FileLink, Manifest, Absent} \cap Contents = {}
    /\ DirLink # FileLink
    /\ MaxEdits \in Nat /\ MaxRuns \in Nat

(* What a source entry can be at the times in stamps. *)
EntriesAt(stamps) == [what: Contents \cup {DirLink, FileLink}, stamp: stamps] \cup {Absent}

ASSUME SourcesAssumption == Sources \subseteq [Names -> EntriesAt({0})]

VARIABLES
    source,     \* the source directory
    outside,    \* the file that links to files point to, [what, stamp]
    target,     \* the skill root: Absent, or [kind |-> "link" or "empty"], or
                \* [kind |-> "copy", files, manifest]
    staging,    \* per installer: its staging directory, or Absent
    pc,         \* per installer: what it does next
    mode,       \* per installer: "copy" or "symlink"
    todo,       \* per installer: the listed paths it has yet to visit
    seen,       \* per installer: the files of the scan in progress
    snapshot,   \* per installer: the files of its first scan
    found,      \* per installer: the files it has found in a copy in place
    edits,      \* the number of source changes made
    runs,       \* the number of calls made
    past,       \* history: the files the source has held, at one time each
    tampered,   \* history: the target was changed after its installation
    disturbed   \* history, per installer: the copy in place, or a file it links
                \* to, has changed since the installer began to check it

local == <<staging, pc, mode, todo, seen, snapshot, found>>
vars == <<source, outside, target, local, edits, runs, past, tampered, disturbed>>

-----------------------------------------------------------------------------
Exists(src) == {n \in Names : src[n] # Absent}

(* Mutant: a link to a directory passes for a file. *)
IsThere(entry) == entry # Absent

(* Path.is_file, which follows links. *)
IsFile(entry) == entry # Absent /\ entry.what # DirLink

(* What stat and open find behind an entry. *)
Behind(entry, out) == IF entry.what = FileLink THEN out ELSE entry

With(files, n, entry) == [m \in DOMAIN files \cup {n} |-> IF m = n THEN entry ELSE files[m]]

(* What a hash or the manifest keeps of scanned files. *)
Hashes(files) == [n \in DOMAIN files |-> files[n].what]

(* The files of a source directory, at one moment. *)
FilesOf(src, out) == [n \in {m \in Names : IsFile(src[m])} |-> Behind(src[n], out).what]

(* What a path of a copy, or of a staging directory, reads as. *)
ReadsAs(what) == IF what = FileLink THEN outside.what ELSE what

(* The files of a copy, its manifest apart, at one moment. *)
ManagedFiles(files) == [n \in DOMAIN files \ {ManifestName} |-> ReadsAs(files[n])]

TypeOK ==
    /\ source \in [Names -> EntriesAt(0..MaxEdits)]
    /\ outside \in [what: Contents, stamp: 0..MaxEdits]
    /\ pc \in [Procs -> {"idle", "scanning", "checking", "auditing", "linking", "staging",
                         "copying", "rescanning", "verifying", "installed", "rejected"}]
    /\ mode \in [Procs -> {"copy", "symlink"}]
    /\ disturbed \in [Procs -> BOOLEAN]
    /\ \A p \in Procs :
          /\ todo[p] \subseteq Names
          /\ \A files \in {seen[p], snapshot[p]} :
                /\ DOMAIN files \subseteq Names
                /\ \A n \in DOMAIN files : files[n].what \in Contents
          /\ staging[p] # Absent => DOMAIN staging[p] \subseteq Names
          /\ DOMAIN found[p] \subseteq Names
    /\ target # Absent =>
          /\ target.kind \in {"link", "empty", "copy"}
          /\ target.kind = "copy" => DOMAIN target.files \subseteq Names \cup {ManifestName}
    /\ edits \in 0..MaxEdits /\ runs \in 0..MaxRuns

Init ==
    /\ source \in Sources
    /\ outside \in [what: Contents, stamp: {0}]
    /\ target = Absent
    /\ staging = [p \in Procs |-> Absent]
    /\ pc = [p \in Procs |-> "idle"]
    /\ mode = [p \in Procs |-> "copy"]
    /\ todo = [p \in Procs |-> {}]
    /\ seen = [p \in Procs |-> <<>>] /\ snapshot = [p \in Procs |-> <<>>]
    /\ found = [p \in Procs |-> <<>>]
    /\ edits = 0 /\ runs = 0
    /\ past = {FilesOf(source, outside)}
    /\ tampered = FALSE
    /\ disturbed = [p \in Procs |-> FALSE]

-----------------------------------------------------------------------------
(* The installer.                                                          *)

Unshared == UNCHANGED <<source, outside, edits, past>>

(* The call ends; an exception removes the staging directory. *)
End(p, how) ==
    /\ pc' = [pc EXCEPT ![p] = how]
    /\ staging' = [staging EXCEPT ![p] = Absent]
    /\ todo' = [todo EXCEPT ![p] = {}]
    /\ seen' = [seen EXCEPT ![p] = <<>>] /\ snapshot' = [snapshot EXCEPT ![p] = <<>>]
    /\ found' = [found EXCEPT ![p] = <<>>]
    /\ disturbed' = [disturbed EXCEPT ![p] = FALSE]
    /\ UNCHANGED <<mode, runs>>

Start(p, m) ==
    /\ pc[p] \in {"idle", "installed", "rejected"}
    /\ runs < MaxRuns /\ runs' = runs + 1
    /\ pc' = [pc EXCEPT ![p] = "scanning"]
    /\ mode' = [mode EXCEPT ![p] = m]
    /\ todo' = [todo EXCEPT ![p] = Exists(source)]
    /\ UNCHANGED <<target, staging, seen, snapshot, found, tampered, disturbed>> /\ Unshared

(* _source_files, file by file in sorted order, in both scans. *)
Scan(p) ==
    /\ pc[p] \in {"scanning", "rescanning"} /\ todo[p] # {}
    /\ \E n \in todo[p] :
          /\ \A m \in todo[p] : n <= m
          /\ todo' = [todo EXCEPT ![p] = @ \ {n}]
          /\ seen' = IF IsFile(source[n])
                     THEN [seen EXCEPT ![p] = With(@, n, Behind(source[n], outside))] ELSE seen
    /\ UNCHANGED <<target, staging, pc, mode, snapshot, found, runs, tampered, disturbed>>
    /\ Unshared

ScanDone(p) ==
    /\ pc[p] = "scanning" /\ todo[p] = {}
    /\ snapshot' = [snapshot EXCEPT ![p] = seen[p]]
    /\ seen' = [seen EXCEPT ![p] = <<>>]
    /\ pc' = [pc EXCEPT ![p] = "checking"]
    /\ UNCHANGED <<target, staging, mode, todo, found, runs, tampered, disturbed>> /\ Unshared

(* Mutant: the manifest counts as a file of the copy. *)
EveryPath == DOMAIN target.files

(* _verify_installed_copy passes over the manifest's own path. *)
ManagedPaths == DOMAIN target.files \ {ManifestName}

(***************************************************************************)
(* The look at the target.  Of a managed copy it reads the manifest, which *)
(* must have the hash of this scan; the files are looked at one by one.    *)
(***************************************************************************)
CheckTarget(p) ==
    /\ pc[p] = "checking"
    /\ \/ /\ target = Absent
          /\ pc' = [pc EXCEPT ![p] = IF mode[p] = "symlink" THEN "linking" ELSE "staging"]
          /\ UNCHANGED <<staging, mode, todo, seen, snapshot, found, disturbed, runs>>
       \/ /\ target # Absent /\ mode[p] = "copy" /\ target.kind = "copy"
          /\ target.manifest = Hashes(snapshot[p])
          /\ pc' = [pc EXCEPT ![p] = "auditing"]
          /\ todo' = [todo EXCEPT ![p] = ManagedPaths]
          /\ UNCHANGED <<staging, mode, seen, snapshot, found, disturbed, runs>>
       \/ /\ target # Absent /\ mode[p] = "symlink"
          /\ End(p, IF target.kind = "link" THEN "installed" ELSE "rejected")
       \/ /\ target # Absent /\ mode[p] = "copy"
          /\ target.kind = "copy" => target.manifest # Hashes(snapshot[p])
          /\ End(p, "rejected")
    /\ UNCHANGED <<target, tampered>> /\ Unshared

(* What is at the target, whose place others may have taken. *)
FilesAtTarget ==
    IF target = Absent \/ target.kind = "empty" THEN <<>>
    ELSE IF target.kind = "link" THEN [n \in Exists(source) |-> source[n].what]
    ELSE target.files

(* _verify_installed_copy hashes the listed paths; one that is gone is missing. *)
Rehash(p) ==
    /\ pc[p] = "auditing"
    /\ \E n \in todo[p] :
          /\ todo' = [todo EXCEPT ![p] = @ \ {n}]
          /\ found' = IF n \in DOMAIN FilesAtTarget
                      THEN [found EXCEPT ![p] = With(@, n, ReadsAs(FilesAtTarget[n]))] ELSE found
    /\ UNCHANGED <<target, staging, pc, mode, seen, snapshot, runs, tampered, disturbed>>
    /\ Unshared

(* Mutant: a file too many is let pass. *)
NothingMissing(p) ==
    \A n \in DOMAIN snapshot[p] : n \in DOMAIN found[p] /\ found[p][n] = snapshot[p][n].what

(* Neither missing nor mismatched nor extra. *)
AsListed(p) == NothingMissing(p) /\ DOMAIN found[p] \subseteq DOMAIN snapshot[p]

RehashDone(p) ==
    /\ pc[p] = "auditing" /\ todo[p] = {}
    /\ End(p, IF AsListed(p) THEN "installed" ELSE "rejected")
    /\ UNCHANGED <<target, tampered>> /\ Unshared

(* symlink_to fails when something has appeared at the target. *)
Link(p) ==
    /\ pc[p] = "linking"
    /\ IF target = Absent
       THEN /\ target' = [kind |-> "link"]
            /\ tampered' = FALSE
            /\ End(p, "installed")
       ELSE End(p, "rejected") /\ UNCHANGED <<target, tampered>>
    /\ Unshared

(* mkdtemp, and the listing of copytree. *)
Stage(p) ==
    /\ pc[p] = "staging"
    /\ staging' = [staging EXCEPT ![p] = <<>>]
    /\ todo' = [todo EXCEPT ![p] = Exists(source)]
    /\ pc' = [pc EXCEPT ![p] = "copying"]
    /\ UNCHANGED <<target, mode, seen, snapshot, found, runs, tampered, disturbed>> /\ Unshared

(* copytree copies files, and links as links; a listed path that is gone is an error. *)
Copy(p) ==
    /\ pc[p] = "copying"
    /\ \E n \in todo[p] :
          IF source[n] = Absent THEN End(p, "rejected")
          ELSE /\ staging' = [staging EXCEPT ![p] = With(@, n, source[n].what)]
               /\ todo' = [todo EXCEPT ![p] = @ \ {n}]
               /\ UNCHANGED <<pc, mode, seen, snapshot, found, runs, disturbed>>
    /\ UNCHANGED <<target, tampered>> /\ Unshared

(* Mutant: the copy is not verified. *)
CopyTrusted(p) ==
    /\ pc[p] = "copying" /\ todo[p] = {}
    /\ pc' = [pc EXCEPT ![p] = "verifying"]
    /\ UNCHANGED <<target, staging, mode, todo, seen, snapshot, found, runs, tampered, disturbed>>
    /\ Unshared

CopyDone(p) ==
    /\ pc[p] = "copying" /\ todo[p] = {}
    /\ pc' = [pc EXCEPT ![p] = "rescanning"]
    /\ todo' = [todo EXCEPT ![p] = Exists(source)]
    /\ UNCHANGED <<target, staging, mode, seen, snapshot, found, runs, tampered, disturbed>>
    /\ Unshared

(* _verify_snapshot_copy: first the second scan, which must find every file *)
(* as it was, with the same time of change ...                              *)
RescanDone(p) ==
    /\ pc[p] = "rescanning" /\ todo[p] = {}
    /\ IF seen[p] = snapshot[p]
       THEN /\ pc' = [pc EXCEPT ![p] = "verifying"]
            /\ todo' = [todo EXCEPT ![p] = DOMAIN snapshot[p]]
            /\ UNCHANGED <<staging, mode, seen, snapshot, found, disturbed, runs>>
       ELSE End(p, "rejected")
    /\ UNCHANGED <<target, tampered>> /\ Unshared

(* ... then the copies, file by file. *)
Verify(p) ==
    /\ pc[p] = "verifying"
    /\ \E n \in todo[p] :
          /\ \A m \in todo[p] : n <= m
          /\ IF n \in DOMAIN staging[p] /\ ReadsAs(staging[p][n]) = snapshot[p][n].what
             THEN /\ todo' = [todo EXCEPT ![p] = @ \ {n}]
                  /\ UNCHANGED <<staging, pc, mode, seen, snapshot, found, disturbed, runs>>
             ELSE End(p, "rejected")
    /\ UNCHANGED <<target, tampered>> /\ Unshared

(* The staging directory with its manifest, which is written last, over a file of its name. *)
Finished(p) ==
    [kind |-> "copy", files |-> With(staging[p], ManifestName, Manifest),
     manifest |-> Hashes(snapshot[p])]

(* Mutant: the target is removed first. *)
RenameOver(p) ==
    /\ pc[p] = "verifying" /\ todo[p] = {}
    /\ target' = Finished(p)
    /\ tampered' = FALSE
    /\ End(p, "installed")
    /\ Unshared

(* The manifest, then os.rename, which replaces nothing but an empty directory. *)
Rename(p) ==
    /\ pc[p] = "verifying" /\ todo[p] = {}
    /\ IF target = Absent \/ target.kind = "empty"
       THEN /\ target' = Finished(p)
            /\ tampered' = FALSE
            /\ End(p, "installed")
       ELSE End(p, "rejected") /\ UNCHANGED <<target, tampered>>
    /\ Unshared

(* A kill leaves the staging directory behind; nobody looks at it again.  A  *)
(* file that changes or goes while it is read ends the call in the same way. *)
Crash(p) ==
    /\ pc[p] \notin {"idle", "installed", "rejected"}
    /\ End(p, "idle")
    /\ UNCHANGED <<target, tampered>> /\ Unshared

-----------------------------------------------------------------------------
(* The people at work.                                                     *)

(* The history of a change of the source, at a time of its own. *)
Edited ==
    /\ edits < MaxEdits /\ edits' = edits + 1
    /\ past' = past \cup {FilesOf(source', outside')}
    /\ UNCHANGED <<target, local, runs, tampered>>

EditSource(n) ==
    /\ \E entry \in EntriesAt({edits + 1}) :
          /\ entry # source[n]
          /\ entry # Absent => entry.what # FileLink
          /\ source' = [source EXCEPT ![n] = entry]
    /\ UNCHANGED <<outside, disturbed>>
    /\ Edited

(* The file outside is written, and perhaps a link to it made. *)
EditOutside ==
    /\ outside' \in [what: Contents, stamp: {edits + 1}]
    /\ \/ UNCHANGED source
       \/ \E n \in Names :
             source' = [source EXCEPT ![n] = [what |-> FileLink, stamp |-> edits + 1]]
    /\ disturbed' = [p \in Procs |-> pc[p] = "auditing"]
    /\ Edited

(* Someone makes or empties the target's place, or works in the copy. *)
TouchTarget ==
    /\ \/ target = Absent /\ target' = [kind |-> "empty"]
       \/ target # Absent /\ target' = Absent
       \/ /\ target # Absent /\ target.kind = "copy" /\ ~ tampered
          /\ \E n \in Names \ {ManifestName} :
                \/ /\ n \in DOMAIN target.files
                   /\ target' = [target EXCEPT !.files = [m \in DOMAIN @ \ {n} |-> @[m]]]
                \/ \E what \in Contents : target' = [target EXCEPT !.files = With(@, n, what)]
    /\ tampered' = TRUE
    /\ disturbed' = [p \in Procs |-> pc[p] = "auditing"]
    /\ UNCHANGED <<source, outside, local, edits, runs, past>>

Install(p) ==
    \/ \E m \in {"copy", "symlink"} : Start(p, m)
    \/ Scan(p) \/ ScanDone(p) \/ CheckTarget(p) \/ Rehash(p) \/ RehashDone(p)
    \/ Link(p) \/ Stage(p) \/ Copy(p) \/ CopyDone(p) \/ RescanDone(p) \/ Verify(p)
    \/ Rename(p) \/ Crash(p)

Next ==
    \/ \E p \in Procs : Install(p)
    \/ \E n \in Names : EditSource(n)
    \/ EditOutside
    \/ TouchTarget

Spec == Init /\ [][Next]_vars
-----------------------------------------------------------------------------
(***************************************************************************)
(* The files an installation vouches for were all in the source at one and *)
(* the same moment, although the source is read file by file, three times, *)
(* while it is being edited (_source_files, _verify_snapshot_copy).  The   *)
(* source may have held more at that moment: a file that comes and goes    *)
(* while it is not looked for is never missed.                             *)
(***************************************************************************)
HeldBy(files, expected) ==
    \A n \in DOMAIN expected : n \in DOMAIN files /\ files[n] = expected[n]

OneSourceState ==
    target # Absent /\ target.kind = "copy" =>
        \E files \in past : HeldBy(files, target.manifest)

(***************************************************************************)
(* README.md: a target that is there "is rejected without deleting it", in *)
(* whatever order installers get to it.  (An empty directory that appears  *)
(* after the check may be renamed over.)                                   *)
(***************************************************************************)
NeverOverwrites ==
    [][target # Absent /\ target.kind # "empty" /\ target' # target => TouchTarget]_vars

(***************************************************************************)
(* A call that takes a copy in place for its own has read it file by file  *)
(* (_verify_installed_copy).  When the copy and what it links to stood     *)
(* still meanwhile, it held the files of the call's own scan and no other; *)
(* of a copy that changes meanwhile nothing follows.                       *)
(***************************************************************************)
SuccessMeansInstalled ==
    [][\A p \in Procs : pc[p] = "auditing" /\ pc'[p] = "installed" /\ ~ disturbed[p] =>
          /\ target # Absent /\ target.kind = "copy"
          /\ ManagedFiles(target.files) = Hashes(snapshot[p])]_vars

(***************************************************************************)
(* README.md: "Reinstalling an identical managed copy is idempotent".  A   *)
(* copy that nobody has touched, of a source that nobody has edited, is    *)
(* not rejected, unless the source holds a link to a directory or a file   *)
(* of the manifest's name.                                                 *)
(***************************************************************************)
AsInstalled == target # Absent /\ target.kind = "copy" /\ ~ tampered /\ edits = 0

PlainSource ==
    /\ \A n \in Names : source[n] # Absent => source[n].what # DirLink
    /\ ManifestName \in Names => source[ManifestName] = Absent

ReinstallAccepted ==
    [][\A p \in Procs :
          pc[p] \in {"checking", "auditing"} /\ mode[p] = "copy" /\ pc'[p] = "rejected" =>
              ~ (AsInstalled /\ PlainSource) \/ disturbed[p]]_vars

=============================================================================
