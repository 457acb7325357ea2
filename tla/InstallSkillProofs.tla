------------------------- MODULE InstallSkillProofs -------------------------
(***************************************************************************)
(* What installers do to a target that is there, for any number of them,   *)
(* any source and any number of changes.                                   *)
(***************************************************************************)
EXTENDS InstallSkill, TLAPS

Occupied == target # Absent /\ target.kind # "empty"

(* An installer writes to the target where nothing is. *)
LEMMA InstallKeepsTarget ==
    ASSUME Occupied, NEW p \in Procs, Install(p)
    PROVE  target' = target
  <1>1. CASE Link(p)
    BY <1>1 DEF Link, Occupied
  <1>2. CASE Rename(p)
    BY <1>2 DEF Rename, Occupied
  <1>3. CASE \E m \in {"copy", "symlink"} : Start(p, m)
    BY <1>3 DEF Start
  <1>4. CASE \/ Scan(p) \/ ScanDone(p) \/ CheckTarget(p) \/ Rehash(p) \/ RehashDone(p)
             \/ Stage(p) \/ Copy(p) \/ CopyDone(p) \/ RescanDone(p) \/ Verify(p) \/ Crash(p)
    BY <1>4 DEF Scan, ScanDone, CheckTarget, Rehash, RehashDone, Stage, Copy, CopyDone,
                RescanDone, Verify, Crash
  <1> QED
    BY <1>1, <1>2, <1>3, <1>4 DEF Install

(***************************************************************************)
(* README.md: a target that is there is rejected without deleting it, in   *)
(* whatever order any number of installers get to it.                      *)
(***************************************************************************)
THEOREM TargetStays == Spec => NeverOverwrites
  <1>1. ASSUME [Next]_vars, Occupied, target' # target
        PROVE  TouchTarget
    <2>1. ASSUME NEW n \in Names, EditSource(n)
          PROVE  target' = target
      BY <2>1 DEF EditSource, Edited
    <2>2. CASE EditOutside \/ UNCHANGED vars
      BY <1>1, <2>2 DEF EditOutside, Edited, vars
    <2> QED
      BY <1>1, <2>1, <2>2, InstallKeepsTarget DEF Next
  <1>2. [Next]_vars =>
          [target # Absent /\ target.kind # "empty" /\ target' # target => TouchTarget]_vars
    BY <1>1 DEF Occupied
  <1> QED
    BY <1>2, PTL DEF Spec, NeverOverwrites
-----------------------------------------------------------------------------
(***************************************************************************)
(* OneSourceState.  An installer past its first scan has a witness, the    *)
(* source as it was when that scan ended.  What the scan saw and the       *)
(* source still has, the witness has too, because a change gives a file a  *)
(* time of its own; and so it has what the second scan sees again.         *)
(***************************************************************************)
Scanned ==
    {"checking", "auditing", "linking", "staging", "copying", "rescanning", "verifying"}

(* The files that a scan would see in the source as it is. *)
Sight == [n \in {m \in Names : IsFile(source[m])} |-> Behind(source[n], outside)]

(* Scanned entries are at paths, and of times that have been. *)
ScanOK(entries) == \A n \in DOMAIN entries : n \in Names /\ entries[n].stamp \in 0..edits

StateOK ==
    /\ edits \in Nat /\ outside.stamp \in 0..edits
    /\ \A n \in Names : source[n] # Absent => source[n].stamp \in 0..edits
    /\ DOMAIN source = Names
    /\ DOMAIN pc = Procs /\ DOMAIN todo = Procs /\ DOMAIN seen = Procs /\ DOMAIN snapshot = Procs
    /\ \A p \in Procs : todo[p] \subseteq Names /\ ScanOK(seen[p]) /\ ScanOK(snapshot[p])

(* What the entries have in common with the first scan, files has, too. *)
Recalls(files, entries, scan) ==
    \A n \in DOMAIN scan :
        n \in DOMAIN entries /\ entries[n] = scan[n] =>
            n \in DOMAIN files /\ files[n] = scan[n].what

Witnessed(p) ==
    \E files \in past : Recalls(files, Sight, snapshot[p]) /\ Recalls(files, seen[p], snapshot[p])

(* Of an installer: the witness, and two scans that agree before the copy is looked at. *)
ScansOK(p) ==
    /\ pc[p] \in Scanned => Witnessed(p)
    /\ pc[p] = "verifying" => seen[p] = snapshot[p]

(* The source as it is has been, too. *)
NowKept == FilesOf(source, outside) \in past

(* OneSourceState, of a target that is a record. *)
TargetOK ==
    target # Absent /\ target.kind = "copy" =>
        /\ {"kind", "files", "manifest"} \subseteq DOMAIN target
        /\ \E files \in past : HeldBy(files, target.manifest)

IInv == StateOK /\ NowKept /\ TargetOK /\ \A p \in Procs : ScansOK(p)

LEMMA InitIInv == Init => IInv
  <1> SUFFICES ASSUME Init
               PROVE  IInv
    OBVIOUS
  <1>1. source \in [Names -> EntriesAt({0})]
    BY SourcesAssumption DEF Init
  <1>2. StateOK
    <2>1. \A n \in Names : source[n] # Absent => source[n].stamp = 0
      BY <1>1 DEF EntriesAt
    <2>2. \A p \in Procs : DOMAIN seen[p] = {} /\ DOMAIN snapshot[p] = {}
      BY DEF Init
    <2> QED
      BY <1>1, <2>1, <2>2 DEF Init, StateOK, ScanOK
  <1>3. TargetOK
    BY DEF Init, TargetOK
  <1>4. \A p \in Procs : ScansOK(p)
    BY DEF Init, ScansOK, Scanned
  <1> QED
    BY <1>2, <1>3, <1>4 DEF Init, IInv, NowKept

(***************************************************************************)
(* An installer whose entries stay is as before, whatever the others do,   *)
(* as long as the source stays.                                            *)
(***************************************************************************)
LEMMA OthersStay ==
    ASSUME IInv, NEW q \in Procs, UNCHANGED <<source, outside, edits, past>>,
           seen'[q] = seen[q], snapshot'[q] = snapshot[q],
           pc'[q] \in Scanned => pc[q] \in Scanned, pc'[q] = "verifying" => pc[q] = "verifying"
    PROVE  ScansOK(q)'
  <1>1. Sight' = Sight
    BY DEF Sight, Behind, IsFile
  <1> QED
    BY <1>1 DEF IInv, ScansOK, Witnessed, Recalls

(* What a step of an installer leaves alone, whose state is sound after it. *)
LEMMA StepIInv ==
    ASSUME IInv, NEW p \in Procs, UNCHANGED <<source, outside, edits, past>>, TargetOK',
           DOMAIN pc' = Procs, DOMAIN todo' = Procs, DOMAIN seen' = Procs,
           DOMAIN snapshot' = Procs,
           \A q \in Procs : q # p => /\ pc'[q] = pc[q] /\ todo'[q] = todo[q]
                                     /\ seen'[q] = seen[q] /\ snapshot'[q] = snapshot[q],
           todo'[p] \subseteq Names, ScanOK(seen'[p]), ScanOK(snapshot'[p]), ScansOK(p)'
    PROVE  IInv'
  <1>1. \A q \in Procs : ScansOK(q)'
    BY OthersStay
  <1>2. \A q \in Procs : todo'[q] \subseteq Names /\ ScanOK(seen'[q]) /\ ScanOK(snapshot'[q])
    BY DEF IInv, StateOK
  <1>3. StateOK'
    BY <1>2 DEF IInv, StateOK, ScanOK
  <1>4. NowKept'
    BY DEF IInv, NowKept, FilesOf
  <1> QED
    BY <1>1, <1>3, <1>4 DEF IInv

LEMMA EndIInv ==
    ASSUME IInv, NEW p \in Procs, NEW how \in {"idle", "installed", "rejected"}, End(p, how),
           UNCHANGED <<source, outside, edits, past>>, TargetOK'
    PROVE  IInv'
  <1>1. /\ pc'[p] = how /\ todo'[p] = {} /\ seen'[p] = <<>> /\ snapshot'[p] = <<>>
        /\ DOMAIN pc' = Procs /\ DOMAIN todo' = Procs /\ DOMAIN seen' = Procs
        /\ DOMAIN snapshot' = Procs
        /\ \A q \in Procs : q # p => /\ pc'[q] = pc[q] /\ todo'[q] = todo[q]
                                     /\ seen'[q] = seen[q] /\ snapshot'[q] = snapshot[q]
    BY DEF End, IInv, StateOK
  <1>2. ScanOK(seen'[p]) /\ ScanOK(snapshot'[p])
    <2>1. DOMAIN seen'[p] = {} /\ DOMAIN snapshot'[p] = {}
      BY <1>1
    <2> QED
      BY <2>1 DEF ScanOK
  <1>3. ScansOK(p)'
    BY <1>1 DEF ScansOK, Scanned
  <1> QED
    BY <1>1, <1>2, <1>3, StepIInv

(* Of the functions before and after, p's value alone has changed. *)
OnlyOf(p, before, after) ==
    DOMAIN after = DOMAIN before /\ \A q \in DOMAIN before : q # p => after[q] = before[q]

(* A step that moves an installer on, within the phases after its scan. *)
LEMMA MoveIInv ==
    ASSUME IInv, NEW p \in Procs, OnlyOf(p, pc, pc'), OnlyOf(p, todo, todo'),
           todo'[p] \subseteq Names, pc'[p] \in Scanned => pc[p] \in Scanned,
           pc'[p] = "verifying" => pc[p] = "verifying" \/ seen[p] = snapshot[p],
           UNCHANGED <<source, outside, edits, past, seen, snapshot, target>>
    PROVE  IInv'
  <1>1. TargetOK'
    BY DEF IInv, TargetOK
  <1>2. /\ DOMAIN pc' = Procs /\ DOMAIN todo' = Procs
        /\ DOMAIN seen' = Procs /\ DOMAIN snapshot' = Procs
        /\ \A q \in Procs : q # p => pc'[q] = pc[q] /\ todo'[q] = todo[q]
    BY DEF IInv, StateOK, OnlyOf
  <1>3. ScanOK(seen'[p]) /\ ScanOK(snapshot'[p])
    BY DEF IInv, StateOK
  <1>4. Sight' = Sight
    BY DEF Sight, Behind, IsFile
  <1>5. ScansOK(p)'
    BY <1>2, <1>4 DEF IInv, ScansOK, Witnessed, Recalls
  <1> QED
    BY <1>1, <1>2, <1>3, <1>5, StepIInv

(* What the second scan sees is what the source has. *)
LEMMA ScanIInv ==
    ASSUME IInv, NEW p \in Procs, Scan(p)
    PROVE  IInv'
  <1>1. PICK n \in todo[p] :
           /\ todo' = [todo EXCEPT ![p] = @ \ {n}]
           /\ seen' = IF IsFile(source[n])
                      THEN [seen EXCEPT ![p] = With(@, n, Behind(source[n], outside))] ELSE seen
    BY DEF Scan
  <1>2. n \in Names
    BY DEF IInv, StateOK
  <1>3. UNCHANGED <<source, outside, edits, past, pc, snapshot, target>>
        /\ pc[p] \in {"scanning", "rescanning"}
    BY DEF Scan, Unshared
  <1>4. TargetOK'
    BY <1>3 DEF IInv, TargetOK
  <1>5. /\ DOMAIN todo' = Procs /\ DOMAIN seen' = Procs /\ todo'[p] \subseteq Names
        /\ \A q \in Procs : q # p => todo'[q] = todo[q] /\ seen'[q] = seen[q]
    BY <1>1 DEF IInv, StateOK
  <1>6. Sight' = Sight
    BY <1>3 DEF Sight, Behind, IsFile
  <1>7. ScanOK(seen[p]) /\ ScanOK(snapshot[p]) /\ ScansOK(p)
    BY DEF IInv, StateOK
  <1>8. ScanOK(seen'[p]) /\ ScansOK(p)'
    <2>1. CASE ~ IsFile(source[n])
      BY <1>1, <1>3, <1>6, <1>7, <2>1 DEF ScansOK, Witnessed, Recalls
    <2>2. CASE IsFile(source[n])
      <3>1. seen'[p] = With(seen[p], n, Behind(source[n], outside))
        BY <1>1, <2>2 DEF IInv, StateOK
      <3>2. n \in DOMAIN Sight /\ Sight[n] = Behind(source[n], outside)
        BY <1>2, <2>2 DEF Sight
      <3>3. /\ DOMAIN seen'[p] = DOMAIN seen[p] \cup {n}
            /\ \A m \in DOMAIN seen'[p] : seen'[p][m] = IF m = n THEN Sight[n] ELSE seen[p][m]
        BY <3>1, <3>2 DEF With
      <3>4. Sight[n].stamp \in 0..edits
        BY <1>2, <2>2, <3>2 DEF IInv, StateOK, IsFile, Behind
      <3>5. ScanOK(seen'[p])
        BY <1>2, <1>7, <3>3, <3>4 DEF ScanOK
      <3>6. ASSUME pc[p] \in Scanned
            PROVE  Witnessed(p)'
        <4>1. PICK files \in past :
                 Recalls(files, Sight, snapshot[p]) /\ Recalls(files, seen[p], snapshot[p])
          BY <1>7, <3>6 DEF ScansOK, Witnessed
        <4>2. Recalls(files, seen'[p], snapshot[p])
          BY <3>2, <3>3, <4>1 DEF Recalls
        <4> QED
          BY <1>3, <1>6, <4>1, <4>2 DEF Witnessed
      <3> QED
        BY <1>3, <3>5, <3>6 DEF ScansOK
    <2> QED
      BY <2>1, <2>2
  <1>9. DOMAIN pc' = Procs /\ DOMAIN snapshot' = Procs /\ ScanOK(snapshot'[p])
    BY <1>3, <1>7 DEF IInv, StateOK
  <1> QED
    BY <1>3, <1>4, <1>5, <1>8, <1>9, StepIInv

(* The end of the first scan: the source is the witness. *)
LEMMA ScanDoneIInv ==
    ASSUME IInv, NEW p \in Procs, ScanDone(p)
    PROVE  IInv'
  <1>1. /\ seen'[p] = <<>> /\ snapshot'[p] = seen[p] /\ pc'[p] = "checking"
        /\ DOMAIN pc' = Procs /\ DOMAIN seen' = Procs /\ DOMAIN snapshot' = Procs
        /\ \A q \in Procs : q # p =>
              pc'[q] = pc[q] /\ seen'[q] = seen[q] /\ snapshot'[q] = snapshot[q]
    BY DEF ScanDone, IInv, StateOK
  <1>2. UNCHANGED <<source, outside, edits, past, todo, target>>
    BY DEF ScanDone, Unshared
  <1>3. ScanOK(seen'[p]) /\ ScanOK(snapshot'[p])
    <2>1. DOMAIN seen'[p] = {}
      BY <1>1
    <2> QED
      BY <1>1, <2>1 DEF IInv, StateOK, ScanOK
  <1>4. ScansOK(p)'
    <2>1. Recalls(FilesOf(source, outside), Sight, seen[p])
      BY DEF Recalls, FilesOf, Sight
    <2>2. Recalls(FilesOf(source, outside), <<>>, seen[p])
      BY DEF Recalls
    <2>3. Sight' = Sight
      BY <1>2 DEF Sight, Behind, IsFile
    <2> QED
      BY <1>1, <1>2, <2>1, <2>2, <2>3 DEF ScansOK, Witnessed, IInv, NowKept
  <1>5. TargetOK' /\ DOMAIN todo' = Procs /\ todo'[p] \subseteq Names
    BY <1>2 DEF IInv, TargetOK, StateOK
  <1> QED
    BY <1>1, <1>2, <1>3, <1>4, <1>5, StepIInv

(* A copy is put in place only by an installer whose two scans agree. *)
LEMMA RenameIInv ==
    ASSUME IInv, NEW p \in Procs, Rename(p)
    PROVE  IInv'
  <1>1. UNCHANGED <<source, outside, edits, past>> /\ pc[p] = "verifying"
    BY DEF Rename, Unshared
  <1>2. CASE target = Absent \/ target.kind = "empty"
    <2>1. target' = Finished(p) /\ End(p, "installed")
      BY <1>2 DEF Rename
    <2>2. PICK files \in past :
             Recalls(files, Sight, snapshot[p]) /\ Recalls(files, seen[p], snapshot[p])
      BY <1>1 DEF IInv, ScansOK, Witnessed, Scanned
    <2>3. seen[p] = snapshot[p]
      BY <1>1 DEF IInv, ScansOK
    <2>4. HeldBy(files, Hashes(snapshot[p]))
      BY <2>2, <2>3 DEF Recalls, HeldBy, Hashes
    <2>5. TargetOK'
      BY <1>1, <2>1, <2>4 DEF TargetOK, Finished
    <2> QED
      BY <1>1, <2>1, <2>5, EndIInv
  <1>3. CASE ~ (target = Absent \/ target.kind = "empty")
    BY <1>1, <1>3, EndIInv DEF Rename, IInv, TargetOK
  <1> QED
    BY <1>2, <1>3

(* The next phase, and what is to be visited in it. *)
MovesTo(p, to, paths) ==
    /\ pc' = [pc EXCEPT ![p] = to] \/ (to = pc[p] /\ UNCHANGED pc)
    /\ todo' = [todo EXCEPT ![p] = paths] \/ (paths = todo[p] /\ UNCHANGED todo)
    /\ UNCHANGED <<seen, snapshot, target>>

(* The remaining steps of an installer: each ends the call or moves it on. *)
LEMMA OtherStepIInv ==
    ASSUME IInv, TypeOK, NEW p \in Procs,
           \/ \E m \in {"copy", "symlink"} : Start(p, m)
           \/ CheckTarget(p) \/ Rehash(p) \/ RehashDone(p) \/ Link(p) \/ Stage(p) \/ Copy(p)
           \/ CopyDone(p) \/ RescanDone(p) \/ Verify(p) \/ Crash(p)
    PROVE  IInv'
  <1>1. /\ Exists(source) \subseteq Names /\ DOMAIN snapshot[p] \subseteq Names
        /\ todo[p] \subseteq Names /\ DOMAIN pc = Procs /\ DOMAIN todo = Procs
    BY DEF IInv, StateOK, Exists, ScanOK
  <1>2. UNCHANGED <<source, outside, edits, past>>
    BY DEF Start, CheckTarget, Rehash, RehashDone, Link, Stage, Copy, CopyDone, RescanDone,
           Verify, Crash, Unshared
  <1>3. UNCHANGED target => TargetOK'
    BY <1>2 DEF IInv, TargetOK
  <1>4. ASSUME UNCHANGED target, NEW how \in {"idle", "installed", "rejected"}, End(p, how)
        PROVE  IInv'
    BY <1>2, <1>3, <1>4, EndIInv
  <1>5. ASSUME NEW to, NEW paths, MovesTo(p, to, paths), paths \subseteq Names,
               to \in Scanned => pc[p] \in Scanned,
               to = "verifying" => pc[p] = "verifying" \/ seen[p] = snapshot[p]
        PROVE  IInv'
    <2>1. OnlyOf(p, pc, pc') /\ OnlyOf(p, todo, todo') /\ pc'[p] = to /\ todo'[p] = paths
      BY <1>1, <1>5 DEF OnlyOf, MovesTo
    <2> QED
      BY <1>2, <1>5, <2>1, MoveIInv DEF MovesTo
  <1>6. ASSUME NEW m \in {"copy", "symlink"}, Start(p, m)
        PROVE  IInv'
    <2>1. MovesTo(p, "scanning", Exists(source))
      BY <1>6 DEF Start, MovesTo
    <2> QED
      BY <1>1, <1>5, <2>1 DEF Scanned
  <1>7. CASE CheckTarget(p)
    <2>1. UNCHANGED target /\ pc[p] = "checking"
      BY <1>7 DEF CheckTarget
    <2>2. ASSUME NEW to \in {"linking", "staging"}, pc' = [pc EXCEPT ![p] = to],
                 UNCHANGED <<todo, seen, snapshot>>
          PROVE  IInv'
      <3>1. MovesTo(p, to, todo[p])
        BY <2>1, <2>2 DEF MovesTo
      <3> QED
        BY <1>1, <1>5, <2>1, <3>1 DEF Scanned
    <2>3. ASSUME pc' = [pc EXCEPT ![p] = "auditing"], todo' = [todo EXCEPT ![p] = ManagedPaths],
                 UNCHANGED <<seen, snapshot>>, target # Absent, target.kind = "copy"
          PROVE  IInv'
      <3>1. ManagedPaths \subseteq Names
        BY <2>3 DEF ManagedPaths, TypeOK
      <3>2. MovesTo(p, "auditing", ManagedPaths)
        BY <2>1, <2>3 DEF MovesTo
      <3> QED
        BY <1>5, <2>1, <3>1, <3>2 DEF Scanned
    <2> QED
      BY <1>4, <1>7, <2>1, <2>2, <2>3 DEF CheckTarget
  <1>8. CASE Rehash(p)
    <2>1. PICK n \in todo[p] : todo' = [todo EXCEPT ![p] = todo[p] \ {n}]
      BY <1>8 DEF Rehash
    <2>2. MovesTo(p, "auditing", todo[p] \ {n}) /\ pc[p] = "auditing"
      BY <1>8, <2>1 DEF Rehash, MovesTo
    <2> QED
      BY <1>1, <1>5, <2>2 DEF Scanned
  <1>9. CASE RehashDone(p)
    BY <1>4, <1>9 DEF RehashDone
  <1>10. CASE Crash(p)
    BY <1>4, <1>10 DEF Crash
  <1>11. CASE Link(p)
    <2>1. TargetOK'
      BY <1>2, <1>11 DEF Link, IInv, TargetOK
    <2> QED
      BY <1>2, <1>11, <2>1, EndIInv DEF Link
  <1>12. CASE Stage(p)
    <2>1. MovesTo(p, "copying", Exists(source)) /\ pc[p] = "staging"
      BY <1>12 DEF Stage, MovesTo
    <2> QED
      BY <1>1, <1>5, <2>1 DEF Scanned
  <1>13. CASE Copy(p)
    <2>1. PICK n \in todo[p] :
             \/ End(p, "rejected")
             \/ todo' = [todo EXCEPT ![p] = todo[p] \ {n}] /\ UNCHANGED <<pc, seen, snapshot>>
      BY <1>13 DEF Copy
    <2>2. UNCHANGED target /\ pc[p] = "copying"
      BY <1>13 DEF Copy
    <2>3. MovesTo(p, "copying", todo[p] \ {n}) => IInv'
      BY <1>1, <1>5, <2>2 DEF Scanned
    <2> QED
      BY <1>4, <2>1, <2>2, <2>3 DEF MovesTo
  <1>14. CASE CopyDone(p)
    <2>1. MovesTo(p, "rescanning", Exists(source)) /\ pc[p] = "copying"
      BY <1>14 DEF CopyDone, MovesTo
    <2> QED
      BY <1>1, <1>5, <2>1 DEF Scanned
  <1>15. CASE RescanDone(p)
    <2>1. CASE seen[p] = snapshot[p]
      <3>1. MovesTo(p, "verifying", DOMAIN snapshot[p]) /\ pc[p] = "rescanning"
        BY <1>15, <2>1 DEF RescanDone, MovesTo
      <3> QED
        BY <1>1, <1>5, <2>1, <3>1 DEF Scanned
    <2>2. CASE seen[p] # snapshot[p]
      BY <1>4, <1>15, <2>2 DEF RescanDone
    <2> QED
      BY <2>1, <2>2
  <1>16. CASE Verify(p)
    <2>1. PICK n \in todo[p] :
             \/ End(p, "rejected")
             \/ todo' = [todo EXCEPT ![p] = todo[p] \ {n}] /\ UNCHANGED <<pc, seen, snapshot>>
      BY <1>16 DEF Verify
    <2>2. UNCHANGED target /\ pc[p] = "verifying"
      BY <1>16 DEF Verify
    <2>3. MovesTo(p, "verifying", todo[p] \ {n}) => IInv'
      BY <1>1, <1>5, <2>2 DEF Scanned
    <2> QED
      BY <1>4, <2>1, <2>2, <2>3 DEF MovesTo
  <1> QED
    BY <1>6, <1>7, <1>8, <1>9, <1>10, <1>11, <1>12, <1>13, <1>14, <1>15, <1>16

(***************************************************************************)
(* A change gives a file a time that no scan has seen: what is in sight    *)
(* after it was in sight before, or is new.                                *)
(***************************************************************************)
LEMMA EditIInv ==
    ASSUME IInv, UNCHANGED <<target, pc, todo, seen, snapshot>>,
           edits' = edits + 1, past' = past \cup {FilesOf(source', outside')},
           DOMAIN source' = Names,
           outside' = outside \/ outside'.stamp = edits + 1,
           \A n \in Names : source'[n] # source[n] /\ source'[n] # Absent =>
                source'[n].stamp = edits + 1,
           \A n \in Names : source'[n] # source[n] /\ IsFile(source'[n]) =>
                Behind(source'[n], outside').stamp = edits + 1
    PROVE  IInv'
  <1>1. edits \in Nat /\ edits + 1 \in 0..edits' /\ \A k \in 0..edits : k \in 0..edits' /\ k # edits + 1
    BY DEF IInv, StateOK
  <1>2. \A entries : ScanOK(entries) => ScanOK(entries)'
    BY <1>1 DEF ScanOK
  <1>3. StateOK'
    <2>1. edits' \in Nat /\ outside'.stamp \in 0..edits'
      BY <1>1 DEF IInv, StateOK
    <2>2. \A n \in Names : source'[n] # Absent => source'[n].stamp \in 0..edits'
      BY <1>1 DEF IInv, StateOK
    <2>3. \A p \in Procs : ScanOK(seen[p])' /\ ScanOK(snapshot[p])'
      BY <1>2 DEF IInv, StateOK, ScanOK
    <2> QED
      BY <2>1, <2>2, <2>3 DEF IInv, StateOK
  <1>4. \A n \in DOMAIN Sight' :
           \/ n \in DOMAIN Sight /\ Sight'[n] = Sight[n]
           \/ Sight'[n].stamp = edits + 1
    <2> SUFFICES ASSUME NEW n \in DOMAIN Sight', Sight'[n].stamp # edits + 1
                 PROVE  n \in DOMAIN Sight /\ Sight'[n] = Sight[n]
      OBVIOUS
    <2>1. n \in Names /\ IsFile(source'[n]) /\ Sight'[n] = Behind(source'[n], outside')
      BY DEF Sight
    <2>2. source'[n] = source[n]
      BY <2>1
    <2>3. Behind(source[n], outside') = Behind(source[n], outside)
      BY <2>1, <2>2 DEF Behind
    <2> QED
      BY <2>1, <2>2, <2>3 DEF Sight
  <1>5. ASSUME NEW q \in Procs, pc'[q] \in Scanned
        PROVE  Witnessed(q)'
    <2>1. PICK files \in past :
             Recalls(files, Sight, snapshot[q]) /\ Recalls(files, seen[q], snapshot[q])
      BY <1>5 DEF IInv, ScansOK, Witnessed
    <2>2. \A n \in DOMAIN snapshot[q] : snapshot[q][n].stamp # edits + 1
      BY <1>1 DEF IInv, StateOK, ScanOK
    <2>3. Recalls(files, Sight', snapshot[q])
      BY <1>4, <2>1, <2>2 DEF Recalls
    <2> QED
      BY <2>1, <2>3 DEF Witnessed, Recalls
  <1>6. TargetOK' /\ NowKept'
    BY DEF IInv, TargetOK, NowKept
  <1>7. \A q \in Procs : ScansOK(q)'
    BY <1>5 DEF IInv, ScansOK
  <1> QED
    BY <1>3, <1>6, <1>7 DEF IInv

(* Whatever the people at work do to the source. *)
LEMMA SourceIInv ==
    ASSUME IInv, (\E n \in Names : EditSource(n)) \/ EditOutside
    PROVE  IInv'
  <1>1. /\ UNCHANGED <<target, pc, todo, seen, snapshot>> /\ edits' = edits + 1
        /\ past' = past \cup {FilesOf(source', outside')}
    BY DEF EditSource, EditOutside, Edited, local
  <1>2. ASSUME NEW n \in Names, EditSource(n)
        PROVE  IInv'
    <2>1. PICK entry \in EntriesAt({edits + 1}) :
             /\ entry # Absent => entry.what # FileLink
             /\ source' = [source EXCEPT ![n] = entry]
      BY <1>2 DEF EditSource
    <2>2. outside' = outside
      BY <1>2 DEF EditSource
    <2>3. entry # Absent => entry.stamp = edits + 1
      BY <2>1 DEF EntriesAt
    <2>4. DOMAIN source' = Names /\ source'[n] = entry /\ \A m \in Names : m # n => source'[m] = source[m]
      BY <2>1 DEF IInv, StateOK
    <2>5. \A m \in Names : source'[m] # source[m] /\ source'[m] # Absent =>
             source'[m].stamp = edits + 1 /\ Behind(source'[m], outside').stamp = edits + 1
      BY <2>1, <2>3, <2>4 DEF Behind
    <2> QED
      BY <1>1, <2>2, <2>4, <2>5, EditIInv DEF IsFile
  <1>3. CASE EditOutside
    <2>1. outside'.stamp = edits + 1
      BY <1>3 DEF EditOutside
    <2>2. CASE UNCHANGED source
      BY <1>1, <2>1, <2>2, EditIInv DEF IInv, StateOK
    <2>3. ASSUME NEW n \in Names,
                 source' = [source EXCEPT ![n] = [what |-> FileLink, stamp |-> edits + 1]]
          PROVE  IInv'
      <3>1. /\ DOMAIN source' = Names /\ source'[n] = [what |-> FileLink, stamp |-> edits + 1]
            /\ \A m \in Names : m # n => source'[m] = source[m]
        BY <2>3 DEF IInv, StateOK
      <3>2. \A m \in Names : source'[m] # source[m] /\ source'[m] # Absent =>
               source'[m].stamp = edits + 1 /\ Behind(source'[m], outside').stamp = edits + 1
        BY <2>1, <3>1 DEF Behind
      <3> QED
        BY <1>1, <2>1, <3>1, <3>2, EditIInv DEF IsFile
    <2> QED
      BY <1>3, <2>2, <2>3 DEF EditOutside
  <1> QED
    BY <1>2, <1>3

LEMMA TouchIInv ==
    ASSUME IInv, TouchTarget \/ UNCHANGED vars
    PROVE  IInv'
  <1>1. UNCHANGED <<source, outside, edits, past, todo, pc, seen, snapshot>>
    BY DEF TouchTarget, vars, local
  <1>2. TargetOK'
    <2>1. CASE target' = Absent \/ target' = [kind |-> "empty"] \/ target' = target
      BY <1>1, <2>1 DEF IInv, TargetOK
    <2>2. ASSUME target # Absent, target.kind = "copy",
                 NEW files, target' = [target EXCEPT !.files = files]
          PROVE  TargetOK'
      <3>1. TargetOK
        BY DEF IInv
      <3>2. DOMAIN target' = DOMAIN target /\ target'.manifest = target.manifest
        BY <2>2, <3>1 DEF TargetOK
      <3> QED
        BY <1>1, <2>2, <3>1, <3>2 DEF TargetOK
    <2> QED
      BY <2>1, <2>2 DEF TouchTarget, vars
  <1>3. StateOK' /\ NowKept'
    BY <1>1 DEF IInv, StateOK, ScanOK, NowKept, FilesOf
  <1>4. \A q \in Procs : ScansOK(q)'
    BY <1>1, OthersStay
  <1> QED
    BY <1>2, <1>3, <1>4 DEF IInv

LEMMA NextIInv == IInv /\ TypeOK /\ [Next]_vars => IInv'
  <1> SUFFICES ASSUME IInv, TypeOK, [Next]_vars
               PROVE  IInv'
    OBVIOUS
  <1>1. ASSUME NEW p \in Procs, Install(p)
        PROVE  IInv'
    BY <1>1, ScanIInv, ScanDoneIInv, RenameIInv, OtherStepIInv DEF Install
  <1> QED
    BY <1>1, SourceIInv, TouchIInv DEF Next
-----------------------------------------------------------------------------
(***************************************************************************)
(* TypeOK, whose part for an installer is ProcOK.  A staging directory is  *)
(* there while it is written and looked at.                                *)
(***************************************************************************)
Staged == {"copying", "rescanning", "verifying"}

Phases == {"idle", "scanning", "checking", "auditing", "linking", "staging", "copying",
           "rescanning", "verifying", "installed", "rejected"}

ProcOK(p) ==
    /\ todo[p] \subseteq Names
    /\ \A files \in {seen[p], snapshot[p]} :
          DOMAIN files \subseteq Names /\ \A n \in DOMAIN files : files[n].what \in Contents
    /\ staging[p] # Absent \/ pc[p] \in Staged => DOMAIN staging[p] \subseteq Names
    /\ DOMAIN found[p] \subseteq Names

TargetType ==
    target # Absent =>
        /\ target.kind \in {"link", "empty", "copy"}
        /\ target.kind = "copy" => DOMAIN target.files \subseteq Names \cup {ManifestName}

TypeInv ==
    /\ source \in [Names -> EntriesAt(0..MaxEdits)]
    /\ outside \in [what: Contents, stamp: 0..MaxEdits]
    /\ pc \in [Procs -> Phases] /\ mode \in [Procs -> {"copy", "symlink"}]
    /\ disturbed \in [Procs -> BOOLEAN]
    /\ edits \in 0..MaxEdits /\ runs \in 0..MaxRuns
    /\ DOMAIN staging = Procs /\ DOMAIN found = Procs
    /\ TargetType /\ \A p \in Procs : ProcOK(p)

LEMMA TypeInvIsTypeOK == TypeInv => TypeOK
  BY DEF TypeInv, TypeOK, ProcOK, TargetType, Phases

LEMMA InitType == Init => TypeInv
  <1> SUFFICES ASSUME Init
               PROVE  TypeInv
    OBVIOUS
  <1>1. source \in [Names -> EntriesAt(0..MaxEdits)]
    <2>1. source \in [Names -> EntriesAt({0})]
      BY SourcesAssumption DEF Init
    <2>2. EntriesAt({0}) \subseteq EntriesAt(0..MaxEdits)
      BY InstallAssumption DEF EntriesAt
    <2> QED
      BY <2>1, <2>2
  <1>2. outside \in [what: Contents, stamp: 0..MaxEdits]
    BY InstallAssumption DEF Init
  <1>3. \A p \in Procs : /\ DOMAIN seen[p] = {} /\ DOMAIN snapshot[p] = {} /\ DOMAIN found[p] = {}
                         /\ staging[p] = Absent /\ pc[p] \notin Staged /\ todo[p] = {}
    BY DEF Init, Staged
  <1>4. \A p \in Procs : ProcOK(p)
    BY <1>3 DEF ProcOK
  <1> QED
    BY <1>1, <1>2, <1>4, InstallAssumption DEF Init, TypeInv, TargetType, Phases

(* A step of p, sound for p, is sound. *)
LEMMA StepType ==
    ASSUME StateOK, TypeInv, NEW p \in Procs,
           UNCHANGED <<source, outside, edits>>, TargetType', ProcOK(p)', runs' \in 0..MaxRuns,
           pc' \in [Procs -> Phases], mode' \in [Procs -> {"copy", "symlink"}],
           disturbed' \in [Procs -> BOOLEAN],
           OnlyOf(p, pc, pc'), OnlyOf(p, todo, todo'), OnlyOf(p, seen, seen'),
           OnlyOf(p, snapshot, snapshot'), OnlyOf(p, found, found'), OnlyOf(p, staging, staging')
    PROVE  TypeInv'
  <1>1. \A q \in Procs : q # p =>
           /\ pc'[q] = pc[q] /\ todo'[q] = todo[q] /\ seen'[q] = seen[q]
           /\ snapshot'[q] = snapshot[q] /\ found'[q] = found[q] /\ staging'[q] = staging[q]
    BY DEF OnlyOf, StateOK, TypeInv
  <1>2. \A q \in Procs : ProcOK(q)'
    BY <1>1 DEF TypeInv, ProcOK
  <1> QED
    BY <1>2 DEF TypeInv, OnlyOf

LEMMA OnlyOfExcept == \A p, f, v : OnlyOf(p, f, [f EXCEPT ![p] = v]) /\ OnlyOf(p, f, f)
  BY DEF OnlyOf

LEMMA EndType ==
    ASSUME StateOK, TypeInv, NEW p \in Procs, NEW how \in {"idle", "installed", "rejected"},
           End(p, how), UNCHANGED <<source, outside, edits>>, TargetType'
    PROVE  TypeInv'
  <1>1. /\ pc'[p] = how /\ staging'[p] = Absent /\ todo'[p] = {}
        /\ seen'[p] = <<>> /\ snapshot'[p] = <<>> /\ found'[p] = <<>>
    BY DEF End, StateOK, TypeInv
  <1>2. DOMAIN seen'[p] = {} /\ DOMAIN snapshot'[p] = {} /\ DOMAIN found'[p] = {}
    BY <1>1
  <1>3. ProcOK(p)'
    BY <1>1, <1>2 DEF ProcOK, Staged
  <1>4. /\ pc' \in [Procs -> Phases] /\ mode' \in [Procs -> {"copy", "symlink"}]
        /\ disturbed' \in [Procs -> BOOLEAN] /\ runs' \in 0..MaxRuns
    BY DEF End, TypeInv, Phases
  <1>5. /\ OnlyOf(p, pc, pc') /\ OnlyOf(p, todo, todo') /\ OnlyOf(p, seen, seen')
        /\ OnlyOf(p, snapshot, snapshot') /\ OnlyOf(p, found, found')
        /\ OnlyOf(p, staging, staging')
    BY OnlyOfExcept DEF End
  <1> QED
    BY <1>3, <1>4, <1>5, StepType

(* A step that moves an installer on, and neither scans nor copies. *)
LEMMA MoveType ==
    ASSUME StateOK, TypeInv, NEW p \in Procs, NEW to \in Phases, NEW paths, MovesTo(p, to, paths),
           paths \subseteq Names, to \in Staged => pc[p] \in Staged,
           UNCHANGED <<source, outside, edits, staging, disturbed>>,
           OnlyOf(p, found, found'), DOMAIN found'[p] \subseteq Names,
           mode' \in [Procs -> {"copy", "symlink"}], runs' \in 0..MaxRuns
    PROVE  TypeInv'
  <1>1. pc'[p] = to /\ todo'[p] = paths /\ UNCHANGED <<seen, snapshot, target>>
    BY DEF MovesTo, StateOK
  <1>2. ProcOK(p)'
    BY <1>1 DEF TypeInv, ProcOK
  <1>3. TargetType'
    BY <1>1 DEF TypeInv, TargetType
  <1>4. pc' \in [Procs -> Phases] /\ disturbed' \in [Procs -> BOOLEAN]
    BY DEF MovesTo, TypeInv
  <1>5. OnlyOf(p, pc, pc') /\ OnlyOf(p, todo, todo')
    BY DEF MovesTo, OnlyOf
  <1>6. OnlyOf(p, seen, seen') /\ OnlyOf(p, snapshot, snapshot') /\ OnlyOf(p, staging, staging')
    BY <1>1, OnlyOfExcept
  <1> QED
    BY <1>2, <1>3, <1>4, <1>5, <1>6, StepType

LEMMA InstallType ==
    ASSUME StateOK, TypeInv, NEW p \in Procs, Install(p)
    PROVE  TypeInv'
  <1>1. /\ Exists(source) \subseteq Names /\ DOMAIN snapshot[p] \subseteq Names
        /\ todo[p] \subseteq Names /\ DOMAIN found[p] \subseteq Names
        /\ mode \in [Procs -> {"copy", "symlink"}] /\ runs \in 0..MaxRuns
        /\ TargetType /\ ProcOK(p)
    BY DEF StateOK, TypeInv, Exists, ProcOK
  <1>2. ASSUME UNCHANGED <<source, outside, edits, target>>,
               NEW how \in {"idle", "installed", "rejected"}, End(p, how)
        PROVE  TypeInv'
    BY <1>1, <1>2, EndType DEF TargetType
  (* a move that leaves the rest alone *)
  <1>3. ASSUME NEW to \in Phases, NEW paths, MovesTo(p, to, paths), paths \subseteq Names,
               to \in Staged => pc[p] \in Staged,
               UNCHANGED <<source, outside, edits, staging, disturbed, found, mode, runs>>
        PROVE  TypeInv'
    BY <1>1, <1>3, MoveType, OnlyOfExcept
  <1>4. ASSUME NEW m \in {"copy", "symlink"}, Start(p, m)
        PROVE  TypeInv'
    <2>1. MovesTo(p, "scanning", Exists(source))
      BY <1>4 DEF Start, MovesTo
    <2>2. runs' \in 0..MaxRuns /\ mode' \in [Procs -> {"copy", "symlink"}]
      BY <1>1, <1>4, InstallAssumption DEF Start
    <2>3. UNCHANGED <<source, outside, edits, staging, disturbed, found>>
      BY <1>4 DEF Start, Unshared
    <2> QED
      BY <1>1, <2>1, <2>2, <2>3, MoveType, OnlyOfExcept DEF Phases, Staged
  <1>5. CASE Scan(p)
    <2>1. PICK n \in todo[p] :
             /\ todo' = [todo EXCEPT ![p] = todo[p] \ {n}]
             /\ seen' = IF IsFile(source[n])
                        THEN [seen EXCEPT ![p] = With(seen[p], n, Behind(source[n], outside))]
                        ELSE seen
      BY <1>5 DEF Scan
    <2>2. UNCHANGED <<source, outside, edits, target, staging, pc, mode, snapshot, found, runs,
                      disturbed>>
      BY <1>5 DEF Scan, Unshared
    <2>3. n \in Names /\ (IsFile(source[n]) => Behind(source[n], outside).what \in Contents)
      BY <1>1 DEF TypeInv, IsFile, EntriesAt, Behind
    <2>4. DOMAIN seen'[p] \subseteq Names /\ \A k \in DOMAIN seen'[p] : seen'[p][k].what \in Contents
      <3>1. CASE IsFile(source[n])
        <4>1. seen'[p] = With(seen[p], n, Behind(source[n], outside))
          BY <2>1, <3>1 DEF StateOK
        <4>2. /\ DOMAIN seen'[p] = DOMAIN seen[p] \cup {n}
              /\ \A k \in DOMAIN seen'[p] :
                    seen'[p][k] = IF k = n THEN Behind(source[n], outside) ELSE seen[p][k]
          BY <4>1 DEF With
        <4> QED
          BY <1>1, <2>3, <3>1, <4>2 DEF ProcOK
      <3>2. CASE ~ IsFile(source[n])
        BY <1>1, <2>1, <3>2 DEF ProcOK
      <3> QED
        BY <3>1, <3>2
    <2>5. todo'[p] \subseteq Names
      BY <1>1, <2>1 DEF StateOK
    <2>6. ProcOK(p)'
      BY <1>1, <2>2, <2>4, <2>5 DEF ProcOK
    <2>7. OnlyOf(p, todo, todo') /\ OnlyOf(p, seen, seen')
      BY <2>1, OnlyOfExcept
    <2>8. /\ OnlyOf(p, pc, pc') /\ OnlyOf(p, snapshot, snapshot') /\ OnlyOf(p, found, found')
          /\ OnlyOf(p, staging, staging') /\ TargetType'
      BY <1>1, <2>2, OnlyOfExcept DEF TargetType
    <2> QED
      BY <1>1, <2>2, <2>6, <2>7, <2>8, StepType DEF TypeInv
  <1>6. CASE ScanDone(p)
    <2>1. seen'[p] = <<>> /\ snapshot'[p] = seen[p] /\ pc'[p] = "checking"
      BY <1>6 DEF ScanDone, StateOK
    <2>2. UNCHANGED <<source, outside, edits, target, staging, mode, todo, found, runs, disturbed>>
      BY <1>6 DEF ScanDone, Unshared
    <2>3. DOMAIN seen'[p] = {}
      BY <2>1
    <2>4. ProcOK(p)'
      BY <1>1, <2>1, <2>2, <2>3 DEF ProcOK, Staged
    <2>5. pc' \in [Procs -> Phases]
      BY <1>6 DEF ScanDone, TypeInv, Phases
    <2>6. OnlyOf(p, pc, pc') /\ OnlyOf(p, seen, seen') /\ OnlyOf(p, snapshot, snapshot')
      BY <1>6, OnlyOfExcept DEF ScanDone
    <2>7. OnlyOf(p, todo, todo') /\ OnlyOf(p, found, found') /\ OnlyOf(p, staging, staging')
          /\ TargetType'
      BY <1>1, <2>2, OnlyOfExcept DEF TargetType
    <2> QED
      BY <1>1, <2>2, <2>4, <2>5, <2>6, <2>7, StepType DEF TypeInv
  <1>7. CASE CheckTarget(p)
    <2>1. UNCHANGED <<source, outside, edits, target>>
      BY <1>7 DEF CheckTarget, Unshared
    <2>2. ASSUME NEW to \in {"linking", "staging"}, pc' = [pc EXCEPT ![p] = to],
                 UNCHANGED <<staging, mode, todo, seen, snapshot, found, disturbed, runs>>
          PROVE  TypeInv'
      <3>1. MovesTo(p, to, todo[p])
        BY <2>1, <2>2 DEF MovesTo
      <3> QED
        BY <1>1, <1>3, <2>1, <2>2, <3>1 DEF Phases, Staged
    <2>3. ASSUME pc' = [pc EXCEPT ![p] = "auditing"], todo' = [todo EXCEPT ![p] = ManagedPaths],
                 UNCHANGED <<staging, mode, seen, snapshot, found, disturbed, runs>>,
                 target # Absent, target.kind = "copy"
          PROVE  TypeInv'
      <3>1. ManagedPaths \subseteq Names
        BY <1>1, <2>3 DEF ManagedPaths, TargetType
      <3>2. MovesTo(p, "auditing", ManagedPaths)
        BY <2>1, <2>3 DEF MovesTo
      <3> QED
        BY <1>3, <2>1, <2>3, <3>1, <3>2 DEF Phases, Staged
    <2> QED
      BY <1>2, <1>7, <2>1, <2>2, <2>3 DEF CheckTarget
  <1>8. CASE Rehash(p)
    <2>1. PICK n \in todo[p] :
             /\ todo' = [todo EXCEPT ![p] = todo[p] \ {n}]
             /\ found' = IF n \in DOMAIN FilesAtTarget
                         THEN [found EXCEPT ![p] = With(found[p], n, ReadsAs(FilesAtTarget[n]))]
                         ELSE found
      BY <1>8 DEF Rehash
    <2>2. MovesTo(p, "auditing", todo[p] \ {n})
          /\ UNCHANGED <<source, outside, edits, staging, disturbed, mode, runs>>
      BY <1>8, <2>1 DEF Rehash, MovesTo, Unshared
    <2>3. DOMAIN found'[p] \subseteq Names
      BY <1>1, <2>1 DEF TypeInv, With
    <2>4. OnlyOf(p, found, found')
      BY <2>1, OnlyOfExcept
    <2> QED
      BY <1>1, <2>2, <2>3, <2>4, MoveType DEF Phases, Staged
  <1>9. CASE RehashDone(p)
    BY <1>2, <1>9 DEF RehashDone, Unshared
  <1>10. CASE Crash(p)
    BY <1>2, <1>10 DEF Crash, Unshared
  <1>11. CASE Link(p)
    <2>1. UNCHANGED <<source, outside, edits>> /\ TargetType'
      BY <1>1, <1>11 DEF Link, Unshared, TargetType
    <2> QED
      BY <1>11, <2>1, EndType DEF Link
  <1>12. CASE Stage(p)
    <2>1. staging'[p] = <<>> /\ pc'[p] = "copying" /\ todo'[p] = Exists(source)
      BY <1>12 DEF Stage, StateOK, TypeInv
    <2>2. UNCHANGED <<source, outside, edits, target, mode, seen, snapshot, found, runs, disturbed>>
      BY <1>12 DEF Stage, Unshared
    <2>3. DOMAIN staging'[p] = {}
      BY <2>1
    <2>4. ProcOK(p)'
      BY <1>1, <2>1, <2>2, <2>3 DEF ProcOK
    <2>5. pc' \in [Procs -> Phases]
      BY <1>12 DEF Stage, TypeInv, Phases
    <2>6. OnlyOf(p, pc, pc') /\ OnlyOf(p, todo, todo') /\ OnlyOf(p, staging, staging')
      BY <1>12, OnlyOfExcept DEF Stage
    <2>7. OnlyOf(p, seen, seen') /\ OnlyOf(p, snapshot, snapshot') /\ OnlyOf(p, found, found')
          /\ TargetType'
      BY <1>1, <2>2, OnlyOfExcept DEF TargetType
    <2> QED
      BY <1>1, <2>2, <2>4, <2>5, <2>6, <2>7, StepType DEF TypeInv
  <1>13. CASE Copy(p)
    <2>1. UNCHANGED <<source, outside, edits, target>> /\ pc[p] = "copying"
      BY <1>13 DEF Copy, Unshared
    <2>2. PICK n \in todo[p] :
             IF source[n] = Absent THEN End(p, "rejected")
             ELSE /\ staging' = [staging EXCEPT ![p] = With(staging[p], n, source[n].what)]
                  /\ todo' = [todo EXCEPT ![p] = todo[p] \ {n}]
                  /\ UNCHANGED <<pc, mode, seen, snapshot, found, runs, disturbed>>
      BY <1>13 DEF Copy
    <2>3. CASE source[n] = Absent
      BY <1>2, <2>1, <2>2, <2>3
    <2>4. CASE source[n] # Absent
      <3>1. /\ staging' = [staging EXCEPT ![p] = With(staging[p], n, source[n].what)]
            /\ todo' = [todo EXCEPT ![p] = todo[p] \ {n}]
            /\ UNCHANGED <<pc, mode, seen, snapshot, found, runs, disturbed>>
        BY <2>2, <2>4
      <3>2. staging'[p] = With(staging[p], n, source[n].what) /\ todo'[p] = todo[p] \ {n}
        BY <3>1 DEF TypeInv, StateOK
      <3>3. DOMAIN staging[p] \subseteq Names /\ n \in Names
        BY <1>1, <2>1 DEF ProcOK, Staged
      <3>4. DOMAIN staging'[p] \subseteq Names
        BY <3>2, <3>3 DEF With
      <3>5. ProcOK(p)'
        BY <1>1, <3>1, <3>2, <3>4 DEF ProcOK
      <3>6. OnlyOf(p, todo, todo') /\ OnlyOf(p, staging, staging')
        BY <3>1, OnlyOfExcept
      <3>7. /\ OnlyOf(p, pc, pc') /\ OnlyOf(p, seen, seen') /\ OnlyOf(p, snapshot, snapshot')
            /\ OnlyOf(p, found, found') /\ TargetType'
        BY <1>1, <2>1, <3>1, OnlyOfExcept DEF TargetType
      <3> QED
        BY <1>1, <2>1, <3>1, <3>5, <3>6, <3>7, StepType DEF TypeInv
    <2> QED
      BY <2>3, <2>4
  <1>14. CASE CopyDone(p)
    <2>1. MovesTo(p, "rescanning", Exists(source)) /\ pc[p] = "copying"
          /\ UNCHANGED <<source, outside, edits, staging, disturbed, found, mode, runs>>
      BY <1>14 DEF CopyDone, MovesTo, Unshared
    <2> QED
      BY <1>1, <1>3, <2>1 DEF Phases, Staged
  <1>15. CASE RescanDone(p)
    <2>1. UNCHANGED <<source, outside, edits, target>> /\ pc[p] = "rescanning"
      BY <1>15 DEF RescanDone, Unshared
    <2>2. CASE seen[p] = snapshot[p]
      <3>1. MovesTo(p, "verifying", DOMAIN snapshot[p])
            /\ UNCHANGED <<staging, disturbed, found, mode, runs>>
        BY <1>15, <2>2 DEF RescanDone, MovesTo
      <3> QED
        BY <1>1, <1>3, <2>1, <3>1 DEF Phases, Staged
    <2>3. CASE seen[p] # snapshot[p]
      BY <1>2, <1>15, <2>1, <2>3 DEF RescanDone
    <2> QED
      BY <2>2, <2>3
  <1>16. CASE Verify(p)
    <2>1. PICK n \in todo[p] :
             \/ End(p, "rejected")
             \/ todo' = [todo EXCEPT ![p] = todo[p] \ {n}]
                /\ UNCHANGED <<staging, pc, mode, seen, snapshot, found, disturbed, runs>>
      BY <1>16 DEF Verify
    <2>2. UNCHANGED <<source, outside, edits, target>> /\ pc[p] = "verifying"
      BY <1>16 DEF Verify, Unshared
    <2>3. ASSUME todo' = [todo EXCEPT ![p] = todo[p] \ {n}],
                 UNCHANGED <<staging, pc, mode, seen, snapshot, found, disturbed, runs>>
          PROVE  TypeInv'
      <3>1. MovesTo(p, "verifying", todo[p] \ {n})
        BY <2>2, <2>3 DEF MovesTo
      <3> QED
        BY <1>1, <1>3, <2>2, <2>3, <3>1 DEF Phases, Staged
    <2> QED
      BY <1>2, <2>1, <2>2, <2>3
  <1>17. CASE Rename(p)
    <2>1. UNCHANGED <<source, outside, edits>> /\ pc[p] = "verifying"
      BY <1>17 DEF Rename, Unshared
    <2>2. CASE target = Absent \/ target.kind = "empty"
      <3>1. target' = Finished(p) /\ End(p, "installed")
        BY <1>17, <2>2 DEF Rename
      <3>2. target'.kind = "copy" /\ target'.files = With(staging[p], ManifestName, Manifest)
        BY <3>1 DEF Finished
      <3>3. DOMAIN target'.files \subseteq Names \cup {ManifestName}
        BY <1>1, <2>1, <3>2 DEF With, ProcOK, Staged
      <3>4. TargetType'
        BY <3>2, <3>3 DEF TargetType
      <3> QED
        BY <2>1, <3>1, <3>4, EndType
    <2>3. CASE ~ (target = Absent \/ target.kind = "empty")
      BY <1>2, <1>17, <2>1, <2>3 DEF Rename
    <2> QED
      BY <2>2, <2>3
  <1> QED
    BY <1>4, <1>5, <1>6, <1>7, <1>8, <1>9, <1>10, <1>11, <1>12, <1>13, <1>14, <1>15, <1>16, <1>17
    DEF Install

(* What the people at work do is not the installers' business. *)
LEMMA OutsideType ==
    ASSUME StateOK, TargetOK, TypeInv,
           (\E n \in Names : EditSource(n)) \/ EditOutside \/ TouchTarget \/ UNCHANGED vars
    PROVE  TypeInv'
  <1>1. UNCHANGED <<staging, pc, mode, todo, seen, snapshot, found, runs>>
        /\ (disturbed' = disturbed \/ disturbed' = [p \in Procs |-> pc[p] = "auditing"])
    BY DEF EditSource, EditOutside, Edited, TouchTarget, vars, local
  <1>2. disturbed' \in [Procs -> BOOLEAN]
    BY <1>1 DEF TypeInv
  <1>3. ASSUME source' \in [Names -> EntriesAt(0..MaxEdits)],
               outside' \in [what: Contents, stamp: 0..MaxEdits],
               edits' \in 0..MaxEdits, TargetType'
        PROVE  TypeInv'
    BY <1>1, <1>2, <1>3 DEF TypeInv, ProcOK
  <1>4. edits < MaxEdits => edits + 1 \in 0..MaxEdits
    BY InstallAssumption DEF TypeInv
  <1>5. ASSUME NEW n \in Names, EditSource(n)
        PROVE  TypeInv'
    <2>1. PICK entry \in EntriesAt({edits + 1}) : source' = [source EXCEPT ![n] = entry]
      BY <1>5 DEF EditSource
    <2>2. edits' = edits + 1 /\ edits < MaxEdits /\ UNCHANGED <<target, outside>>
      BY <1>5 DEF EditSource, Edited
    <2>3. entry \in EntriesAt(0..MaxEdits)
      BY <1>4, <2>1, <2>2 DEF EntriesAt
    <2>4. source' \in [Names -> EntriesAt(0..MaxEdits)] /\ TargetType'
      BY <2>1, <2>2, <2>3 DEF TypeInv, TargetType
    <2> QED
      BY <1>3, <1>4, <2>2, <2>4 DEF TypeInv
  <1>6. CASE EditOutside
    <2>1. edits' = edits + 1 /\ edits < MaxEdits /\ UNCHANGED target
      BY <1>6 DEF EditOutside, Edited
    <2>2. outside' \in [what: Contents, stamp: 0..MaxEdits] /\ TargetType'
      BY <1>4, <1>6, <2>1 DEF EditOutside, TypeInv, TargetType
    <2>3. [what |-> FileLink, stamp |-> edits + 1] \in EntriesAt(0..MaxEdits)
      BY <1>4, <2>1 DEF EntriesAt
    <2>4. source' \in [Names -> EntriesAt(0..MaxEdits)]
      BY <1>6, <2>3 DEF EditOutside, TypeInv
    <2> QED
      BY <1>3, <1>4, <2>1, <2>2, <2>4
  <1>7. CASE TouchTarget
    <2>1. UNCHANGED <<source, outside, edits>>
      BY <1>7 DEF TouchTarget
    <2>2. TargetType'
      <3>1. CASE target' = Absent \/ target' = [kind |-> "empty"]
        BY <3>1 DEF TargetType
      <3>2. ASSUME target # Absent, target.kind = "copy", NEW files,
                   target' = [target EXCEPT !.files = files],
                   DOMAIN files \subseteq Names \cup {ManifestName}
            PROVE  TargetType'
        <4>1. target'.kind = "copy" /\ target'.files = files
          BY <3>2 DEF TargetOK
        <4> QED
          BY <3>2, <4>1 DEF TargetType
      <3>3. ASSUME target # Absent, target.kind = "copy", NEW n \in Names
            PROVE  /\ DOMAIN [m \in DOMAIN target.files \ {n} |-> target.files[m]]
                        \subseteq Names \cup {ManifestName}
                   /\ \A what : DOMAIN With(target.files, n, what)
                        \subseteq Names \cup {ManifestName}
        BY <3>3 DEF TypeInv, TargetType, With
      <3>4. ASSUME target # Absent, target.kind = "copy", NEW n \in Names,
                   \/ target' = [target EXCEPT !.files = [m \in DOMAIN @ \ {n} |-> @[m]]]
                   \/ \E what \in Contents : target' = [target EXCEPT !.files = With(@, n, what)]
            PROVE  TargetType'
        BY <3>2, <3>3, <3>4
      <3> QED
        BY <1>7, <3>1, <3>4 DEF TouchTarget
    <2> QED
      BY <1>3, <2>1, <2>2 DEF TypeInv
  <1>8. CASE UNCHANGED vars
    BY <1>3, <1>8 DEF vars, TypeInv, TargetType
  <1> QED
    BY <1>5, <1>6, <1>7, <1>8
-----------------------------------------------------------------------------
(***************************************************************************)
(* SuccessMeansInstalled.  As long as the copy and what it links to stand  *)
(* still, what an installer has found of it is what it holds, and what it  *)
(* has yet to look at is the rest.                                         *)
(***************************************************************************)
FoundAsHeld(p) ==
    /\ target # Absent /\ target.kind = "copy" /\ todo[p] \subseteq ManagedPaths
    /\ DOMAIN found[p] = ManagedPaths \ todo[p]
    /\ \A n \in DOMAIN found[p] : found[p][n] = ReadsAs(target.files[n])

AuditOK(p) ==
    /\ pc[p] # "auditing" => DOMAIN found[p] = {}
    /\ pc[p] = "auditing" /\ ~ disturbed[p] => FoundAsHeld(p)

(* Nothing of an installer changes in another's step. *)
LEMMA OtherInstaller ==
    ASSUME StateOK, TypeInv, NEW p \in Procs, NEW q \in Procs, p # q, Install(q)
    PROVE  /\ pc'[p] = pc[p] /\ mode'[p] = mode[p] /\ todo'[p] = todo[p] /\ seen'[p] = seen[p]
           /\ snapshot'[p] = snapshot[p] /\ staging'[p] = staging[p] /\ found'[p] = found[p]
           /\ disturbed'[p] = disturbed[p]
  <1> USE DEF StateOK, TypeInv
  <1>1. ASSUME NEW how, End(q, how)
        PROVE  /\ pc'[p] = pc[p] /\ mode'[p] = mode[p] /\ todo'[p] = todo[p] /\ seen'[p] = seen[p]
               /\ snapshot'[p] = snapshot[p] /\ staging'[p] = staging[p] /\ found'[p] = found[p]
               /\ disturbed'[p] = disturbed[p]
    BY <1>1 DEF End
  <1>2. CASE (\E m \in {"copy", "symlink"} : Start(q, m)) \/ Scan(q) \/ ScanDone(q)
    BY <1>2 DEF Start, Scan, ScanDone
  <1>3. CASE CheckTarget(q) \/ Rehash(q) \/ RehashDone(q) \/ Link(q)
    BY <1>1, <1>3 DEF CheckTarget, Rehash, RehashDone, Link
  <1>4. CASE Stage(q) \/ Copy(q) \/ CopyDone(q)
    BY <1>1, <1>4 DEF Stage, Copy, CopyDone
  <1>5. CASE RescanDone(q) \/ Verify(q) \/ Rename(q) \/ Crash(q)
    BY <1>1, <1>5 DEF RescanDone, Verify, Rename, Crash
  <1> QED
    BY <1>2, <1>3, <1>4, <1>5 DEF Install

(* Where the copy, its links' file and the installer's finds stay, so does AuditOK. *)
LEMMA AuditStays ==
    ASSUME NEW p \in Procs, AuditOK(p), pc'[p] = pc[p], todo'[p] = todo[p], found'[p] = found[p],
           disturbed'[p] = disturbed[p],
           target # Absent /\ target.kind = "copy" => UNCHANGED <<target, outside>>
    PROVE  AuditOK(p)'
  BY DEF AuditOK, FoundAsHeld, ManagedPaths, ReadsAs

(* The steps of the installer itself. *)
LEMMA OwnAudit ==
    ASSUME StateOK, TypeInv, NEW p \in Procs, AuditOK(p), Install(p)
    PROVE  AuditOK(p)'
  <1>1. ASSUME NEW how \in {"idle", "installed", "rejected"}, End(p, how)
        PROVE  AuditOK(p)'
    <2>1. pc'[p] = how /\ found'[p] = <<>>
      BY <1>1 DEF End, StateOK, TypeInv
    <2> QED
      BY <2>1 DEF AuditOK
  <1>2. ASSUME pc[p] # "auditing", pc'[p] # "auditing", UNCHANGED found
        PROVE  AuditOK(p)'
    BY <1>2 DEF AuditOK
  <1>3. CASE (\E m \in {"copy", "symlink"} : Start(p, m)) \/ Scan(p) \/ ScanDone(p) \/ Stage(p)
             \/ CopyDone(p)
    BY <1>2, <1>3 DEF Start, Scan, ScanDone, Stage, CopyDone, StateOK
  <1>4. CASE Link(p) \/ Rename(p) \/ RehashDone(p) \/ Crash(p)
    BY <1>1, <1>4 DEF Link, Rename, RehashDone, Crash
  <1>5. CASE Copy(p)
    <2>1. CASE End(p, "rejected")
      BY <1>1, <2>1
    <2>2. CASE UNCHANGED <<pc, found>>
      BY <1>2, <1>5, <2>2 DEF Copy
    <2> QED
      BY <1>5, <2>1, <2>2 DEF Copy
  <1>6. CASE RescanDone(p)
    BY <1>1, <1>2, <1>6 DEF RescanDone, StateOK
  <1>7. CASE Verify(p)
    <2>1. CASE End(p, "rejected")
      BY <1>1, <2>1
    <2>2. CASE UNCHANGED <<pc, found>>
      BY <1>2, <1>7, <2>2 DEF Verify
    <2> QED
      BY <1>7, <2>1, <2>2 DEF Verify
  <1>8. CASE CheckTarget(p)
    <2>1. pc[p] = "checking" /\ UNCHANGED <<target, outside>>
      BY <1>8 DEF CheckTarget, Unshared
    <2>2. ASSUME NEW to \in {"linking", "staging"}, pc' = [pc EXCEPT ![p] = to], UNCHANGED found
          PROVE  AuditOK(p)'
      BY <1>2, <2>1, <2>2 DEF StateOK
    <2>3. ASSUME target # Absent, target.kind = "copy", pc' = [pc EXCEPT ![p] = "auditing"],
                 todo' = [todo EXCEPT ![p] = ManagedPaths], UNCHANGED found
          PROVE  AuditOK(p)'
      <3>1. pc'[p] = "auditing" /\ todo'[p] = ManagedPaths
        BY <2>3 DEF StateOK
      <3>2. DOMAIN found'[p] = {}
        BY <2>1, <2>3 DEF AuditOK
      <3>3. ManagedPaths' = ManagedPaths
        BY <2>1 DEF ManagedPaths
      <3> QED
        BY <2>1, <2>3, <3>1, <3>2, <3>3 DEF AuditOK, FoundAsHeld
    <2> QED
      BY <1>1, <1>8, <2>2, <2>3 DEF CheckTarget
  <1>9. CASE Rehash(p)
    <2>1. PICK n \in todo[p] :
             /\ todo' = [todo EXCEPT ![p] = todo[p] \ {n}]
             /\ found' = IF n \in DOMAIN FilesAtTarget
                         THEN [found EXCEPT ![p] = With(found[p], n, ReadsAs(FilesAtTarget[n]))]
                         ELSE found
      BY <1>9 DEF Rehash
    <2>2. UNCHANGED <<target, outside, pc, disturbed>> /\ pc[p] = "auditing"
      BY <1>9 DEF Rehash, Unshared
    <2>3. ASSUME ~ disturbed[p]
          PROVE  FoundAsHeld(p)'
      <3>1. FoundAsHeld(p)
        BY <2>2, <2>3 DEF AuditOK
      <3>2. FilesAtTarget = target.files /\ n \in DOMAIN target.files /\ n \in ManagedPaths
        BY <2>1, <3>1 DEF FoundAsHeld, FilesAtTarget, ManagedPaths
      <3>3. found'[p] = With(found[p], n, ReadsAs(target.files[n])) /\ todo'[p] = todo[p] \ {n}
        BY <2>1, <3>2 DEF TypeInv, StateOK
      <3>4. /\ DOMAIN found'[p] = DOMAIN found[p] \cup {n}
            /\ \A m \in DOMAIN found'[p] :
                  found'[p][m] = IF m = n THEN ReadsAs(target.files[n]) ELSE found[p][m]
        BY <3>3 DEF With
      <3>5. ManagedPaths' = ManagedPaths /\ \A what : ReadsAs(what)' = ReadsAs(what)
        BY <2>2 DEF ManagedPaths, ReadsAs
      <3>6. DOMAIN found'[p] = ManagedPaths' \ todo'[p] /\ todo'[p] \subseteq ManagedPaths'
        BY <2>1, <3>1, <3>2, <3>3, <3>4, <3>5 DEF FoundAsHeld
      <3>7. \A m \in DOMAIN found'[p] : found'[p][m] = ReadsAs(target.files[m])
        BY <3>1, <3>4 DEF FoundAsHeld
      <3>8. \A m \in DOMAIN found'[p] : found'[p][m] = ReadsAs(target.files[m])'
        BY <2>2, <3>7 DEF ReadsAs
      <3> QED
        BY <2>2, <3>1, <3>6, <3>8 DEF FoundAsHeld
    <2> QED
      BY <2>2, <2>3 DEF AuditOK
  <1> QED
    BY <1>3, <1>4, <1>5, <1>6, <1>7, <1>8, <1>9 DEF Install

AuditInv == \A p \in Procs : AuditOK(p)

LEMMA NextAudit == StateOK /\ TypeInv /\ AuditInv /\ [Next]_vars => AuditInv'
  <1> SUFFICES ASSUME StateOK, TypeInv, [Next]_vars, NEW p \in Procs, AuditOK(p)
               PROVE  AuditOK(p)'
    BY DEF AuditInv
  <1>1. ASSUME NEW q \in Procs, Install(q), q # p
        PROVE  AuditOK(p)'
    <2>1. outside' = outside
      BY <1>1 DEF Install, Start, Scan, ScanDone, CheckTarget, Rehash, RehashDone, Link, Stage,
                  Copy, CopyDone, RescanDone, Verify, Rename, Crash, Unshared
    <2>2. target # Absent /\ target.kind = "copy" => target' = target
      BY <1>1, InstallKeepsTarget DEF Occupied
    <2> QED
      BY <1>1, <2>1, <2>2, OtherInstaller, AuditStays
  <1>2. ASSUME NEW n \in Names, EditSource(n)
        PROVE  AuditOK(p)'
    BY <1>2, AuditStays DEF EditSource, Edited, local
  <1>3. CASE EditOutside \/ TouchTarget
    <2>1. UNCHANGED <<pc, found>> /\ disturbed' = [q \in Procs |-> pc[q] = "auditing"]
      BY <1>3 DEF EditOutside, Edited, TouchTarget, local
    <2> QED
      BY <2>1 DEF AuditOK
  <1>4. CASE UNCHANGED vars
    BY <1>4, AuditStays DEF vars, local
  <1> QED
    BY <1>1, <1>2, <1>3, <1>4, OwnAudit DEF Next

(* The inductive invariant of the installer. *)
THEOREM Invariance == Spec => [](IInv /\ TypeInv /\ AuditInv)
  <1>1. Init => IInv /\ TypeInv /\ AuditInv
    <2>1. Init => AuditInv
      BY DEF Init, AuditInv, AuditOK
    <2> QED
      BY <2>1, InitIInv, InitType
  <1>2. IInv /\ TypeInv /\ AuditInv /\ [Next]_vars => (IInv /\ TypeInv /\ AuditInv)'
    <2> SUFFICES ASSUME IInv, TypeInv, AuditInv, [Next]_vars
                 PROVE  IInv' /\ TypeInv' /\ AuditInv'
      OBVIOUS
    <2>1. StateOK /\ TargetOK /\ TypeOK
      BY TypeInvIsTypeOK DEF IInv
    <2>2. TypeInv'
      BY <2>1, InstallType, OutsideType DEF Next
    <2> QED
      BY <2>1, <2>2, NextIInv, NextAudit
  <1> QED
    BY <1>1, <1>2, PTL DEF Spec

(* Every variable keeps to its type, whoever edits, installs or is killed. *)
THEOREM TypeCorrect == Spec => []TypeOK
  BY Invariance, TypeInvIsTypeOK, PTL

(***************************************************************************)
(* The files an installation vouches for were in the source at one and the *)
(* same moment, for any number of installers, files and changes, as long   *)
(* as a change gives a file a new time.                                    *)
(***************************************************************************)
THEOREM VouchedTogether == Spec => []OneSourceState
  <1>1. IInv => OneSourceState
    BY DEF IInv, TargetOK, OneSourceState
  <1> QED
    BY <1>1, Invariance, PTL

(* Only the end of an audit leaves it with a verdict. *)
LEMMA AuditEnds ==
    ASSUME StateOK, TypeInv, [Next]_vars, NEW p \in Procs,
           pc[p] = "auditing", pc'[p] \in {"installed", "rejected"}
    PROVE  /\ todo[p] = {} /\ (pc'[p] = "installed" <=> AsListed(p))
           /\ UNCHANGED <<source, target>>
  <1>1. ASSUME NEW q \in Procs, Install(q), q # p
        PROVE  pc'[p] = pc[p]
    BY <1>1, OtherInstaller
  <1>2. ASSUME Install(p)
        PROVE  RehashDone(p)
    <2>1. ASSUME Rehash(p)
          PROVE  pc'[p] = "auditing"
      BY <2>1 DEF Rehash
    <2>2. ASSUME Crash(p)
          PROVE  pc'[p] = "idle"
      BY <2>2 DEF Crash, End, StateOK
    <2> QED
      BY <1>2, <2>1, <2>2
      DEF Install, Start, Scan, ScanDone, CheckTarget, Link, Stage, Copy, CopyDone,
          RescanDone, Verify, Rename
  <1>3. (\E n \in Names : EditSource(n)) \/ EditOutside \/ TouchTarget \/ UNCHANGED vars =>
          pc'[p] = pc[p]
    BY DEF EditSource, EditOutside, Edited, TouchTarget, vars, local
  <1>4. RehashDone(p)
    BY <1>1, <1>2, <1>3 DEF Next
  <1>5. pc'[p] = IF AsListed(p) THEN "installed" ELSE "rejected"
    BY <1>4 DEF RehashDone, End, StateOK
  <1> QED
    BY <1>4, <1>5 DEF RehashDone, Unshared

(***************************************************************************)
(* A call that takes a copy for its own while the copy stands still has    *)
(* found in it the files of its own scan and no other, although it reads   *)
(* them one by one and others install, edit and are killed meanwhile.      *)
(***************************************************************************)
THEOREM SuccessIsTrue == Spec => SuccessMeansInstalled
  <1>1. ASSUME StateOK, TypeInv, AuditInv, [Next]_vars, NEW p \in Procs,
               pc[p] = "auditing", pc'[p] = "installed", ~ disturbed[p]
        PROVE  /\ target # Absent /\ target.kind = "copy"
               /\ ManagedFiles(target.files) = Hashes(snapshot[p])
    <2>1. todo[p] = {} /\ AsListed(p)
      BY <1>1, AuditEnds
    <2>2. FoundAsHeld(p)
      BY <1>1 DEF AuditInv, AuditOK
    <2>3. DOMAIN snapshot[p] = DOMAIN target.files \ {ManifestName}
      BY <2>1, <2>2 DEF FoundAsHeld, ManagedPaths, AsListed, NothingMissing
    <2>4. \A n \in DOMAIN snapshot[p] : ReadsAs(target.files[n]) = snapshot[p][n].what
      BY <2>1, <2>2 DEF FoundAsHeld, AsListed, NothingMissing
    <2> QED
      BY <2>2, <2>3, <2>4 DEF FoundAsHeld, ManagedFiles, Hashes
  <1>2. IInv /\ TypeInv /\ AuditInv /\ [Next]_vars =>
          [\A p \in Procs : pc[p] = "auditing" /\ pc'[p] = "installed" /\ ~ disturbed[p] =>
              /\ target # Absent /\ target.kind = "copy"
              /\ ManagedFiles(target.files) = Hashes(snapshot[p])]_vars
    BY <1>1 DEF IInv
  <1> QED
    BY <1>2, Invariance, PTL DEF Spec, SuccessMeansInstalled
-----------------------------------------------------------------------------
(***************************************************************************)
(* ReinstallAccepted.  Until somebody edits the source, scans, staging     *)
(* directories and untouched copies are as the source is.                  *)
(***************************************************************************)
AsSource(p) ==
    /\ pc[p] \in {"idle", "installed", "rejected"} => DOMAIN seen[p] = {}
    /\ pc[p] = "scanning" =>
          /\ DOMAIN seen[p] = DOMAIN Sight \ todo[p]
          /\ \A n \in DOMAIN seen[p] : seen[p][n] = Sight[n]
    /\ pc[p] \in Scanned => Hashes(snapshot[p]) = FilesOf(source, outside)
    /\ pc[p] \in Staged =>
          /\ DOMAIN staging[p] = IF pc[p] = "copying" THEN Exists(source) \ todo[p]
                                 ELSE Exists(source)
          /\ \A n \in DOMAIN staging[p] : staging[p][n] = source[n].what

CopyAsSource ==
    target # Absent /\ target.kind = "copy" /\ ~ tampered =>
        /\ target.manifest = FilesOf(source, outside)
        /\ DOMAIN target.files = Exists(source) \cup {ManifestName}
        /\ \A n \in Exists(source) \ {ManifestName} : target.files[n] = source[n].what

Pristine == edits = 0 => CopyAsSource /\ \A p \in Procs : AsSource(p)

(* An installer's own step, with the source as it was. *)
LEMMA OwnAsSource ==
    ASSUME StateOK, TypeInv, NEW p \in Procs, AsSource(p), Install(p)
    PROVE  AsSource(p)'
  <1>1. UNCHANGED <<source, outside>> /\ Sight' = Sight
        /\ FilesOf(source, outside)' = FilesOf(source, outside) /\ Exists(source)' = Exists(source)
    <2>1. UNCHANGED <<source, outside>>
      BY DEF Install, Start, Scan, ScanDone, CheckTarget, Rehash, RehashDone, Link, Stage, Copy,
             CopyDone, RescanDone, Verify, Rename, Crash, Unshared
    <2> QED
      BY <2>1 DEF Sight, Behind, IsFile, FilesOf, Exists
  <1>2. DOMAIN Sight \subseteq Exists(source) /\ todo[p] \subseteq Names
    BY DEF Sight, Exists, IsFile, StateOK
  <1>3. ASSUME NEW how \in {"idle", "installed", "rejected"}, End(p, how)
        PROVE  AsSource(p)'
    <2>1. pc'[p] = how /\ seen'[p] = <<>>
      BY <1>3 DEF End, StateOK
    <2>2. DOMAIN seen'[p] = {}
      BY <2>1
    <2> QED
      BY <2>1, <2>2 DEF AsSource, Scanned, Staged
  (* the phases after the scan, with nothing copied *)
  <1>4. ASSUME pc[p] \in Scanned, pc'[p] \in Scanned, UNCHANGED <<snapshot, staging>>,
               pc'[p] \in Staged => pc[p] \in Staged,
               pc[p] = "copying" /\ pc'[p] # "copying" => todo[p] = {},
               pc'[p] = "copying" => pc[p] = "copying" /\ todo'[p] = todo[p]
        PROVE  AsSource(p)'
    BY <1>1, <1>4 DEF AsSource, Scanned, Staged, Hashes
  <1>5. ASSUME NEW m \in {"copy", "symlink"}, Start(p, m)
        PROVE  AsSource(p)'
    <2>1. pc'[p] = "scanning" /\ todo'[p] = Exists(source) /\ DOMAIN seen'[p] = {}
      BY <1>5 DEF Start, AsSource, StateOK
    <2> QED
      BY <1>1, <1>2, <2>1 DEF AsSource, Scanned, Staged
  <1>6. CASE Scan(p)
    <2>1. PICK n \in todo[p] :
             /\ todo' = [todo EXCEPT ![p] = todo[p] \ {n}]
             /\ seen' = IF IsFile(source[n])
                        THEN [seen EXCEPT ![p] = With(seen[p], n, Behind(source[n], outside))]
                        ELSE seen
      BY <1>6 DEF Scan
    <2>2. UNCHANGED <<pc, snapshot, staging>> /\ todo'[p] = todo[p] \ {n} /\ n \in Names
          /\ pc[p] \in {"scanning", "rescanning"}
      BY <1>2, <1>6, <2>1 DEF Scan, StateOK
    <2>3. ASSUME pc[p] = "scanning"
          PROVE  /\ DOMAIN seen'[p] = DOMAIN Sight \ todo'[p]
                 /\ \A k \in DOMAIN seen'[p] : seen'[p][k] = Sight[k]
      <3>1. CASE IsFile(source[n])
        <4>1. seen'[p] = With(seen[p], n, Behind(source[n], outside))
          BY <2>1, <3>1 DEF StateOK
        <4>2. n \in DOMAIN Sight /\ Sight[n] = Behind(source[n], outside)
          BY <2>2, <3>1 DEF Sight
        <4>3. /\ DOMAIN seen'[p] = DOMAIN seen[p] \cup {n}
              /\ \A k \in DOMAIN seen'[p] : seen'[p][k] = IF k = n THEN Sight[n] ELSE seen[p][k]
          BY <4>1, <4>2 DEF With
        <4> QED
          BY <2>2, <2>3, <4>2, <4>3 DEF AsSource
      <3>2. CASE ~ IsFile(source[n])
        <4>1. n \notin DOMAIN Sight /\ seen' = seen
          BY <2>1, <3>2 DEF Sight
        <4> QED
          BY <2>2, <2>3, <4>1 DEF AsSource
      <3> QED
        BY <3>1, <3>2
    <2> QED
      BY <1>1, <2>2, <2>3 DEF AsSource, Scanned, Staged, Hashes
  <1>7. CASE ScanDone(p)
    <2>1. pc[p] = "scanning" /\ todo[p] = {} /\ snapshot'[p] = seen[p] /\ pc'[p] = "checking"
      BY <1>7 DEF ScanDone, StateOK
    <2>2. DOMAIN seen[p] = DOMAIN Sight /\ \A n \in DOMAIN seen[p] : seen[p][n] = Sight[n]
      BY <2>1 DEF AsSource
    <2>3. Hashes(seen[p]) = FilesOf(source, outside)
      BY <2>2 DEF Hashes, FilesOf, Sight
    <2> QED
      BY <1>1, <2>1, <2>3 DEF AsSource, Staged, Hashes
  <1>8. CASE CheckTarget(p)
    <2>1. ASSUME NEW to \in {"linking", "staging", "auditing"}, pc' = [pc EXCEPT ![p] = to],
                 UNCHANGED <<snapshot, staging>>
          PROVE  AsSource(p)'
      BY <1>4, <1>8, <2>1 DEF CheckTarget, Scanned, Staged, StateOK
    <2> QED
      BY <1>3, <1>8, <2>1 DEF CheckTarget
  <1>9. CASE Rehash(p)
    BY <1>4, <1>9 DEF Rehash, Scanned, Staged
  <1>10. CASE RehashDone(p) \/ Link(p) \/ Rename(p) \/ Crash(p)
    BY <1>3, <1>10 DEF RehashDone, Link, Rename, Crash
  <1>11. CASE Stage(p)
    <2>1. /\ pc[p] = "staging" /\ pc'[p] = "copying" /\ todo'[p] = Exists(source)
          /\ staging'[p] = <<>> /\ UNCHANGED snapshot
      BY <1>11 DEF Stage, StateOK, TypeInv
    <2>2. DOMAIN staging'[p] = {}
      BY <2>1
    <2> QED
      BY <1>1, <2>1, <2>2 DEF AsSource, Scanned, Hashes
  <1>12. CASE Copy(p)
    <2>1. PICK n \in todo[p] :
             IF source[n] = Absent THEN End(p, "rejected")
             ELSE /\ staging' = [staging EXCEPT ![p] = With(staging[p], n, source[n].what)]
                  /\ todo' = [todo EXCEPT ![p] = todo[p] \ {n}]
                  /\ UNCHANGED <<pc, snapshot>>
      BY <1>12 DEF Copy
    <2>2. CASE source[n] = Absent
      BY <1>3, <2>1, <2>2
    <2>3. CASE source[n] # Absent
      <3>1. /\ pc[p] = "copying" /\ pc'[p] = "copying" /\ UNCHANGED snapshot
            /\ todo'[p] = todo[p] \ {n} /\ staging'[p] = With(staging[p], n, source[n].what)
        BY <1>12, <2>1, <2>3 DEF Copy, StateOK, TypeInv
      <3>2. n \in Exists(source)
        BY <1>2, <2>3 DEF Exists
      <3>3. /\ DOMAIN staging'[p] = DOMAIN staging[p] \cup {n}
            /\ \A m \in DOMAIN staging'[p] :
                  staging'[p][m] = IF m = n THEN source[n].what ELSE staging[p][m]
        BY <3>1 DEF With
      <3>4. DOMAIN staging[p] = Exists(source) \ todo[p]
            /\ \A m \in DOMAIN staging[p] : staging[p][m] = source[m].what
        BY <3>1 DEF AsSource, Staged
      <3>5. DOMAIN staging'[p] = Exists(source) \ todo'[p]
            /\ \A m \in DOMAIN staging'[p] : staging'[p][m] = source[m].what
        BY <3>1, <3>2, <3>3, <3>4
      <3> QED
        BY <1>1, <3>1, <3>5 DEF AsSource, Scanned, Hashes
    <2> QED
      BY <2>2, <2>3
  <1>13. CASE CopyDone(p)
    <2>1. /\ pc[p] = "copying" /\ todo[p] = {} /\ pc'[p] = "rescanning"
          /\ UNCHANGED <<snapshot, staging>>
      BY <1>13 DEF CopyDone, StateOK
    <2> QED
      BY <1>4, <2>1 DEF Scanned, Staged
  <1>14. CASE RescanDone(p)
    <2>1. CASE seen[p] = snapshot[p]
      <3>1. pc[p] = "rescanning" /\ pc'[p] = "verifying" /\ UNCHANGED <<snapshot, staging>>
        BY <1>14, <2>1 DEF RescanDone, StateOK
      <3> QED
        BY <1>4, <3>1 DEF Scanned, Staged
    <2> QED
      BY <1>3, <1>14, <2>1 DEF RescanDone
  <1>15. CASE Verify(p)
    <2>1. ASSUME UNCHANGED <<pc, snapshot, staging>>
          PROVE  AsSource(p)'
      BY <1>4, <1>15, <2>1 DEF Verify, Scanned, Staged
    <2> QED
      BY <1>3, <1>15, <2>1 DEF Verify
  <1> QED
    BY <1>5, <1>6, <1>7, <1>8, <1>9, <1>10, <1>11, <1>12, <1>13, <1>14, <1>15 DEF Install

(* The target of an installer's step. *)
LEMMA InstalledAsSource ==
    ASSUME StateOK, TypeInv, NEW p \in Procs, AsSource(p), CopyAsSource, Install(p)
    PROVE  CopyAsSource'
  <1>1. UNCHANGED <<source, outside>>
    BY DEF Install, Start, Scan, ScanDone, CheckTarget, Rehash, RehashDone, Link, Stage, Copy,
           CopyDone, RescanDone, Verify, Rename, Crash, Unshared
  <1>2. FilesOf(source, outside)' = FilesOf(source, outside) /\ Exists(source)' = Exists(source)
    BY <1>1 DEF FilesOf, Behind, IsFile, Exists
  <1>3. CASE UNCHANGED <<target, tampered>>
    BY <1>1, <1>2, <1>3 DEF CopyAsSource
  <1>4. CASE Link(p) /\ target' = [kind |-> "link"]
    BY <1>4 DEF CopyAsSource
  <1>5. CASE Rename(p) /\ target' = Finished(p)
    <2>1. /\ target'.manifest = Hashes(snapshot[p])
          /\ target'.files = With(staging[p], ManifestName, Manifest) /\ pc[p] = "verifying"
      BY <1>5 DEF Finished, Rename
    <2>2. /\ Hashes(snapshot[p]) = FilesOf(source, outside) /\ DOMAIN staging[p] = Exists(source)
          /\ \A n \in DOMAIN staging[p] : staging[p][n] = source[n].what
      BY <2>1 DEF AsSource, Scanned, Staged
    <2>3. /\ DOMAIN target'.files = Exists(source) \cup {ManifestName}
          /\ \A n \in Exists(source) \ {ManifestName} : target'.files[n] = source[n].what
      BY <2>1, <2>2 DEF With
    <2> QED
      BY <1>1, <1>2, <2>1, <2>2, <2>3 DEF CopyAsSource
  <1>6. UNCHANGED <<target, tampered>> \/ (Link(p) /\ target' = [kind |-> "link"])
        \/ (Rename(p) /\ target' = Finished(p))
    BY DEF Install, Start, Scan, ScanDone, CheckTarget, Rehash, RehashDone, Link, Stage, Copy,
           CopyDone, RescanDone, Verify, Rename, Crash
  <1> QED
    BY <1>3, <1>4, <1>5, <1>6

LEMMA NextPristine == IInv /\ TypeInv /\ Pristine /\ [Next]_vars => Pristine'
  <1> SUFFICES ASSUME StateOK, TypeInv, Pristine, [Next]_vars, edits' = 0
               PROVE  CopyAsSource' /\ \A p \in Procs : AsSource(p)'
    BY DEF IInv, Pristine
  <1>1. ASSUME NEW q \in Procs, Install(q)
        PROVE  CopyAsSource' /\ \A p \in Procs : AsSource(p)'
    <2>1. UNCHANGED <<source, outside, edits>>
      BY <1>1 DEF Install, Start, Scan, ScanDone, CheckTarget, Rehash, RehashDone, Link, Stage,
                  Copy, CopyDone, RescanDone, Verify, Rename, Crash, Unshared
    <2>2. CopyAsSource /\ \A p \in Procs : AsSource(p)
      BY <2>1 DEF Pristine
    <2>3. ASSUME NEW p \in Procs, p # q
          PROVE  AsSource(p)'
      <3>1. Sight' = Sight /\ FilesOf(source, outside)' = FilesOf(source, outside)
            /\ Exists(source)' = Exists(source)
        BY <2>1 DEF Sight, Behind, IsFile, FilesOf, Exists
      <3>2. /\ pc'[p] = pc[p] /\ todo'[p] = todo[p] /\ seen'[p] = seen[p]
            /\ snapshot'[p] = snapshot[p] /\ staging'[p] = staging[p]
        BY <1>1, <2>3, OtherInstaller
      <3>3. AsSource(p) /\ Hashes(snapshot[p])' = Hashes(snapshot[p])
        BY <2>2, <3>2 DEF Hashes
      <3> QED
        BY <2>1, <3>1, <3>2, <3>3 DEF AsSource
    <2> QED
      BY <1>1, <2>2, <2>3, OwnAsSource, InstalledAsSource
  <1>2. ASSUME UNCHANGED <<source, outside, edits, local>>, tampered' \/ UNCHANGED <<target, tampered>>
        PROVE  CopyAsSource' /\ \A p \in Procs : AsSource(p)'
    <2>1. Sight' = Sight /\ FilesOf(source, outside)' = FilesOf(source, outside)
          /\ Exists(source)' = Exists(source)
      BY <1>2 DEF Sight, Behind, IsFile, FilesOf, Exists
    <2>2. CopyAsSource /\ \A p \in Procs : AsSource(p)
      BY <1>2 DEF Pristine
    <2>3. CopyAsSource'
      BY <1>2, <2>1, <2>2 DEF CopyAsSource
    <2>4. ASSUME NEW p \in Procs
          PROVE  AsSource(p)'
      BY <1>2, <2>1, <2>2 DEF AsSource, Hashes, local
    <2> QED
      BY <2>3, <2>4
  <1>3. CASE (\E n \in Names : EditSource(n)) \/ EditOutside
    BY <1>3 DEF EditSource, EditOutside, Edited, StateOK
  <1>4. CASE TouchTarget \/ UNCHANGED vars
    BY <1>2, <1>4 DEF TouchTarget, vars
  <1> QED
    BY <1>1, <1>3, <1>4 DEF Next

LEMMA InitPristine == Init => Pristine
  <1> SUFFICES ASSUME Init
               PROVE  CopyAsSource /\ \A p \in Procs : AsSource(p)
    BY DEF Pristine
  <1>1. \A p \in Procs : pc[p] = "idle" /\ DOMAIN seen[p] = {}
    BY DEF Init
  <1> QED
    BY <1>1 DEF Init, CopyAsSource, AsSource, Scanned, Staged

(***************************************************************************)
(* README.md: reinstalling an identical managed copy is accepted, for any  *)
(* source without links to directories and without a file of the           *)
(* manifest's name, whatever other installers do and wherever they are     *)
(* killed.                                                                 *)
(***************************************************************************)
THEOREM ReinstallIsAccepted == Spec => ReinstallAccepted
  <1>1. ASSUME StateOK, TypeInv, AuditInv, Pristine, [Next]_vars, NEW p \in Procs,
               pc[p] \in {"checking", "auditing"}, mode[p] = "copy", pc'[p] = "rejected",
               AsInstalled, PlainSource, ~ disturbed[p]
        PROVE  FALSE
    <2>1. /\ target.manifest = FilesOf(source, outside)
          /\ DOMAIN target.files = Exists(source) \cup {ManifestName}
          /\ \A n \in Exists(source) \ {ManifestName} : target.files[n] = source[n].what
      BY <1>1 DEF AsInstalled, Pristine, CopyAsSource
    <2>2. Hashes(snapshot[p]) = FilesOf(source, outside)
      BY <1>1 DEF AsInstalled, Pristine, AsSource, Scanned
    <2>3. CASE pc[p] = "checking"
      <3>1. ASSUME NEW q \in Procs, Install(q), q # p
            PROVE  pc'[p] = pc[p]
        BY <1>1, <3>1, OtherInstaller
      <3>2. ASSUME Install(p)
            PROVE  CheckTarget(p) \/ Crash(p)
        BY <2>3, <3>2
        DEF Install, Start, Scan, ScanDone, Rehash, RehashDone, Link, Stage, Copy, CopyDone,
            RescanDone, Verify, Rename
      <3>3. ASSUME Crash(p)
            PROVE  pc'[p] = "idle"
        BY <1>1, <3>3 DEF Crash, End, StateOK
      <3>4. CASE (\E n \in Names : EditSource(n)) \/ EditOutside \/ TouchTarget \/ UNCHANGED vars
        BY <1>1, <2>3, <3>4 DEF EditSource, EditOutside, Edited, TouchTarget, vars, local
      <3>5. CheckTarget(p)
        BY <1>1, <2>3, <3>1, <3>2, <3>3, <3>4 DEF Next
      <3>6. pc' = [pc EXCEPT ![p] = "auditing"]
        BY <1>1, <2>1, <2>2, <3>5 DEF CheckTarget, AsInstalled
      <3> QED
        BY <1>1, <3>6 DEF StateOK
    <2>4. CASE pc[p] = "auditing"
      <3>1. todo[p] = {} /\ ~ AsListed(p)
        BY <1>1, <2>4, AuditEnds
      <3>2. FoundAsHeld(p)
        BY <1>1, <2>4 DEF AuditInv, AuditOK
      <3>3. ManifestName \notin Exists(source) /\ \A n \in Exists(source) : n \in Names /\ IsFile(source[n])
        BY <1>1 DEF PlainSource, Exists, IsFile
      <3>4. DOMAIN found[p] = Exists(source) /\ \A n \in DOMAIN found[p] : found[p][n] = ReadsAs(source[n].what)
        BY <2>1, <3>1, <3>2, <3>3 DEF FoundAsHeld, ManagedPaths
      <3>5. DOMAIN FilesOf(source, outside) = Exists(source)
        BY <3>3 DEF FilesOf, Exists, IsFile
      <3>6. \A n \in Exists(source) : FilesOf(source, outside)[n] = ReadsAs(source[n].what)
        BY <3>3 DEF FilesOf, Behind, ReadsAs
      <3>7. DOMAIN snapshot[p] = Exists(source)
            /\ \A n \in Exists(source) : snapshot[p][n].what = ReadsAs(source[n].what)
        <4>1. DOMAIN Hashes(snapshot[p]) = DOMAIN snapshot[p]
              /\ \A n \in DOMAIN snapshot[p] : Hashes(snapshot[p])[n] = snapshot[p][n].what
          BY DEF Hashes
        <4> QED
          BY <2>2, <3>5, <3>6, <4>1
      <3> QED
        BY <3>1, <3>4, <3>7 DEF AsListed, NothingMissing
    <2> QED
      BY <1>1, <2>3, <2>4
  <1>2. IInv /\ TypeInv /\ AuditInv /\ Pristine /\ [Next]_vars =>
          [\A p \in Procs :
             pc[p] \in {"checking", "auditing"} /\ mode[p] = "copy" /\ pc'[p] = "rejected" =>
                 ~ (AsInstalled /\ PlainSource) \/ disturbed[p]]_vars
    BY <1>1 DEF IInv
  <1>3. Spec => []Pristine
    BY InitPristine, NextPristine, Invariance, PTL DEF Spec
  <1> QED
    BY <1>2, <1>3, Invariance, PTL DEF Spec, ReinstallAccepted
=============================================================================
