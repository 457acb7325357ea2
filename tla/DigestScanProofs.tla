-------------------------- MODULE DigestScanProofs --------------------------
(***************************************************************************)
(* A complete manifest has the signals of whole lines, and all of them,    *)
(* for all transcripts and whatever the sessions write while they are      *)
(* read.                                                                   *)
(***************************************************************************)
EXTENDS DigestScan, TLAPS, WellFoundedInduction

(* The metadata of the first n pieces, without a choice. *)
MetaIs(p, n, meta) ==
    \/ /\ meta = NoMeta
       /\ \A i \in WholeEntries(p, n) : script[p][i].meta \in {NoMeta, BadMeta}
    \/ \E i \in WholeEntries(p, n) :
          /\ meta = script[p][i].meta
          /\ meta \notin {NoMeta, BadMeta}
          /\ \A j \in WholeEntries(p, n) :
                script[p][j].meta \notin {NoMeta, BadMeta} => i <= j

(* The entry shows a signal of this kind at this time. *)
Shows(entry, time, kind) ==
    entry.time # NoTime /\ entry.time >= Since /\ entry.time = time /\ kind \in entry.signals

(* The signals of the first n pieces, up to the numbers of their lines. *)
SignalsAre(p, n, signals) ==
    /\ \A s \in signals : \E i \in WholeEntries(p, n) : Shows(script[p][i], s.time, s.kind)
    /\ \A i \in WholeEntries(p, n) : \A kind \in script[p][i].signals :
          Shows(script[p][i], script[p][i].time, kind) =>
             \E s \in signals : s.time = script[p][i].time /\ s.kind = kind

ScanFields == {"at", "line", "malformed", "meta", "badMeta", "signals"}

(* What a scan that met no malformed line knows of the pieces it read. *)
ScanIsTrue(p, r) ==
    /\ DOMAIN r = ScanFields
    /\ r.at \in Nat /\ r.at <= size[p]
    /\ ~ r.malformed => /\ r.at % 3 # 1
                        /\ MetaIs(p, r.at, r.meta)
                        /\ SignalsAre(p, r.at, r.signals)

(* The same of the record it becomes. *)
RecordIsTrue(p, source) ==
    source.complete =>
        /\ source.hash % 3 # 1
        /\ Unnumbered(source.index) = Unnumbered(TrueIndex(p, source.hash))

Bounded ==
    /\ script \in Scripts
    /\ pending \subseteq Paths /\ DOMAIN records \subseteq Paths
    /\ size \in [Paths -> Nat] /\ \A p \in Paths : size[p] <= Pieces(p)
    /\ scan # Unread => pc \in {"scan", "rescan"} /\ pending # {}

ScanTrue == scan # Unread => \A p \in Paths : Due(p) => ScanIsTrue(p, scan)

RecordsTrue == \A p \in DOMAIN records : RecordIsTrue(p, records[p])

IInv == Bounded /\ ScanTrue /\ RecordsTrue

-----------------------------------------------------------------------------
(* One line. *)

(* The line that starts between two entries. *)
LEMMA LineOfEntry ==
    ASSUME NEW at \in Nat, NEW n \in Nat, at < n, at % 3 = 0
    PROVE  /\ 3 * (at \div 3) = at /\ at \div 3 \in Nat
           /\ LineEnd(at, n) \in {at + 1, at + 2, at + 3}
           /\ LineEnd(at, n) <= n
  BY SMTT(30) DEF LineEnd, NextNewline

(* The newline of a text that was read without it. *)
LEMMA LineOfNewline ==
    ASSUME NEW at \in Nat, NEW n \in Nat, at < n, at % 3 = 2
    PROVE  3 * (at \div 3) + 2 = at /\ at \div 3 \in Nat /\ LineEnd(at, n) = at + 1
  BY SMTT(30) DEF LineEnd, NextNewline

LEMMA LineEndForward ==
    ASSUME NEW at \in Nat, NEW n \in Nat, at < n
    PROVE  LineEnd(at, n) \in Nat /\ at < LineEnd(at, n) /\ LineEnd(at, n) <= n
  BY SMTT(30) DEF LineEnd, NextNewline

(* The newline adds no entry. *)
LEMMA WholeAfterNewline ==
    ASSUME NEW p, Len(script[p]) \in Nat, NEW at \in Nat, at % 3 = 2
    PROVE  WholeEntries(p, at + 1) = WholeEntries(p, at)
  <1>1. at = 3 * (at \div 3) + 2 /\ at \div 3 \in Nat
    OBVIOUS
  <1>2. PICK k \in Nat : at = 3 * k + 2
    BY <1>1
  <1>3. \A i \in 1..Len(script[p]) : 3*i - 1 <= at + 1 <=> 3*i - 1 <= at
    BY <1>2
  <1> QED
    BY <1>3 DEF WholeEntries

(* A line read whole adds its entry, and that comes after all others. *)
LEMMA WholeAfterEntry ==
    ASSUME NEW p, Len(script[p]) \in Nat, NEW at \in Nat, NEW to \in {at + 2, at + 3},
           NEW k \in Nat, at = 3 * k, to <= Pieces(p), ~ script[p][k + 1].broken
    PROVE  /\ WholeEntries(p, to) = WholeEntries(p, at) \cup {k + 1}
           /\ \A i \in WholeEntries(p, at) : i \in Nat /\ i <= k + 1
  <1>1. \A i \in 1..Len(script[p]) : 3*i - 1 <= to <=> 3*i - 1 <= at \/ i = k + 1
    BY SMTT(30)
  <1>2. k + 1 \in 1..Len(script[p])
    BY SMTT(30) DEF Pieces
  <1>3. \A i \in 1..Len(script[p]) : 3*i - 1 <= at => i <= k + 1
    BY SMTT(30)
  <1> QED
    BY <1>1, <1>2, <1>3 DEF WholeEntries

LEMMA MetaAfterEntry ==
    ASSUME NEW p, NEW at, NEW to, NEW k \in Nat, NEW meta, MetaIs(p, at, meta),
           WholeEntries(p, to) = WholeEntries(p, at) \cup {k},
           \A i \in WholeEntries(p, at) : i \in Nat /\ i <= k
    PROVE  MetaIs(p, to, IF meta = NoMeta /\ script[p][k].meta # BadMeta
                         THEN script[p][k].meta ELSE meta)
  BY SMTT(30) DEF MetaIs

LEMMA SignalsAfterEntry ==
    ASSUME NEW p, NEW at, NEW to, NEW k \in Nat, NEW signals, SignalsAre(p, at, signals), NEW line,
           WholeEntries(p, to) = WholeEntries(p, at) \cup {k}
    PROVE  SignalsAre(p, to, signals \cup SignalsOf(script[p][k], line))
  <1> DEFINE entry == script[p][k]
  <1>1. \A s \in SignalsOf(entry, line) : Shows(entry, s.time, s.kind)
    BY DEF SignalsOf, Shows
  <1>2. ASSUME NEW kind \in entry.signals, Shows(entry, entry.time, kind)
        PROVE  \E s \in SignalsOf(entry, line) : s.time = entry.time /\ s.kind = kind
    <2> DEFINE s == [line |-> line, time |-> entry.time, kind |-> kind]
    <2>1. s \in SignalsOf(entry, line)
      BY <1>2 DEF SignalsOf, Shows
    <2> QED
      BY <2>1
  <1> HIDE DEF entry
  <1>3. k \in WholeEntries(p, to) /\ \A i \in WholeEntries(p, to) : i = k \/ i \in WholeEntries(p, at)
    OBVIOUS
  <1>4. \A s \in signals \cup SignalsOf(entry, line) :
           \E i \in WholeEntries(p, to) : Shows(script[p][i], s.time, s.kind)
    BY <1>1, <1>3 DEF SignalsAre, entry
  <1>5. \A i \in WholeEntries(p, to) : \A kind \in script[p][i].signals :
           Shows(script[p][i], script[p][i].time, kind) =>
              \E s \in signals \cup SignalsOf(entry, line) :
                 s.time = script[p][i].time /\ s.kind = kind
    BY <1>2, <1>3 DEF SignalsAre, entry
  <1> QED
    BY <1>4, <1>5 DEF SignalsAre, entry

(* The reader of p goes on by a line. *)
LEMMA LineKeepsTruth ==
    ASSUME NEW p \in Paths, NEW n \in Nat, n <= Pieces(p), Len(script[p]) \in Nat, size[p] = n,
           NEW r, ScanIsTrue(p, r), r.at < n
    PROVE  ScanIsTrue(p, AfterLine(r, LineEnd(r.at, n), script[p][r.at \div 3 + 1]))
  <1> DEFINE to == LineEnd(r.at, n)
             entry == script[p][r.at \div 3 + 1]
             moved == [r EXCEPT !.at = to, !.line = @ + 1]
             truth == /\ to % 3 # 1
                      /\ MetaIs(p, to, AfterLine(r, to, entry).meta)
                      /\ SignalsAre(p, to, AfterLine(r, to, entry).signals)
  <1>1. r.at \in Nat /\ r.at < to /\ to \in Nat /\ to <= n
    BY LineEndForward DEF ScanIsTrue
  <1>2. /\ DOMAIN moved = ScanFields
        /\ moved.at = to /\ moved.line = r.line + 1 /\ moved.malformed = r.malformed
        /\ moved.meta = r.meta /\ moved.badMeta = r.badMeta /\ moved.signals = r.signals
    BY DEF ScanIsTrue, ScanFields
  <1> HIDE DEF to, entry, moved
  <1>3. ASSUME ~ r.malformed, BlankLine(r)
        PROVE  AfterLine(r, to, entry) = moved /\ truth
    <2>1. AfterLine(r, to, entry) = moved
      BY <1>3 DEF AfterLine, moved
    <2>2. r.at % 3 = 2
      BY <1>3 DEF BlankLine
    <2>3. to = r.at + 1
      BY <1>1, <2>2, LineOfNewline DEF to
    <2>4. to % 3 = 0
      BY <1>1, <2>2, <2>3
    <2>5. WholeEntries(p, to) = WholeEntries(p, r.at)
      BY <1>1, <2>2, <2>3, WholeAfterNewline
    <2>6. MetaIs(p, r.at, r.meta) /\ SignalsAre(p, r.at, r.signals)
      BY <1>3 DEF ScanIsTrue
    <2> QED
      BY <1>2, <2>1, <2>4, <2>5, <2>6 DEF MetaIs, SignalsAre
  <1>4. ASSUME ~ r.malformed, ~ BlankLine(r), WholeLine(r, to, entry)
        PROVE  AfterLine(r, to, entry) = Noticed(moved, entry) /\ truth
    <2>1. AfterLine(r, to, entry) = Noticed(moved, entry)
      BY <1>4 DEF AfterLine, moved
    <2>2. PICK k \in Nat : k = r.at \div 3 /\ 3 * k = r.at
      BY <1>1, <1>4, LineOfEntry DEF WholeLine
    <2>3. to \in {r.at + 2, r.at + 3} /\ to % 3 # 1
      <3>1. r.at % 3 = 0 /\ to >= r.at + 2
        BY <1>4 DEF WholeLine
      <3>2. to \in {r.at + 1, r.at + 2, r.at + 3}
        BY <1>1, <3>1, LineOfEntry DEF to
      <3> QED
        BY <1>1, <3>1, <3>2
    <2>4. entry = script[p][k + 1] /\ ~ entry.broken
      BY <1>4, <2>2 DEF entry, WholeLine
    <2>5. /\ WholeEntries(p, to) = WholeEntries(p, r.at) \cup {k + 1}
          /\ \A i \in WholeEntries(p, r.at) : i \in Nat /\ i <= k + 1
      <3>1. to <= Pieces(p)
        BY <1>1 DEF Pieces
      <3>2. r.at \in Nat /\ r.at = 3 * k /\ to \in {r.at + 2, r.at + 3}
        BY <1>1, <2>2, <2>3
      <3>3. ~ script[p][k + 1].broken
        BY <2>4
      <3> QED
        BY <3>1, <3>2, <3>3, WholeAfterEntry, ZenonT(60)
    <2>6. /\ Noticed(moved, entry).meta =
               IF r.meta = NoMeta /\ entry.meta # BadMeta THEN entry.meta ELSE r.meta
          /\ Noticed(moved, entry).signals = r.signals \cup SignalsOf(entry, r.line + 1)
      BY <1>2 DEF Noticed, ScanFields
    <2>7. MetaIs(p, r.at, r.meta) /\ SignalsAre(p, r.at, r.signals)
      BY <1>4 DEF ScanIsTrue
    <2>8. MetaIs(p, to, Noticed(moved, entry).meta)
      <3>1. k + 1 \in Nat
        OBVIOUS
      <3> QED
        BY <2>4, <2>5, <2>6, <2>7, <3>1, MetaAfterEntry
    <2>9. SignalsAre(p, to, Noticed(moved, entry).signals)
      <3>1. k + 1 \in Nat
        OBVIOUS
      <3>2. SignalsAre(p, to, r.signals \cup SignalsOf(script[p][k + 1], r.line + 1))
        BY <2>5, <2>7, <3>1, SignalsAfterEntry
      <3> QED
        BY <2>4, <2>6, <3>2
    <2> QED
      BY <2>1, <2>3, <2>8, <2>9
  <1>5. AfterLine(r, to, entry) \in {moved, Noticed(moved, entry), [moved EXCEPT !.malformed = TRUE]}
    BY DEF AfterLine, moved
  <1>6. ASSUME NEW q \in {moved, Noticed(moved, entry), [moved EXCEPT !.malformed = TRUE]}
        PROVE  DOMAIN q = ScanFields /\ q.at = to /\ (r.malformed => q.malformed)
    BY <1>2, <1>6 DEF Noticed, ScanFields
  <1>7. ~ AfterLine(r, to, entry).malformed => truth
    <2>1. ~ r.malformed /\ ~ BlankLine(r) /\ ~ WholeLine(r, to, entry) =>
             AfterLine(r, to, entry).malformed
      BY <1>2 DEF AfterLine, moved, ScanFields
    <2> QED
      BY <1>3, <1>4, <1>5, <1>6, <2>1
  <1> QED
    BY <1>1, <1>5, <1>6, <1>7 DEF ScanIsTrue, to, entry

-----------------------------------------------------------------------------
(* The record of a transcript. *)

LEMMA MetaIsUnique ==
    ASSUME NEW p, NEW n, NEW meta, MetaIs(p, n, meta), \A i \in WholeEntries(p, n) : i \in Nat
    PROVE  TrueMeta(p, n) = meta
  <1> DEFINE metas == {i \in WholeEntries(p, n) : script[p][i].meta \notin {NoMeta, BadMeta}}
  <1>1. CASE metas = {}
    BY <1>1 DEF MetaIs, TrueMeta
  <1>2. ASSUME NEW i \in metas, meta = script[p][i].meta, \A j \in metas : i <= j
        PROVE  TrueMeta(p, n) = meta
    <2>1. \A k \in metas : (\A j \in metas : k <= j) => k = i
      BY <1>2
    <2>2. (CHOOSE k \in metas : \A j \in metas : k <= j) = i
      BY <1>2, <2>1
    <2> QED
      BY <1>2, <2>2 DEF TrueMeta
  <1> QED
    BY <1>1, <1>2 DEF MetaIs

(* Without line numbers, an index only depends on what shows when. *)
LEMMA UnnumberedIndex ==
    ASSUME NEW p, NEW meta, NEW signals
    PROVE  Unnumbered(Indexed(p, meta, signals)) =
             IF InScope(p, meta)
             THEN {[line |-> 0, time |-> s.time, kind |-> s.kind, project |-> Project(p, meta),
                    session |-> Session(p, meta)] : s \in signals}
             ELSE {}
  <1> DEFINE Numbered(s, line) ==
               [line |-> line, time |-> s.time, kind |-> s.kind, project |-> Project(p, meta),
                session |-> Session(p, meta)]
             Cleared(e) == [e EXCEPT !.line = 0]
             numbered == {Numbered(s, s.line) : s \in signals}
             unnumbered == {Numbered(s, 0) : s \in signals}
  <1>1. \A s : Cleared(Numbered(s, s.line)) = Numbered(s, 0)
    OBVIOUS
  <1>2. Unnumbered(numbered) = unnumbered
    <2>1. Unnumbered(numbered) = {Cleared(e) : e \in numbered}
      BY Zenon DEF Unnumbered
    <2> HIDE DEF Numbered, Cleared
    <2>2. {Cleared(e) : e \in numbered} = unnumbered
      BY <1>1
    <2> QED
      BY <2>1, <2>2
  <1> HIDE DEF Numbered
  <1>3. Unnumbered({}) = {}
    BY DEF Unnumbered
  <1>4. Indexed(p, meta, signals) = IF InScope(p, meta) THEN numbered ELSE {}
    BY DEF Indexed, Numbered
  <1> QED
    BY <1>2, <1>3, <1>4 DEF Numbered

LEMMA SameIndex ==
    ASSUME NEW p, NEW meta, NEW one, NEW other,
           \A s \in one : \E t \in other : s.time = t.time /\ s.kind = t.kind,
           \A t \in other : \E s \in one : s.time = t.time /\ s.kind = t.kind
    PROVE  Unnumbered(Indexed(p, meta, one)) = Unnumbered(Indexed(p, meta, other))
  <1> DEFINE Of(signals) == {[line |-> 0, time |-> s.time, kind |-> s.kind,
                              project |-> Project(p, meta), session |-> Session(p, meta)] :
                                s \in signals}
  <1>1. Of(one) = Of(other)
    OBVIOUS
  <1>2. /\ Unnumbered(Indexed(p, meta, one)) = IF InScope(p, meta) THEN Of(one) ELSE {}
        /\ Unnumbered(Indexed(p, meta, other)) = IF InScope(p, meta) THEN Of(other) ELSE {}
    BY UnnumberedIndex
  <1> QED
    BY <1>1, <1>2

LEMMA SourceIsTrue ==
    ASSUME NEW p \in Paths, NEW r, ScanIsTrue(p, r)
    PROVE  RecordIsTrue(p, SourceOf(p, r))
  <1> SUFFICES ASSUME ~ r.malformed
               PROVE  Unnumbered(Indexed(p, r.meta, r.signals)) = Unnumbered(TrueIndex(p, r.at))
    BY DEF RecordIsTrue, SourceOf, ScanIsTrue
  <1>1. MetaIs(p, r.at, r.meta) /\ SignalsAre(p, r.at, r.signals)
    BY DEF ScanIsTrue
  <1>2. TrueMeta(p, r.at) = r.meta
    BY <1>1, MetaIsUnique DEF WholeEntries
  <1> DEFINE whole == UNION {SignalsOf(script[p][i], i) : i \in WholeEntries(p, r.at)}
  <1>3. ASSUME NEW s \in r.signals
        PROVE  \E t \in whole : s.time = t.time /\ s.kind = t.kind
    <2>1. PICK i \in WholeEntries(p, r.at) : Shows(script[p][i], s.time, s.kind)
      BY <1>1 DEF SignalsAre
    <2> DEFINE t == [line |-> i, time |-> s.time, kind |-> s.kind]
    <2>2. t \in SignalsOf(script[p][i], i)
      BY <2>1 DEF Shows, SignalsOf
    <2> QED
      BY <2>2
  <1>4. ASSUME NEW t \in whole
        PROVE  \E s \in r.signals : s.time = t.time /\ s.kind = t.kind
    <2>1. PICK i \in WholeEntries(p, r.at) : t \in SignalsOf(script[p][i], i)
      OBVIOUS
    <2>2. /\ t.time = script[p][i].time /\ t.kind \in script[p][i].signals
          /\ Shows(script[p][i], t.time, t.kind)
      BY <2>1 DEF Shows, SignalsOf
    <2> QED
      BY <1>1, <2>2 DEF SignalsAre
  <1> HIDE DEF whole
  <1>5. Unnumbered(Indexed(p, r.meta, r.signals)) = Unnumbered(Indexed(p, r.meta, whole))
    BY <1>3, <1>4, SameIndex
  <1> QED
    BY <1>2, <1>5 DEF TrueIndex, whole

-----------------------------------------------------------------------------
(* Steps. *)

LEMMA UniqueDue ==
    ASSUME pending \subseteq Paths, NEW p, NEW q, Due(p), Due(q)
    PROVE  p = q
  <1>1. p \in Paths /\ q \in Paths /\ Rank[p] <= Rank[q] /\ Rank[q] <= Rank[p]
    BY DEF Due
  <1>2. Rank[p] \in Nat /\ Rank[q] \in Nat
    BY <1>1, ScanAssumption
  <1> QED
    BY <1>1, <1>2, ScanAssumption

LEMMA Lengths ==
    ASSUME script \in Scripts, NEW p \in Paths
    PROVE  Len(script[p]) \in Nat
  BY ScanAssumption

(* What is true of a record stays true: it speaks of the script only. *)
LEMMA RecordStays ==
    ASSUME spec' = spec, script' = script
    PROVE  \A p, source : RecordIsTrue(p, source)' <=> RecordIsTrue(p, source)
  BY DEF RecordIsTrue, Unnumbered, TrueIndex, TrueMeta, WholeEntries, Indexed, InScope, Project,
         Session, PathIncluded, SignalsOf

LEMMA RecordsStay ==
    ASSUME spec' = spec, script' = script, records' = records, RecordsTrue
    PROVE  RecordsTrue'
  BY RecordStays DEF RecordsTrue

(* What is true of a scan stays true while its transcript grows. *)
LEMMA ScanIsTrueStays ==
    ASSUME script' = script, size \in [Paths -> Nat], size' \in [Paths -> Nat],
           \A p \in Paths : size[p] <= size'[p]
    PROVE  \A p \in Paths : \A r : ScanIsTrue(p, r) => ScanIsTrue(p, r)'
  <1> SUFFICES ASSUME NEW p \in Paths, NEW r, ScanIsTrue(p, r)
               PROVE  ScanIsTrue(p, r)'
    OBVIOUS
  <1>1. MetaIs(p, r.at, r.meta) => MetaIs(p, r.at, r.meta)'
    BY DEF MetaIs, WholeEntries
  <1>2. SignalsAre(p, r.at, r.signals) => SignalsAre(p, r.at, r.signals)'
    BY DEF SignalsAre, Shows, WholeEntries
  <1>3. r.at \in Nat /\ r.at <= size'[p]
    BY DEF ScanIsTrue
  <1> QED
    BY <1>1, <1>2, <1>3 DEF ScanIsTrue

LEMMA ScanStays ==
    ASSUME script' = script, size \in [Paths -> Nat], size' \in [Paths -> Nat],
           \A p \in Paths : size[p] <= size'[p],
           pending' = pending, scan' = scan, ScanTrue
    PROVE  ScanTrue'
  BY ScanIsTrueStays DEF ScanTrue, Due

(* A step that does not read leaves all of it alone. *)
LEMMA NoReadKeepsIInv ==
    ASSUME IInv, UNCHANGED <<spec, script, size, records>>, pending' \subseteq Paths,
           \/ pending' = pending /\ scan' = scan /\ (scan # Unread => pc' = pc)
           \/ scan' = Unread
    PROVE  IInv'
  <1>1. Bounded'
    BY DEF IInv, Bounded, Pieces
  <1>2. ScanTrue'
    <2>1. CASE scan' = Unread
      BY <2>1 DEF ScanTrue
    <2>2. CASE pending' = pending /\ scan' = scan
      BY <2>2, ScanStays DEF IInv, Bounded
    <2> QED
      BY <2>1, <2>2
  <1> QED
    BY <1>1, <1>2, RecordsStay DEF IInv

LEMMA WriteKeepsIInv ==
    ASSUME IInv, NEW p \in Paths, Write(p)
    PROVE  IInv'
  <1>1. Len(script[p]) \in Nat /\ size[p] \in Nat
    BY Lengths DEF IInv, Bounded
  <1>2. size' \in [Paths -> Nat] /\ \A q \in Paths : size[q] <= size'[q]
    BY <1>1 DEF Write, IInv, Bounded
  <1>3. \A q \in Paths : size'[q] <= Pieces(q)
    BY <1>1 DEF Write, IInv, Bounded, Pieces
  <1>4. Bounded'
    BY <1>2, <1>3 DEF Write, IInv, Bounded, Pieces
  <1>5. ScanTrue'
    BY <1>2, ScanStays DEF Write, IInv, Bounded
  <1> QED
    BY <1>4, <1>5, RecordsStay DEF Write, IInv

LEMMA OpenKeepsIInv ==
    ASSUME IInv, NEW p \in Paths, Open(p)
    PROVE  IInv'
  <1>1. Bounded'
    BY DEF Open, world, IInv, Bounded, Pieces, Due
  <1>2. ASSUME NEW q \in Paths
        PROVE  ScanIsTrue(q, NewScan)'
    <2>1. WholeEntries(q, 0)' = {}
      BY DEF WholeEntries
    <2>2. MetaIs(q, 0, NoMeta)' /\ SignalsAre(q, 0, {})'
      BY <2>1 DEF MetaIs, SignalsAre
    <2>3. size'[q] \in Nat
      BY <1>1 DEF Bounded
    <2> QED
      BY <2>2, <2>3 DEF ScanIsTrue, NewScan, ScanFields
  <1>3. ScanTrue'
    BY <1>2 DEF Open, ScanTrue
  <1> QED
    BY <1>1, <1>3, RecordsStay DEF Open, world, IInv

LEMMA ReadLineKeepsIInv ==
    ASSUME IInv, NEW p \in Paths, ReadLine(p)
    PROVE  IInv'
  <1>1. Bounded'
    BY DEF ReadLine, world, IInv, Bounded, Pieces, Due
  <1>2. ScanIsTrue(p, scan')
    BY Lengths, LineKeepsTruth DEF ReadLine, IInv, Bounded, ScanTrue
  <1>3. ScanTrue'
    <2>1. \A q \in Paths : Due(q)' => q = p
      BY UniqueDue DEF ReadLine, Due, IInv, Bounded
    <2>2. ScanIsTrue(p, scan)'
      BY <1>2, ScanIsTrueStays DEF ReadLine, world, IInv, Bounded
    <2> QED
      BY <2>1, <2>2 DEF ScanTrue
  <1> QED
    BY <1>1, <1>3, RecordsStay DEF ReadLine, world, IInv

LEMMA RecordKeepsIInv ==
    ASSUME IInv, NEW p \in Paths, Record(p)
    PROVE  IInv'
  <1>1. PICK source \in Sources(p) :
           /\ Scanned(p, source)
           /\ records' = [q \in DOMAIN records \cup {p} |-> IF q = p THEN source ELSE records[q]]
    BY DEF Record
  <1>2. RecordIsTrue(p, source)
    <2>1. CASE source = Unreadable(p)
      BY <2>1 DEF RecordIsTrue, Unreadable
    <2>2. CASE scan # Unread /\ source = SourceOf(p, scan)
      BY <2>2, SourceIsTrue DEF Record, IInv, ScanTrue
    <2> QED
      BY <1>1, <2>1, <2>2 DEF Scanned
  <1>3. \A q \in DOMAIN records' : RecordIsTrue(q, records'[q])
    BY <1>1, <1>2 DEF IInv, RecordsTrue
  <1>4. RecordsTrue'
    BY <1>3, RecordStays DEF Record, world, RecordsTrue
  <1>5. Bounded'
    BY <1>1 DEF Record, world, IInv, Bounded, Pieces
  <1>6. ScanTrue'
    BY DEF Record, ScanTrue
  <1> QED
    BY <1>4, <1>5, <1>6 DEF IInv

LEMMA InitIInv == Init => IInv
  <1> SUFFICES ASSUME Init
               PROVE  IInv
    OBVIOUS
  <1>1. \A p \in Paths : Len(script[p]) \in Nat
    BY Lengths DEF Init
  <1> QED
    BY <1>1 DEF Init, IInv, Bounded, ScanTrue, RecordsTrue, Pieces

LEMMA NextIInv == IInv /\ [Next]_vars => IInv'
  <1> SUFFICES ASSUME IInv, [Next]_vars
               PROVE  IInv'
    OBVIOUS
  <1>1. ASSUME NEW p \in Paths, Create(p) \/ Vanish(p) \/ Discover(p) \/ CompareHash(p)
        PROVE  IInv'
    BY <1>1, NoReadKeepsIInv
       DEF Create, Vanish, Discover, CompareHash, Refuse, world, IInv, Bounded
  <1>2. ASSUME NEW p \in Paths, CompareSource(p)
        PROVE  IInv'
    BY <1>2, NoReadKeepsIInv DEF CompareSource, Refuse, world, IInv, Bounded
  <1>3. ASSUME NEW p \in Paths, Write(p) \/ Open(p) \/ ReadLine(p) \/ Record(p)
        PROVE  IInv'
    BY <1>3, WriteKeepsIInv, OpenKeepsIInv, ReadLineKeepsIInv, RecordKeepsIInv
  <1>4. CASE List \/ WriteManifest
    BY <1>4, NoReadKeepsIInv DEF List, Present, WriteManifest, world, IInv, Bounded
  <1>5. CASE Load \/ CompareSessions \/ Accept
    BY <1>5, NoReadKeepsIInv DEF Load, CompareSessions, Accept, Present, Refuse, world, IInv, Bounded
  <1>6. CASE UNCHANGED vars
    BY <1>6, NoReadKeepsIInv DEF vars, IInv, Bounded
  <1> QED
    BY <1>1, <1>2, <1>3, <1>4, <1>5, <1>6 DEF Next

(***************************************************************************)
(* A manifest that is called complete has exactly the signals of the bytes *)
(* it hashed, and these end between two lines, for all transcripts,        *)
(* sessions and scopes (_scan_typed_source under concurrent writing).      *)
(***************************************************************************)
THEOREM CompleteIsWhole == Spec => []CompleteMeansWhole
  <1>1. IInv => CompleteMeansWhole
    BY DEF IInv, RecordsTrue, RecordIsTrue, CompleteMeansWhole, Complete
  <1> QED
    BY InitIInv, NextIInv, <1>1, PTL DEF Spec

-----------------------------------------------------------------------------
(***************************************************************************)
(* The numbers of the lines.  A scan numbers the entries it takes in, each *)
(* at least with the number it should have.  A scan that starts when all   *)
(* that was hashed is written numbers these entries rightly.  So if both   *)
(* have the same signals, the first had the right numbers too: the entry   *)
(* with the smallest wrong number would leave its own number to nobody.    *)
(***************************************************************************)

SignalsBy(p, n, number) ==
    UNION {SignalsOf(script[p][i], number[i]) : i \in WholeEntries(p, n)}

Numbers(p, n, number) ==
    /\ DOMAIN number = WholeEntries(p, n)
    /\ \A i \in WholeEntries(p, n) : number[i] \in Nat /\ i <= number[i]

(* A scan without a malformed line, with the numbers it gave. *)
ScanIsNumbered(p, r) ==
    /\ r.line \in Nat /\ r.line <= r.at
    /\ ~ r.malformed => /\ r.at <= 3 * r.line
                        /\ \E number : Numbers(p, r.at, number)
                                       /\ r.signals = SignalsBy(p, r.at, number)

RecordIsNumbered(p, source) ==
    source.complete =>
        /\ source.hash \in Nat
        /\ \E meta, number :
              /\ MetaIs(p, source.hash, meta) /\ (spec.codex => meta # NoMeta)
              /\ Numbers(p, source.hash, number)
              /\ source.index = Indexed(p, meta, SignalsBy(p, source.hash, number))

(* What a second scan knows of the first n pieces. *)
Covers(p, n, r) ==
    /\ \E meta : MetaIs(p, n, meta) /\ meta \in {NoMeta, r.meta}
    /\ \A i \in WholeEntries(p, n) : SignalsOf(script[p][i], i) \subseteq r.signals

(* A second scan, when the first n pieces are written. *)
RescanIsTrue(p, n, r) ==
    /\ r.at < n => /\ r.at = 3 * r.line
                   /\ MetaIs(p, r.at, r.meta) /\ Covers(p, r.at, r)
    /\ r.at >= n => Covers(p, n, r)

RecordIsRight(p) == records[p].index = TrueIndex(p, records[p].hash)

Phases ==
    /\ pc \in {"list", "scan"} => outcome = None
    /\ pc \in {"idle", "discover", "hash", "rescan"} => Complete
    /\ pc \in {"hash", "rescan"} => pending \subseteq DOMAIN records
    /\ pc = "rescan" => \A p \in Paths : Due(p) => records[p].hash <= size[p]

ScanNumbered ==
    scan # Unread => \E p \in Paths : Due(p) /\ ScanIsNumbered(p, scan)

RecordsNumbered == \A p \in DOMAIN records : RecordIsNumbered(p, records[p])

RescanTrue ==
    scan # Unread /\ pc = "rescan" =>
        \A p \in Paths : Due(p) => RescanIsTrue(p, records[p].hash, scan)

Checked ==
    /\ pc \in {"hash", "rescan"} => \A p \in DOMAIN records \ pending : RecordIsRight(p)
    /\ outcome = "accepted" => \A p \in DOMAIN records : RecordIsRight(p)

NumberInv ==
    Phases /\ ScanNumbered /\ RecordsNumbered /\ RescanTrue /\ Checked

-----------------------------------------------------------------------------
(* Which fields a line changes. *)
LEMMA LineFields ==
    ASSUME NEW r, DOMAIN r = ScanFields, NEW to, NEW entry, NEW q, q = AfterLine(r, to, entry)
    PROVE  /\ q.at = to /\ q.line = r.line + 1
           /\ r.malformed => q.malformed
           /\ WholeLine(r, to, entry) =>
                 /\ q.meta = IF r.meta = NoMeta /\ entry.meta # BadMeta THEN entry.meta ELSE r.meta
                 /\ q.signals = r.signals \cup SignalsOf(entry, r.line + 1)
                 /\ ~ q.badMeta => ~ r.badMeta /\ entry.meta # BadMeta
           /\ ~ WholeLine(r, to, entry) =>
                 /\ q.meta = r.meta /\ q.signals = r.signals /\ q.badMeta = r.badMeta
                 /\ BlankLine(r) \/ q.malformed
  <1> DEFINE moved == [r EXCEPT !.at = to, !.line = @ + 1]
  <1>1. /\ DOMAIN moved = ScanFields
        /\ moved.at = to /\ moved.line = r.line + 1 /\ moved.malformed = r.malformed
        /\ moved.meta = r.meta /\ moved.badMeta = r.badMeta /\ moved.signals = r.signals
    BY DEF ScanFields
  <1>2. q = IF BlankLine(r) THEN moved
            ELSE IF WholeLine(r, to, entry) THEN Noticed(moved, entry)
            ELSE [moved EXCEPT !.malformed = TRUE]
    BY DEF AfterLine
  <1> HIDE DEF moved
  <1>3. CASE BlankLine(r)
    <2>1. ~ WholeLine(r, to, entry)
      BY <1>3 DEF BlankLine, WholeLine
    <2> QED
      BY <1>1, <1>2, <1>3, <2>1
  <1>4. CASE ~ BlankLine(r) /\ WholeLine(r, to, entry)
    <2>1. /\ Noticed(moved, entry).at = to /\ Noticed(moved, entry).line = r.line + 1
          /\ Noticed(moved, entry).malformed = r.malformed
          /\ Noticed(moved, entry).meta =
               IF r.meta = NoMeta /\ entry.meta # BadMeta THEN entry.meta ELSE r.meta
          /\ Noticed(moved, entry).signals = r.signals \cup SignalsOf(entry, r.line + 1)
          /\ Noticed(moved, entry).badMeta = (r.badMeta \/ entry.meta = BadMeta)
      BY <1>1 DEF Noticed, ScanFields
    <2> QED
      BY <1>2, <1>4, <2>1
  <1>5. CASE ~ BlankLine(r) /\ ~ WholeLine(r, to, entry)
    <2> DEFINE bad == [moved EXCEPT !.malformed = TRUE]
    <2>1. /\ bad.at = to /\ bad.line = r.line + 1 /\ bad.malformed
          /\ bad.meta = r.meta /\ bad.signals = r.signals /\ bad.badMeta = r.badMeta
      BY <1>1 DEF ScanFields
    <2> QED
      BY <1>2, <1>5, <2>1
  <1> QED
    BY <1>3, <1>4, <1>5

(* A broken line adds no entry. *)
LEMMA WholeAfterBroken ==
    ASSUME NEW p, Len(script[p]) \in Nat, NEW at \in Nat, NEW to \in {at + 2, at + 3},
           NEW k \in Nat, at = 3 * k, script[p][k + 1].broken
    PROVE  WholeEntries(p, to) = WholeEntries(p, at)
  <1>1. \A i \in 1..Len(script[p]) : 3*i - 1 <= to <=> 3*i - 1 <= at \/ i = k + 1
    BY SMTT(30)
  <1> QED
    BY <1>1 DEF WholeEntries

(* The next line of a scan gets a number. *)
LEMMA NumberAnother ==
    ASSUME NEW p, NEW at, NEW to, NEW k \in Nat, NEW number, Numbers(p, at, number),
           WholeEntries(p, to) = WholeEntries(p, at) \cup {k}, k \notin WholeEntries(p, at),
           NEW line \in Nat, k <= line
    PROVE  \E more : /\ Numbers(p, to, more)
                     /\ SignalsBy(p, to, more) =
                          SignalsBy(p, at, number) \cup SignalsOf(script[p][k], line)
  <1> DEFINE more == [i \in WholeEntries(p, to) |-> IF i = k THEN line ELSE number[i]]
  <1>1. Numbers(p, to, more)
    BY DEF Numbers
  <1>2. /\ \A i \in WholeEntries(p, at) : more[i] = number[i]
        /\ more[k] = line
    OBVIOUS
  <1> HIDE DEF more
  <1>3. SignalsBy(p, to, more) = SignalsBy(p, at, number) \cup SignalsOf(script[p][k], line)
    BY <1>2 DEF SignalsBy
  <1> QED
    BY <1>1, <1>3

LEMMA LineKeepsNumbers ==
    ASSUME NEW p \in Paths, NEW n \in Nat, n <= Pieces(p), Len(script[p]) \in Nat, size[p] = n,
           NEW r, ScanIsTrue(p, r), ScanIsNumbered(p, r), r.at < n
    PROVE  ScanIsNumbered(p, AfterLine(r, LineEnd(r.at, n), script[p][r.at \div 3 + 1]))
  <1> DEFINE to == LineEnd(r.at, n)
             entry == script[p][r.at \div 3 + 1]
             q == AfterLine(r, to, entry)
  <1>1. r.at \in Nat /\ r.at < to /\ to \in Nat /\ to <= n /\ r.line \in Nat /\ r.line <= r.at
    BY LineEndForward DEF ScanIsTrue, ScanIsNumbered
  <1>2. /\ q.at = to /\ q.line = r.line + 1
        /\ r.malformed => q.malformed
        /\ WholeLine(r, to, entry) => q.signals = r.signals \cup SignalsOf(entry, r.line + 1)
        /\ ~ WholeLine(r, to, entry) => q.signals = r.signals /\ (BlankLine(r) \/ q.malformed)
    BY LineFields DEF ScanIsTrue
  <1> HIDE DEF q
  <1>3. ASSUME ~ q.malformed
        PROVE  /\ to <= 3 * q.line
               /\ \E number : Numbers(p, to, number) /\ q.signals = SignalsBy(p, to, number)
    <2>1. /\ r.at <= 3 * r.line
          /\ \E number : Numbers(p, r.at, number) /\ r.signals = SignalsBy(p, r.at, number)
      BY <1>2, <1>3 DEF ScanIsNumbered
    <2>2. PICK number : Numbers(p, r.at, number) /\ r.signals = SignalsBy(p, r.at, number)
      BY <2>1
    <2>3. CASE WholeLine(r, to, entry)
      <3>1. PICK k \in Nat : k = r.at \div 3 /\ 3 * k = r.at
        BY <1>1, <2>3, LineOfEntry DEF WholeLine
      <3>2. to \in {r.at + 2, r.at + 3}
        <4>1. r.at % 3 = 0 /\ to >= r.at + 2
          BY <2>3 DEF WholeLine
        <4>2. to \in {r.at + 1, r.at + 2, r.at + 3}
          BY <1>1, <4>1, LineOfEntry
        <4> QED
          BY <1>1, <4>1, <4>2
      <3>3. ~ script[p][k + 1].broken /\ entry = script[p][k + 1]
        BY <2>3, <3>1 DEF WholeLine
      <3>4. WholeEntries(p, to) = WholeEntries(p, r.at) \cup {k + 1}
        <4>1. to <= Pieces(p)
          BY <1>1 DEF Pieces
        <4> HIDE DEF to, entry
        <4>2. r.at \in Nat /\ r.at = 3 * k /\ to \in {r.at + 2, r.at + 3} /\ k \in Nat
          BY <1>1, <3>1, <3>2
        <4>3. ~ script[p][k + 1].broken
          BY <3>3
        <4>4. /\ WholeEntries(p, to) = WholeEntries(p, r.at) \cup {k + 1}
              /\ \A i \in WholeEntries(p, r.at) : i \in Nat /\ i <= k + 1
          BY <4>1, <4>2, <4>3, WholeAfterEntry, ZenonT(60)
        <4> QED
          BY <4>4
      <3>5. k + 1 \notin WholeEntries(p, r.at)
        BY <3>1 DEF WholeEntries
      <3>6. r.line + 1 \in Nat /\ k + 1 \in Nat /\ k + 1 <= r.line + 1
        BY <1>1, <2>1, <3>1
      <3> HIDE DEF to
      <3>7. \E more : /\ Numbers(p, to, more)
                      /\ SignalsBy(p, to, more) =
                           SignalsBy(p, r.at, number) \cup SignalsOf(script[p][k + 1], r.line + 1)
        BY <2>2, <3>4, <3>5, <3>6, NumberAnother
      <3>8. to <= 3 * q.line
        BY <1>1, <1>2, <2>1, <3>2
      <3> QED
        BY <1>2, <2>2, <2>3, <3>3, <3>7, <3>8
    <2>4. CASE ~ WholeLine(r, to, entry)
      <3>1. r.at % 3 = 2
        BY <1>2, <1>3, <2>4 DEF BlankLine
      <3>2. to = r.at + 1
        BY <1>1, <3>1, LineOfNewline
      <3>3. WholeEntries(p, to) = WholeEntries(p, r.at)
        BY <1>1, <3>1, <3>2, WholeAfterNewline
      <3>4. Numbers(p, to, number) /\ q.signals = SignalsBy(p, to, number)
        BY <1>2, <2>2, <2>4, <3>3 DEF Numbers, SignalsBy
      <3> QED
        BY <1>1, <1>2, <2>1, <3>2, <3>4
    <2> QED
      BY <2>3, <2>4
  <1> QED
    BY <1>1, <1>2, <1>3 DEF ScanIsNumbered, q

LEMMA CoversMore ==
    ASSUME NEW p, NEW n, NEW r, NEW q, Covers(p, n, r), r.signals \subseteq q.signals,
           r.meta # NoMeta => q.meta = r.meta
    PROVE  Covers(p, n, q)
  BY DEF Covers

(* A line of a second scan: below n a line is an entry with its own number. *)
LEMMA LineKeepsRescan ==
    ASSUME NEW p \in Paths, NEW n \in Nat, n <= Pieces(p), Len(script[p]) \in Nat, size[p] = n,
           NEW h \in Nat, h <= n, h % 3 # 1,
           NEW r, ScanIsTrue(p, r), r.line \in Nat, RescanIsTrue(p, h, r), r.at < n
    PROVE  RescanIsTrue(p, h, AfterLine(r, LineEnd(r.at, n), script[p][r.at \div 3 + 1]))
  <1> DEFINE to == LineEnd(r.at, n)
             entry == script[p][r.at \div 3 + 1]
             q == AfterLine(r, to, entry)
  <1>1. r.at \in Nat /\ r.at < to /\ to \in Nat /\ to <= n
    BY LineEndForward DEF ScanIsTrue
  <1>2. /\ q.at = to /\ q.line = r.line + 1
        /\ WholeLine(r, to, entry) =>
              /\ q.meta = IF r.meta = NoMeta /\ entry.meta # BadMeta THEN entry.meta ELSE r.meta
              /\ q.signals = r.signals \cup SignalsOf(entry, r.line + 1)
        /\ ~ WholeLine(r, to, entry) => q.meta = r.meta /\ q.signals = r.signals
    BY LineFields DEF ScanIsTrue
  <1> HIDE DEF q
  <1>3. ASSUME r.at < h
        PROVE  RescanIsTrue(p, h, q)
    <2> DEFINE k == r.line
    <2>1. k \in Nat /\ r.at = 3 * k /\ MetaIs(p, r.at, r.meta) /\ Covers(p, r.at, r)
      BY <1>3 DEF RescanIsTrue
    <2>2. r.at \div 3 = k /\ entry = script[p][k + 1] /\ r.at % 3 = 0
      BY <2>1
    <2>3. to = IF r.at + 3 <= n THEN r.at + 3 ELSE n
      BY <2>1, <2>2 DEF LineEnd, NextNewline
    <2> HIDE DEF to, entry, k
    <2>4. h >= r.at + 2
      BY <1>1, <1>3, <2>1
    <2>5. to \in {r.at + 2, r.at + 3} /\ (to < h => to = r.at + 3)
      BY <1>1, <2>3, <2>4
    <2>6. MetaIs(p, to, q.meta) /\ Covers(p, to, q)
      <3>1. CASE ~ entry.broken
        <4>1. WholeLine(r, to, entry)
          BY <1>1, <2>2, <2>5, <3>1 DEF WholeLine
        <4>2. ~ script[p][k + 1].broken /\ to <= Pieces(p) /\ k + 1 \in Nat
          BY <1>1, <2>1, <2>2, <3>1 DEF Pieces
        <4>3. /\ WholeEntries(p, to) = WholeEntries(p, r.at) \cup {k + 1}
              /\ \A i \in WholeEntries(p, r.at) : i \in Nat /\ i <= k + 1
          <5>1. r.at \in Nat /\ r.at = 3 * k /\ to \in {r.at + 2, r.at + 3} /\ k \in Nat
            BY <1>1, <2>1, <2>5
          <5>2. to <= Pieces(p) /\ ~ script[p][k + 1].broken
            BY <4>2
          <5> QED
            BY <5>1, <5>2, WholeAfterEntry, ZenonT(60)
        <4>4. MetaIs(p, to, q.meta)
          BY <1>2, <2>1, <2>2, <4>1, <4>2, <4>3, MetaAfterEntry
        <4>5. q.signals = r.signals \cup SignalsOf(script[p][k + 1], k + 1)
          BY <1>2, <2>2, <4>1 DEF k
        <4>6. \A i \in WholeEntries(p, to) : SignalsOf(script[p][i], i) \subseteq q.signals
          BY <2>1, <4>3, <4>5 DEF Covers
        <4> QED
          BY <4>4, <4>6 DEF Covers
      <3>2. CASE entry.broken
        <4>1. q.meta = r.meta /\ q.signals = r.signals
          BY <1>2, <3>2 DEF WholeLine
        <4>2. WholeEntries(p, to) = WholeEntries(p, r.at)
          BY <1>1, <2>1, <2>2, <2>5, <3>2, WholeAfterBroken
        <4>3. MetaIs(p, to, q.meta)
          BY <2>1, <4>1, <4>2 DEF MetaIs
        <4> QED
          BY <2>1, <4>1, <4>2, <4>3 DEF Covers
      <3> QED
        BY <3>1, <3>2
    <2>7. q.at < h => q.at = 3 * q.line
      BY <1>2, <2>1, <2>5 DEF k
    <2>8. ASSUME to >= h
          PROVE  Covers(p, h, q)
      <3>1. \A i \in 1..Len(script[p]) : 3*i - 1 <= h <=> 3*i - 1 <= to
        <4>1. h \in {3 * k + 2, 3 * k + 3} /\ to \in {3 * k + 2, 3 * k + 3}
          BY <1>1, <2>1, <2>4, <2>5, <2>8
        <4> QED
          BY <2>1, <4>1
      <3>2. WholeEntries(p, h) = WholeEntries(p, to)
        BY <3>1 DEF WholeEntries
      <3> QED
        BY <2>6, <3>2 DEF Covers, MetaIs
    <2> QED
      BY <1>2, <2>6, <2>7, <2>8 DEF RescanIsTrue
  <1>4. ASSUME r.at >= h
        PROVE  RescanIsTrue(p, h, q)
    <2>1. Covers(p, h, q)
      BY <1>2, <1>4, CoversMore DEF RescanIsTrue
    <2> HIDE DEF to
    <2> QED
      BY <1>1, <1>2, <1>4, <2>1 DEF RescanIsTrue
  <1> QED
    BY <1>1, <1>3, <1>4 DEF q

(***************************************************************************)
(* Numbers that are never too low, and that leave no number of their own   *)
(* to nobody, are right.                                                   *)
(***************************************************************************)
LEMMA NumbersAreRight ==
    ASSUME NEW shown, shown \subseteq Nat, NEW number,
           \A i \in shown : number[i] \in Nat /\ i <= number[i],
           \A i \in shown : \E j \in shown : number[j] = i
    PROVE  \A i \in shown : number[i] = i
  <1> DEFINE wrong == {i \in shown : number[i] # i}
  <1> SUFFICES ASSUME wrong # {}
               PROVE  FALSE
    OBVIOUS
  <1>1. PICK i \in wrong : \A j \in wrong : ~ (<<j, i>> \in OpToRel(<, Nat))
    BY NatLessThanWellFounded, WFMin
  <1>2. \A j \in wrong : ~ j < i
    BY <1>1 DEF OpToRel
  <1>3. PICK j \in shown : number[j] = i
    OBVIOUS
  <1> QED
    BY <1>2, <1>3

-----------------------------------------------------------------------------
(* What the comparison of two indices shows. *)

LEMMA SameScope ==
    ASSUME NEW p, NEW meta, NEW other, NEW signals, spec.codex => meta = other
    PROVE  Indexed(p, meta, signals) = Indexed(p, other, signals)
  BY DEF Indexed, InScope, Project, Session

LEMMA SameSignalsShown ==
    ASSUME NEW p, NEW meta, InScope(p, meta), NEW one, NEW other,
           Indexed(p, meta, one) = Indexed(p, meta, other), NEW t \in one
    PROVE  \E s \in other : s.line = t.line /\ s.time = t.time /\ s.kind = t.kind
  <1> DEFINE Numbered(s) == [line |-> s.line, time |-> s.time, kind |-> s.kind,
                             project |-> Project(p, meta), session |-> Session(p, meta)]
  <1>1. Numbered(t) \in Indexed(p, meta, one)
    BY DEF Indexed
  <1>2. PICK s \in other : Numbered(t) = Numbered(s)
    BY <1>1 DEF Indexed
  <1>3. \A u : Numbered(u).line = u.line /\ Numbered(u).time = u.time /\ Numbered(u).kind = u.kind
    OBVIOUS
  <1> HIDE DEF Numbered
  <1> QED
    BY <1>2, <1>3

LEMMA IndexIsRight ==
    ASSUME NEW p \in Paths, NEW rec, rec.complete, RecordIsNumbered(p, rec),
           NEW r, Covers(p, rec.hash, r), rec.index = Indexed(p, r.meta, r.signals)
    PROVE  rec.index = TrueIndex(p, rec.hash)
  <1> DEFINE n == rec.hash
             entry(i) == script[p][i]
             whole == UNION {SignalsOf(entry(i), i) : i \in WholeEntries(p, n)}
  <1>1. PICK meta, number :
           /\ MetaIs(p, n, meta) /\ (spec.codex => meta # NoMeta)
           /\ Numbers(p, n, number)
           /\ rec.index = Indexed(p, meta, SignalsBy(p, n, number))
    BY DEF RecordIsNumbered
  <1>2. \A m : MetaIs(p, n, m) => m = TrueMeta(p, n)
    BY MetaIsUnique DEF WholeEntries
  <1>3. meta = TrueMeta(p, n) /\ (spec.codex => r.meta = meta)
    BY <1>1, <1>2 DEF Covers
  <1> DEFINE by == SignalsBy(p, n, number)
  <1>4. Indexed(p, meta, r.signals) = Indexed(p, meta, by)
    <2>1. Indexed(p, r.meta, r.signals) = Indexed(p, meta, r.signals)
      BY <1>3, SameScope
    <2> QED
      BY <1>1, <2>1
  <1>5. TrueIndex(p, n) = Indexed(p, meta, whole)
    BY <1>3 DEF TrueIndex
  <1>6. CASE ~ InScope(p, meta)
    BY <1>1, <1>5, <1>6 DEF Indexed
  <1>7. CASE InScope(p, meta)
    <2> DEFINE shown == {i \in WholeEntries(p, n) : SignalsOf(entry(i), i) # {}}
    <2>1. \A e, i, j : SignalsOf(e, i) # {} => SignalsOf(e, j) # {}
      BY DEF SignalsOf
    <2>2. \A e, i : \A s \in SignalsOf(e, i) : s.line = i
      BY DEF SignalsOf
    <2>3. ASSUME NEW i \in shown
          PROVE  \E j \in shown : number[j] = i
      <3>1. PICK t \in SignalsOf(entry(i), i) : TRUE
        OBVIOUS
      <3>2. t \in r.signals
        BY <3>1 DEF Covers
      <3>3. PICK s \in by : s.line = t.line
        BY <1>4, <1>7, <3>2, SameSignalsShown
      <3>4. PICK j \in WholeEntries(p, n) : s \in SignalsOf(entry(j), number[j])
        BY <3>3 DEF SignalsBy
      <3>5. number[j] = i
        BY <2>2, <3>1, <3>3, <3>4
      <3> QED
        BY <2>1, <3>4, <3>5
    <2>4. shown \subseteq Nat /\ \A i \in shown : number[i] \in Nat /\ i <= number[i]
      BY <1>1 DEF Numbers, WholeEntries
    <2>5. \A i \in shown : number[i] = i
      <3> HIDE DEF shown
      <3> QED
        BY <2>3, <2>4, NumbersAreRight
    <2>6. \A i \in WholeEntries(p, n) : SignalsOf(entry(i), number[i]) = SignalsOf(entry(i), i)
      BY <2>1, <2>5
    <2>7. by = whole
      <3> HIDE DEF entry
      <3> QED
        BY <2>6 DEF SignalsBy, entry
    <2> QED
      BY <1>1, <1>5, <2>7
  <1> QED
    BY <1>6, <1>7

(* A transcript that cannot be opened again shows nothing. *)
LEMMA NothingIsRight ==
    ASSUME NEW p, NEW rec, rec.complete, RecordIsTrue(p, rec), rec.index = {}
    PROVE  rec.index = TrueIndex(p, rec.hash)
  <1>1. Unnumbered({}) = {} /\ \A index : index # {} => Unnumbered(index) # {}
    BY DEF Unnumbered
  <1> QED
    BY <1>1 DEF RecordIsTrue

-----------------------------------------------------------------------------
(* Steps, once more. *)

LEMMA NumbersStay ==
    ASSUME spec' = spec, script' = script
    PROVE  \A p :
              /\ \A r : ScanIsNumbered(p, r)' <=> ScanIsNumbered(p, r)
              /\ \A source : RecordIsNumbered(p, source)' <=> RecordIsNumbered(p, source)
              /\ \A n, r : RescanIsTrue(p, n, r)' <=> RescanIsTrue(p, n, r)
              /\ \A n : TrueIndex(p, n)' = TrueIndex(p, n)
  <1> SUFFICES ASSUME NEW p
               PROVE  /\ \A r : ScanIsNumbered(p, r)' <=> ScanIsNumbered(p, r)
                      /\ \A source : RecordIsNumbered(p, source)' <=> RecordIsNumbered(p, source)
                      /\ \A n, r : RescanIsTrue(p, n, r)' <=> RescanIsTrue(p, n, r)
                      /\ \A n : TrueIndex(p, n)' = TrueIndex(p, n)
    OBVIOUS
  <1>1. \A r : ScanIsNumbered(p, r)' <=> ScanIsNumbered(p, r)
    BY DEF ScanIsNumbered, Numbers, SignalsBy, WholeEntries
  <1>2. \A source : RecordIsNumbered(p, source)' <=> RecordIsNumbered(p, source)
    BY DEF RecordIsNumbered, Numbers, SignalsBy, WholeEntries, MetaIs, Indexed, InScope, Project,
           Session, PathIncluded
  <1>3. \A n, r : RescanIsTrue(p, n, r)' <=> RescanIsTrue(p, n, r)
    BY DEF RescanIsTrue, Covers, MetaIs, WholeEntries
  <1>4. \A n : TrueIndex(p, n)' = TrueIndex(p, n)
    BY DEF TrueIndex, TrueMeta, WholeEntries, Indexed, InScope, Project, Session, PathIncluded
  <1> QED
    BY <1>1, <1>2, <1>3, <1>4

(* What a step leaves alone that reads no line and makes no record. *)
LEMMA NoReadKeepsNumbers ==
    ASSUME NumberInv, UNCHANGED <<spec, script, records>>,
           \/ pending' = pending /\ scan' = scan /\ (scan # Unread => pc' = pc)
           \/ scan' = Unread
    PROVE  ScanNumbered' /\ RecordsNumbered' /\ RescanTrue'
  <1>1. RecordsNumbered'
    BY NumbersStay DEF NumberInv, RecordsNumbered
  <1>2. ScanNumbered'
    BY NumbersStay DEF NumberInv, ScanNumbered, Due
  <1>3. RescanTrue'
    BY NumbersStay DEF NumberInv, RescanTrue, Due
  <1> QED
    BY <1>1, <1>2, <1>3

LEMMA RightStays ==
    ASSUME UNCHANGED <<spec, script, records>>
    PROVE  /\ Complete' = Complete
           /\ \A p : RecordIsRight(p)' <=> RecordIsRight(p)
  BY NumbersStay DEF RecordIsRight, Complete

LEMMA WriteKeepsNumbers ==
    ASSUME IInv, NumberInv, NEW p \in Paths, Write(p)
    PROVE  NumberInv'
  <1>1. ScanNumbered' /\ RecordsNumbered' /\ RescanTrue'
    BY NoReadKeepsNumbers DEF Write
  <1>2. Complete' = Complete /\ \A q : RecordIsRight(q)' <=> RecordIsRight(q)
    BY RightStays DEF Write
  <1>3. \A q \in Paths : size[q] \in Nat /\ size'[q] \in Nat /\ size[q] <= size'[q]
    BY DEF Write, IInv, Bounded
  <1>4. ASSUME pc = "rescan", NEW q \in Paths, Due(q)
        PROVE  records[q].hash <= size'[q]
    <2>1. records[q].hash \in Nat /\ records[q].hash <= size[q]
      BY <1>4 DEF NumberInv, Phases, RecordsNumbered, RecordIsNumbered, Complete, Due
    <2> QED
      BY <1>3, <2>1
  <1>5. Phases'
    BY <1>2, <1>4 DEF Write, NumberInv, Phases, Due
  <1>6. Checked'
    BY <1>2 DEF Write, NumberInv, Checked
  <1> QED
    BY <1>1, <1>5, <1>6 DEF NumberInv

(* The record of the transcript that is due again. *)
LEMMA DueAgain ==
    ASSUME IInv, NumberInv, pc = "rescan", NEW p \in Paths, Due(p)
    PROVE  /\ p \in DOMAIN records /\ records[p].complete
           /\ records[p].hash \in Nat /\ records[p].hash <= size[p] /\ records[p].hash % 3 # 1
           /\ RecordIsTrue(p, records[p]) /\ RecordIsNumbered(p, records[p])
  <1>1. p \in DOMAIN records /\ records[p].complete /\ records[p].hash <= size[p]
    BY DEF NumberInv, Phases, Complete, Due
  <1>2. RecordIsTrue(p, records[p]) /\ RecordIsNumbered(p, records[p])
    BY <1>1 DEF IInv, RecordsTrue, NumberInv, RecordsNumbered
  <1> QED
    BY <1>1, <1>2 DEF RecordIsTrue, RecordIsNumbered

LEMMA OpenKeepsNumbers ==
    ASSUME IInv, NumberInv, NEW p \in Paths, Open(p)
    PROVE  NumberInv'
  <1>1. /\ NewScan.at = 0 /\ NewScan.line = 0 /\ NewScan.meta = NoMeta /\ NewScan.signals = {}
        /\ UNCHANGED <<spec, script, file, size, pc, pending, records, found, outcome>>
        /\ scan' = NewScan
    BY DEF NewScan, Open, world
  <1>2. ASSUME NEW q
        PROVE  WholeEntries(q, 0) = {} /\ ScanIsNumbered(q, NewScan)
    <2>1. WholeEntries(q, 0) = {}
      BY DEF WholeEntries
    <2> DEFINE number == [i \in {} |-> 0]
    <2>2. Numbers(q, 0, number) /\ SignalsBy(q, 0, number) = {}
      BY <2>1 DEF Numbers, SignalsBy
    <2> HIDE DEF number
    <2> QED
      BY <1>1, <2>1, <2>2 DEF ScanIsNumbered
  <1>3. ScanNumbered'
    <2>1. ScanIsNumbered(p, scan')
      BY <1>1, <1>2
    <2>2. ScanIsNumbered(p, scan)'
      BY <1>1, <2>1, NumbersStay
    <2> QED
      BY <1>1, <2>2 DEF Open, ScanNumbered, Due
  <1>4. RecordsNumbered'
    BY <1>1, NumbersStay DEF NumberInv, RecordsNumbered
  <1>5. ASSUME pc = "rescan", NEW q \in Paths, Due(q)
        PROVE  RescanIsTrue(q, records[q].hash, NewScan)
    <2>1. MetaIs(q, 0, NoMeta)
      BY <1>2 DEF MetaIs
    <2>2. Covers(q, 0, NewScan)
      BY <1>1, <1>2, <2>1 DEF Covers
    <2>3. records[q].hash \in Nat
      BY <1>5, DueAgain
    <2>4. 0 >= records[q].hash => records[q].hash = 0
      BY <2>3
    <2> QED
      BY <1>1, <2>1, <2>2, <2>4 DEF RescanIsTrue
  <1>6. RescanTrue'
    <2>1. ASSUME pc = "rescan", NEW q \in Paths, Due(q)
          PROVE  RescanIsTrue(q, records[q].hash, scan')
      BY <1>1, <1>5, <2>1
    <2> QED
      BY <1>1, <2>1, NumbersStay DEF RescanTrue, Due
  <1>7. Complete' = Complete /\ \A q : RecordIsRight(q)' <=> RecordIsRight(q)
    BY <1>1, RightStays
  <1>8. Phases' /\ Checked'
    BY <1>1, <1>7 DEF NumberInv, Phases, Checked, Due
  <1> QED
    BY <1>3, <1>4, <1>6, <1>8 DEF NumberInv

LEMMA ReadLineKeepsNumbers ==
    ASSUME IInv, NumberInv, NEW p \in Paths, ReadLine(p)
    PROVE  NumberInv'
  <1>1. /\ UNCHANGED <<spec, script, file, size, pc, pending, records, found, outcome>>
        /\ Due(p) /\ scan # Unread /\ scan.at < size[p]
        /\ scan' = AfterLine(scan, LineEnd(scan.at, size[p]), script[p][scan.at \div 3 + 1])
    BY DEF ReadLine, world
  <1>2. /\ size[p] \in Nat /\ size[p] <= Pieces(p) /\ Len(script[p]) \in Nat
        /\ ScanIsTrue(p, scan) /\ \A q \in Paths : Due(q) => q = p
    BY <1>1, Lengths, UniqueDue DEF IInv, Bounded, ScanTrue
  <1>3. ScanIsNumbered(p, scan)
    BY <1>1, <1>2 DEF NumberInv, ScanNumbered
  <1>4. ScanIsNumbered(p, scan')
    BY <1>1, <1>2, <1>3, LineKeepsNumbers
  <1>5. ScanNumbered'
    BY <1>1, <1>4, NumbersStay DEF ScanNumbered, Due
  <1>6. RecordsNumbered'
    BY <1>1, NumbersStay DEF NumberInv, RecordsNumbered
  <1>7. ASSUME pc = "rescan"
        PROVE  RescanIsTrue(p, records[p].hash, scan')
    <2>1. /\ records[p].hash \in Nat /\ records[p].hash <= size[p] /\ records[p].hash % 3 # 1
      BY <1>1, <1>7, DueAgain
    <2>2. RescanIsTrue(p, records[p].hash, scan) /\ scan.line \in Nat
      BY <1>1, <1>3, <1>7 DEF NumberInv, RescanTrue, ScanIsNumbered
    <2> QED
      BY <1>1, <1>2, <2>1, <2>2, LineKeepsRescan
  <1>8. RescanTrue'
    BY <1>1, <1>2, <1>7, NumbersStay DEF RescanTrue, Due
  <1>9. Complete' = Complete /\ \A q : RecordIsRight(q)' <=> RecordIsRight(q)
    BY <1>1, RightStays
  <1>10. Phases' /\ Checked'
    BY <1>1, <1>9 DEF NumberInv, Phases, Checked, Due
  <1> QED
    BY <1>5, <1>6, <1>8, <1>10 DEF NumberInv

LEMMA SourceIsNumbered ==
    ASSUME NEW p \in Paths, NEW r, ScanIsTrue(p, r), ScanIsNumbered(p, r)
    PROVE  RecordIsNumbered(p, SourceOf(p, r))
  <1> DEFINE source == SourceOf(p, r)
  <1>1. /\ source.hash = r.at /\ source.index = Indexed(p, r.meta, r.signals)
        /\ source.complete => ~ r.malformed /\ (spec.codex => r.meta # NoMeta)
    BY DEF SourceOf
  <1> HIDE DEF source
  <1>2. ASSUME ~ r.malformed
        PROVE  /\ r.at \in Nat /\ MetaIs(p, r.at, r.meta)
               /\ \E number : Numbers(p, r.at, number) /\ r.signals = SignalsBy(p, r.at, number)
    BY <1>2 DEF ScanIsTrue, ScanIsNumbered
  <1> QED
    BY <1>1, <1>2 DEF RecordIsNumbered, source

LEMMA RecordKeepsNumbers ==
    ASSUME IInv, NumberInv, NEW p \in Paths, Record(p)
    PROVE  NumberInv'
  <1>1. PICK source \in Sources(p) :
           /\ Scanned(p, source)
           /\ records' = [q \in DOMAIN records \cup {p} |-> IF q = p THEN source ELSE records[q]]
    BY DEF Record
  <1>2. /\ UNCHANGED <<spec, script, file, size, pc, found, outcome>>
        /\ pc = "scan" /\ Due(p) /\ scan' = Unread
    BY DEF Record, world
  <1>3. RecordIsNumbered(p, source)
    <2>1. CASE source = Unreadable(p)
      BY <2>1 DEF RecordIsNumbered, Unreadable
    <2>2. CASE scan # Unread /\ source = SourceOf(p, scan)
      <3>1. \A q \in Paths : Due(q) => q = p
        BY <1>2, UniqueDue DEF IInv, Bounded
      <3>2. ScanIsTrue(p, scan) /\ ScanIsNumbered(p, scan)
        BY <1>2, <2>2, <3>1 DEF IInv, ScanTrue, NumberInv, ScanNumbered
      <3> QED
        BY <2>2, <3>2, SourceIsNumbered
    <2> QED
      BY <1>1, <2>1, <2>2 DEF Scanned
  <1>4. \A q \in DOMAIN records' : RecordIsNumbered(q, records'[q])
    BY <1>1, <1>3 DEF NumberInv, RecordsNumbered
  <1>5. RecordsNumbered'
    BY <1>2, <1>4, NumbersStay DEF RecordsNumbered
  <1>6. ScanNumbered' /\ RescanTrue'
    BY <1>2 DEF ScanNumbered, RescanTrue
  <1>7. Phases'
    BY <1>2 DEF NumberInv, Phases
  <1>8. Checked'
    <2>1. outcome' # "accepted"
      BY <1>2, ScanAssumption DEF NumberInv, Phases
    <2> QED
      BY <1>2, <2>1 DEF Checked
  <1> QED
    BY <1>5, <1>6, <1>7, <1>8 DEF NumberInv

(* The second scan is compared with the record. *)
LEMMA SourceIsRight ==
    ASSUME IInv, NumberInv, NEW p \in Paths, pc = "rescan", Due(p),
           NEW source, Scanned(p, source), SameSource(records[p], source)
    PROVE  RecordIsRight(p)
  <1>1. /\ records[p].complete /\ records[p].hash \in Nat /\ records[p].hash <= size[p]
        /\ RecordIsTrue(p, records[p]) /\ RecordIsNumbered(p, records[p])
    BY DueAgain
  <1>2. CASE source = Unreadable(p)
    <2>1. records[p].index = {}
      BY <1>2 DEF SameSource, Unreadable
    <2> QED
      BY <1>1, <2>1, NothingIsRight DEF RecordIsRight
  <1>3. CASE scan # Unread /\ scan.at = size[p] /\ source = SourceOf(p, scan)
    <2>1. Covers(p, records[p].hash, scan)
      BY <1>1, <1>3 DEF NumberInv, RescanTrue, RescanIsTrue
    <2>2. records[p].index = Indexed(p, scan.meta, scan.signals)
      BY <1>3 DEF SameSource, SourceOf
    <2> QED
      BY <1>1, <2>1, <2>2, IndexIsRight DEF RecordIsRight
  <1> QED
    BY <1>2, <1>3 DEF Scanned

LEMMA RefuseKeepsNumbers ==
    ASSUME NumberInv, Refuse, Complete
    PROVE  NumberInv'
  <1>1. ScanNumbered' /\ RecordsNumbered' /\ RescanTrue'
    BY NoReadKeepsNumbers DEF Refuse, world
  <1>2. Complete'
    BY RightStays DEF Refuse, world
  <1> QED
    BY <1>1, <1>2 DEF Refuse, NumberInv, Phases, Checked

LEMMA CheckKeepsNumbers ==
    ASSUME IInv, NumberInv, NEW p \in Paths, Discover(p) \/ CompareHash(p) \/ CompareSource(p)
    PROVE  NumberInv'
  <1>1. Complete
    BY DEF Discover, CompareHash, CompareSource, NumberInv, Phases
  <1>2. CASE Refuse
    BY <1>1, <1>2, RefuseKeepsNumbers
  <1>3. ASSUME ~ Refuse
        PROVE  NumberInv'
    <2>1. UNCHANGED <<spec, script, size, records, outcome>> /\ Due(p)
      BY <1>3 DEF Discover, CompareHash, CompareSource, world
    <2>2. scan' = Unread
      BY <1>3 DEF Discover, CompareHash, CompareSource, IInv, Bounded
    <2>3. ScanNumbered' /\ RecordsNumbered' /\ RescanTrue'
      BY <2>1, <2>2, NoReadKeepsNumbers
    <2>4. Complete' /\ \A q : RecordIsRight(q)' <=> RecordIsRight(q)
      BY <1>1, <2>1, RightStays
    <2>5. CASE Discover(p)
      BY <2>1, <2>3, <2>4, <2>5 DEF Discover, NumberInv, Phases, Checked
    <2>6. CASE CompareHash(p)
      <3>1. \A q \in Paths : Due(q) => q = p
        BY <2>1, UniqueDue DEF IInv, Bounded
      <3>2. pc = "hash" /\ pc' = "rescan" /\ pending' = pending /\ size[p] = records[p].hash
        BY <1>3, <2>6 DEF CompareHash
      <3>3. size[p] \in Nat
        BY DEF IInv, Bounded
      <3>4. Phases'
        BY <2>1, <2>4, <3>1, <3>2, <3>3 DEF NumberInv, Phases, Due
      <3>5. Checked'
        BY <2>1, <2>4, <3>2 DEF NumberInv, Checked
      <3> QED
        BY <2>3, <3>4, <3>5 DEF NumberInv
    <2>7. CASE CompareSource(p)
      <3>1. PICK source : Scanned(p, source) /\ SameSource(records[p], source)
        BY <1>3, <2>7 DEF CompareSource
      <3>2. pc = "rescan" /\ pc' = "hash" /\ pending' = pending \ {p}
        BY <1>3, <2>7 DEF CompareSource
      <3>3. RecordIsRight(p)
        BY <2>1, <3>1, <3>2, SourceIsRight
      <3> QED
        BY <2>1, <2>3, <2>4, <3>2, <3>3 DEF NumberInv, Phases, Checked
    <2> QED
      BY <2>5, <2>6, <2>7
  <1> QED
    BY <1>2, <1>3

LEMMA InitNumbers == Init => NumberInv
  BY ScanAssumption DEF Init, NumberInv, Phases, ScanNumbered, RecordsNumbered, RescanTrue, Checked

LEMMA NextNumbers == IInv /\ NumberInv /\ [Next]_vars => NumberInv'
  <1> SUFFICES ASSUME IInv, NumberInv, [Next]_vars
               PROVE  NumberInv'
    OBVIOUS
  <1>1. ASSUME NEW p \in Paths, Write(p) \/ Open(p) \/ ReadLine(p) \/ Record(p)
        PROVE  NumberInv'
    BY <1>1, WriteKeepsNumbers, OpenKeepsNumbers, ReadLineKeepsNumbers, RecordKeepsNumbers
  <1>2. ASSUME NEW p \in Paths, Discover(p) \/ CompareHash(p) \/ CompareSource(p)
        PROVE  NumberInv'
    BY <1>2, CheckKeepsNumbers
  <1>3. ASSUME UNCHANGED <<spec, script, size, records>>,
               scan' = scan,
               \/ pending' = pending /\ pc' = pc
               \/ pc \notin {"scan", "rescan"}
               \/ pending = {}
        PROVE  ScanNumbered' /\ RecordsNumbered' /\ RescanTrue'
    BY <1>3, NoReadKeepsNumbers DEF IInv, Bounded
  <1>4. ASSUME UNCHANGED <<spec, script, size, records>>
        PROVE  Complete' = Complete /\ \A q : RecordIsRight(q)' <=> RecordIsRight(q)
    BY <1>4, RightStays
  <1>5. ASSUME NEW p \in Paths, Create(p) \/ Vanish(p)
        PROVE  NumberInv'
    <2>1. UNCHANGED <<spec, script, size, pc, pending, scan, records, found, outcome>>
      BY <1>5 DEF Create, Vanish
    <2> QED
      BY <1>3, <1>4, <2>1 DEF NumberInv, Phases, Checked, Due
  <1>6. CASE UNCHANGED vars
    BY <1>3, <1>4, <1>6 DEF vars, NumberInv, Phases, Checked, Due
  <1>7. CASE List
    BY <1>3, <1>4, <1>7 DEF List, world, NumberInv, Phases, Checked
  <1>8. CASE WriteManifest
    BY <1>3, <1>4, <1>8 DEF WriteManifest, world, NumberInv, Phases, Checked
  <1>9. CASE Load
    <2>1. CASE Refuse
      BY <1>9, <2>1, RefuseKeepsNumbers DEF Load, NumberInv, Phases
    <2>2. CASE ~ Refuse
      BY <1>3, <1>4, <1>9, <2>2 DEF Load, world, NumberInv, Phases, Checked
    <2> QED
      BY <2>1, <2>2
  <1>10. CASE CompareSessions
    <2>1. CASE Refuse
      BY <1>10, <2>1, RefuseKeepsNumbers DEF CompareSessions, NumberInv, Phases
    <2>2. CASE ~ Refuse
      BY <1>3, <1>4, <1>10, <2>2 DEF CompareSessions, world, NumberInv, Phases, Checked
    <2> QED
      BY <2>1, <2>2
  <1>11. CASE Accept
    BY <1>3, <1>4, <1>11 DEF Accept, world, NumberInv, Phases, Checked
  <1> QED
    BY <1>1, <1>2, <1>5, <1>6, <1>7, <1>8, <1>9, <1>10, <1>11 DEF Next

(* What is known of the numbers holds throughout.                          *)
THEOREM NumberInvariance == Spec => [](IInv /\ NumberInv)
  BY InitIInv, NextIInv, InitNumbers, NextNumbers, PTL DEF Spec

(***************************************************************************)
(* What a continuation accepts is numbered rightly: an evidence index that *)
(* was made while its transcript grew, with a line counted twice, does not *)
(* survive _validate_continuation_manifest, although the hash of the bytes *)
(* is right.  For all transcripts, sessions and scopes, and any number of  *)
(* continuations.                                                          *)
(***************************************************************************)
THEOREM AcceptedIsRight == Spec => []AcceptedIndexIsTrue
  <1>1. NumberInv => AcceptedIndexIsTrue
    BY DEF NumberInv, Checked, RecordIsRight, AcceptedIndexIsTrue
  <1> QED
    BY <1>1, NumberInvariance, PTL

(* The types of the scan: a reader is within a transcript that is due, and *)
(* has not counted more lines than it has read pieces.                     *)
THEOREM TypeCorrect == Spec => []TypeOK
  <1> DEFINE Rest ==
        /\ spec \in Specs /\ script \in Scripts
        /\ file \in [Paths -> {"none", "here", "gone"}]
        /\ pc \in {"list", "scan", "idle", "discover", "hash", "rescan", "stop"}
        /\ found \subseteq Paths
        /\ outcome \in {None, "complete", "incomplete", "accepted", "refused"}
  <1>1. Init => Rest
    BY DEF Init
  <1>2. Rest /\ [Next]_vars => Rest'
    <2> SUFFICES ASSUME Rest, [Next]_vars
                 PROVE  Rest'
      OBVIOUS
    <2>1. ASSUME NEW p \in Paths, Create(p) \/ Write(p) \/ Vanish(p)
          PROVE  Rest'
      BY <2>1 DEF Create, Write, Vanish
    <2>2. ASSUME NEW p \in Paths, Open(p) \/ ReadLine(p) \/ Record(p)
          PROVE  Rest'
      BY <2>2 DEF Open, ReadLine, Record, world
    <2>3. ASSUME NEW p \in Paths, Discover(p) \/ CompareHash(p) \/ CompareSource(p)
          PROVE  Rest'
      BY <2>3 DEF Discover, CompareHash, CompareSource, Refuse, world
    <2>4. CASE List \/ WriteManifest \/ Load \/ CompareSessions \/ Accept
      BY <2>4 DEF List, WriteManifest, Load, CompareSessions, Accept, Refuse, world
    <2>5. CASE UNCHANGED vars
      BY <2>5 DEF vars
    <2> QED
      BY <2>1, <2>2, <2>3, <2>4, <2>5 DEF Next
  <1>3. Rest /\ IInv /\ NumberInv => TypeOK
    <2> SUFFICES ASSUME Rest, IInv, NumberInv
                 PROVE  TypeOK
      OBVIOUS
    <2>1. \A p \in Paths : size[p] \in 0..Pieces(p)
      <3> TAKE p \in Paths
      <3>1. size[p] \in Nat /\ size[p] <= Pieces(p) /\ Len(script[p]) \in Nat
        BY Lengths DEF IInv, Bounded
      <3> QED
        BY <3>1 DEF Pieces
    <2>2. scan # Unread => \E p \in Paths : Due(p) /\ scan.at <= size[p] /\ scan.line <= scan.at
      BY DEF IInv, ScanTrue, ScanIsTrue, NumberInv, ScanNumbered, ScanIsNumbered
    <2> QED
      BY <2>1, <2>2 DEF TypeOK, IInv, Bounded
  <1> HIDE DEF Rest
  <1> QED
    BY NumberInvariance, <1>1, <1>2, <1>3, PTL DEF Spec

-----------------------------------------------------------------------------
(***************************************************************************)
(* A continuation refuses a complete manifest only for a reason: the two   *)
(* ways to list the sessions, and the two ways to read a transcript, agree *)
(* on a transcript that is as it was hashed.                               *)
(***************************************************************************)

(***************************************************************************)
(* Every transcript has a project.  codex_project always finds a name; a   *)
(* Claude transcript has one if it lies in a folder below the root.        *)
(***************************************************************************)
HaveProjects ==
    /\ \A p \in Paths : Folder[p] # NoProject
    /\ \A s \in Scripts : \A p \in Paths : \A i \in 1..Len(s[p]) :
          s[p][i].meta \in {NoMeta, BadMeta} \/ s[p][i].meta.project # NoProject

(* A scan without unusable metadata has passed none. *)
ScanIsPlain(p, r) ==
    ~ r.malformed /\ ~ r.badMeta =>
        \A i \in WholeEntries(p, r.at) : script[p][i].meta # BadMeta

(* A second scan of n pieces has nothing that they do not show. *)
ScanIsExact(p, n, r) ==
    r.at <= n => \A s \in r.signals : \E i \in WholeEntries(p, n) : s \in SignalsOf(script[p][i], i)

RecordIsPlain(p, source) ==
    source.complete =>
        /\ spec.codex => /\ TrueMeta(p, source.hash) # NoMeta
                         /\ \A i \in WholeEntries(p, source.hash) : script[p][i].meta # BadMeta
        /\ source.project = Project(p, TrueMeta(p, source.hash))
        /\ source.thread = IF spec.codex THEN TrueMeta(p, source.hash).thread ELSE None
        /\ \A e \in source.index : e.project = source.project

Reason(p) ==
    IF p \in DOMAIN records
    THEN file[p] = "gone" \/ size[p] # records[p].hash \/ ~ RecordIsRight(p)
    ELSE file[p] # "none"

(* What the transcripts were like when they were listed, they have been since. *)
Seen ==
    /\ \A p \in pending \cup found \cup DOMAIN records : file[p] # "none"
    /\ \A p \in DOMAIN records : records[p].complete => records[p].hash <= size[p]
    /\ pc # "discover" => found = {}
    /\ found \cap pending = {}

ScanPlain ==
    scan # Unread => \A p \in Paths : Due(p) =>
        /\ ScanIsPlain(p, scan)
        /\ pc = "rescan" => ScanIsExact(p, records[p].hash, scan)

RecordsPlain == \A p \in DOMAIN records : RecordIsPlain(p, records[p])

(* The sessions found so far, of the transcripts that are as they were. *)
Discovered ==
    pc = "discover" =>
        \A p \in DOMAIN records \ pending :
            file[p] = "here" /\ size[p] = records[p].hash => (p \in found <=> IsSession(p))

Refused == outcome = "refused" => Complete /\ \E p \in Paths : Reason(p)

Known == TypeOK /\ IInv /\ NumberInv

ReasonInv == Seen /\ ScanPlain /\ RecordsPlain /\ Discovered /\ Refused

-----------------------------------------------------------------------------
(* One line. *)

(* The entries after a line that was no malformed one. *)
LEMMA WholeAfterLine ==
    ASSUME NEW p \in Paths, NEW n \in Nat, n <= Pieces(p), Len(script[p]) \in Nat,
           NEW r, r.at \in Nat, r.at < n
    PROVE  LET to == LineEnd(r.at, n)
               k == r.at \div 3 + 1
           IN  /\ BlankLine(r) => WholeEntries(p, to) = WholeEntries(p, r.at)
               /\ WholeLine(r, to, script[p][k]) =>
                     WholeEntries(p, to) = WholeEntries(p, r.at) \cup {k}
  <1> DEFINE to == LineEnd(r.at, n)
             j == r.at \div 3
  <1>1. r.at \in Nat /\ r.at < to /\ to \in Nat /\ to <= n
    BY LineEndForward
  <1>2. BlankLine(r) => WholeEntries(p, to) = WholeEntries(p, r.at)
    <2>1. BlankLine(r) => r.at % 3 = 2 /\ to = r.at + 1
      BY LineOfNewline DEF BlankLine
    <2> HIDE DEF to
    <2> QED
      BY <1>1, <2>1, WholeAfterNewline
  <1>3. ASSUME WholeLine(r, to, script[p][j + 1])
        PROVE  WholeEntries(p, to) = WholeEntries(p, r.at) \cup {j + 1}
    <2>1. r.at % 3 = 0 /\ to >= r.at + 2 /\ ~ script[p][j + 1].broken
      BY <1>3 DEF WholeLine
    <2>2. to \in {r.at + 1, r.at + 2, r.at + 3} /\ j \in Nat /\ r.at = 3 * j
      BY <2>1, LineOfEntry
    <2> HIDE DEF to, j
    <2>3. to \in {r.at + 2, r.at + 3} /\ r.at \in Nat /\ r.at = 3 * j /\ j \in Nat
      BY <1>1, <2>1, <2>2
    <2>4. to <= Pieces(p) /\ ~ script[p][j + 1].broken
      BY <1>1, <2>1 DEF Pieces
    <2>5. /\ WholeEntries(p, to) = WholeEntries(p, r.at) \cup {j + 1}
          /\ \A i \in WholeEntries(p, r.at) : i \in Nat /\ i <= j + 1
      BY <2>3, <2>4, WholeAfterEntry, ZenonT(60)
    <2> QED
      BY <2>5
  <1> QED
    BY <1>2, <1>3

LEMMA LineKeepsPlain ==
    ASSUME NEW p \in Paths, NEW n \in Nat, n <= Pieces(p), Len(script[p]) \in Nat,
           NEW r, ScanIsTrue(p, r), ScanIsPlain(p, r), r.at < n
    PROVE  ScanIsPlain(p, AfterLine(r, LineEnd(r.at, n), script[p][r.at \div 3 + 1]))
  <1> DEFINE to == LineEnd(r.at, n)
             k == r.at \div 3 + 1
             q == AfterLine(r, to, script[p][k])
  <1>1. DOMAIN r = ScanFields /\ r.at \in Nat
    BY DEF ScanIsTrue
  <1>2. /\ q.at = to /\ (r.malformed => q.malformed)
        /\ WholeLine(r, to, script[p][k]) => (~ q.badMeta => ~ r.badMeta /\ script[p][k].meta # BadMeta)
        /\ ~ WholeLine(r, to, script[p][k]) => q.badMeta = r.badMeta /\ (BlankLine(r) \/ q.malformed)
    BY <1>1, LineFields
  <1>3. /\ BlankLine(r) => WholeEntries(p, to) = WholeEntries(p, r.at)
        /\ WholeLine(r, to, script[p][k]) => WholeEntries(p, to) = WholeEntries(p, r.at) \cup {k}
    BY <1>1, WholeAfterLine
  <1> HIDE DEF q, to, k
  <1>4. ScanIsPlain(p, q)
    BY <1>2, <1>3 DEF ScanIsPlain
  <1> QED
    BY <1>4 DEF q, to, k

LEMMA LineKeepsExact ==
    ASSUME NEW p \in Paths, NEW n \in Nat, n <= Pieces(p), Len(script[p]) \in Nat,
           NEW h \in Nat, NEW r, ScanIsTrue(p, r), r.line \in Nat, r.at < n,
           RescanIsTrue(p, h, r), ScanIsExact(p, h, r)
    PROVE  ScanIsExact(p, h, AfterLine(r, LineEnd(r.at, n), script[p][r.at \div 3 + 1]))
  <1> DEFINE to == LineEnd(r.at, n)
             k == r.at \div 3 + 1
             q == AfterLine(r, to, script[p][k])
  <1>1. DOMAIN r = ScanFields /\ r.at \in Nat /\ r.at < to /\ to \in Nat /\ to <= n
    BY LineEndForward DEF ScanIsTrue
  <1>2. /\ q.at = to
        /\ WholeLine(r, to, script[p][k]) => q.signals = r.signals \cup SignalsOf(script[p][k], r.line + 1)
        /\ ~ WholeLine(r, to, script[p][k]) => q.signals = r.signals
    BY <1>1, LineFields
  <1>3. WholeLine(r, to, script[p][k]) => WholeEntries(p, to) = WholeEntries(p, r.at) \cup {k}
    BY <1>1, WholeAfterLine
  <1> HIDE DEF q
  <1>4. SUFFICES ASSUME to <= h
                 PROVE  \A s \in q.signals :
                           \E i \in WholeEntries(p, h) : s \in SignalsOf(script[p][i], i)
    BY <1>2 DEF ScanIsExact, q
  <1>5. r.at < h /\ r.at = 3 * r.line
    BY <1>1, <1>4 DEF RescanIsTrue
  <1>6. k = r.line + 1
    BY <1>5
  <1> HIDE DEF to, k
  <1>7. WholeEntries(p, to) \subseteq WholeEntries(p, h)
    BY <1>1, <1>4 DEF WholeEntries
  <1>8. \A s \in r.signals : \E i \in WholeEntries(p, h) : s \in SignalsOf(script[p][i], i)
    BY <1>5 DEF ScanIsExact
  <1> QED
    BY <1>2, <1>3, <1>6, <1>7, <1>8

-----------------------------------------------------------------------------
(* The record of a transcript, compared with the transcript as it was. *)

LEMMA SourceIsPlain ==
    ASSUME NEW p \in Paths, NEW r, ScanIsTrue(p, r), ScanIsPlain(p, r)
    PROVE  RecordIsPlain(p, SourceOf(p, r))
  <1> DEFINE source == SourceOf(p, r)
  <1>1. /\ source.hash = r.at /\ source.project = Project(p, r.meta)
        /\ source.thread = IF spec.codex /\ r.meta # NoMeta THEN r.meta.thread ELSE None
        /\ source.index = Indexed(p, r.meta, r.signals)
        /\ source.complete => ~ r.malformed /\ (spec.codex => r.meta # NoMeta /\ ~ r.badMeta)
    BY DEF SourceOf
  <1> HIDE DEF source
  <1>2. ~ r.malformed => TrueMeta(p, r.at) = r.meta
    BY MetaIsUnique DEF ScanIsTrue, WholeEntries
  <1>3. \A e \in source.index : e.project = Project(p, r.meta)
    BY <1>1 DEF Indexed
  <1>4. source.complete /\ spec.codex => \A i \in WholeEntries(p, r.at) : script[p][i].meta # BadMeta
    BY <1>1 DEF ScanIsPlain
  <1> QED
    BY <1>1, <1>2, <1>3, <1>4 DEF RecordIsPlain, source

(* The metadata of a record, without a choice. *)
LEMMA TrueMetaIs ==
    ASSUME NEW p \in Paths, NEW rec, rec.complete, RecordIsNumbered(p, rec)
    PROVE  MetaIs(p, rec.hash, TrueMeta(p, rec.hash))
  <1>1. PICK meta : MetaIs(p, rec.hash, meta)
    BY DEF RecordIsNumbered
  <1> QED
    BY <1>1, MetaIsUnique DEF WholeEntries

(* discover_sessions and _manifest_session_paths agree on a transcript     *)
(* that is as it was hashed.                                               *)
LEMMA SameSessions ==
    ASSUME NEW p \in Paths, p \in DOMAIN records, records[p].complete,
           RecordIsNumbered(p, records[p]), RecordIsPlain(p, records[p]),
           size[p] = records[p].hash
    PROVE  IsSession(p) <=> p \in ManifestSessions
  <1> DEFINE n == records[p].hash
             meta == TrueMeta(p, n)
  <1>1. /\ spec.codex => meta # NoMeta /\ \A i \in WholeEntries(p, n) : script[p][i].meta # BadMeta
        /\ records[p].project = Project(p, meta)
        /\ spec.codex => records[p].thread = meta.thread
    BY DEF RecordIsPlain
  <1>2. CASE spec.codex
    <2>1. FirstMeta(p) = meta
      <3>1. Readable(p) = WholeEntries(p, n)
        BY DEF Readable, WholeEntries
      <3>2. {i \in Readable(p) : script[p][i].meta # NoMeta} =
              {i \in WholeEntries(p, n) : script[p][i].meta \notin {NoMeta, BadMeta}}
        BY <1>1, <1>2, <3>1
      <3> DEFINE First(metas) ==
                   IF metas = {} THEN NoMeta
                   ELSE script[p][CHOOSE i \in metas : \A j \in metas : i <= j].meta
      <3>3. FirstMeta(p) = First({i \in Readable(p) : script[p][i].meta # NoMeta})
        BY DEF FirstMeta
      <3>4. meta = First({i \in WholeEntries(p, n) : script[p][i].meta \notin {NoMeta, BadMeta}})
        BY DEF TrueMeta
      <3> HIDE DEF First, meta
      <3> QED
        BY <3>2, <3>3, <3>4
    <2>2. meta # BadMeta
      <3>1. MetaIs(p, n, meta)
        BY TrueMetaIs
      <3> HIDE DEF meta
      <3> QED
        BY <1>1, <1>2, <3>1 DEF MetaIs
    <2> HIDE DEF meta
    <2>3. IsSession(p) <=> InScope(p, meta)
      BY <1>2, <2>1, <2>2 DEF IsSession
    <2> QED
      BY <1>1, <1>2, <2>3 DEF InScope, ManifestSessions
  <1>3. CASE ~ spec.codex
    <2> HIDE DEF meta
    <2>1. records[p].project = Folder[p] /\ Project(p, NoMeta) = Folder[p]
      BY <1>1, <1>3 DEF Project
    <2> QED
      BY <1>3, <2>1 DEF IsSession, InScope, ManifestSessions
  <1> QED
    BY <1>2, <1>3

(* A manifest whose records are complete loads. *)
LEMMA Loads ==
    ASSUME HaveProjects, script \in Scripts, DOMAIN records \subseteq Paths, Complete,
           RecordsNumbered, RecordsPlain
    PROVE  ManifestLoads
  <1> SUFFICES ASSUME NEW p \in DOMAIN records, NEW e \in records[p].index
               PROVE  e.project # NoProject
    BY DEF ManifestLoads
  <1> DEFINE meta == TrueMeta(p, records[p].hash)
  <1>1. p \in Paths /\ records[p].complete
        /\ RecordIsNumbered(p, records[p]) /\ RecordIsPlain(p, records[p])
    BY DEF Complete, RecordsNumbered, RecordsPlain
  <1>2. e.project = Project(p, meta) /\ (spec.codex => meta # NoMeta)
    BY <1>1 DEF RecordIsPlain
  <1>3. MetaIs(p, records[p].hash, meta)
    BY <1>1, TrueMetaIs
  <1> HIDE DEF meta
  <1>4. CASE spec.codex
    <2>1. PICK i \in WholeEntries(p, records[p].hash) :
             meta = script[p][i].meta /\ meta \notin {NoMeta, BadMeta}
      BY <1>2, <1>3, <1>4 DEF MetaIs
    <2>2. i \in 1..Len(script[p])
      BY DEF WholeEntries
    <2>3. meta.project # NoProject
      BY <1>1, <2>1, <2>2 DEF HaveProjects
    <2> QED
      BY <1>2, <1>4, <2>3 DEF Project
  <1>5. CASE ~ spec.codex
    BY <1>1, <1>2, <1>5 DEF Project, HaveProjects
  <1> QED
    BY <1>4, <1>5

(* A second scan of a transcript that is as it was shows the same. *)
LEMMA SameAgain ==
    ASSUME NEW p \in Paths, NEW rec, rec.complete, RecordIsNumbered(p, rec), RecordIsPlain(p, rec),
           rec.index = TrueIndex(p, rec.hash),
           NEW r, Covers(p, rec.hash, r), ScanIsExact(p, rec.hash, r), r.at = rec.hash,
           rec.hash \in Nat
    PROVE  SameSource(rec, SourceOf(p, r))
  <1> DEFINE n == rec.hash
             meta == TrueMeta(p, n)
             whole == UNION {SignalsOf(script[p][i], i) : i \in WholeEntries(p, n)}
             again == SourceOf(p, r)
  <1>1. /\ again.project = Project(p, r.meta)
        /\ again.thread = IF spec.codex /\ r.meta # NoMeta THEN r.meta.thread ELSE None
        /\ again.index = Indexed(p, r.meta, r.signals)
    BY DEF SourceOf
  <1>2. /\ spec.codex => meta # NoMeta
        /\ rec.project = Project(p, meta)
        /\ rec.thread = IF spec.codex THEN meta.thread ELSE None
    BY DEF RecordIsPlain
  <1>3. \A m : MetaIs(p, n, m) => m = meta
    BY MetaIsUnique DEF WholeEntries
  <1>4. rec.index = Indexed(p, meta, whole)
    BY DEF TrueIndex
  <1>5. r.signals = whole
    <2>1. \A s \in r.signals : \E i \in WholeEntries(p, n) : s \in SignalsOf(script[p][i], i)
      BY DEF ScanIsExact
    <2> QED
      BY <2>1 DEF Covers
  <1> HIDE DEF meta, whole, again
  <1>6. spec.codex => r.meta = meta
    BY <1>2, <1>3 DEF Covers
  <1>7. Indexed(p, r.meta, r.signals) = Indexed(p, meta, r.signals)
    BY <1>6, SameScope
  <1>8. Project(p, r.meta) = Project(p, meta)
    BY <1>6 DEF Project
  <1> QED
    BY <1>1, <1>2, <1>4, <1>5, <1>6, <1>7, <1>8 DEF SameSource, again

-----------------------------------------------------------------------------
(* Steps. *)

LEMMA PlainStays ==
    ASSUME spec' = spec, script' = script
    PROVE  \A p :
              /\ \A r : ScanIsPlain(p, r)' <=> ScanIsPlain(p, r)
              /\ \A n, r : ScanIsExact(p, n, r)' <=> ScanIsExact(p, n, r)
              /\ \A source : RecordIsPlain(p, source)' <=> RecordIsPlain(p, source)
  <1> TAKE p
  <1>1. \A n : WholeEntries(p, n)' = WholeEntries(p, n)
    BY DEF WholeEntries
  <1>2. \A n : TrueMeta(p, n)' = TrueMeta(p, n)
    BY DEF TrueMeta, WholeEntries
  <1>3. \A meta : Project(p, meta)' = Project(p, meta)
    BY DEF Project
  <1>4. \A r : ScanIsPlain(p, r)' <=> ScanIsPlain(p, r)
    BY <1>1 DEF ScanIsPlain
  <1>5. \A n, r : ScanIsExact(p, n, r)' <=> ScanIsExact(p, n, r)
    BY <1>1 DEF ScanIsExact
  <1>6. \A source : RecordIsPlain(p, source)' <=> RecordIsPlain(p, source)
    BY <1>1, <1>2, <1>3 DEF RecordIsPlain
  <1> QED
    BY <1>4, <1>5, <1>6

LEMMA RecordsStayPlain ==
    ASSUME UNCHANGED <<spec, script, records>>, RecordsPlain
    PROVE  RecordsPlain'
  BY PlainStays DEF RecordsPlain

(* Bytes that were hashed are written; of a scan there are some due.       *)
LEMMA HashWritten ==
    ASSUME Known, ReasonInv, NEW p \in DOMAIN records, records[p].complete
    PROVE  /\ p \in Paths /\ records[p].hash \in Nat /\ records[p].hash <= size[p]
           /\ file[p] \in {"here", "gone"}
           /\ RecordIsTrue(p, records[p]) /\ RecordIsNumbered(p, records[p])
           /\ RecordIsPlain(p, records[p])
  <1>1. p \in Paths /\ file[p] \in {"here", "gone"} /\ records[p].hash <= size[p]
    BY DEF Known, TypeOK, ReasonInv, Seen
  <1>2. /\ RecordIsTrue(p, records[p]) /\ RecordIsNumbered(p, records[p])
        /\ RecordIsPlain(p, records[p])
    BY DEF Known, IInv, RecordsTrue, NumberInv, RecordsNumbered, ReasonInv, RecordsPlain
  <1> QED
    BY <1>1, <1>2 DEF RecordIsNumbered

(* A reason to refuse is one for ever. *)
LEMMA ReasonStays ==
    ASSUME Known, ReasonInv, Complete, UNCHANGED <<spec, script, records>>,
           \A p \in Paths : /\ size[p] <= size'[p] /\ size'[p] \in Nat
                            /\ file[p] = "gone" => file'[p] = "gone"
                            /\ file[p] # "none" => file'[p] # "none",
           NEW p \in Paths, Reason(p)
    PROVE  Reason(p)'
  <1>1. CASE p \notin DOMAIN records
    BY <1>1 DEF Reason
  <1>2. CASE p \in DOMAIN records
    <2>1. /\ records[p].hash \in Nat /\ records[p].hash <= size[p] /\ size[p] \in Nat
      BY <1>2, HashWritten DEF Complete, Known, IInv, Bounded
    <2>2. size[p] # records[p].hash => size'[p] # records[p].hash
      BY <2>1
    <2>3. RecordIsRight(p)' <=> RecordIsRight(p)
      BY RightStays
    <2> QED
      BY <1>2, <2>2, <2>3 DEF Reason
  <1> QED
    BY <1>1, <1>2

LEMMA RefusedStays ==
    ASSUME Known, ReasonInv, UNCHANGED <<spec, script, records>>,
           outcome' = outcome \/ outcome' # "refused",
           \A p \in Paths : /\ size[p] <= size'[p] /\ size'[p] \in Nat
                            /\ file[p] = "gone" => file'[p] = "gone"
                            /\ file[p] # "none" => file'[p] # "none"
    PROVE  Refused'
  <1> SUFFICES ASSUME outcome = "refused"
               PROVE  Complete' /\ \E p \in Paths : Reason(p)'
    BY DEF Refused
  <1>1. Complete /\ \E p \in Paths : Reason(p)
    BY DEF ReasonInv, Refused
  <1>2. Complete'
    BY <1>1, RightStays
  <1>3. PICK p \in Paths : Reason(p)
    BY <1>1
  <1>4. Reason(p)'
    BY <1>1, <1>3, ReasonStays
  <1> QED
    BY <1>2, <1>4

LEMMA WorldStays ==
    ASSUME Known, UNCHANGED world
    PROVE  \A p \in Paths : /\ size[p] <= size'[p] /\ size'[p] \in Nat
                            /\ file[p] = "gone" => file'[p] = "gone"
                            /\ file[p] # "none" => file'[p] # "none"
  BY DEF Known, IInv, Bounded, world

(* The sessions. *)
LEMMA WorldKeepsReason ==
    ASSUME Known, ReasonInv, NEW p \in Paths, Create(p) \/ Write(p) \/ Vanish(p)
    PROVE  ReasonInv'
  <1>1. UNCHANGED <<spec, script, pc, pending, scan, records, found, outcome>>
    BY DEF Create, Write, Vanish
  <1>2. size \in [Paths -> Nat] /\ file \in [Paths -> {"none", "here", "gone"}]
    BY DEF Known, IInv, Bounded, TypeOK
  <1>3. \A q \in Paths : /\ size[q] <= size'[q] /\ size'[q] \in Nat
                         /\ file[q] = "gone" => file'[q] = "gone"
                         /\ file[q] # "none" => file'[q] # "none"
    BY <1>2 DEF Create, Write, Vanish
  <1>4. /\ pending \subseteq Paths /\ found \subseteq Paths /\ DOMAIN records \subseteq Paths
    BY DEF Known, TypeOK
  <1>5. Seen'
    <2>1. ASSUME NEW q \in DOMAIN records, records[q].complete
          PROVE  records[q].hash <= size'[q]
      <3>1. /\ records[q].hash \in Nat /\ records[q].hash <= size[q]
            /\ size[q] \in Nat /\ size'[q] \in Nat /\ size[q] <= size'[q]
        BY <1>2, <1>3, <1>4, <2>1, HashWritten
      <3> QED
        BY <3>1
    <2> QED
      BY <1>1, <1>3, <1>4, <2>1 DEF ReasonInv, Seen
  <1>6. ScanPlain'
    BY <1>1, PlainStays DEF ReasonInv, ScanPlain, Due
  <1>7. ASSUME pc = "discover", NEW q \in DOMAIN records \ pending,
               file'[q] = "here", size'[q] = records[q].hash
        PROVE  q \in found <=> IsSession(q)'
    <2>1. /\ q \in Paths /\ records[q].hash \in Nat /\ records[q].hash <= size[q]
          /\ file[q] \in {"here", "gone"}
      BY <1>7, HashWritten DEF Known, NumberInv, Phases, Complete
    <2>2. size'[q] = size[q]
      BY <1>2, <1>3, <1>7, <2>1
    <2>3. file[q] = "here"
      BY <1>3, <1>7, <2>1
    <2>4. q \in found <=> IsSession(q)
      BY <1>7, <2>2, <2>3 DEF ReasonInv, Discovered
    <2>5. IsSession(q)' <=> IsSession(q)
      <3>1. Readable(q)' = Readable(q)
        BY <1>1, <2>2 DEF Readable
      <3>2. FirstMeta(q)' = FirstMeta(q)
        BY <1>1, <3>1 DEF FirstMeta
      <3> QED
        BY <1>1, <3>2 DEF IsSession, InScope, Project, PathIncluded
    <2> QED
      BY <2>4, <2>5
  <1>8. Discovered'
    BY <1>1, <1>7 DEF Discovered
  <1> QED
    BY <1>1, <1>3, <1>5, <1>6, <1>8, RecordsStayPlain, RefusedStays DEF ReasonInv

(* A step of the tool leaves the world alone. *)
LEMMA SessionsStay ==
    ASSUME UNCHANGED world
    PROVE  \A p : IsSession(p)' <=> IsSession(p)
  <1> TAKE p
  <1>1. FirstMeta(p)' = FirstMeta(p)
    BY DEF world, FirstMeta, Readable
  <1> QED
    BY <1>1 DEF world, IsSession, InScope, Project, PathIncluded

LEMMA OpenKeepsReason ==
    ASSUME Known, ReasonInv, NEW p \in Paths, Open(p)
    PROVE  ReasonInv'
  <1>1. UNCHANGED world /\ UNCHANGED <<pc, pending, records, found, outcome>> /\ scan' = NewScan
    BY DEF Open
  <1>2. UNCHANGED <<spec, script, file, size>>
    BY <1>1 DEF world
  <1>3. \A q, n : ScanIsPlain(q, NewScan) /\ ScanIsExact(q, n, NewScan)
    <2>1. \A q : WholeEntries(q, 0) = {}
      BY DEF WholeEntries
    <2> QED
      BY <2>1 DEF ScanIsPlain, ScanIsExact, NewScan
  <1>4. ScanPlain'
    <2>1. \A q, n : ScanIsPlain(q, scan') /\ ScanIsExact(q, n, scan')
      BY <1>1, <1>3
    <2>2. \A q, n : ScanIsPlain(q, scan)' /\ ScanIsExact(q, n, scan)'
      BY <1>2, <2>1 DEF ScanIsPlain, ScanIsExact, WholeEntries
    <2> QED
      BY <1>1, <2>2 DEF ScanPlain
  <1>5. Seen' /\ Discovered'
    BY <1>1, <1>2, SessionsStay DEF ReasonInv, Seen, Discovered
  <1>6. RecordsPlain'
    BY <1>1, <1>2, RecordsStayPlain DEF ReasonInv
  <1>7. Refused'
    BY <1>1, <1>2, WorldStays, RefusedStays
  <1> QED
    BY <1>4, <1>5, <1>6, <1>7 DEF ReasonInv

LEMMA ReadLineKeepsReason ==
    ASSUME Known, ReasonInv, NEW p \in Paths, ReadLine(p)
    PROVE  ReasonInv'
  <1>1. /\ UNCHANGED world /\ UNCHANGED <<pc, pending, records, found, outcome>>
        /\ Due(p) /\ scan # Unread /\ scan.at < size[p]
        /\ scan' = AfterLine(scan, LineEnd(scan.at, size[p]), script[p][scan.at \div 3 + 1])
    BY DEF ReadLine
  <1>2. UNCHANGED <<spec, script, file, size>>
    BY <1>1 DEF world
  <1>3. /\ size[p] \in Nat /\ size[p] <= Pieces(p) /\ Len(script[p]) \in Nat
        /\ ScanIsTrue(p, scan) /\ \A q \in Paths : Due(q) => q = p
    BY <1>1, Lengths, UniqueDue DEF Known, IInv, Bounded, ScanTrue
  <1>4. ScanIsPlain(p, scan) /\ ScanIsNumbered(p, scan)
    BY <1>1, <1>3 DEF ReasonInv, ScanPlain, Known, NumberInv, ScanNumbered
  <1>5. ScanIsPlain(p, scan')
    BY <1>1, <1>3, <1>4, LineKeepsPlain
  <1>6. ASSUME pc = "rescan"
        PROVE  ScanIsExact(p, records[p].hash, scan')
    <2>1. records[p].hash \in Nat
      BY <1>1, <1>6, DueAgain DEF Known
    <2>2. RescanIsTrue(p, records[p].hash, scan) /\ ScanIsExact(p, records[p].hash, scan)
      BY <1>1, <1>6 DEF Known, NumberInv, RescanTrue, ReasonInv, ScanPlain
    <2>3. scan.line \in Nat
      BY <1>4 DEF ScanIsNumbered
    <2> QED
      BY <1>1, <1>3, <2>1, <2>2, <2>3, LineKeepsExact
  <1>7. ScanPlain'
    <2>1. ScanIsPlain(p, scan)' /\ (pc = "rescan" => ScanIsExact(p, records[p].hash, scan)')
      BY <1>1, <1>2, <1>5, <1>6, PlainStays
    <2> QED
      BY <1>1, <1>3, <2>1 DEF ScanPlain, Due
  <1>8. Seen' /\ Discovered'
    BY <1>1, <1>2, SessionsStay DEF ReasonInv, Seen, Discovered
  <1>9. RecordsPlain'
    BY <1>1, <1>2, RecordsStayPlain DEF ReasonInv
  <1>10. Refused'
    BY <1>1, <1>2, WorldStays, RefusedStays
  <1> QED
    BY <1>7, <1>8, <1>9, <1>10 DEF ReasonInv

LEMMA RecordKeepsReason ==
    ASSUME Known, ReasonInv, NEW p \in Paths, Record(p)
    PROVE  ReasonInv'
  <1>1. PICK source \in Sources(p) :
           /\ Scanned(p, source)
           /\ records' = [q \in DOMAIN records \cup {p} |-> IF q = p THEN source ELSE records[q]]
    BY DEF Record
  <1>2. /\ UNCHANGED <<spec, script, file, size, pc, found, outcome>>
        /\ pc = "scan" /\ Due(p) /\ scan' = Unread /\ pending' = pending \ {p}
    BY DEF Record, world
  <1>3. RecordIsPlain(p, source) /\ (source.complete => source.hash <= size[p])
    <2>1. CASE source = Unreadable(p)
      BY <2>1 DEF RecordIsPlain, Unreadable
    <2>2. CASE scan # Unread /\ scan.at = size[p] /\ source = SourceOf(p, scan)
      <3>1. ScanIsTrue(p, scan) /\ ScanIsPlain(p, scan)
        BY <1>2, <2>2 DEF Known, IInv, ScanTrue, ReasonInv, ScanPlain
      <3>2. source.hash = scan.at /\ scan.at <= scan.at
        BY <2>2, <3>1 DEF SourceOf, ScanIsTrue
      <3> QED
        BY <2>2, <3>1, <3>2, SourceIsPlain
    <2> QED
      BY <1>1, <2>1, <2>2 DEF Scanned
  <1>4. RecordsPlain'
    <2>1. \A q \in DOMAIN records' : RecordIsPlain(q, records'[q])
      BY <1>1, <1>3 DEF ReasonInv, RecordsPlain
    <2> QED
      BY <1>2, <2>1, PlainStays DEF RecordsPlain
  <1>5. Seen'
    <2>1. \A q \in DOMAIN records' : records'[q].complete => records'[q].hash <= size[q]
      BY <1>1, <1>3 DEF ReasonInv, Seen
    <2>2. \A q \in pending' \cup found' \cup DOMAIN records' : file'[q] # "none"
      BY <1>1, <1>2 DEF ReasonInv, Seen, Due
    <2> QED
      BY <1>2, <2>1, <2>2 DEF ReasonInv, Seen
  <1>6. outcome' # "refused"
    BY <1>2, ScanAssumption DEF Known, NumberInv, Phases
  <1> QED
    BY <1>2, <1>4, <1>5, <1>6 DEF ReasonInv, ScanPlain, Discovered, Refused

-----------------------------------------------------------------------------
(* The steps of a continuation. *)

LEMMA RefuseKeepsReason ==
    ASSUME Known, ReasonInv, Refuse, Complete, NEW p \in Paths, Reason(p)
    PROVE  ReasonInv'
  <1>1. UNCHANGED world /\ UNCHANGED records /\ pc' = "idle" /\ pending' = {} /\ found' = {}
        /\ scan' = Unread
    BY DEF Refuse
  <1>2. UNCHANGED <<spec, script, file, size>>
    BY <1>1 DEF world
  <1>3. Complete' /\ Reason(p)'
    BY <1>1, <1>2, WorldStays, ReasonStays, RightStays
  <1>4. RecordsPlain'
    BY <1>1, <1>2, RecordsStayPlain DEF ReasonInv
  <1> QED
    BY <1>1, <1>2, <1>3, <1>4 DEF ReasonInv, Seen, ScanPlain, Discovered, Refused

LEMMA CompareSessionsHasReason ==
    ASSUME Known, ReasonInv, CompareSessions, found # ManifestSessions
    PROVE  \E p \in Paths : Reason(p)
  <1> SUFFICES ASSUME \A p \in Paths : ~ Reason(p)
               PROVE  FALSE
    OBVIOUS
  <1>1. pc = "discover" /\ pending = {} /\ Complete
    BY DEF CompareSessions, Known, NumberInv, Phases
  <1>2. found \subseteq Paths /\ ManifestSessions \subseteq DOMAIN records
    BY DEF Known, TypeOK, ManifestSessions
  <1>3. found \subseteq DOMAIN records
    BY <1>2 DEF Reason, ReasonInv, Seen
  <1>4. ASSUME NEW p \in DOMAIN records
        PROVE  p \in found <=> p \in ManifestSessions
    <2>1. p \in Paths /\ file[p] \in {"here", "gone"} /\ records[p].complete
          /\ RecordIsNumbered(p, records[p]) /\ RecordIsPlain(p, records[p])
      BY <1>1, HashWritten DEF Complete
    <2>2. file[p] = "here" /\ size[p] = records[p].hash
      BY <1>4, <2>1 DEF Reason
    <2>3. p \in found <=> IsSession(p)
      BY <1>1, <1>4, <2>2 DEF ReasonInv, Discovered
    <2> QED
      BY <2>1, <2>2, <2>3, SameSessions
  <1> QED
    BY <1>2, <1>3, <1>4

LEMMA CompareSourceHasReason ==
    ASSUME Known, ReasonInv, NEW p \in Paths, pc = "rescan", Due(p),
           NEW source, Scanned(p, source), ~ SameSource(records[p], source)
    PROVE  Reason(p)
  <1> SUFFICES ASSUME ~ Reason(p)
               PROVE  FALSE
    OBVIOUS
  <1>1. /\ p \in DOMAIN records /\ records[p].complete /\ records[p].hash \in Nat
        /\ RecordIsNumbered(p, records[p])
    BY DueAgain DEF Known
  <1>2. /\ file[p] = "here" /\ size[p] = records[p].hash
        /\ records[p].index = TrueIndex(p, records[p].hash)
        /\ RecordIsPlain(p, records[p])
    BY <1>1, HashWritten DEF Reason, RecordIsRight
  <1>3. scan # Unread /\ scan.at = records[p].hash /\ source = SourceOf(p, scan)
    BY <1>2 DEF Scanned
  <1>4. Covers(p, records[p].hash, scan) /\ ScanIsExact(p, records[p].hash, scan)
    <2>1. RescanIsTrue(p, records[p].hash, scan) /\ ScanIsExact(p, records[p].hash, scan)
      BY <1>3 DEF Known, NumberInv, RescanTrue, ReasonInv, ScanPlain
    <2> QED
      BY <1>1, <1>3, <2>1 DEF RescanIsTrue
  <1> QED
    BY <1>1, <1>2, <1>3, <1>4, SameAgain

LEMMA CheckKeepsReason ==
    ASSUME Known, ReasonInv, NEW p \in Paths, Discover(p) \/ CompareHash(p) \/ CompareSource(p)
    PROVE  ReasonInv'
  <1>1. Complete /\ Due(p) /\ UNCHANGED world /\ UNCHANGED records
    BY DEF Discover, CompareHash, CompareSource, Refuse, Known, NumberInv, Phases
  <1>2. UNCHANGED <<spec, script, file, size>>
    BY <1>1 DEF world
  <1>3. ASSUME Refuse, CompareHash(p)
        PROVE  ReasonInv'
    <2>1. p \in DOMAIN records
      BY <1>3, <1>1 DEF CompareHash, Due, Known, NumberInv, Phases
    <2>2. file[p] \in {"here", "gone"}
      BY <1>1, <2>1, HashWritten DEF Complete
    <2>3. CASE Reason(p)
      BY <1>1, <1>3, <2>3, RefuseKeepsReason
    <2>4. CASE ~ Reason(p)
      BY <1>3, <2>1, <2>2, <2>4 DEF Reason, CompareHash, Refuse
    <2> QED
      BY <2>3, <2>4
  <1>4. ASSUME Refuse, CompareSource(p)
        PROVE  ReasonInv'
    <2>1. pc = "rescan" /\ \E source : Scanned(p, source) /\
             (SameSource(records[p], source) => pc' = "hash")
      BY <1>4 DEF CompareSource
    <2>2. PICK source : Scanned(p, source) /\ ~ SameSource(records[p], source)
      BY <1>4, <2>1 DEF Refuse
    <2>3. Reason(p)
      BY <1>1, <2>1, <2>2, CompareSourceHasReason
    <2> QED
      BY <1>1, <1>4, <2>3, RefuseKeepsReason
  <1>5. ASSUME ~ Refuse \/ Discover(p)
        PROVE  ReasonInv'
    <2>1. scan' = Unread /\ outcome' = outcome
      BY <1>5 DEF Discover, CompareHash, CompareSource, Refuse, Known, IInv, Bounded
    <2>2. RecordsPlain' /\ ScanPlain' /\ Refused'
      BY <1>1, <1>2, <2>1, RecordsStayPlain, WorldStays, RefusedStays DEF ReasonInv, ScanPlain
    <2>3. Seen' /\ Discovered'
      <3>1. CASE Discover(p)
        <4>1. /\ pc = "discover" /\ pc' = pc /\ pending' = pending \ {p} /\ p \notin found
              /\ found' = found \cup {q \in {p} : file[q] = "here" /\ IsSession(q)}
          BY <1>1, <3>1 DEF Discover, Due, ReasonInv, Seen
        <4>2. Seen'
          BY <1>1, <1>2, <4>1 DEF ReasonInv, Seen, Due
        <4>3. \A q \in DOMAIN records \ pending' :
                 file[q] = "here" /\ size[q] = records[q].hash => (q \in found' <=> IsSession(q))
          BY <4>1 DEF ReasonInv, Discovered
        <4> QED
          BY <1>1, <1>2, <4>2, <4>3, SessionsStay DEF Discovered
      <3>2. CASE CompareHash(p) \/ CompareSource(p)
        BY <1>1, <1>2, <1>5, <3>2
           DEF CompareHash, CompareSource, Discover, ReasonInv, Seen, Discovered
      <3> QED
        BY <3>1, <3>2
    <2> QED
      BY <2>2, <2>3 DEF ReasonInv
  <1> QED
    BY <1>3, <1>4, <1>5

LEMMA InitReason == Init => ReasonInv
  BY ScanAssumption
     DEF Init, ReasonInv, Seen, ScanPlain, RecordsPlain, Discovered, Refused

LEMMA NextReason ==
    ASSUME HaveProjects
    PROVE  Known /\ ReasonInv /\ [Next]_vars => ReasonInv'
  <1> SUFFICES ASSUME Known, ReasonInv, [Next]_vars
               PROVE  ReasonInv'
    OBVIOUS
  <1>1. ASSUME NEW p \in Paths, Create(p) \/ Write(p) \/ Vanish(p)
        PROVE  ReasonInv'
    BY <1>1, WorldKeepsReason
  <1>2. ASSUME NEW p \in Paths, Open(p) \/ ReadLine(p) \/ Record(p)
        PROVE  ReasonInv'
    BY <1>2, OpenKeepsReason, ReadLineKeepsReason, RecordKeepsReason
  <1>3. ASSUME NEW p \in Paths, Discover(p) \/ CompareHash(p) \/ CompareSource(p)
        PROVE  ReasonInv'
    BY <1>3, CheckKeepsReason
  <1>4. ASSUME UNCHANGED world, UNCHANGED records, outcome' = outcome \/ outcome' # "refused",
               scan' = scan, scan = Unread
        PROVE  RecordsPlain' /\ ScanPlain' /\ Refused'
    <2>1. UNCHANGED <<spec, script, file, size>>
      BY <1>4 DEF world
    <2> QED
      BY <1>4, <2>1, RecordsStayPlain, WorldStays, RefusedStays DEF ReasonInv, ScanPlain
  <1>5. ASSUME pc \notin {"scan", "rescan"} \/ pending = {}
        PROVE  scan = Unread
    BY <1>5 DEF Known, IInv, Bounded
  <1>6. CASE List
    <2>1. RecordsPlain' /\ ScanPlain' /\ Refused'
      BY <1>4, <1>5, <1>6 DEF List
    <2> QED
      BY <1>6, <2>1 DEF List, world, Present, ReasonInv, Seen, Discovered
  <1>7. CASE WriteManifest
    <2>1. RecordsPlain' /\ ScanPlain' /\ Refused'
      BY <1>4, <1>5, <1>7 DEF WriteManifest
    <2> QED
      BY <1>7, <2>1 DEF WriteManifest, world, ReasonInv, Seen, Discovered
  <1>8. CASE Load
    <2>1. ManifestLoads
      BY <1>8, Loads DEF Load, Known, TypeOK, NumberInv, Phases, ReasonInv
    <2>2. RecordsPlain' /\ ScanPlain' /\ Refused'
      BY <1>4, <1>5, <1>8, <2>1 DEF Load
    <2>3. pc' = "discover" /\ pending' = Present /\ found = {} /\ UNCHANGED <<found, records>>
          /\ UNCHANGED world
      BY <1>8, <2>1 DEF Load, ReasonInv, Seen
    <2>4. Seen'
      BY <2>3 DEF world, Present, ReasonInv, Seen
    <2>5. Discovered'
      <3>1. \A q \in DOMAIN records \ Present : file[q] # "here"
        BY DEF Present, Known, TypeOK
      <3> QED
        BY <2>3, <3>1 DEF world, Discovered
    <2> QED
      BY <2>2, <2>4, <2>5 DEF ReasonInv
  <1>9. CASE CompareSessions
    <2>1. CASE found # ManifestSessions
      <3>1. PICK p \in Paths : Reason(p)
        BY <1>9, <2>1, CompareSessionsHasReason
      <3> QED
        BY <1>9, <2>1, <3>1, RefuseKeepsReason DEF CompareSessions, Known, NumberInv, Phases
    <2>2. CASE found = ManifestSessions
      <3>1. RecordsPlain' /\ ScanPlain' /\ Refused'
        BY <1>4, <1>5, <1>9, <2>2 DEF CompareSessions
      <3> QED
        BY <1>9, <2>2, <3>1 DEF CompareSessions, world, ReasonInv, Seen, Discovered
    <2> QED
      BY <2>1, <2>2
  <1>10. CASE Accept
    <2>1. RecordsPlain' /\ ScanPlain' /\ Refused'
      BY <1>4, <1>5, <1>10 DEF Accept
    <2> QED
      BY <1>10, <2>1 DEF Accept, world, ReasonInv, Seen, Discovered
  <1>11. CASE UNCHANGED vars
    <2>1. UNCHANGED <<spec, script, file, size, pc, pending, scan, records, found, outcome>>
          /\ UNCHANGED world
      BY <1>11 DEF vars, world
    <2>2. Refused' /\ RecordsPlain'
      BY <2>1, WorldStays, RefusedStays, RecordsStayPlain DEF ReasonInv
    <2>3. ScanPlain'
      BY <2>1, PlainStays DEF ReasonInv, ScanPlain, Due
    <2> QED
      BY <2>1, <2>2, <2>3, SessionsStay DEF ReasonInv, Seen, Discovered
  <1> QED
    BY <1>1, <1>2, <1>3, <1>6, <1>7, <1>8, <1>9, <1>10, <1>11 DEF Next

(***************************************************************************)
(* A complete manifest is refused only because a transcript has grown,     *)
(* come or gone, or because a line was numbered wrongly while it was being *)
(* written: discover_sessions, _manifest_session_paths and the two scans   *)
(* agree on the rest.  For all transcripts that have projects, in either   *)
(* runtime and every scope, any number of times.                           *)
(***************************************************************************)
THEOREM RefusalHasReason ==
    ASSUME HaveProjects
    PROVE  Spec => []RefusedForAReason
  <1>1. Spec => []Known
    BY NumberInvariance, TypeCorrect, PTL DEF Known
  <1>2. Spec => [](Known /\ ReasonInv)
    BY <1>1, InitReason, NextReason, PTL DEF Spec
  <1>3. ReasonInv => RefusedForAReason
    BY DEF ReasonInv, Refused, Reason, RecordIsRight, RefusedForAReason
  <1> QED
    BY <1>2, <1>3, PTL
=============================================================================
