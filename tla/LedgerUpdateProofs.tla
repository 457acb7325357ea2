------------------------- MODULE LedgerUpdateProofs -------------------------
(***************************************************************************)
(* Proofs about LedgerUpdate.  The ledger on disk parses, for every set of *)
(* ledgers and calls, in whatever order the calls name their entries.      *)
(* What is not named stays, a repeated call changes nothing, and the edits *)
(* implement the ledger of entries, for ledgers of whole lines and calls   *)
(* that name their entries in the order of the file.                       *)
(*                                                                         *)
(* The argument, in this order: what one edit does to the lines            *)
(* (Rewritten), hence to the entries and blocks (Wrote); the edits of a    *)
(* call as sets and sequences, and what they come to (Reaches); the edits  *)
(* of a call that are still to be made (Editable, Becomes, Pending); the   *)
(* invariant and the theorems.                                             *)
(***************************************************************************)
EXTENDS LedgerUpdate, DispatchBatchesProofs

(* Only a text that parses is ever written next to the ledger. *)
IInv == Parses(file) /\ (temporary # Absent => Parses(temporary))

LEMMA InitIInv == Init => IInv
  BY LedgerAssumption DEF Init, IInv

LEMMA NextIInv == IInv /\ [Next]_vars => IInv'
  <1> SUFFICES ASSUME IInv, [Next]_vars
               PROVE  IInv'
    OBVIOUS
  <1>1. ASSUME NEW c \in Calls, NEW parses, NEW entries, Begin(c, parses, entries)
        PROVE  IInv'
    BY <1>1 DEF Begin, IInv
  <1>2. CASE ReplaceField \/ InsertField
    BY <1>2 DEF ReplaceField, InsertField, IInv
  <1>3. CASE WriteTemporary
    BY <1>3 DEF WriteTemporary, Idle, IInv
  <1>4. CASE ReplaceFile
    BY <1>4 DEF ReplaceFile, Idle, IInv
  <1>5. CASE Crash
    BY <1>5 DEF Crash, Idle, IInv
  <1>6. CASE UNCHANGED vars
    BY <1>6 DEF vars, IInv
  <1> QED
    BY <1>1, <1>2, <1>3, <1>4, <1>5, <1>6 DEF Next

(***************************************************************************)
(* The ledger on disk parses at all times: an update never leaves a file   *)
(* behind that the next run cannot read, whatever it did to the lines.     *)
(***************************************************************************)
THEOREM AlwaysParses == Spec => []LedgerAlwaysParses
  <1>1. IInv => LedgerAlwaysParses
    BY DEF IInv, LedgerAlwaysParses
  <1> QED
    BY InitIInv, NextIInv, <1>1, PTL DEF Spec

-----------------------------------------------------------------------------
(* Values and lines as _parse_value and _parse_document make them.         *)
Typed(value) ==
    /\ value = <<value[1], value[2]>>
    /\ value[1] \in {"int", "date"} => value[2] \in Int

IsLine(line) ==
    /\ line = [key |-> line.key, newline |-> TRUE, value |-> line.value]
    /\ Typed(line.value)

(* A text of which every line ends, every field is in an entry that has it *)
(* once, and ids differ.                                                   *)
Shaped(text) ==
    /\ DOMAIN text = 1..Len(text) /\ Len(text) \in Nat
    /\ \A i \in 1..Len(text) : IsLine(text[i])
    /\ \A j \in 1..Len(text) : text[j].key # "note" => \E i \in Starts(text) : i <= j
    /\ \A i \in Starts(text) : \A j, k \in FieldLines(text, i) :
          text[j].key = text[k].key => j = k
    /\ \A i, j \in Starts(text) : IdAt(text, i) = IdAt(text, j) => i = j

(* Sequences.                                                              *)
LEMMA SequenceOf ==
  ASSUME NEW n \in Nat, NEW f, f = [i \in 1..n |-> f[i]], NEW S, \A i \in 1..n : f[i] \in S
  PROVE  f \in Seq(S) /\ Len(f) = n
  OBVIOUS

LEMMA Joined ==
  ASSUME NEW S, NEW a \in Seq(S), NEW b \in Seq(S)
  PROVE  /\ a \o b \in Seq(S)
         /\ Len(a) \in Nat /\ Len(b) \in Nat /\ Len(a \o b) = Len(a) + Len(b)
         /\ DOMAIN a = 1..Len(a) /\ DOMAIN b = 1..Len(b) /\ DOMAIN (a \o b) = 1..Len(a \o b)
         /\ \A i \in 1..Len(a) : (a \o b)[i] = a[i]
         /\ \A i \in 1..Len(b) : (a \o b)[Len(a) + i] = b[i]
  OBVIOUS

(* What stands from place m to place n of s, as a function.                *)
Cut(s, m, n) == [i \in 1..(1 + n - m) |-> s[i + m - 1]]

LEMMA SubSeqIs ==
  ASSUME NEW s, NEW m, m \in Int, NEW n, n \in Int
  PROVE  SubSeq(s, m, n) = Cut(s, m, n)
  BY DEF Cut

(* From place h of t on stand the same things as from place m to n of s.   *)
Same(s, m, n, t, h) == \A k \in 0..n - m : t[h + k] = s[m + k]

LEMMA SameCut ==
  ASSUME NEW s, NEW m, m \in Int, NEW n, n \in Int, NEW t, NEW h, h \in Int, NEW g, g \in Int,
         g - h = n - m, Same(s, m, n, t, h)
  PROVE  Cut(t, h, g) = Cut(s, m, n)
<1>1. 1 + n - m = 1 + g - h
  OBVIOUS
<1>2. ASSUME NEW i \in 1..(1 + n - m) PROVE s[i + m - 1] = t[i + h - 1]
  <2>1. i - 1 \in 0..n - m /\ h + (i - 1) = i + h - 1 /\ m + (i - 1) = i + m - 1
    OBVIOUS
  <2>. QED BY <2>1 DEF Same
<1>. QED BY <1>1, <1>2 DEF Cut

(* Where an entry starts and ends.                                         *)
LEMMA EndOfIs ==
  ASSUME NEW text, NEW i, NEW e, Len(text) \in Nat, Starts(text) \subseteq Int,
         e \in {j \in Starts(text) : j > i} \cup {Len(text) + 1},
         \A j \in Starts(text) : j > i => e <= j,
         e <= Len(text) + 1
  PROVE  EndOf(text, i) = e
<1>. DEFINE S == {j \in Starts(text) : j > i} \cup {Len(text) + 1}
<1>1. e \in S /\ \A x \in S : e <= x
  OBVIOUS
<1>2. S \subseteq Int
  OBVIOUS
<1>3. EndOf(text, i) = Min(S)
  BY DEF EndOf
<1>. HIDE DEF S
<1>4. \A x \in S : (\A y \in S : x <= y) => x = e
  BY <1>1, <1>2
<1>5. Min(S) \in S /\ \A y \in S : Min(S) <= y
  BY <1>1 DEF Min
<1>. QED BY <1>3, <1>4, <1>5

LEMMA EndOfEntry ==
  ASSUME NEW text, DOMAIN text = 1..Len(text), Len(text) \in Nat, NEW i \in Starts(text)
  PROVE  /\ i \in 1..Len(text) /\ text[i].key = "id"
         /\ EndOf(text, i) \in Int /\ i < EndOf(text, i) /\ EndOf(text, i) <= Len(text) + 1
         /\ EndOf(text, i) \in Starts(text) \/ EndOf(text, i) = Len(text) + 1
         /\ \A j \in Starts(text) : j > i => EndOf(text, i) <= j
<1>. DEFINE S == {j \in Starts(text) : j > i} \cup {Len(text) + 1}
<1>0. /\ i \in 1..Len(text) /\ text[i].key = "id" /\ Starts(text) \subseteq 1..Len(text)
  BY DEF Starts
<1>1. S \subseteq 1..Len(text) + 1 /\ S # {} /\ Len(text) + 1 \in Int /\ 1 \in Int
  BY <1>0
<1>2. IsFiniteSet(1..Len(text) + 1)
  BY <1>1, FS_Interval
<1>3. IsFiniteSet(S) /\ S \subseteq Int
  <2>. HIDE DEF S
  <2>1. IsFiniteSet(S)
    BY <1>1, <1>2, FS_Subset
  <2>. QED BY <1>1, <2>1
<1>4. PICK e \in S : \A x \in S : e <= x
  <2>. HIDE DEF S
  <2>. QED BY <1>1, <1>3, Extremes
<1>5. /\ e \in Int /\ i < e /\ e <= Len(text) + 1
      /\ e \in Starts(text) \/ e = Len(text) + 1
      /\ \A j \in Starts(text) : j > i => e <= j
  BY <1>0, <1>1, <1>4
<1>6. Starts(text) \subseteq Int
  BY <1>0
<1>7. EndOf(text, i) = e
  BY <1>5, <1>6, EndOfIs
<1>. QED BY <1>0, <1>5, <1>7

LEMMA StartIs ==
  ASSUME NEW text, Shaped(text)
  PROVE  /\ \A i \in Starts(text) : IdAt(text, i) \in Ids(text) /\ StartOf(text, IdAt(text, i)) = i
         /\ \A id \in Ids(text) : StartOf(text, id) \in Starts(text) /\ IdAt(text, StartOf(text, id)) = id
  BY DEF Shaped, Ids, StartOf

-----------------------------------------------------------------------------
(* Where a line is after d lines were inserted at p.                       *)
Sh(p, d, j) == IF j < p THEN j ELSE j + d

(* text2 is text with the line <<key, value>> in the entry at s: in place  *)
(* of its line q, or, with d = 1, as a new line q at its end.              *)
Rewritten(text, text2, s, d, q, key, value) ==
    LET p == EndOf(text, s)
    IN  /\ d \in {0, 1} /\ q \in Int
        /\ key \notin {"id", "note"} /\ Typed(value)
        /\ DOMAIN text2 = 1..Len(text2) /\ Len(text2) = Len(text) + d
        /\ s < q /\ q < p + d /\ (d = 1 => q = p)
        /\ text2[q] = [key |-> key, newline |-> TRUE, value |-> value]
        /\ \A i \in 1..Len(text) :
              /\ text2[Sh(p, d, i)].key = text[i].key
              /\ Sh(p, d, i) # q => text2[Sh(p, d, i)] = text[i]
        /\ \A i \in FieldLines(text, s) : text[i].key = key => i = q

(* The entries start at the same lines, moved; and end there.              *)
LEMMA RewrittenStarts ==
  ASSUME NEW text, Shaped(text), NEW s \in Starts(text), NEW text2, NEW d, NEW q, NEW key,
         NEW value, Rewritten(text, text2, s, d, q, key, value), NEW p, p = EndOf(text, s)
  PROVE  /\ Starts(text2) = {Sh(p, d, i) : i \in Starts(text)}
         /\ \A i \in Starts(text) : text2[Sh(p, d, i)] = text[i]
         /\ \A j \in 1..Len(text2) : j # q => \E i \in 1..Len(text) : j = Sh(p, d, i)
<1>1. /\ d \in {0, 1} /\ q \in Int /\ key # "id"
      /\ DOMAIN text2 = 1..Len(text2) /\ Len(text2) = Len(text) + d
      /\ s < q /\ q < p + d /\ (d = 1 => q = p)
      /\ text2[q].key = key
      /\ \A i \in 1..Len(text) :
              /\ text2[Sh(p, d, i)].key = text[i].key
              /\ Sh(p, d, i) # q => text2[Sh(p, d, i)] = text[i]
  BY DEF Rewritten
<1>2. DOMAIN text = 1..Len(text) /\ Len(text) \in Nat
  BY DEF Shaped
<1>3. p \in Int /\ s < p /\ p <= Len(text) + 1 /\ s \in 1..Len(text)
  BY <1>2, EndOfEntry
<1>4. \A i \in 1..Len(text) : Sh(p, d, i) \in 1..Len(text2)
  BY <1>1, <1>2, <1>3 DEF Sh
<1>5. ASSUME NEW j \in 1..Len(text2), j # q
      PROVE  \E i \in 1..Len(text) : j = Sh(p, d, i)
  <2>1. CASE d = 0
    BY <1>1, <1>2, <1>3, <2>1 DEF Sh
  <2>2. CASE d = 1 /\ j < p
    BY <1>1, <1>2, <1>3, <2>2 DEF Sh
  <2>3. CASE d = 1 /\ j > p
    <3>1. j - 1 \in 1..Len(text) /\ j = Sh(p, d, j - 1)
      BY <1>1, <1>2, <1>3, <2>3 DEF Sh
    <3>. QED BY <3>1
  <2>. QED BY <1>1, <1>2, <1>3, <1>5, <2>1, <2>2, <2>3
<1>6. \A i \in Starts(text) : i \in 1..Len(text) /\ text[i].key = "id"
  BY <1>2 DEF Starts
<1>7. \A i \in Starts(text) : text2[Sh(p, d, i)] = text[i] /\ Sh(p, d, i) \in Starts(text2)
  BY <1>1, <1>4, <1>6 DEF Starts
<1>8. ASSUME NEW j \in Starts(text2) PROVE j \in {Sh(p, d, i) : i \in Starts(text)}
  <2>1. j \in 1..Len(text2) /\ text2[j].key = "id"
    BY <1>1 DEF Starts
  <2>2. PICK i \in 1..Len(text) : j = Sh(p, d, i)
    BY <1>1, <1>5, <2>1
  <2>3. i \in Starts(text)
    BY <1>1, <1>2, <2>1, <2>2 DEF Starts
  <2>. QED BY <2>2, <2>3
<1>. QED BY <1>5, <1>7, <1>8

LEMMA MovedIs ==
  ASSUME NEW p \in Int, NEW d \in {0, 1}, NEW j \in Int
  PROVE  /\ Sh(p, d, j) \in Int
         /\ \A k \in Int : Sh(p, d, j) < Sh(p, d, k) <=> j < k
BY DEF Sh

LEMMA RewrittenEnds ==
  ASSUME NEW text, Shaped(text), NEW s \in Starts(text), NEW text2, NEW d, NEW q, NEW key,
         NEW value, Rewritten(text, text2, s, d, q, key, value), NEW p, p = EndOf(text, s),
         NEW i \in Starts(text)
  PROVE  EndOf(text2, Sh(p, d, i)) = Sh(p, d, EndOf(text, i))
<1>1. d \in {0, 1} /\ Len(text2) = Len(text) + d
  BY DEF Rewritten
<1>2. DOMAIN text = 1..Len(text) /\ Len(text) \in Nat
  BY DEF Shaped
<1>3. p \in Int /\ s < p /\ p <= Len(text) + 1 /\ s \in 1..Len(text)
  BY <1>2, EndOfEntry
<1>. DEFINE e == EndOf(text, i)
            f == Sh(p, d, e)
<1>4. /\ i \in 1..Len(text) /\ e \in Int /\ i < e /\ e <= Len(text) + 1
      /\ e \in Starts(text) \/ e = Len(text) + 1
      /\ \A j \in Starts(text) : j > i => e <= j
  BY <1>2, EndOfEntry
<1>5. Starts(text2) = {Sh(p, d, j) : j \in Starts(text)}
  BY RewrittenStarts
<1>6. \A j \in Starts(text) : j \in Int
  BY <1>2 DEF Starts
<1>. HIDE DEF e
<1>7. Starts(text2) \subseteq Int /\ f \in Int
  <2>1. f \in Int
    BY <1>1, <1>3, <1>4, MovedIs
  <2>. HIDE DEF f
  <2>2. \A j \in Starts(text) : Sh(p, d, j) \in Int
    BY <1>1, <1>3, <1>6, MovedIs
  <2>. QED BY <1>5, <2>1, <2>2
<1>8. f \in {j \in Starts(text2) : j > Sh(p, d, i)} \cup {Len(text2) + 1}
  BY <1>1, <1>2, <1>3, <1>4, <1>5, <1>6 DEF Sh
<1>9. ASSUME NEW j \in Starts(text2), j > Sh(p, d, i) PROVE f <= j
  <2>1. PICK k \in Starts(text) : j = Sh(p, d, k)
    BY <1>5
  <2>2. k \in Int /\ k > i
    BY <1>1, <1>3, <1>4, <1>6, <1>9, <2>1 DEF Sh
  <2>3. e <= k
    BY <1>4, <2>2
  <2>. QED BY <1>1, <1>3, <1>4, <2>1, <2>2, <2>3 DEF Sh
<1>10. f <= Len(text2) + 1 /\ Len(text2) \in Nat
  BY <1>1, <1>2, <1>3, <1>4 DEF Sh
<1>. HIDE DEF f
<1>11. EndOf(text2, Sh(p, d, i)) = f
  BY <1>7, <1>8, <1>9, <1>10, EndOfIs
<1>. QED BY <1>11 DEF e, f

(* The entries of the new text have the lines of the old, one of them also *)
(* the new line.                                                           *)
LEMMA RewrittenFields ==
  ASSUME NEW text, Shaped(text), NEW s \in Starts(text), NEW text2, NEW d, NEW q, NEW key,
         NEW value, Rewritten(text, text2, s, d, q, key, value), NEW p, p = EndOf(text, s),
         NEW i \in Starts(text)
  PROVE  /\ \A j \in FieldLines(text, i) : Sh(p, d, j) \in FieldLines(text2, Sh(p, d, i))
         /\ \A j \in FieldLines(text2, Sh(p, d, i)) :
               \/ j = q /\ i = s
               \/ \E k \in FieldLines(text, i) : j = Sh(p, d, k)
         /\ q \in FieldLines(text2, s) /\ Sh(p, d, s) = s
<1>1. /\ d \in {0, 1} /\ q \in Int /\ key \notin {"id", "note"}
      /\ DOMAIN text2 = 1..Len(text2) /\ Len(text2) = Len(text) + d
      /\ s < q /\ q < p + d /\ (d = 1 => q = p)
      /\ text2[q].key = key
      /\ \A j \in 1..Len(text) : text2[Sh(p, d, j)].key = text[j].key
  BY DEF Rewritten
<1>2. DOMAIN text = 1..Len(text) /\ Len(text) \in Nat
  BY DEF Shaped
<1>3. p \in Int /\ s < p /\ p <= Len(text) + 1 /\ s \in 1..Len(text)
      /\ \A j \in Starts(text) : j > s => p <= j
  BY <1>2, EndOfEntry
<1>. DEFINE e == EndOf(text, i)
<1>4. i \in 1..Len(text) /\ e \in Int /\ i < e /\ e <= Len(text) + 1
      /\ \A j \in Starts(text) : j > i => e <= j
  BY <1>2, EndOfEntry
<1>5. EndOf(text2, Sh(p, d, i)) = Sh(p, d, e)
  BY RewrittenEnds
<1>6. \A j \in 1..Len(text2) : j # q => \E k \in 1..Len(text) : j = Sh(p, d, k)
  BY RewrittenStarts
<1>. HIDE DEF e
<1>7. ASSUME NEW j \in FieldLines(text, i)
      PROVE  Sh(p, d, j) \in FieldLines(text2, Sh(p, d, i))
  <2>1. j \in i..e-1 /\ text[j].key # "note"
    BY DEF FieldLines, e
  <2>2. text2[Sh(p, d, j)].key # "note"
    BY <1>1, <1>4, <2>1
  <2>3. Sh(p, d, j) \in Sh(p, d, i)..Sh(p, d, e) - 1
    <3>1. /\ j \in Int /\ i \in Int /\ e \in Int /\ p \in Int /\ (d = 0 \/ d = 1)
          /\ i <= j /\ j < e
      BY <1>1, <1>3, <1>4, <2>1
    <3>2. /\ Sh(p, d, i) \in Int /\ Sh(p, d, j) \in Int /\ Sh(p, d, e) \in Int
      BY <3>1 DEF Sh
    <3>3. Sh(p, d, i) <= Sh(p, d, j) /\ Sh(p, d, j) < Sh(p, d, e)
      BY <3>1 DEF Sh
    <3>. QED BY <3>2, <3>3
  <2>. QED BY <1>5, <2>2, <2>3 DEF FieldLines
<1>8. ASSUME NEW j \in FieldLines(text2, Sh(p, d, i)), ~ (j = q /\ i = s)
      PROVE  \E k \in FieldLines(text, i) : j = Sh(p, d, k)
  <2>1. j \in Sh(p, d, i)..Sh(p, d, e) - 1 /\ text2[j].key # "note"
    BY <1>5 DEF FieldLines
  <2>2. j # q
    <3>. SUFFICES ASSUME j = q, i # s PROVE FALSE
      BY <1>8
    <3>1. CASE i < s
      <4>1. e <= s
        BY <1>4, <3>1
      <4>. QED BY <1>1, <1>3, <1>4, <2>1, <3>1, <4>1 DEF Sh
    <3>2. CASE i > s
      <4>1. p <= i
        BY <1>3, <3>2
      <4>. QED BY <1>1, <1>3, <1>4, <2>1, <3>2, <4>1 DEF Sh
    <3>. QED BY <1>3, <1>4, <3>1, <3>2
  <2>3. j \in 1..Len(text2)
    BY <1>1, <1>2, <1>3, <1>4, <2>1 DEF Sh
  <2>4. PICK k \in 1..Len(text) : j = Sh(p, d, k)
    BY <1>6, <2>2, <2>3
  <2>5. k \in i..e-1
    <3>1. /\ k \in Int /\ i \in Int /\ e \in Int /\ p \in Int /\ (d = 0 \/ d = 1)
          /\ Sh(p, d, i) \in Int /\ Sh(p, d, k) \in Int /\ Sh(p, d, e) \in Int
      BY <1>1, <1>3, <1>4 DEF Sh
    <3>2. Sh(p, d, i) <= Sh(p, d, k) /\ Sh(p, d, k) < Sh(p, d, e)
      BY <2>1, <2>4, <3>1
    <3>3. i <= k /\ k < e
      BY <3>1, <3>2 DEF Sh
    <3>. QED BY <3>1, <3>3
  <2>6. text[k].key # "note"
    BY <1>1, <2>1, <2>4
  <2>7. k \in FieldLines(text, i)
    BY <2>5, <2>6 DEF FieldLines, e
  <2>. QED BY <2>4, <2>7
<1>9. Sh(p, d, s) = s
  BY <1>3 DEF Sh
<1>10. q \in FieldLines(text2, s)
  <2>1. EndOf(text2, Sh(p, d, s)) = Sh(p, d, p)
    BY RewrittenEnds
  <2>2. Sh(p, d, p) = p + d
    BY <1>3 DEF Sh
  <2>3. q \in s..EndOf(text2, s) - 1
    BY <1>1, <1>3, <1>9, <2>1, <2>2
  <2>. QED BY <1>1, <2>3 DEF FieldLines
<1>. QED BY <1>7, <1>8, <1>9, <1>10

(* The entries of the new text have the lines of the old, one of them also *)
(* the new line.                                                           *)
LEMMA RewrittenShape ==
  ASSUME NEW text, Shaped(text), NEW s \in Starts(text), NEW text2, NEW d, NEW q, NEW key,
         NEW value, Rewritten(text, text2, s, d, q, key, value)
  PROVE  Shaped(text2)
<1>. DEFINE p == EndOf(text, s)
<1>1. /\ d \in {0, 1} /\ q \in Int /\ key \notin {"id", "note"}
      /\ Typed(value)
      /\ DOMAIN text2 = 1..Len(text2) /\ Len(text2) = Len(text) + d
      /\ s < q /\ q < p + d
      /\ text2[q] = [key |-> key, newline |-> TRUE, value |-> value]
      /\ \A j \in 1..Len(text) :
            /\ text2[Sh(p, d, j)].key = text[j].key
            /\ Sh(p, d, j) # q => text2[Sh(p, d, j)] = text[j]
      /\ \A i \in FieldLines(text, s) : text[i].key = key => i = q
  BY DEF Rewritten
<1>2. DOMAIN text = 1..Len(text) /\ Len(text) \in Nat
  BY DEF Shaped
<1>3. p \in Int /\ s < p /\ p <= Len(text) + 1 /\ s \in 1..Len(text)
  BY <1>2, EndOfEntry
<1>4. /\ Starts(text2) = {Sh(p, d, i) : i \in Starts(text)}
      /\ \A i \in Starts(text) : text2[Sh(p, d, i)] = text[i]
      /\ \A j \in 1..Len(text2) : j # q => \E i \in 1..Len(text) : j = Sh(p, d, i)
  BY RewrittenStarts
<1>5. \A i \in Starts(text) :
         /\ \A j \in FieldLines(text, i) : Sh(p, d, j) \in FieldLines(text2, Sh(p, d, i))
         /\ \A j \in FieldLines(text2, Sh(p, d, i)) :
               \/ j = q /\ i = s
               \/ \E k \in FieldLines(text, i) : j = Sh(p, d, k)
         /\ q \in FieldLines(text2, s) /\ Sh(p, d, s) = s
  BY RewrittenFields
<1>6. \A i \in Starts(text) : i \in 1..Len(text)
  BY <1>2 DEF Starts
<1>7. \A i \in Starts(text) : \A j \in FieldLines(text, i) : j \in 1..Len(text)
  <2>. SUFFICES ASSUME NEW i \in Starts(text), NEW j \in FieldLines(text, i)
                PROVE  j \in 1..Len(text)
    OBVIOUS
  <2>1. i \in 1..Len(text) /\ EndOf(text, i) \in Int /\ EndOf(text, i) <= Len(text) + 1
    BY <1>2, EndOfEntry
  <2>. QED BY <1>2, <2>1 DEF FieldLines
<1>. HIDE DEF p
<1>8. ASSUME NEW j \in 1..Len(text2) PROVE IsLine(text2[j])
  <2>1. CASE j = q
    BY <1>1, <2>1 DEF IsLine
  <2>2. CASE j # q
    <3>1. PICK i \in 1..Len(text) : j = Sh(p, d, i)
      BY <1>4, <2>2
    <3>2. text2[j] = text[i]
      BY <1>1, <2>2, <3>1
    <3>. QED BY <3>2 DEF Shaped
  <2>. QED BY <2>1, <2>2
<1>9. ASSUME NEW j \in 1..Len(text2), text2[j].key # "note"
      PROVE  \E i \in Starts(text2) : i <= j
  <2>1. CASE j = q
    <3>1. s \in Starts(text2) /\ s <= q
      BY <1>1, <1>3, <1>4, <1>5
    <3>. QED BY <2>1, <3>1
  <2>2. CASE j # q
    <3>1. PICK i \in 1..Len(text) : j = Sh(p, d, i)
      BY <1>4, <2>2
    <3>2. text[i].key # "note"
      BY <1>1, <1>9, <3>1
    <3>3. PICK k \in Starts(text) : k <= i
      BY <3>2 DEF Shaped
    <3>4. Sh(p, d, k) <= j
      BY <1>1, <1>3, <1>6, <3>1, <3>3 DEF Sh
    <3>. QED BY <1>4, <3>4
  <2>. QED BY <2>1, <2>2
<1>10. ASSUME NEW i \in Starts(text2), NEW j \in FieldLines(text2, i), NEW k \in FieldLines(text2, i),
              text2[j].key = text2[k].key
       PROVE  j = k
  <2>1. PICK h \in Starts(text) : i = Sh(p, d, h)
    BY <1>4
  <2>2. ASSUME NEW m \in FieldLines(text, h), text[m].key = key, h = s
        PROVE  Sh(p, d, m) = q
    <3>1. m = q /\ m < p
      <4>1. m \in s..p-1
        BY <2>2 DEF FieldLines, p
      <4>. QED BY <1>1, <1>3, <2>2, <4>1
    <3>. QED BY <3>1 DEF Sh
  <2>3. CASE j = q /\ h = s
    <3>1. CASE k = q
      BY <2>3, <3>1
    <3>2. CASE k # q
      <4>1. PICK m \in FieldLines(text, h) : k = Sh(p, d, m)
        BY <1>5, <2>1, <3>2
      <4>2. text[m].key = key
        BY <1>1, <1>7, <1>10, <2>3, <4>1
      <4>. QED BY <2>2, <2>3, <3>2, <4>1, <4>2
    <3>. QED BY <3>1, <3>2
  <2>4. CASE k = q /\ h = s
    <3>1. CASE j # q
      <4>1. PICK m \in FieldLines(text, h) : j = Sh(p, d, m)
        BY <1>5, <2>1, <3>1
      <4>2. text[m].key = key
        BY <1>1, <1>7, <1>10, <2>4, <4>1
      <4>. QED BY <2>2, <2>4, <3>1, <4>1, <4>2
    <3>. QED BY <2>4, <3>1
  <2>5. CASE ~ (j = q /\ h = s) /\ ~ (k = q /\ h = s)
    <3>1. PICK m \in FieldLines(text, h) : j = Sh(p, d, m)
      BY <1>5, <2>1, <2>5
    <3>2. PICK n \in FieldLines(text, h) : k = Sh(p, d, n)
      BY <1>5, <2>1, <2>5
    <3>3. text[m].key = text[n].key
      BY <1>1, <1>7, <1>10, <3>1, <3>2
    <3>4. m = n
      BY <3>3 DEF Shaped
    <3>. QED BY <3>1, <3>2, <3>4
  <2>. QED BY <2>3, <2>4, <2>5
<1>11. ASSUME NEW i \in Starts(text2), NEW j \in Starts(text2), IdAt(text2, i) = IdAt(text2, j)
       PROVE  i = j
  <2>1. PICK h \in Starts(text) : i = Sh(p, d, h)
    BY <1>4
  <2>2. PICK g \in Starts(text) : j = Sh(p, d, g)
    BY <1>4
  <2>3. IdAt(text, h) = IdAt(text, g)
    BY <1>4, <1>11, <2>1, <2>2 DEF IdAt
  <2>4. h = g
    BY <2>3 DEF Shaped
  <2>. QED BY <2>1, <2>2, <2>4
<1>12. Len(text2) \in Nat
  BY <1>1, <1>2
<1>. QED BY <1>1, <1>8, <1>9, <1>10, <1>11, <1>12 DEF Shaped

(* The line of a field is the only one with its name.                      *)
LEMMA LineIs ==
  ASSUME NEW text, Shaped(text), NEW i \in Starts(text)
  PROVE  /\ \A j \in FieldLines(text, i) :
               /\ j \in i..EndOf(text, i)-1 /\ j \in 1..Len(text)
               /\ text[j].key \in KeysAt(text, i) /\ LineOf(text, i, text[j].key) = j
         /\ \A k \in KeysAt(text, i) :
               LineOf(text, i, k) \in FieldLines(text, i) /\ text[LineOf(text, i, k)].key = k
<1>1. i \in 1..Len(text) /\ EndOf(text, i) \in Int /\ EndOf(text, i) <= Len(text) + 1 /\ Len(text) \in Nat
  BY EndOfEntry DEF Shaped
<1>2. \A j \in FieldLines(text, i) : j \in i..EndOf(text, i)-1
  BY DEF FieldLines
<1>3. \A j \in FieldLines(text, i) : j \in 1..Len(text)
  BY <1>1, <1>2
<1>4. \A j \in FieldLines(text, i) : text[j].key \in KeysAt(text, i)
  BY DEF KeysAt
<1>5. \A k \in KeysAt(text, i) :
        LineOf(text, i, k) \in FieldLines(text, i) /\ text[LineOf(text, i, k)].key = k
  BY DEF KeysAt, LineOf
<1>6. \A j \in FieldLines(text, i) : LineOf(text, i, text[j].key) = j
  BY <1>4, <1>5 DEF Shaped
<1>. QED BY <1>2, <1>3, <1>4, <1>5, <1>6

(* An entry other than the one rewritten keeps its fields and its lines.   *)
LEMMA Elsewhere ==
  ASSUME NEW text, Shaped(text), NEW s \in Starts(text), NEW text2, NEW d, NEW q, NEW key,
         NEW value, Rewritten(text, text2, s, d, q, key, value), NEW p, p = EndOf(text, s),
         NEW i \in Starts(text), i # s, NEW j \in i..EndOf(text, i)-1
  PROVE  /\ j \in 1..Len(text) /\ Sh(p, d, j) # q /\ text2[Sh(p, d, j)] = text[j]
         /\ (i < s => Sh(p, d, j) = j) /\ (i > s => Sh(p, d, j) = j + d)
<1>1. /\ d \in {0, 1} /\ q \in Int /\ s < q /\ q < p + d
      /\ \A k \in 1..Len(text) : Sh(p, d, k) # q => text2[Sh(p, d, k)] = text[k]
  BY DEF Rewritten
<1>2. DOMAIN text = 1..Len(text) /\ Len(text) \in Nat
  BY DEF Shaped
<1>3. p \in Int /\ s < p /\ p <= Len(text) + 1 /\ s \in 1..Len(text)
      /\ \A k \in Starts(text) : k > s => p <= k
  BY <1>2, EndOfEntry
<1>4. i \in 1..Len(text) /\ EndOf(text, i) \in Int /\ EndOf(text, i) <= Len(text) + 1
      /\ \A k \in Starts(text) : k > i => EndOf(text, i) <= k
  BY <1>2, EndOfEntry
<1>5. j \in 1..Len(text)
  BY <1>2, <1>4
<1>6. CASE i < s
  <2>1. EndOf(text, i) <= s
    BY <1>4, <1>6
  <2>2. Sh(p, d, j) = j /\ Sh(p, d, j) # q
    BY <1>1, <1>3, <1>4, <2>1 DEF Sh
  <2>3. text2[Sh(p, d, j)] = text[j]
    BY <1>1, <1>5, <2>2
  <2>4. ~ i > s
    BY <1>3, <1>4, <1>6
  <2>. QED BY <1>5, <2>2, <2>3, <2>4
<1>7. CASE i > s
  <2>1. p <= i
    BY <1>3, <1>7
  <2>2. Sh(p, d, j) = j + d /\ Sh(p, d, j) # q
    <3>1. j \in Int /\ p <= j /\ d \in Int
      BY <1>1, <1>3, <1>4, <2>1
    <3>2. Sh(p, d, j) = j + d
      BY <1>3, <3>1 DEF Sh
    <3>. QED BY <1>1, <1>3, <3>1, <3>2
  <2>3. text2[Sh(p, d, j)] = text[j]
    BY <1>1, <1>5, <2>2
  <2>4. ~ i < s
    BY <1>3, <1>4, <1>7
  <2>. QED BY <1>5, <2>2, <2>3, <2>4
<1>. QED BY <1>3, <1>4, <1>6, <1>7

LEMMA RewrittenOthers ==
  ASSUME NEW text, Shaped(text), NEW s \in Starts(text), NEW text2, NEW d, NEW q, NEW key,
         NEW value, Rewritten(text, text2, s, d, q, key, value), NEW p, p = EndOf(text, s),
         NEW i \in Starts(text), i # s, NEW h, h = Sh(p, d, i)
  PROVE  /\ FieldsAt(text2, h) = FieldsAt(text, i)
         /\ EndOf(text, i) \in Int /\ EndOf(text2, h) \in Int
         /\ Cut(text2, h, EndOf(text2, h) - 1) = Cut(text, i, EndOf(text, i) - 1)
         /\ i < s => h = i /\ Block(text2, h) = Block(text, i)
<1>1. Shaped(text2) /\ h \in Starts(text2) /\ EndOf(text2, h) = Sh(p, d, EndOf(text, i))
  BY RewrittenShape, RewrittenStarts, RewrittenEnds
<1>2. /\ \A j \in FieldLines(text, i) : Sh(p, d, j) \in FieldLines(text2, h)
      /\ \A j \in FieldLines(text2, h) : \E k \in FieldLines(text, i) : j = Sh(p, d, k)
  BY RewrittenFields
<1>3. \A j \in i..EndOf(text, i)-1 :
         /\ j \in 1..Len(text) /\ text2[Sh(p, d, j)] = text[j]
         /\ (i < s => Sh(p, d, j) = j) /\ (i > s => Sh(p, d, j) = j + d)
  BY Elsewhere
<1>4. \A j \in FieldLines(text, i) :
               /\ j \in i..EndOf(text, i)-1 /\ j \in 1..Len(text)
               /\ text[j].key \in KeysAt(text, i) /\ LineOf(text, i, text[j].key) = j
  BY LineIs
<1>5. \A k \in KeysAt(text, i) :
               LineOf(text, i, k) \in FieldLines(text, i) /\ text[LineOf(text, i, k)].key = k
  BY LineIs
<1>6. \A j \in FieldLines(text2, h) : LineOf(text2, h, text2[j].key) = j
  BY <1>1, LineIs
<1>7. KeysAt(text2, h) = KeysAt(text, i)
  BY <1>2, <1>3, <1>4 DEF KeysAt
<1>8. \A k \in KeysAt(text, i) : LineOf(text2, h, k) = Sh(p, d, LineOf(text, i, k))
  BY <1>2, <1>3, <1>4, <1>5, <1>6
<1>9. FieldsAt(text2, h) = FieldsAt(text, i)
  BY <1>3, <1>4, <1>5, <1>7, <1>8 DEF FieldsAt
<1>. DEFINE e == EndOf(text, i)
<1>10. /\ i \in 1..Len(text) /\ e \in Int /\ i < e /\ e <= Len(text) + 1 /\ Len(text) \in Nat
       /\ \A j \in Starts(text) : j > i => e <= j
  BY EndOfEntry DEF Shaped
<1>11. /\ p \in Int /\ s \in Int /\ s < p /\ d \in {0, 1}
       /\ \A j \in Starts(text) : j > s => p <= j
  BY EndOfEntry DEF Shaped, Rewritten, Starts
<1>12. /\ i < s => h = i /\ Sh(p, d, e) = e
       /\ i > s => h = i + d /\ Sh(p, d, e) = e + d
  <2>1. i < s => e <= s
    BY <1>10
  <2>2. i > s => p <= i
    BY <1>11
  <2>. HIDE DEF e
  <2>. QED BY <1>10, <1>11, <2>1, <2>2 DEF Sh
<1>. HIDE DEF e
<1>13. EndOf(text2, h) \in Int /\ Cut(text2, h, EndOf(text2, h) - 1) = Cut(text, i, e - 1)
  <2>. DEFINE c == h - i
  <2>1. \A j \in i..e-1 : text2[Sh(p, d, j)] = text[j] /\ Sh(p, d, j) = j + c
    BY <1>3, <1>10, <1>11, <1>12 DEF e
  <2>2. EndOf(text2, h) = e + c
    BY <1>1, <1>10, <1>11, <1>12 DEF e
  <2>3. c \in Int /\ h = i + c
    BY <1>10, <1>11, <1>12
  <2>. HIDE DEF c
  <2>. DEFINE g == EndOf(text2, h) - 1
              n == e - 1
  <2>4. /\ h \in Int /\ n \in Int /\ g \in Int /\ i \in Int
        /\ g - h = n - i
    BY <1>10, <2>2, <2>3
  <2>5. Same(text, i, n, text2, h)
    <3>. SUFFICES ASSUME NEW k \in 0..n - i PROVE text2[h + k] = text[i + k]
      BY DEF Same
    <3>1. i + k \in i..e-1 /\ (i + k) + c = h + k
      BY <1>10, <2>3
    <3>. QED BY <2>1, <3>1
  <2>. HIDE DEF g, n
  <2>6. Cut(text2, h, g) = Cut(text, i, n)
    BY <2>4, <2>5, SameCut
  <2>. QED BY <2>2, <2>3, <2>6, <1>10 DEF g, n
<1>14. ASSUME i < s PROVE h = i /\ Block(text2, h) = Block(text, i)
  <2>1. h = i /\ EndOf(text2, h) = EndOf(text, i)
    BY <1>1, <1>12, <1>14 DEF e
  <2>2. \A k \in KeysAt(text, i) : LineOf(text2, h, k) = LineOf(text, i, k)
    BY <1>3, <1>4, <1>5, <1>8, <1>14
  <2>. QED BY <1>7, <2>1, <2>2 DEF Block
<1>. QED BY <1>9, <1>10, <1>13, <1>14 DEF e

(* The entry rewritten has one field more, or one other value.             *)
LEMMA RewrittenOne ==
  ASSUME NEW text, Shaped(text), NEW s \in Starts(text), NEW text2, NEW d, NEW q, NEW key,
         NEW value, Rewritten(text, text2, s, d, q, key, value), NEW p, p = EndOf(text, s)
  PROVE  /\ s \in Starts(text2)
         /\ FieldsAt(text2, s) = With(FieldsAt(text, s), key, value)
         /\ Block(text2, s) = [at |-> With(Block(text, s).at, key, q), end |-> p + d]
<1>1. Shaped(text2) /\ Sh(p, d, s) \in Starts(text2) /\ EndOf(text2, Sh(p, d, s)) = Sh(p, d, p)
  BY RewrittenShape, RewrittenStarts, RewrittenEnds
<1>2. /\ \A j \in FieldLines(text, s) : Sh(p, d, j) \in FieldLines(text2, s)
      /\ \A j \in FieldLines(text2, s) : j = q \/ \E k \in FieldLines(text, s) : j = Sh(p, d, k)
      /\ q \in FieldLines(text2, s) /\ Sh(p, d, s) = s
  <2>1. /\ \A j \in FieldLines(text, s) : Sh(p, d, j) \in FieldLines(text2, Sh(p, d, s))
        /\ \A j \in FieldLines(text2, Sh(p, d, s)) :
              j = q \/ \E k \in FieldLines(text, s) : j = Sh(p, d, k)
        /\ q \in FieldLines(text2, s) /\ Sh(p, d, s) = s
    BY RewrittenFields
  <2>. QED BY <2>1
<1>3. /\ p \in Int /\ s \in Int /\ s < p
  BY EndOfEntry DEF Shaped, Starts
<1>4. /\ d \in {0, 1} /\ text2[q].key = key /\ text2[q].value = value
      /\ \A i \in 1..Len(text) :
            /\ text2[Sh(p, d, i)].key = text[i].key
            /\ Sh(p, d, i) # q => text2[Sh(p, d, i)] = text[i]
      /\ \A i \in FieldLines(text, s) : text[i].key = key => i = q
  BY DEF Rewritten
<1>5. \A j \in FieldLines(text, s) :
               /\ j \in s..p-1 /\ j \in 1..Len(text)
               /\ text[j].key \in KeysAt(text, s) /\ LineOf(text, s, text[j].key) = j
  BY LineIs
<1>6. \A k \in KeysAt(text, s) :
               LineOf(text, s, k) \in FieldLines(text, s) /\ text[LineOf(text, s, k)].key = k
  BY LineIs
<1>7. s \in Starts(text2) /\ EndOf(text2, s) = p + d
  BY <1>1, <1>2, <1>3 DEF Sh
<1>8. \A j \in FieldLines(text2, s) : LineOf(text2, s, text2[j].key) = j
  BY <1>1, <1>7, LineIs
<1>9. \A j \in FieldLines(text, s) : Sh(p, d, j) = j
  BY <1>3, <1>5 DEF Sh
<1>10. KeysAt(text2, s) = KeysAt(text, s) \cup {key}
  <2>1. \A k \in KeysAt(text2, s) : k \in KeysAt(text, s) \cup {key}
    BY <1>2, <1>4, <1>5 DEF KeysAt
  <2>2. key \in KeysAt(text2, s)
    BY <1>2, <1>4 DEF KeysAt
  <2>3. \A k \in KeysAt(text, s) : k \in KeysAt(text2, s)
    BY <1>2, <1>4, <1>5 DEF KeysAt
  <2>. QED BY <2>1, <2>2, <2>3
<1>11. LineOf(text2, s, key) = q
  BY <1>2, <1>4, <1>8
<1>12. ASSUME NEW k \in KeysAt(text, s), k # key
       PROVE  LineOf(text2, s, k) = LineOf(text, s, k) /\ text2[LineOf(text, s, k)] = text[LineOf(text, s, k)]
  <2>. DEFINE j == LineOf(text, s, k)
  <2>1. j \in FieldLines(text, s) /\ text[j].key = k /\ j \in 1..Len(text)
    BY <1>5, <1>6
  <2>2. Sh(p, d, j) = j /\ j \in FieldLines(text2, s)
    BY <1>2, <1>9, <2>1
  <2>3. text2[j].key = k
    BY <1>4, <2>1, <2>2
  <2>4. j # q
    BY <1>4, <1>12, <2>3
  <2>. HIDE DEF j
  <2>5. text2[j] = text[j]
    BY <1>4, <2>1, <2>2, <2>4
  <2>6. LineOf(text2, s, k) = j
    BY <1>8, <2>2, <2>3
  <2>. QED BY <2>5, <2>6 DEF j
<1>13. FieldsAt(text2, s) = With(FieldsAt(text, s), key, value)
  <2>1. \A k \in KeysAt(text2, s) :
          text2[LineOf(text2, s, k)].value = IF k = key THEN value ELSE text[LineOf(text, s, k)].value
    BY <1>4, <1>10, <1>11, <1>12
  <2>. QED BY <1>10, <2>1 DEF FieldsAt, With
<1>14. Block(text2, s) = [at |-> With(Block(text, s).at, key, q), end |-> p + d]
  <2>1. \A k \in KeysAt(text2, s) :
          LineOf(text2, s, k) = IF k = key THEN q ELSE LineOf(text, s, k)
    BY <1>10, <1>11, <1>12
  <2>2. Block(text, s).at = [k \in KeysAt(text, s) |-> LineOf(text, s, k)]
    BY DEF Block
  <2>3. [k \in KeysAt(text2, s) |-> LineOf(text2, s, k)] = With(Block(text, s).at, key, q)
    BY <1>10, <2>1, <2>2 DEF With
  <2>. QED BY <1>7, <2>3 DEF Block
<1>. QED BY <1>7, <1>13, <1>14

(* The comments are the same, in the same order.                           *)
LEMMA BeforeIs ==
  ASSUME NEW S, S \subseteq Int
  PROVE  /\ \A x, y \in S : <<x, y>> \in Before(S) <=> x < y
         /\ TotalOn(Before(S), S)
<1>1. \A x, y : <<x, y>> \in Before(S) <=> x \in S /\ y \in S /\ x < y
  BY DEF Before
<1>2. \A x, y \in S : x # y => x < y \/ y < x
  OBVIOUS
<1>3. \A x, y, z \in S : x < y /\ y < z => x < z
  OBVIOUS
<1>4. \A x \in S : ~ x < x
  OBVIOUS
<1>. QED BY <1>1, <1>2, <1>3, <1>4 DEF TotalOn

LEMMA OneToOne ==
  ASSUME NEW S, IsFiniteSet(S), NEW f, \A x, y \in S : f[x] = f[y] => x = y
  PROVE  /\ IsFiniteSet({f[x] : x \in S})
         /\ Cardinality({f[x] : x \in S}) = Cardinality(S)
<1>. DEFINE T == {f[x] : x \in S}
            g == [x \in S |-> f[x]]
<1>1. g \in [S -> T] /\ (\A x, y \in S : g[x] = g[y] => x = y) /\ \A t \in T : \E x \in S : g[x] = t
  OBVIOUS
<1>. HIDE DEF g, T
<1>2. g \in Bijection(S, T)
  <2>1. g \in Surjection(S, T)
    BY <1>1 DEF Surjection
  <2>2. g \in Injection(S, T)
    BY <1>1 DEF Injection, IsInjective
  <2>. QED BY <2>1, <2>2 DEF Bijection
<1>3. ExistsBijection(S, T)
  BY <1>2 DEF ExistsBijection
<1>4. IsFiniteSet(T) /\ Cardinality(T) = Cardinality(S)
  BY <1>3, FS_Bijection
<1>. QED BY <1>4 DEF T

(* Numbers moved without passing each other stay in their order.           *)
LEMMA MovedOrder ==
  ASSUME NEW S, IsFiniteSet(S), S \subseteq Int, NEW f, NEW S2, S2 = {f[x] : x \in S},
         S2 \subseteq Int, \A x, y \in S : x < y <=> f[x] < f[y]
  PROVE  /\ Cardinality(S2) = Cardinality(S)
         /\ \A n \in 1..Cardinality(S) :
               /\ InOrder(S, Before(S))[n] \in S
               /\ InOrder(S2, Before(S2))[n] = f[InOrder(S, Before(S))[n]]
<1>1. \A x, y \in S : f[x] = f[y] => x = y
  <2>. SUFFICES ASSUME NEW x \in S, NEW y \in S, f[x] = f[y] PROVE x = y
    OBVIOUS
  <2>1. x \in Int /\ y \in Int /\ f[x] \in Int /\ f[y] \in Int
    OBVIOUS
  <2>2. ~ x < y /\ ~ y < x
    BY <2>1
  <2>. QED BY <2>1, <2>2
<1>2. IsFiniteSet(S2) /\ Cardinality(S2) = Cardinality(S)
  BY <1>1, OneToOne
<1>3. TotalOn(Before(S), S) /\ TotalOn(Before(S2), S2)
  BY BeforeIs
<1>4. ASSUME NEW x \in S
      PROVE  Cardinality(Ahead(Before(S2), S2, f[x])) = Cardinality(Ahead(Before(S), S, x))
  <2>1. Ahead(Before(S2), S2, f[x]) = {f[y] : y \in Ahead(Before(S), S, x)}
    <3>1. \A u, v \in S : <<u, v>> \in Before(S) <=> <<f[u], f[v]>> \in Before(S2)
      <4>1. \A u, v \in S : <<u, v>> \in Before(S) <=> u < v
        BY BeforeIs
      <4>2. \A u, v \in S2 : <<u, v>> \in Before(S2) <=> u < v
        BY BeforeIs
      <4>. QED BY <4>1, <4>2
    <3>. QED BY <3>1 DEF Ahead
  <2>2. Ahead(Before(S), S, x) \subseteq S
    BY DEF Ahead
  <2>3. IsFiniteSet(Ahead(Before(S), S, x))
    BY <2>2, FS_Subset
  <2>4. \A u, v \in Ahead(Before(S), S, x) : f[u] = f[v] => u = v
    BY <1>1, <2>2
  <2>5. Cardinality({f[y] : y \in Ahead(Before(S), S, x)}) = Cardinality(Ahead(Before(S), S, x))
    BY <2>3, <2>4, OneToOne
  <2>. QED BY <2>1, <2>5
<1>5. ASSUME NEW n \in 1..Cardinality(S)
      PROVE  /\ InOrder(S, Before(S))[n] \in S
             /\ InOrder(S2, Before(S2))[n] = f[InOrder(S, Before(S))[n]]
  <2>. DEFINE x == InOrder(S, Before(S))[n]
  <2>1. InOrder(S, Before(S)) \in [1..Cardinality(S) -> S]
    BY <1>3, Sorted
  <2>2. x \in S
    BY <2>1
  <2>3. Cardinality(Ahead(Before(S), S, x)) = n - 1
    BY <1>3, Sorted
  <2>. HIDE DEF x
  <2>4. InOrder(S2, Before(S2))[Cardinality(Ahead(Before(S2), S2, f[x])) + 1] = f[x]
    <3>1. f[x] \in S2
      BY <2>2
    <3>. QED BY <1>2, <1>3, <3>1, Sorted
  <2>5. Cardinality(Ahead(Before(S2), S2, f[x])) = n - 1
    BY <1>4, <2>2, <2>3
  <2>6. InOrder(S2, Before(S2))[n] = f[x]
    <3>1. n - 1 + 1 = n
      OBVIOUS
    <3>. QED BY <2>4, <2>5, <3>1
  <2>. QED BY <2>2, <2>6 DEF x
<1>. QED BY <1>2, <1>5

LEMMA RewrittenNotes ==
  ASSUME NEW text, Shaped(text), NEW s \in Starts(text), NEW text2, NEW d, NEW q, NEW key,
         NEW value, Rewritten(text, text2, s, d, q, key, value)
  PROVE  Notes(text2) = Notes(text)
<1>. DEFINE p == EndOf(text, s)
            S == NoteLines(text)
            f == [j \in S |-> Sh(p, d, j)]
            S2 == NoteLines(text2)
<1>1. /\ d \in {0, 1} /\ q \in Int /\ key # "note"
      /\ DOMAIN text2 = 1..Len(text2) /\ Len(text2) = Len(text) + d
      /\ text2[q] = [key |-> key, newline |-> TRUE, value |-> value]
      /\ \A j \in 1..Len(text) :
            /\ text2[Sh(p, d, j)].key = text[j].key
            /\ Sh(p, d, j) # q => text2[Sh(p, d, j)] = text[j]
  BY DEF Rewritten
<1>2. DOMAIN text = 1..Len(text) /\ Len(text) \in Nat /\ 1 \in Int
  BY DEF Shaped
<1>3. p \in Int /\ p <= Len(text) + 1 /\ 1 < p
  <2>1. s < p /\ s \in 1..Len(text) /\ p \in Int /\ p <= Len(text) + 1
    BY <1>2, EndOfEntry
  <2>. QED BY <1>2, <2>1
<1>4. \A j \in 1..Len(text2) : j # q => \E i \in 1..Len(text) : j = Sh(p, d, i)
  BY RewrittenStarts
<1>. HIDE DEF p
<1>5. S \subseteq 1..Len(text) /\ \A j \in S : text[j].key = "note"
  BY <1>2 DEF NoteLines
<1>6. IsFiniteSet(S) /\ S \subseteq Int
  <2>1. IsFiniteSet(1..Len(text)) /\ Len(text) \in Int
    BY <1>2, FS_Interval
  <2>. QED BY <1>5, <2>1, FS_Subset
<1>7. \A j \in 1..Len(text) : Sh(p, d, j) \in 1..Len(text2)
  BY <1>1, <1>2, <1>3 DEF Sh
<1>8. \A j \in S : /\ Sh(p, d, j) \in S2 /\ text2[Sh(p, d, j)] = text[j]
  <2>. SUFFICES ASSUME NEW j \in S PROVE Sh(p, d, j) \in S2 /\ text2[Sh(p, d, j)] = text[j]
    OBVIOUS
  <2>1. j \in 1..Len(text) /\ text[j].key = "note"
    BY <1>5
  <2>2. text2[Sh(p, d, j)].key = "note" /\ Sh(p, d, j) \in DOMAIN text2
    BY <1>1, <1>7, <2>1
  <2>3. Sh(p, d, j) # q
    BY <1>1, <2>2
  <2>. QED BY <1>1, <2>1, <2>2, <2>3 DEF NoteLines
<1>9. ASSUME NEW j \in S2 PROVE \E i \in S : j = Sh(p, d, i)
  <2>1. j \in 1..Len(text2) /\ text2[j].key = "note"
    BY <1>1, <1>9 DEF NoteLines
  <2>2. j # q
    BY <1>1, <2>1
  <2>3. PICK i \in 1..Len(text) : j = Sh(p, d, i)
    BY <1>4, <2>1, <2>2
  <2>4. text[i].key = "note"
    BY <1>1, <2>1, <2>3
  <2>5. i \in S
    BY <1>2, <2>4 DEF NoteLines
  <2>. QED BY <2>3, <2>5
<1>. HIDE DEF S, S2
<1>10. S2 = {f[x] : x \in S} /\ \A x \in S : f[x] = Sh(p, d, x)
  BY <1>8, <1>9
<1>11. \A x, y \in S : x < y <=> Sh(p, d, x) < Sh(p, d, y)
  BY <1>1, <1>3, <1>6 DEF Sh
<1>12. \A x \in S : Sh(p, d, x) \in Int
  BY <1>1, <1>3, <1>6 DEF Sh
<1>. HIDE DEF f
<1>13. S2 \subseteq Int /\ \A x, y \in S : x < y <=> f[x] < f[y]
  BY <1>10, <1>11, <1>12
<1>14. Cardinality(S2) = Cardinality(S)
  BY <1>6, <1>10, <1>13, MovedOrder
<1>15. ASSUME NEW n \in 1..Cardinality(S)
       PROVE  text2[InOrder(S2, Before(S2))[n]] = text[InOrder(S, Before(S))[n]]
  <2>1. /\ InOrder(S, Before(S))[n] \in S
        /\ InOrder(S2, Before(S2))[n] = f[InOrder(S, Before(S))[n]]
    BY <1>6, <1>10, <1>13, MovedOrder
  <2>. QED BY <1>8, <1>10, <2>1
<1>. QED BY <1>14, <1>15 DEF Notes, S, S2

IsFunction(f) == f = [x \in DOMAIN f |-> f[x]]

LEMMA SequenceMaps ==
  ASSUME NEW S, NEW f \in Seq(S)
  PROVE  IsFunction(f)
<1>1. f \in [1..Len(f) -> S]
  OBVIOUS
<1>. QED BY <1>1 DEF IsFunction

(* The second text has the entries of the first, in their order; those that *)
(* are not in ids, every title and every comment are as they were.         *)
Keeps(text, text2, ids) ==
    /\ Shaped(text2)
    /\ Ids(text2) = Ids(text)
    /\ \A a, b \in Ids(text) : StartOf(text2, a) < StartOf(text2, b) <=> StartOf(text, a) < StartOf(text, b)
    /\ \A id \in Ids(text) \ ids :
          /\ Ledger(text2)[id] = Ledger(text)[id]
          /\ BlockText(text2, id) = BlockText(text, id)
    /\ \A id \in Ids(text) : Title(text2, id) = Title(text, id)
    /\ Notes(text2) = Notes(text)

LEMMA KeepsItself ==
  ASSUME NEW text, Shaped(text), NEW ids
  PROVE  Keeps(text, text, ids)
  BY DEF Keeps

(* What is kept by several edits.                                          *)
LEMMA KeepsOn ==
  ASSUME NEW text, NEW text2, NEW text3, NEW ids, NEW id \in ids, Keeps(text, text2, ids),
         Keeps(text2, text3, {id})
  PROVE  Keeps(text, text3, ids)
<1>1. Shaped(text3) /\ Ids(text3) = Ids(text) /\ Ids(text2) = Ids(text) /\ Notes(text3) = Notes(text)
  BY DEF Keeps
<1>2. \A a, b \in Ids(text) : StartOf(text3, a) < StartOf(text3, b) <=> StartOf(text, a) < StartOf(text, b)
  BY DEF Keeps
<1>3. \A i \in Ids(text) : Title(text3, i) = Title(text, i)
  BY DEF Keeps
<1>4. \A i \in Ids(text) \ ids : i \in Ids(text2) \ {id} /\ i \in Ids(text) \ ids
  BY <1>1
<1>5. \A i \in Ids(text) \ ids :
          /\ Ledger(text3)[i] = Ledger(text)[i]
          /\ BlockText(text3, i) = BlockText(text, i)
  BY <1>4 DEF Keeps
<1>. QED BY <1>1, <1>2, <1>3, <1>5 DEF Keeps

(* The entry id, as it is parsed.                                          *)
LEMMA LedgerIs ==
  ASSUME NEW text, NEW id \in Ids(text)
  PROVE  /\ Ledger(text)[id] = FieldsAt(text, StartOf(text, id))
         /\ BlocksOf(text)[id] = Block(text, StartOf(text, id))
  BY DEF Ledger, BlocksOf

(* What one edit of the entry id does to the ledger and to its blocks.     *)
Wrote(text, text2, id, s, d, q, key, value) ==
    /\ Keeps(text, text2, {id})
    /\ Ledger(text2)[id] = With(Ledger(text)[id], key, value)
    /\ BlocksOf(text2)[id] = [at |-> With(BlocksOf(text)[id].at, key, q), end |-> EndOf(text, s) + d]
    /\ \A b \in Ids(text) : StartOf(text, b) < s => BlocksOf(text2)[b] = BlocksOf(text)[b]

LEMMA RewrittenKeeps ==
  ASSUME NEW text, Shaped(text), NEW id \in Ids(text), NEW s, s = StartOf(text, id),
         NEW text2, NEW d, NEW q, NEW key, NEW value,
         Rewritten(text, text2, s, d, q, key, value), key # "title"
  PROVE  Wrote(text, text2, id, s, d, q, key, value)
<1>. DEFINE p == EndOf(text, s)
<1>1. s \in Starts(text) /\ IdAt(text, s) = id
  BY StartIs
<1>2. Shaped(text2)
  BY <1>1, RewrittenShape
<1>3. /\ Starts(text2) = {Sh(p, d, i) : i \in Starts(text)}
      /\ \A i \in Starts(text) : text2[Sh(p, d, i)] = text[i]
  BY <1>1, RewrittenStarts
<1>4. \A i \in Starts(text) : IdAt(text2, Sh(p, d, i)) = IdAt(text, i)
  BY <1>3 DEF IdAt
<1>5. Ids(text2) = Ids(text)
  BY <1>3, <1>4 DEF Ids
<1>6. \A b \in Ids(text) : StartOf(text, b) \in Starts(text) /\ IdAt(text, StartOf(text, b)) = b
  BY StartIs
<1>7. \A i \in Starts(text2) : StartOf(text2, IdAt(text2, i)) = i
  BY <1>2, StartIs
<1>8. \A b \in Ids(text) : StartOf(text2, b) = Sh(p, d, StartOf(text, b))
  BY <1>3, <1>4, <1>6, <1>7
<1>9. /\ d \in {0, 1}
  BY DEF Rewritten
<1>10. p \in Int /\ s < p /\ s \in Int /\ \A i \in Starts(text) : i \in Int
  BY <1>1, EndOfEntry DEF Shaped, Starts
<1>11. \A i \in Starts(text), j \in Starts(text) : Sh(p, d, i) < Sh(p, d, j) <=> i < j
  <2>. HIDE DEF p
  <2>. QED BY <1>9, <1>10 DEF Sh
<1>12. \A a, b \in Ids(text) : StartOf(text2, a) < StartOf(text2, b) <=> StartOf(text, a) < StartOf(text, b)
  BY <1>6, <1>8, <1>11
<1>13. ASSUME NEW b \in Ids(text), b # id
       PROVE  /\ Ledger(text2)[b] = Ledger(text)[b] /\ BlockText(text2, b) = BlockText(text, b)
              /\ StartOf(text, b) < s => BlocksOf(text2)[b] = BlocksOf(text)[b]
  <2>. DEFINE i == StartOf(text, b)
              h == StartOf(text2, b)
  <2>1. i \in Starts(text) /\ i # s /\ h = Sh(p, d, i)
    BY <1>1, <1>6, <1>8, <1>13
  <2>2. /\ Ledger(text)[b] = FieldsAt(text, i) /\ BlocksOf(text)[b] = Block(text, i)
        /\ Ledger(text2)[b] = FieldsAt(text2, h) /\ BlocksOf(text2)[b] = Block(text2, h)
    BY <1>5, LedgerIs
  <2>3. i \in Int /\ h \in Int
    BY <1>9, <1>10, <2>1 DEF Sh
  <2>. HIDE DEF i, h, p
  <2>4. /\ FieldsAt(text2, h) = FieldsAt(text, i)
        /\ EndOf(text, i) \in Int /\ EndOf(text2, h) \in Int
        /\ Cut(text2, h, EndOf(text2, h) - 1) = Cut(text, i, EndOf(text, i) - 1)
        /\ i < s => h = i /\ Block(text2, h) = Block(text, i)
    BY <1>1, <2>1, RewrittenOthers DEF p
  <2>5. BlockText(text, b) = Cut(text, i, EndOf(text, i) - 1)
    <3>1. EndOf(text, i) - 1 \in Int
      BY <2>4
    <3>2. BlockText(text, b) = SubSeq(text, i, EndOf(text, i) - 1)
      BY DEF BlockText, i
    <3>. QED BY <2>3, <3>1, <3>2, SubSeqIs
  <2>6. BlockText(text2, b) = Cut(text2, h, EndOf(text2, h) - 1)
    <3>1. EndOf(text2, h) - 1 \in Int
      BY <2>4
    <3>2. BlockText(text2, b) = SubSeq(text2, h, EndOf(text2, h) - 1)
      BY DEF BlockText, h
    <3>. QED BY <2>3, <3>1, <3>2, SubSeqIs
  <2>. QED BY <2>2, <2>4, <2>5, <2>6 DEF i
<1>14. /\ Ledger(text2)[id] = With(Ledger(text)[id], key, value)
       /\ BlocksOf(text2)[id] = [at |-> With(BlocksOf(text)[id].at, key, q), end |-> p + d]
  <2>1. /\ s \in Starts(text2)
        /\ FieldsAt(text2, s) = With(FieldsAt(text, s), key, value)
        /\ Block(text2, s) = [at |-> With(Block(text, s).at, key, q), end |-> p + d]
    BY <1>1, RewrittenOne
  <2>2. StartOf(text2, id) = s
    <3>1. StartOf(text2, id) = Sh(p, d, s)
      BY <1>8
    <3>. HIDE DEF p
    <3>. QED BY <1>10, <3>1 DEF Sh
  <2>3. Ledger(text2)[id] = FieldsAt(text2, s) /\ BlocksOf(text2)[id] = Block(text2, s)
    BY <1>5, <2>2, LedgerIs
  <2>4. Ledger(text)[id] = FieldsAt(text, s) /\ BlocksOf(text)[id] = Block(text, s)
    BY LedgerIs
  <2>. HIDE DEF p
  <2>. QED BY <2>1, <2>3, <2>4
<1>15. \A b \in Ids(text) : Title(text2, b) = Title(text, b)
  <2>1. \A b \in Ids(text) : b # id => Title(text2, b) = Title(text, b)
    BY <1>13 DEF Title
  <2>2. Title(text2, id) = Title(text, id)
    BY <1>14 DEF Title, Field, With
  <2>. QED BY <2>1, <2>2
<1>16. Notes(text2) = Notes(text)
  BY <1>1, RewrittenNotes
<1>17. \A b \in Ids(text) : StartOf(text, b) < s => BlocksOf(text2)[b] = BlocksOf(text)[b]
  BY <1>10, <1>13
<1>18. Keeps(text, text2, {id})
  BY <1>2, <1>5, <1>12, <1>13, <1>15, <1>16 DEF Keeps
<1>. QED BY <1>14, <1>17, <1>18 DEF Wrote

(* A line of an entry is replaced.                                         *)
LEMMA Replaces ==
  ASSUME NEW text, Shaped(text), NEW id \in Ids(text), NEW s, s = StartOf(text, id),
         NEW key, key \in DOMAIN Ledger(text)[id], key \notin {"id", "note"},
         NEW value, Typed(value), NEW q, q = BlocksOf(text)[id].at[key], NEW text2,
         text2 = [text EXCEPT ![q] = [key |-> key, value |-> value, newline |-> @.newline]]
  PROVE  Rewritten(text, text2, s, 0, q, key, value)
<1>. DEFINE p == EndOf(text, s)
            line == [key |-> key, newline |-> TRUE, value |-> value]
<1>1. s \in Starts(text)
  BY StartIs
<1>2. /\ Ledger(text)[id] = FieldsAt(text, s)
      /\ BlocksOf(text)[id] = Block(text, s)
  BY LedgerIs
<1>3. key \in KeysAt(text, s)
  BY <1>2 DEF FieldsAt
<1>4. q = LineOf(text, s, key)
  BY <1>2, <1>3 DEF Block
<1>5. q \in FieldLines(text, s) /\ text[q].key = key
  BY <1>1, <1>3, <1>4, LineIs
<1>6. q \in s..p-1 /\ q \in 1..Len(text)
  BY <1>1, <1>5, LineIs
<1>7. /\ DOMAIN text = 1..Len(text) /\ Len(text) \in Nat /\ text[q].newline = TRUE
      /\ \A j, k \in FieldLines(text, s) : text[j].key = text[k].key => j = k
  BY <1>1, <1>6 DEF Shaped, IsLine
<1>8. p \in Int /\ s < p /\ s \in 1..Len(text) /\ text[s].key = "id"
  BY <1>1, <1>7, EndOfEntry
<1>9. s # q /\ s < q /\ q < p /\ q \in Int
  <2>. HIDE DEF p
  <2>. QED BY <1>5, <1>6, <1>8
<1>10. \A i \in 1..Len(text) : Sh(p, 0, i) = i
  <2>. HIDE DEF p
  <2>. QED BY <1>7, <1>8 DEF Sh
<1>11. DOMAIN text2 = 1..Len(text) /\ \A i \in 1..Len(text) : text2[i] = IF i = q THEN line ELSE text[i]
  BY <1>6, <1>7
<1>12. Len(text2) = Len(text)
  BY <1>7, <1>11
<1>. HIDE DEF p
<1>13. 0 \in {0, 1} /\ Len(text2) = Len(text) + 0 /\ q < p + 0 /\ (0 = 1 => q = p)
  BY <1>7, <1>8, <1>9, <1>12
<1>14. text2[q] = line /\ \A i \in 1..Len(text) :
          text2[Sh(p, 0, i)].key = text[i].key /\ (Sh(p, 0, i) # q => text2[Sh(p, 0, i)] = text[i])
  BY <1>5, <1>6, <1>10, <1>11
<1>15. \A i \in FieldLines(text, s) : text[i].key = key => i = q
  BY <1>5, <1>7
<1>. HIDE DEF line
<1>. QED BY <1>9, <1>11, <1>12, <1>13, <1>14, <1>15 DEF Rewritten, p, line

(* A line is inserted at the end of an entry.                              *)
LEMMA Inserts ==
  ASSUME NEW text, Shaped(text), NEW id \in Ids(text), NEW s, s = StartOf(text, id),
         NEW key, key \notin DOMAIN Ledger(text)[id], key \notin {"id", "note"},
         NEW value, Typed(value), NEW q, q = BlocksOf(text)[id].end, NEW text2,
         text2 = InsertAt(text, q, [key |-> key, value |-> value, newline |-> TRUE])
  PROVE  q = EndOf(text, s) /\ Rewritten(text, text2, s, 1, q, key, value) /\ IsFunction(text2)
<1>. DEFINE p == EndOf(text, s)
            n == Len(text)
            line == [key |-> key, newline |-> TRUE, value |-> value]
<1>1. s \in Starts(text)
  BY StartIs
<1>2. /\ Ledger(text)[id] = FieldsAt(text, s)
      /\ BlocksOf(text)[id] = Block(text, s)
  BY LedgerIs
<1>3. key \notin KeysAt(text, s) /\ q = p
  BY <1>2 DEF FieldsAt, Block
<1>4. DOMAIN text = 1..n /\ n \in Nat
  BY DEF Shaped
<1>5. p \in Int /\ s < p /\ s \in 1..n /\ p <= n + 1
  BY <1>1, <1>4, EndOfEntry
<1>6. \A i \in FieldLines(text, s) : text[i].key # key
  BY <1>3 DEF KeysAt
<1>. DEFINE first == SubSeq(text, 1, p - 1)
            last == SubSeq(text, p, n)
<1>. HIDE DEF p, n
<1>7. first = Cut(text, 1, p - 1) /\ last = Cut(text, p, n)
  <2>1. 1 \in Int /\ p - 1 \in Int /\ n \in Int
    BY <1>4, <1>5
  <2>. QED BY <1>5, <2>1, SubSeqIs
<1>8. 1 + (p - 1) - 1 = p - 1 /\ p - 1 \in Nat /\ 1 + n - p \in Nat
  BY <1>4, <1>5
<1>9. /\ Len(first) = p - 1 /\ \A i \in 1..p-1 : first[i] = text[i]
      /\ Len(last) = 1 + n - p /\ \A i \in 1..1+n-p : last[i] = text[i + p - 1]
      /\ DOMAIN first = 1..p-1 /\ DOMAIN last = 1..1+n-p
  <2>1. first = [i \in 1..p-1 |-> text[i + 1 - 1]] /\ last = [i \in 1..1+n-p |-> text[i + p - 1]]
    BY <1>7, <1>8 DEF Cut
  <2>2. \A i \in 1..p-1 : i + 1 - 1 = i
    OBVIOUS
  <2>. HIDE DEF first, last
  <2>. QED BY <1>8, <2>1, <2>2
<1>10. text2 = first \o <<line>> \o last
  BY <1>3 DEF InsertAt, n
<1>. HIDE DEF first, last, line
<1>. DEFINE S == {line} \cup {text[i] : i \in 1..n}
<1>11. first \in Seq(S) /\ last \in Seq(S) /\ <<line>> \in Seq(S) /\ Len(<<line>>) = 1 /\ <<line>>[1] = line
  <2>1. first = [i \in 1..p-1 |-> first[i]] /\ \A i \in 1..p-1 : first[i] \in S
    BY <1>4, <1>5, <1>7, <1>8, <1>9 DEF Cut
  <2>2. last = [i \in 1..1+n-p |-> last[i]] /\ \A i \in 1..1+n-p : last[i] \in S
    BY <1>4, <1>5, <1>7, <1>8, <1>9 DEF Cut
  <2>3. line \in S
    OBVIOUS
  <2>. HIDE DEF S
  <2>. QED BY <1>8, <2>1, <2>2, <2>3, SequenceOf
<1>. HIDE DEF S
<1>12. /\ first \o <<line>> \in Seq(S) /\ Len(first \o <<line>>) = p
       /\ \A i \in 1..p-1 : (first \o <<line>>)[i] = text[i]
       /\ (first \o <<line>>)[p] = line
  <2>1. /\ first \o <<line>> \in Seq(S) /\ Len(first \o <<line>>) = (p - 1) + 1
        /\ \A i \in 1..p-1 : (first \o <<line>>)[i] = first[i]
        /\ \A i \in 1..1 : (first \o <<line>>)[(p - 1) + i] = <<line>>[i]
    BY <1>9, <1>11, Joined
  <2>2. (p - 1) + 1 = p /\ 1 \in 1..1
    BY <1>5
  <2>. QED BY <1>9, <1>11, <2>1, <2>2
<1>13. /\ Len(text2) = n + 1 /\ DOMAIN text2 = 1..n + 1
       /\ \A i \in 1..p-1 : text2[i] = text[i]
       /\ text2[p] = line
       /\ \A i \in 1..1+n-p : text2[p + i] = text[i + p - 1]
  <2>. DEFINE front == first \o <<line>>
  <2>1. /\ Len(text2) = p + (1 + n - p) /\ DOMAIN text2 = 1..Len(text2)
        /\ \A i \in 1..p : text2[i] = front[i]
        /\ \A i \in 1..1+n-p : text2[p + i] = last[i]
    <3>1. front \in Seq(S) /\ Len(front) = p /\ text2 = front \o last
      BY <1>10, <1>12
    <3>. HIDE DEF front
    <3>2. last \in Seq(S) /\ Len(last) = 1 + n - p
      BY <1>9, <1>11
    <3>3. /\ Len(front \o last) = Len(front) + Len(last)
          /\ DOMAIN (front \o last) = 1..Len(front \o last)
          /\ \A i \in 1..Len(front) : (front \o last)[i] = front[i]
          /\ \A i \in 1..Len(last) : (front \o last)[Len(front) + i] = last[i]
      BY <3>1, <3>2, Joined
    <3>. QED BY <3>1, <3>2, <3>3
  <2>2. p + (1 + n - p) = n + 1 /\ p \in 1..p /\ \A i \in 1..p-1 : i \in 1..p
    BY <1>4, <1>5
  <2>3. \A i \in 1..p-1 : front[i] = text[i]
    BY <1>12
  <2>4. front[p] = line
    BY <1>12
  <2>. HIDE DEF front
  <2>5. Len(text2) = n + 1 /\ DOMAIN text2 = 1..n + 1
    BY <2>1, <2>2
  <2>6. \A i \in 1..p-1 : text2[i] = text[i]
    BY <2>1, <2>2, <2>3
  <2>7. text2[p] = line
    BY <2>1, <2>2, <2>4
  <2>8. \A i \in 1..1+n-p : text2[p + i] = text[i + p - 1]
    BY <1>9, <2>1
  <2>. QED BY <2>5, <2>6, <2>7, <2>8
<1>14. ASSUME NEW i \in 1..n
       PROVE  Sh(p, 1, i) # p /\ text2[Sh(p, 1, i)] = text[i]
  <2>1. CASE i < p
    <3>1. i \in 1..p-1
      BY <1>4, <1>5, <2>1
    <3>2. text2[i] = text[i]
      BY <1>13, <3>1
    <3>3. Sh(p, 1, i) = i /\ i # p
      BY <1>4, <1>5, <2>1 DEF Sh
    <3>. QED BY <3>2, <3>3
  <2>2. CASE ~ i < p
    <3>1. i + 1 - p \in 1..1+n-p /\ p + (i + 1 - p) = i + 1 /\ (i + 1 - p) + p - 1 = i
      BY <1>4, <1>5, <2>2
    <3>2. text2[i + 1] = text[i]
      BY <1>13, <3>1
    <3>. QED BY <1>4, <1>5, <2>2, <3>2 DEF Sh
  <2>. QED BY <2>1, <2>2
<1>15. 1 \in {0, 1} /\ q \in Int /\ s < q /\ q < p + 1 /\ (1 = 1 => q = p)
       /\ DOMAIN text2 = 1..Len(text2) /\ Len(text2) = Len(text) + 1
  BY <1>3, <1>4, <1>5, <1>13 DEF n
<1>16. text2[q] = [key |-> key, newline |-> TRUE, value |-> value]
  BY <1>3, <1>13 DEF line
<1>17. \A i \in 1..Len(text) :
          text2[Sh(p, 1, i)].key = text[i].key /\ (Sh(p, 1, i) # q => text2[Sh(p, 1, i)] = text[i])
  BY <1>14 DEF n
<1>18. Rewritten(text, text2, s, 1, q, key, value)
  BY <1>6, <1>15, <1>16, <1>17 DEF Rewritten, p
<1>19. text2 \in Seq(S)
  <2>. DEFINE front == first \o <<line>>
  <2>1. front \in Seq(S) /\ last \in Seq(S)
    BY <1>11, <1>12
  <2>. HIDE DEF front
  <2>2. front \o last \in Seq(S)
    BY <2>1, Joined
  <2>. QED BY <1>10, <2>2 DEF front
<1>20. IsFunction(text2)
  BY <1>19, SequenceMaps
<1>. QED BY <1>3, <1>18, <1>20 DEF p

(* The sequence s lists the elements of A.                                 *)
Lists(s, A) == s \in Seq(A) /\ \A x \in A : \E i \in 1..Len(s) : s[i] = x

(* The edits of an entry, as a set.                                        *)
Some(condition, edit) == IF condition THEN {edit} ELSE {}

LEMMA ListsIf ==
  ASSUME NEW condition, NEW edit
  PROVE  Lists(If(condition, edit), Some(condition, edit))
<1>1. CASE condition
  <2>1. <<edit>> \in Seq({edit}) /\ Len(<<edit>>) = 1 /\ <<edit>>[1] = edit /\ 1 \in 1..1
    OBVIOUS
  <2>. QED BY <1>1, <2>1 DEF If, Some, Lists
<1>2. CASE ~ condition
  BY <1>2 DEF If, Some, Lists
<1>. QED BY <1>1, <1>2

LEMMA ListsJoined ==
  ASSUME NEW a, NEW A, Lists(a, A), NEW b, NEW B, Lists(b, B)
  PROVE  Lists(a \o b, A \cup B)
<1>1. a \in Seq(A) /\ b \in Seq(B)
  BY DEF Lists
<1>2. a \in Seq(A \cup B) /\ b \in Seq(A \cup B)
  BY <1>1
<1>3. /\ a \o b \in Seq(A \cup B)
      /\ Len(a) \in Nat /\ Len(b) \in Nat /\ Len(a \o b) = Len(a) + Len(b)
      /\ \A i \in 1..Len(a) : (a \o b)[i] = a[i]
      /\ \A i \in 1..Len(b) : (a \o b)[Len(a) + i] = b[i]
  BY <1>2, Joined
<1>4. ASSUME NEW x \in A PROVE \E i \in 1..Len(a \o b) : (a \o b)[i] = x
  <2>1. PICK i \in 1..Len(a) : a[i] = x
    BY DEF Lists
  <2>2. i \in 1..Len(a \o b)
    BY <1>3
  <2>. QED BY <1>3, <2>1, <2>2
<1>5. ASSUME NEW x \in B PROVE \E i \in 1..Len(a \o b) : (a \o b)[i] = x
  <2>1. PICK i \in 1..Len(b) : b[i] = x
    BY DEF Lists
  <2>2. Len(a) + i \in 1..Len(a \o b)
    BY <1>3
  <2>. QED BY <1>3, <2>1, <2>2
<1>. QED BY <1>3, <1>4, <1>5 DEF Lists

RequestSet(id, fields, update) ==
    LET current == Status(fields)
        target == StatusUpdate(current, update)
        entry == update.kind = "entry"
    IN  Some(target # current, Edit(id, "status", <<"text", target>>))
        \cup Some(entry /\ update.wired_check # "",
                  Edit(id, "wired_check", <<"text", update.wired_check>>))
        \cup Some(entry /\ update.artifacts # {},
                  Edit(id, "artifact_ids", <<"list", update.artifacts>>))

FindingSet(id, fields, found, day) ==
    LET new == NewSessions(fields, found)
        first == Min(Days(found))
        last == IF day = NoDay THEN Max(Days(found)) ELSE day
        has(key) == key \in DOMAIN fields
    IN  Some(new # {} \/ ~ has("evidence"),
             Edit(id, "evidence", <<"list", OldSessions(fields) \cup new>>))
        \cup Some(new # {} \/ has("sessions"),
                  Edit(id, "sessions", <<"int", Field(fields, "sessions", 0) + Cardinality(new)>>))
        \cup Some(~ has("first_seen") \/ first < Field(fields, "first_seen", 0),
                  Edit(id, "first_seen", <<"date", first>>))
        \cup Some(~ has("last_seen") \/ last > Field(fields, "last_seen", 0),
                  Edit(id, "last_seen", <<"date", last>>))

EditSet(id, fields, c) ==
    RequestSet(id, fields, c.updates[id])
    \cup (IF c.found[id] = {} THEN {} ELSE FindingSet(id, fields, c.found[id], c.day))

LEMMA EditsAre ==
  ASSUME NEW id, NEW fields, NEW c
  PROVE  Lists(EditsOf(id, fields, c), EditSet(id, fields, c))
<1>1. ASSUME NEW update PROVE Lists(RequestEdits(id, fields, update), RequestSet(id, fields, update))
  BY ListsIf, ListsJoined DEF RequestEdits, RequestSet
<1>2. ASSUME NEW found, NEW day
      PROVE  Lists(FindingEdits(id, fields, found, day), FindingSet(id, fields, found, day))
  <2>. DEFINE new == NewSessions(fields, found)
              first == Min(Days(found))
              last == IF day = NoDay THEN Max(Days(found)) ELSE day
              sum == Field(fields, "sessions", 0) + Cardinality(new)
              c1 == new # {} \/ "evidence" \notin DOMAIN fields
              e1 == Edit(id, "evidence", <<"list", OldSessions(fields) \cup new>>)
              c2 == new # {} \/ "sessions" \in DOMAIN fields
              e2 == Edit(id, "sessions", <<"int", sum>>)
              c3 == "first_seen" \notin DOMAIN fields \/ first < Field(fields, "first_seen", 0)
              e3 == Edit(id, "first_seen", <<"date", first>>)
              c4 == "last_seen" \notin DOMAIN fields \/ last > Field(fields, "last_seen", 0)
              e4 == Edit(id, "last_seen", <<"date", last>>)
  <2>1. /\ FindingEdits(id, fields, found, day) = If(c1, e1) \o If(c2, e2) \o If(c3, e3) \o If(c4, e4)
        /\ FindingSet(id, fields, found, day)
             = Some(c1, e1) \cup Some(c2, e2) \cup Some(c3, e3) \cup Some(c4, e4)
    BY DEF FindingEdits, FindingSet
  <2>. HIDE DEF c1, e1, c2, e2, c3, e3, c4, e4
  <2>2. Lists(If(c1, e1) \o If(c2, e2), Some(c1, e1) \cup Some(c2, e2))
    BY ListsIf, ListsJoined
  <2>3. Lists(If(c1, e1) \o If(c2, e2) \o If(c3, e3), Some(c1, e1) \cup Some(c2, e2) \cup Some(c3, e3))
    BY <2>2, ListsIf, ListsJoined
  <2>4. Lists(If(c1, e1) \o If(c2, e2) \o If(c3, e3) \o If(c4, e4),
              Some(c1, e1) \cup Some(c2, e2) \cup Some(c3, e3) \cup Some(c4, e4))
    BY <2>3, ListsIf, ListsJoined
  <2>. QED BY <2>1, <2>4
<1>3. Lists(<<>>, {})
  BY DEF Lists
<1>. QED BY <1>1, <1>2, <1>3, ListsJoined DEF EditsOf, EditSet

-----------------------------------------------------------------------------
(* Once the edits E of the entry id are made, its fields F have become m;  *)
(* keys other than those in K are as they were.                            *)
Reaches(id, F, E, m, K) ==
    /\ IsFunction(m)
    /\ \A e \in E : /\ e.id = id /\ e.key \in K /\ Typed(e.value)
                    /\ e.key \in DOMAIN m /\ m[e.key] = e.value
    /\ \A k \in DOMAIN F : k \in DOMAIN m /\ (m[k] = F[k] \/ \E e \in E : e.key = k)
    /\ \A k \in DOMAIN m : k \in DOMAIN F \/ \E e \in E : e.key = k
    /\ \A k \in DOMAIN F : k \notin K => m[k] = F[k]
    /\ \A k \in DOMAIN m : k \notin K => k \in DOMAIN F

LEMMA WithAt ==
  ASSUME NEW m, NEW key, NEW value
  PROVE  With(m, key, value)[key] = value
  BY DEF With

LEMMA WithElse ==
  ASSUME NEW m, NEW key, NEW value, NEW k \in DOMAIN m, k # key
  PROVE  With(m, key, value)[k] = m[k]
  BY DEF With

LEMMA WithDomain ==
  ASSUME NEW m, NEW key, NEW value
  PROVE  IsFunction(With(m, key, value)) /\ DOMAIN With(m, key, value) = DOMAIN m \cup {key}
  BY DEF With, IsFunction

(* One edit more, an edit that is not needed, and no edit.                 *)
LEMMA ReachesNext ==
  ASSUME NEW id, NEW F, NEW E, NEW m, NEW K, Reaches(id, F, E, m, K), NEW key, key \notin K,
         NEW value, Typed(value)
  PROVE  Reaches(id, F, E \cup {Edit(id, key, value)}, With(m, key, value), K \cup {key})
<1>. DEFINE w == With(m, key, value)
            new == Edit(id, key, value)
            D == E \cup {new}
<1>1. /\ IsFunction(w) /\ DOMAIN w = DOMAIN m \cup {key} /\ w[key] = value
      /\ \A k \in DOMAIN m : k # key => w[k] = m[k]
  <2>1. w[key] = value
    BY WithAt
  <2>2. \A k \in DOMAIN m : k # key => w[k] = m[k]
    BY WithElse
  <2>3. IsFunction(w) /\ DOMAIN w = DOMAIN m \cup {key}
    BY WithDomain
  <2>. HIDE DEF w
  <2>. QED BY <2>1, <2>2, <2>3
<1>2. new.id = id /\ new.key = key /\ new.value = value
  BY DEF Edit
<1>. HIDE DEF w, new
<1>3. \A e \in D : /\ e.id = id /\ e.key \in K \cup {key} /\ Typed(e.value)
                   /\ e.key \in DOMAIN w /\ w[e.key] = e.value
  <2>1. \A e \in E : /\ e.id = id /\ e.key \in K /\ Typed(e.value)
                     /\ e.key \in DOMAIN m /\ m[e.key] = e.value
    BY DEF Reaches
  <2>. QED BY <1>1, <1>2, <2>1
<1>4. \A k \in DOMAIN F : k \in DOMAIN w /\ (w[k] = F[k] \/ \E e \in D : e.key = k)
  <2>. SUFFICES ASSUME NEW k \in DOMAIN F PROVE k \in DOMAIN w /\ (w[k] = F[k] \/ \E e \in D : e.key = k)
    OBVIOUS
  <2>1. k \in DOMAIN m /\ (m[k] = F[k] \/ \E e \in E : e.key = k)
    BY DEF Reaches
  <2>. QED BY <1>1, <1>2, <2>1
<1>5. \A k \in DOMAIN w : k \in DOMAIN F \/ \E e \in D : e.key = k
  BY <1>1, <1>2 DEF Reaches
<1>6. \A k \in DOMAIN F : k \notin K \cup {key} => w[k] = F[k]
  BY <1>1 DEF Reaches
<1>7. \A k \in DOMAIN w : k \notin K \cup {key} => k \in DOMAIN F
  BY <1>1 DEF Reaches
<1>. HIDE DEF D
<1>8. Reaches(id, F, D, w, K \cup {key})
  BY <1>1, <1>3, <1>4, <1>5, <1>6, <1>7 DEF Reaches
<1>. QED BY <1>8 DEF D, w, new

LEMMA ReachesSame ==
  ASSUME NEW id, NEW F, NEW E, NEW m, NEW K, Reaches(id, F, E, m, K), NEW key, key \notin K,
         NEW value, key \in DOMAIN F, F[key] = value
  PROVE  Reaches(id, F, E, With(m, key, value), K \cup {key})
<1>. DEFINE w == With(m, key, value)
<1>1. /\ IsFunction(w) /\ DOMAIN w = DOMAIN m \cup {key} /\ w[key] = value
      /\ \A k \in DOMAIN m : k # key => w[k] = m[k]
  <2>1. w[key] = value
    BY WithAt
  <2>2. \A k \in DOMAIN m : k # key => w[k] = m[k]
    BY WithElse
  <2>3. IsFunction(w) /\ DOMAIN w = DOMAIN m \cup {key}
    BY WithDomain
  <2>. HIDE DEF w
  <2>. QED BY <2>1, <2>2, <2>3
<1>2. key \in DOMAIN m /\ m[key] = value
  BY DEF Reaches
<1>. HIDE DEF w
<1>3. DOMAIN w = DOMAIN m /\ \A k \in DOMAIN m : w[k] = m[k]
  BY <1>1, <1>2
<1>4. \A e \in E : /\ e.id = id /\ e.key \in K \cup {key} /\ Typed(e.value)
                   /\ e.key \in DOMAIN w /\ w[e.key] = e.value
  BY <1>3 DEF Reaches
<1>5. \A k \in DOMAIN F : k \in DOMAIN w /\ (w[k] = F[k] \/ \E e \in E : e.key = k)
  BY <1>3 DEF Reaches
<1>6. \A k \in DOMAIN w : k \in DOMAIN F \/ \E e \in E : e.key = k
  BY <1>3 DEF Reaches
<1>7. /\ \A k \in DOMAIN F : k \notin K \cup {key} => w[k] = F[k]
      /\ \A k \in DOMAIN w : k \notin K \cup {key} => k \in DOMAIN F
  BY <1>3 DEF Reaches
<1>8. Reaches(id, F, E, w, K \cup {key})
  BY <1>1, <1>4, <1>5, <1>6, <1>7 DEF Reaches
<1>. QED BY <1>8 DEF w

LEMMA ReachesSkip ==
  ASSUME NEW id, NEW F, NEW E, NEW m, NEW K, Reaches(id, F, E, m, K), NEW key
  PROVE  Reaches(id, F, E, m, K \cup {key})
  BY DEF Reaches

LEMMA ReachesField ==
  ASSUME NEW id, NEW F, NEW E, NEW m, NEW K, Reaches(id, F, E, m, K), NEW key, key \notin K,
         NEW default
  PROVE  (key \in DOMAIN m <=> key \in DOMAIN F) /\ Field(m, key, default) = Field(F, key, default)
  BY DEF Reaches, Field

(* The extremes of finite sets of days.                                    *)
LEMMA MinIs ==
  ASSUME NEW S, S \subseteq Int, NEW x \in S, \A y \in S : x <= y
  PROVE  Min(S) = x
<1>1. \A z \in S : (\A y \in S : z <= y) => z = x
  OBVIOUS
<1>. QED BY <1>1 DEF Min

LEMMA MaxIs ==
  ASSUME NEW S, S \subseteq Int, NEW x \in S, \A y \in S : x >= y
  PROVE  Max(S) = x
<1>1. \A z \in S : (\A y \in S : z >= y) => z = x
  OBVIOUS
<1>. QED BY <1>1 DEF Max

LEMMA DaysAre ==
  ASSUME NEW found, IsFiniteSet(found), found # {}, Days(found) \subseteq Int
  PROVE  /\ Min(Days(found)) \in Days(found) /\ \A y \in Days(found) : Min(Days(found)) <= y
         /\ Max(Days(found)) \in Days(found) /\ \A y \in Days(found) : Max(Days(found)) >= y
<1>. DEFINE h == [f \in found |-> f.day]
<1>1. Days(found) = {h[f] : f \in found}
  BY DEF Days
<1>2. IsFiniteSet(Days(found)) /\ Days(found) # {}
  <2>. HIDE DEF h
  <2>. QED BY <1>1, FiniteImage
<1>3. /\ \E x \in Days(found) : \A y \in Days(found) : x <= y
      /\ \E x \in Days(found) : \A y \in Days(found) : x >= y
  BY <1>2, Extremes
<1>. QED BY <1>3, MinIs, MaxIs

LEMMA ReachesEither ==
  ASSUME NEW id, NEW F, NEW E, NEW m, NEW K, Reaches(id, F, E, m, K), NEW key, key \notin K,
         NEW value, Typed(value), NEW condition,
         ~ condition => key \in DOMAIN F /\ F[key] = value
  PROVE  Reaches(id, F, E \cup Some(condition, Edit(id, key, value)), With(m, key, value), K \cup {key})
<1>1. CASE condition
  <2>1. Some(condition, Edit(id, key, value)) = {Edit(id, key, value)}
    BY <1>1 DEF Some
  <2>. QED BY <2>1, ReachesNext
<1>2. CASE ~ condition
  <2>1. E \cup Some(condition, Edit(id, key, value)) = E
    BY <1>2 DEF Some
  <2>. QED BY <1>2, <2>1, ReachesSame
<1>. QED BY <1>1, <1>2

LEMMA ReachesIf ==
  ASSUME NEW id, NEW F, NEW E, NEW m, NEW K, Reaches(id, F, E, m, K), NEW key, key \notin K,
         NEW value, Typed(value), NEW condition
  PROVE  Reaches(id, F, E \cup Some(condition, Edit(id, key, value)),
                 IF condition THEN With(m, key, value) ELSE m, K \cup {key})
<1>1. CASE condition
  <2>1. Some(condition, Edit(id, key, value)) = {Edit(id, key, value)}
    BY <1>1 DEF Some
  <2>. QED BY <1>1, <2>1, ReachesNext
<1>2. CASE ~ condition
  <2>1. E \cup Some(condition, Edit(id, key, value)) = E
    BY <1>2 DEF Some
  <2>. QED BY <1>2, <2>1, ReachesSkip
<1>. QED BY <1>1, <1>2

(* The fields of an entry of a ledger that parses.                         *)
Entry(F) == IsFunction(F) /\ ValidFields(F) /\ \A k \in DOMAIN F : Typed(F[k])

LEMMA EntryIs ==
  ASSUME NEW F, Entry(F)
  PROVE  /\ "status" \in DOMAIN F /\ F["status"] = <<"text", Status(F)>>
         /\ "evidence" \in DOMAIN F => F["evidence"] = <<"list", OldSessions(F)>>
         /\ "sessions" \in DOMAIN F =>
               F["sessions"] = <<"int", Field(F, "sessions", 0)>> /\ Field(F, "sessions", 0) \in Int
         /\ \A default : \A k \in {"first_seen", "last_seen"} : k \in DOMAIN F =>
               F[k] = <<"date", Field(F, k, default)>> /\ Field(F, k, default) \in Int
         /\ Status(F) \in Statuses
<1>1. \A k \in DOMAIN F : F[k] = <<TypeOf[k], F[k][2]>> /\ (TypeOf[k] \in {"int", "date"} => F[k][2] \in Int)
  BY DEF Entry, ValidFields, Typed
<1>2. /\ TypeOf["status"] = "text" /\ TypeOf["evidence"] = "list" /\ TypeOf["sessions"] = "int"
      /\ TypeOf["first_seen"] = "date" /\ TypeOf["last_seen"] = "date"
  BY DEF TypeOf
<1>3. "status" \in DOMAIN F /\ Status(F) \in Statuses
  BY DEF Entry, ValidFields, Status
<1>. HIDE DEF TypeOf
<1>4. F["status"] = <<"text", Status(F)>>
  BY <1>1, <1>2, <1>3 DEF Status
<1>5. "evidence" \in DOMAIN F => F["evidence"] = <<"list", OldSessions(F)>>
  BY <1>1, <1>2 DEF OldSessions, Field
<1>6. "sessions" \in DOMAIN F =>
               F["sessions"] = <<"int", Field(F, "sessions", 0)>> /\ Field(F, "sessions", 0) \in Int
  BY <1>1, <1>2 DEF Field
<1>7. \A default : \A k \in {"first_seen", "last_seen"} : k \in DOMAIN F =>
               F[k] = <<"date", Field(F, k, default)>> /\ Field(F, k, default) \in Int
  BY <1>1, <1>2 DEF Field
<1>. QED BY <1>3, <1>4, <1>5, <1>6, <1>7

LEMMA TypedIs ==
  ASSUME NEW x
  PROVE  /\ Typed(<<"text", x>>) /\ Typed(<<"list", x>>)
         /\ x \in Int => Typed(<<"int", x>>) /\ Typed(<<"date", x>>)
  BY DEF Typed

(* The abstract ledger uses the same operators.                            *)
LEMMA SameOperators ==
  /\ \A m, key, value : Entries!With(m, key, value) = With(m, key, value)
  /\ \A F, key, default : Entries!Field(F, key, default) = Field(F, key, default)
  /\ \A F : Entries!Status(F) = Status(F)
  /\ \A F, found : Entries!NewSessions(F, found) = NewSessions(F, found)
  /\ \A F : Entries!OldSessions(F) = OldSessions(F)
  /\ \A found : Entries!Days(found) = Days(found)
  /\ \A S : Entries!Min(S) = Min(S) /\ Entries!Max(S) = Max(S)
  /\ \A S : Entries!Cardinality(S) = Cardinality(S)
<1>1. \A m, key, value : Entries!With(m, key, value) = With(m, key, value)
  BY DEF Entries!With, With
<1>2. \A F, key, default : Entries!Field(F, key, default) = Field(F, key, default)
  BY DEF Entries!Field, Field
<1>3. \A F : Entries!Status(F) = Status(F)
  BY DEF Entries!Status, Status
<1>4. \A F : Entries!OldSessions(F) = OldSessions(F)
  BY <1>2 DEF Entries!OldSessions, OldSessions
<1>5. \A F, found : Entries!NewSessions(F, found) = NewSessions(F, found)
  BY <1>4 DEF Entries!NewSessions, NewSessions
<1>6. \A found : Entries!Days(found) = Days(found)
  BY DEF Entries!Days, Days
<1>7. \A S : Entries!Min(S) = Min(S) /\ Entries!Max(S) = Max(S)
  BY DEF Entries!Min, Min, Entries!Max, Max
<1>8. \A S : Entries!Cardinality(S) = Cardinality(S)
  BY DEF Entries!Cardinality, Cardinality
<1>. QED BY <1>1, <1>2, <1>3, <1>4, <1>5, <1>6, <1>7, <1>8

LEMMA SameStatusUpdate ==
  \A current, update : Entries!StatusUpdate(current, update) = StatusUpdate(current, update)
<1>1. Entries!Refused = Refused /\ Entries!Operating = Operating
  BY DEF Entries!Refused, Refused, Entries!Operating, Operating
<1>2. \A v : Entries!OperatingFailure(v) <=> OperatingFailure(v)
  BY DEF Entries!OperatingFailure, OperatingFailure
<1>3. \A current, v : Entries!ValidateTransition(current, v) = ValidateTransition(current, v)
  BY <1>1, <1>2 DEF Entries!ValidateTransition, ValidateTransition
<1>4. \A current, status : Entries!MayRequest(current, status) <=> MayRequest(current, status)
  BY <1>1 DEF Entries!MayRequest, MayRequest
<1>5. \A current, update : Entries!EntryAllowed(current, update) <=> EntryAllowed(current, update)
  BY <1>1, <1>4 DEF Entries!EntryAllowed, EntryAllowed
<1>. QED BY <1>1, <1>3, <1>4, <1>5 DEF Entries!StatusUpdate, StatusUpdate

LEMMA SameValidFields == \A F : Entries!ValidFields(F) <=> ValidFields(F)
<1>1. Entries!Statuses = Statuses /\ Entries!Operating = Operating /\ Entries!TypeOf = TypeOf
  BY DEF Entries!Statuses, Statuses, Entries!Operating, Operating, Entries!TypeOf, TypeOf
<1>. QED BY <1>1 DEF Entries!ValidFields, ValidFields

(* The requested part.                                                     *)
RequestKeys == {"status", "wired_check", "artifact_ids"}

LEMMA RequestReaches ==
  ASSUME NEW id, NEW F, Entry(F), NEW u
  PROVE  /\ Reaches(id, F, RequestSet(id, F, u), Entries!Requested(F, u), RequestKeys)
         /\ LET r == Entries!Requested(F, u) IN
            /\ "status" \in DOMAIN r /\ r["status"] = <<"text", StatusUpdate(Status(F), u)>>
            /\ u.kind = "entry" /\ u.wired_check # "" =>
                  "wired_check" \in DOMAIN r /\ r["wired_check"] = <<"text", u.wired_check>>
            /\ u.kind = "entry" /\ u.artifacts # {} =>
                  "artifact_ids" \in DOMAIN r /\ r["artifact_ids"] = <<"list", u.artifacts>>
<1>. DEFINE status == <<"text", StatusUpdate(Status(F), u)>>
            wired == <<"text", u.wired_check>>
            list == <<"list", u.artifacts>>
            hasWired == u.kind = "entry" /\ u.wired_check # ""
            hasList == u.kind = "entry" /\ u.artifacts # {}
            m1 == With(F, "status", status)
            m2 == IF hasWired THEN With(m1, "wired_check", wired) ELSE m1
            m3 == IF hasList THEN With(m2, "artifact_ids", list) ELSE m2
            moves == StatusUpdate(Status(F), u) # Status(F)
            E1 == {} \cup Some(moves, Edit(id, "status", status))
            E2 == E1 \cup Some(hasWired, Edit(id, "wired_check", wired))
            E3 == E2 \cup Some(hasList, Edit(id, "artifact_ids", list))
<1>1. Entries!Requested(F, u) = m3
  BY SameOperators, SameStatusUpdate DEF Entries!Requested
<1>2. RequestSet(id, F, u) = E3
  BY DEF RequestSet
<1>3. Reaches(id, F, {}, F, {})
  BY DEF Reaches, Entry
<1>4. Typed(status) /\ Typed(wired) /\ Typed(list)
  BY TypedIs
<1>5. ~ moves => "status" \in DOMAIN F /\ F["status"] = status
  BY EntryIs
<1>. HIDE DEF status, wired, list, hasWired, hasList, moves
<1>6. Reaches(id, F, E1, m1, {} \cup {"status"})
  <2>1. "status" \notin {}
    OBVIOUS
  <2>. QED BY <1>3, <1>4, <1>5, <2>1, ReachesEither
<1>. HIDE DEF E1
<1>7. Reaches(id, F, E2, m2, ({} \cup {"status"}) \cup {"wired_check"})
  <2>. HIDE DEF m1
  <2>. QED BY <1>4, <1>6, ReachesIf
<1>. HIDE DEF E2
<1>8. Reaches(id, F, E3, m3, (({} \cup {"status"}) \cup {"wired_check"}) \cup {"artifact_ids"})
  <2>. HIDE DEF m2
  <2>. QED BY <1>4, <1>7, ReachesIf
<1>9. RequestKeys = (({} \cup {"status"}) \cup {"wired_check"}) \cup {"artifact_ids"}
  BY DEF RequestKeys
<1>10. "status" \in DOMAIN m1 /\ m1["status"] = status
  <2>1. m1["status"] = status
    BY WithAt
  <2>2. DOMAIN m1 = DOMAIN F \cup {"status"}
    BY WithDomain
  <2>. HIDE DEF m1
  <2>. QED BY <2>1, <2>2
<1>11. /\ "status" \in DOMAIN m2 /\ m2["status"] = status
       /\ hasWired => "wired_check" \in DOMAIN m2 /\ m2["wired_check"] = wired
  <2>. HIDE DEF m1
  <2>1. CASE hasWired
    <3>. DEFINE w == With(m1, "wired_check", wired)
    <3>1. w["wired_check"] = wired
      BY WithAt
    <3>2. DOMAIN w = DOMAIN m1 \cup {"wired_check"}
      BY WithDomain
    <3>3. w["status"] = m1["status"]
      BY <1>10, WithElse
    <3>4. m2 = w
      BY <2>1
    <3>. HIDE DEF w, m2
    <3>. QED BY <1>10, <3>1, <3>2, <3>3, <3>4
  <2>. QED BY <1>10, <2>1
<1>12. /\ "status" \in DOMAIN m3 /\ m3["status"] = status
       /\ hasWired => "wired_check" \in DOMAIN m3 /\ m3["wired_check"] = wired
       /\ hasList => "artifact_ids" \in DOMAIN m3 /\ m3["artifact_ids"] = list
  <2>. HIDE DEF m2
  <2>1. CASE hasList
    <3>. DEFINE w == With(m2, "artifact_ids", list)
    <3>1. w["artifact_ids"] = list
      BY WithAt
    <3>2. DOMAIN w = DOMAIN m2 \cup {"artifact_ids"}
      BY WithDomain
    <3>3. w["status"] = m2["status"]
      BY <1>11, WithElse
    <3>4. hasWired => w["wired_check"] = m2["wired_check"]
      BY <1>11, WithElse
    <3>5. m3 = w
      BY <2>1
    <3>. HIDE DEF w, m3
    <3>. QED BY <1>11, <3>1, <3>2, <3>3, <3>4, <3>5
  <2>. QED BY <1>11, <2>1
<1>. HIDE DEF m3, E3
<1>. QED BY <1>1, <1>2, <1>8, <1>9, <1>12 DEF status, wired, list, hasWired, hasList

(* What a call brings for the entry id.                                    *)
CallOn(c, id) ==
    /\ c.updates[id].kind \in {"checks", "status", "entry"}
    /\ IsFiniteSet(c.found[id]) /\ Days(c.found[id]) \subseteq Int
    /\ c.day \in Int \cup {NoDay}

FindingKeys == {"evidence", "sessions", "first_seen", "last_seen"}
FieldKeys == RequestKeys \cup FindingKeys

Goal(F, id, c) == Entries!Updated(F, c.updates[id], c.found[id], c.day)

LEMMA NewAreFinite ==
  ASSUME NEW F, NEW found, IsFiniteSet(found)
  PROVE  Cardinality(NewSessions(F, found)) \in Nat
<1>. DEFINE h == [f \in found |-> f.session]
            S == {h[f] : f \in found}
<1>1. NewSessions(F, found) \subseteq S
  BY DEF NewSessions
<1>2. IsFiniteSet(S)
  <2>. HIDE DEF h
  <2>. QED BY FiniteImage
<1>. HIDE DEF S
<1>3. IsFiniteSet(NewSessions(F, found))
  BY <1>1, <1>2, FS_Subset
<1>. QED BY <1>3, FS_CardinalityType

(* The days an entry was seen first and last, with the days of a call.     *)
LEMMA FirstIs ==
  ASSUME NEW F, Entry(F), NEW found, IsFiniteSet(found), found # {}, Days(found) \subseteq Int,
         NoDay \notin Int,
         NEW first, first = Min(Days(found) \cup ({Field(F, "first_seen", NoDay)} \ {NoDay}))
  PROVE  /\ first \in Int /\ Min(Days(found)) \in Int /\ first <= Min(Days(found))
         /\ "first_seen" \notin DOMAIN F => first = Min(Days(found))
         /\ "first_seen" \in DOMAIN F =>
              first = IF Min(Days(found)) < Field(F, "first_seen", 0)
                      THEN Min(Days(found)) ELSE Field(F, "first_seen", 0)
<1>. DEFINE least == Min(Days(found))
            seen == Field(F, "first_seen", 0)
            S == Days(found) \cup ({Field(F, "first_seen", NoDay)} \ {NoDay})
<1>1. least \in Days(found) /\ \A y \in Days(found) : least <= y
  BY DaysAre
<1>. HIDE DEF least
<1>2. CASE "first_seen" \notin DOMAIN F
  <2>1. S = Days(found)
    BY <1>2 DEF Field
  <2>. QED BY <1>1, <1>2, <2>1 DEF least
<1>3. CASE "first_seen" \in DOMAIN F
  <2>1. seen \in Int /\ Field(F, "first_seen", NoDay) = seen
    <3>1. Field(F, "first_seen", NoDay) = seen
      BY <1>3 DEF Field
    <3>2. seen \in Int
      BY <1>3, EntryIs
    <3>. QED BY <3>1, <3>2
  <2>. HIDE DEF seen
  <2>2. S = Days(found) \cup {seen}
    BY <2>1
  <2>. DEFINE x == IF least < seen THEN least ELSE seen
  <2>3. x \in S /\ S \subseteq Int /\ \A y \in S : x <= y
    BY <1>1, <2>1, <2>2
  <2>. HIDE DEF S, x
  <2>4. Min(S) = x
    BY <2>3, MinIs
  <2>5. first = x
    BY <2>4 DEF S
  <2>. QED BY <1>1, <1>3, <2>1, <2>5 DEF x, seen, least
<1>. QED BY <1>2, <1>3

LEMMA LastIs ==
  ASSUME NEW F, Entry(F), NEW found, IsFiniteSet(found), found # {}, Days(found) \subseteq Int,
         NoDay \notin Int, NEW day, day \in Int \cup {NoDay},
         NEW shown, shown = IF day = NoDay THEN Max(Days(found)) ELSE day,
         NEW last, last = Max(({Field(F, "last_seen", NoDay)} \ {NoDay})
                              \cup (IF day = NoDay THEN {Max(Days(found))} ELSE {day}))
  PROVE  /\ last \in Int /\ shown \in Int /\ last >= shown
         /\ "last_seen" \notin DOMAIN F => last = shown
         /\ "last_seen" \in DOMAIN F =>
              last = IF shown > Field(F, "last_seen", 0) THEN shown ELSE Field(F, "last_seen", 0)
<1>. DEFINE seen == Field(F, "last_seen", 0)
            S == ({Field(F, "last_seen", NoDay)} \ {NoDay}) \cup {shown}
<1>1. shown \in Int
  <2>1. Max(Days(found)) \in Days(found)
    BY DaysAre
  <2>. QED BY <2>1
<1>2. last = Max(S)
  OBVIOUS
<1>3. CASE "last_seen" \notin DOMAIN F
  <2>1. S = {shown}
    BY <1>3 DEF Field
  <2>2. Max(S) = shown
    BY <1>1, <2>1, MaxIs
  <2>. QED BY <1>1, <1>2, <1>3, <2>2
<1>4. CASE "last_seen" \in DOMAIN F
  <2>1. seen \in Int /\ Field(F, "last_seen", NoDay) = seen
    <3>1. Field(F, "last_seen", NoDay) = seen
      BY <1>4 DEF Field
    <3>2. seen \in Int
      BY <1>4, EntryIs
    <3>. QED BY <3>1, <3>2
  <2>. HIDE DEF seen
  <2>2. S = {seen, shown}
    BY <2>1
  <2>. DEFINE x == IF shown > seen THEN shown ELSE seen
  <2>3. x \in S /\ S \subseteq Int /\ \A y \in S : x >= y
    BY <1>1, <2>1, <2>2
  <2>. HIDE DEF S, x
  <2>4. Max(S) = x
    BY <2>3, MaxIs
  <2>. QED BY <1>1, <1>2, <1>4, <2>1, <2>4 DEF x, seen
<1>. QED BY <1>3, <1>4

(* One more field given: the others are as they were.                      *)
Given(m, key, value, w) ==
    /\ key \in DOMAIN w /\ w[key] = value
    /\ DOMAIN w = DOMAIN m \cup {key}
    /\ \A k \in DOMAIN m : k # key => k \in DOMAIN w /\ w[k] = m[k]

LEMMA WithKeeps ==
  ASSUME NEW m, NEW key, NEW value
  PROVE  Given(m, key, value, With(m, key, value))
<1>1. With(m, key, value)[key] = value
  BY WithAt
<1>2. \A k \in DOMAIN m : k # key => With(m, key, value)[k] = m[k]
  BY WithElse
<1>3. DOMAIN With(m, key, value) = DOMAIN m \cup {key}
  BY WithDomain
<1>. QED BY <1>1, <1>2, <1>3 DEF Given

(* What the findings of a call make of the fields r, which have F's history. *)
Found(F, r, found, day, g) ==
    /\ \A k \in DOMAIN r : k \in RequestKeys => k \in DOMAIN g /\ g[k] = r[k]
    /\ "evidence" \in DOMAIN g
    /\ g["evidence"] = <<"list", OldSessions(F) \cup NewSessions(F, found)>>
    /\ "sessions" \in DOMAIN g => \E n \in Int : g["sessions"] = <<"int", n>>
    /\ "first_seen" \in DOMAIN g
    /\ \E n \in Int : g["first_seen"] = <<"date", n>> /\ n <= Min(Days(found))
    /\ "last_seen" \in DOMAIN g
    /\ \E n \in Int : /\ g["last_seen"] = <<"date", n>>
                      /\ n >= IF day = NoDay THEN Max(Days(found)) ELSE day

LEMMA FindingsReach ==
  ASSUME NEW id, NEW F, Entry(F), NEW E, NEW r, Reaches(id, F, E, r, RequestKeys),
         NEW found, IsFiniteSet(found), found # {}, Days(found) \subseteq Int, NoDay \notin Int,
         NEW day, day \in Int \cup {NoDay},
         NEW g, g = Entries!Widened(Entries!Counted(r, found), found, day)
  PROVE  /\ Reaches(id, F, E \cup FindingSet(id, F, found, day), g, FieldKeys)
         /\ Found(F, r, found, day, g)
<1>. DEFINE new == NewSessions(F, found)
            least == Min(Days(found))
            shown == IF day = NoDay THEN Max(Days(found)) ELSE day
            first == Min(Days(found) \cup ({Field(F, "first_seen", NoDay)} \ {NoDay}))
            last == Max(({Field(F, "last_seen", NoDay)} \ {NoDay})
                              \cup (IF day = NoDay THEN {Max(Days(found))} ELSE {day}))
            v4 == <<"list", OldSessions(F) \cup new>>
            v5 == <<"int", Field(F, "sessions", 0) + Cardinality(new)>>
            v6 == <<"date", first>>
            v7 == <<"date", last>>
            c4 == new # {} \/ ~ "evidence" \in DOMAIN F
            c5 == new # {} \/ "sessions" \in DOMAIN F
            c6 == ~ "first_seen" \in DOMAIN F \/ least < Field(F, "first_seen", 0)
            c7 == ~ "last_seen" \in DOMAIN F \/ shown > Field(F, "last_seen", 0)
            m4 == With(r, "evidence", v4)
            m5 == IF c5 THEN With(m4, "sessions", v5) ELSE m4
            m6 == With(m5, "first_seen", v6)
            m7 == With(m6, "last_seen", v7)
            E4 == E \cup Some(c4, Edit(id, "evidence", v4))
            E5 == E4 \cup Some(c5, Edit(id, "sessions", v5))
            E6 == E5 \cup Some(c6, Edit(id, "first_seen", v6))
            E7 == E6 \cup Some(c7, Edit(id, "last_seen", v7))
            K4 == RequestKeys \cup {"evidence"}
            K5 == K4 \cup {"sessions"}
            K6 == K5 \cup {"first_seen"}
            K7 == K6 \cup {"last_seen"}
<1>1. /\ "evidence" \notin RequestKeys /\ "sessions" \notin K4 /\ "first_seen" \notin K5
      /\ "last_seen" \notin K6 /\ FieldKeys = K7
      /\ "sessions" \notin RequestKeys
  BY DEF RequestKeys, FindingKeys, FieldKeys
<1>2. /\ first \in Int /\ least \in Int /\ first <= least
      /\ c6 => first = least
      /\ ~ c6 => "first_seen" \in DOMAIN F /\ first = Field(F, "first_seen", 0)
  <2>1. /\ first \in Int /\ least \in Int /\ first <= least
        /\ "first_seen" \notin DOMAIN F => first = least
        /\ "first_seen" \in DOMAIN F =>
              first = IF least < Field(F, "first_seen", 0) THEN least ELSE Field(F, "first_seen", 0)
    BY FirstIs
  <2>. HIDE DEF first, least
  <2>. QED BY <2>1
<1>3. /\ last \in Int /\ shown \in Int /\ last >= shown
      /\ c7 => last = shown
      /\ ~ c7 => "last_seen" \in DOMAIN F /\ last = Field(F, "last_seen", 0)
  <2>1. /\ last \in Int /\ shown \in Int /\ last >= shown
        /\ "last_seen" \notin DOMAIN F => last = shown
        /\ "last_seen" \in DOMAIN F =>
              last = IF shown > Field(F, "last_seen", 0) THEN shown ELSE Field(F, "last_seen", 0)
    BY LastIs
  <2>. HIDE DEF last, shown
  <2>. QED BY <2>1
<1>4. Cardinality(new) \in Nat /\ (new = {} => Cardinality(new) = 0)
  BY NewAreFinite, FS_EmptySet
<1>5. Field(F, "sessions", 0) \in Int
  <2>1. CASE "sessions" \in DOMAIN F
    BY <2>1, EntryIs
  <2>. QED BY <2>1 DEF Field
<1>6. Typed(v4) /\ Typed(v5) /\ Typed(v6) /\ Typed(v7)
  <2>. HIDE DEF new, first, last
  <2>1. Field(F, "sessions", 0) + Cardinality(new) \in Int
    BY <1>4, <1>5
  <2>. QED BY <1>2, <1>3, <2>1, TypedIs
<1>7. ~ c4 => "evidence" \in DOMAIN F /\ F["evidence"] = v4
  BY EntryIs
<1>8. ~ c6 => "first_seen" \in DOMAIN F /\ F["first_seen"] = v6
  <2>. HIDE DEF first, least
  <2>. QED BY <1>2, EntryIs
<1>9. ~ c7 => "last_seen" \in DOMAIN F /\ F["last_seen"] = v7
  <2>. HIDE DEF last, shown
  <2>. QED BY <1>3, EntryIs
<1>. HIDE DEF new, least, shown, first, last
<1>10. Entries!Counted(r, found) = m5
  <2>1. NewSessions(r, found) = new /\ OldSessions(r) = OldSessions(F)
    BY <1>1, ReachesField DEF NewSessions, OldSessions, new
  <2>2. Field(r, "sessions", 0) = Field(F, "sessions", 0) /\ ("sessions" \in DOMAIN r <=> "sessions" \in DOMAIN F)
    BY <1>1, ReachesField
  <2>. QED BY <2>1, <2>2, SameOperators DEF Entries!Counted
<1>. HIDE DEF v4, v5, v6, v7, c4, c5, c6, c7
<1>11. Reaches(id, F, E4, m4, K4)
  BY <1>1, <1>6, <1>7, ReachesEither
<1>12. Reaches(id, F, E5, m5, K5)
  <2>. HIDE DEF E4, m4, K4
  <2>. QED BY <1>1, <1>6, <1>11, ReachesIf
<1>13. Reaches(id, F, E6, m6, K6)
  <2>. HIDE DEF E5, m5, K5
  <2>. QED BY <1>1, <1>6, <1>8, <1>12, ReachesEither
<1>14. Reaches(id, F, E7, m7, K7)
  <2>. HIDE DEF E6, m6, K6
  <2>. QED BY <1>1, <1>6, <1>9, <1>13, ReachesEither
<1>15. g = m7
  <2>1. "last_seen" \notin K5
    BY DEF K5, K4, RequestKeys
  <2>2. /\ Field(m5, "first_seen", NoDay) = Field(F, "first_seen", NoDay)
        /\ Field(m5, "last_seen", NoDay) = Field(F, "last_seen", NoDay)
    <3>. HIDE DEF m5, K5, E5
    <3>. QED BY <1>1, <1>12, <2>1, ReachesField
  <2>. HIDE DEF m5
  <2>3. g = Entries!Widened(m5, found, day)
    BY <1>10
  <2>. QED BY <2>2, <2>3, SameOperators DEF Entries!Widened, v6, v7, first, last
<1>16. FindingSet(id, F, found, day)
        = Some(c4, Edit(id, "evidence", v4)) \cup Some(c5, Edit(id, "sessions", v5))
          \cup Some(c6, Edit(id, "first_seen", v6)) \cup Some(c7, Edit(id, "last_seen", v7))
  <2>1. Some(c6, Edit(id, "first_seen", v6)) = Some(c6, Edit(id, "first_seen", <<"date", least>>))
    <3>. QED BY <1>2 DEF Some, v6
  <2>2. Some(c7, Edit(id, "last_seen", v7)) = Some(c7, Edit(id, "last_seen", <<"date", shown>>))
    <3>. QED BY <1>3 DEF Some, v7
  <2>. QED BY <2>1, <2>2 DEF FindingSet, v4, v5, c4, c5, c6, c7, new, least, shown
<1>17. E7 = E \cup FindingSet(id, F, found, day)
  BY <1>16
<1>18. Reaches(id, F, E \cup FindingSet(id, F, found, day), g, FieldKeys)
  <2>. HIDE DEF E7, m7, K7
  <2>. QED BY <1>1, <1>14, <1>15, <1>17
<1>19. /\ "evidence" \in DOMAIN m4 /\ m4["evidence"] = v4
       /\ DOMAIN m4 = DOMAIN r \cup {"evidence"}
       /\ \A k \in DOMAIN r : k # "evidence" => k \in DOMAIN m4 /\ m4[k] = r[k]
  <2>1. Given(r, "evidence", v4, m4)
    BY WithKeeps
  <2>. HIDE DEF m4
  <2>. QED BY <2>1 DEF Given
<1>. HIDE DEF m4
<1>20. /\ "sessions" \in DOMAIN m5 => m5["sessions"] = v5
       /\ \A k \in DOMAIN m4 : k # "sessions" => k \in DOMAIN m5 /\ m5[k] = m4[k]
  <2>1. CASE c5
    <3>1. Given(m4, "sessions", v5, m5)
      BY <2>1, WithKeeps
    <3>. HIDE DEF m5
    <3>. QED BY <3>1 DEF Given
  <2>2. CASE ~ c5
    <3>1. m5 = m4
      BY <2>2
    <3>2. "sessions" \notin DOMAIN r
      BY <1>1, <2>2, ReachesField DEF c5
    <3>. HIDE DEF m5
    <3>. QED BY <1>19, <3>1, <3>2
  <2>. QED BY <2>1, <2>2
<1>. HIDE DEF m5
<1>21. /\ "first_seen" \in DOMAIN m6 /\ m6["first_seen"] = v6
       /\ DOMAIN m6 = DOMAIN m5 \cup {"first_seen"}
       /\ \A k \in DOMAIN m5 : k # "first_seen" => k \in DOMAIN m6 /\ m6[k] = m5[k]
  <2>1. Given(m5, "first_seen", v6, m6)
    BY WithKeeps
  <2>. HIDE DEF m6
  <2>. QED BY <2>1 DEF Given
<1>. HIDE DEF m6
<1>22. /\ "last_seen" \in DOMAIN g /\ g["last_seen"] = v7
       /\ DOMAIN g = DOMAIN m6 \cup {"last_seen"}
       /\ \A k \in DOMAIN m6 : k # "last_seen" => k \in DOMAIN g /\ g[k] = m6[k]
  <2>1. Given(m6, "last_seen", v7, g)
    BY <1>15, WithKeeps
  <2>. QED BY <2>1 DEF Given
<1>23. \A k \in DOMAIN r : k \in RequestKeys => k \in DOMAIN g /\ g[k] = r[k]
  <2>1. \A k \in RequestKeys : k # "evidence" /\ k # "sessions" /\ k # "first_seen" /\ k # "last_seen"
    BY DEF RequestKeys
  <2>. QED BY <1>19, <1>20, <1>21, <1>22, <2>1
<1>24. "evidence" \in DOMAIN g /\ g["evidence"] = v4
  BY <1>19, <1>20, <1>21, <1>22
<1>25. "first_seen" \in DOMAIN g /\ g["first_seen"] = v6
  BY <1>21, <1>22
<1>26. ASSUME "sessions" \in DOMAIN g PROVE \E n \in Int : g["sessions"] = <<"int", n>>
  <2>1. "sessions" \in DOMAIN m5
    BY <1>21, <1>22, <1>26
  <2>2. g["sessions"] = v5
    BY <1>20, <1>21, <1>22, <2>1
  <2>3. Field(F, "sessions", 0) + Cardinality(new) \in Int
    BY <1>4, <1>5
  <2>. QED BY <2>2, <2>3 DEF v5
<1>27. \E n \in Int : g["first_seen"] = <<"date", n>> /\ n <= Min(Days(found))
  BY <1>2, <1>25 DEF v6, least
<1>28. \E n \in Int : /\ g["last_seen"] = <<"date", n>>
                      /\ n >= IF day = NoDay THEN Max(Days(found)) ELSE day
  BY <1>3, <1>22 DEF v7, shown
<1>. QED BY <1>18, <1>22, <1>23, <1>24, <1>25, <1>26, <1>27, <1>28 DEF v4, new, Found

(* The edits of an entry bring it to what the abstract ledger makes of it. *)
LEMMA GoalReached ==
  ASSUME NEW id, NEW F, Entry(F), NEW c, CallOn(c, id)
  PROVE  Reaches(id, F, EditSet(id, F, c), Goal(F, id, c), FieldKeys)
<1>. DEFINE u == c.updates[id]
            found == c.found[id]
            r == Entries!Requested(F, u)
            E == RequestSet(id, F, u)
            g == Entries!Widened(Entries!Counted(r, found), found, c.day)
<1>1. Reaches(id, F, E, r, RequestKeys)
  BY RequestReaches
<1>2. Goal(F, id, c) = IF found = {} THEN r ELSE g
  BY DEF Goal, Entries!Updated
<1>3. EditSet(id, F, c) = IF found = {} THEN E ELSE E \cup FindingSet(id, F, found, c.day)
  BY DEF EditSet
<1>. HIDE DEF E, r
<1>4. CASE found = {}
  <2>1. Reaches(id, F, E, r, FieldKeys)
    BY <1>1 DEF Reaches, FieldKeys
  <2>. QED BY <1>2, <1>3, <1>4, <2>1
<1>5. CASE found # {}
  <2>1. /\ IsFiniteSet(found) /\ Days(found) \subseteq Int /\ c.day \in Int \cup {NoDay}
        /\ NoDay \notin Int
    BY LedgerAssumption DEF CallOn
  <2>. HIDE DEF found, g
  <2>2. Reaches(id, F, E \cup FindingSet(id, F, found, c.day), g, FieldKeys)
    BY <1>1, <1>5, <2>1, FindingsReach DEF g
  <2>. QED BY <1>2, <1>3, <1>5, <2>2
<1>. QED BY <1>4, <1>5

(* An update that is not refused asks for nothing more when it is repeated. *)
LEMMA StatusStays ==
  ASSUME NEW current \in Statuses, NEW u, u.kind \in {"checks", "status", "entry"},
         StatusUpdate(current, u) # Refused
  PROVE  StatusUpdate(StatusUpdate(current, u), u) = StatusUpdate(current, u)
<1>1. CASE u.kind = "checks"
  <2>. DEFINE v == u.checks
              t == ValidateTransition(current, v)
  <2>1. StatusUpdate(current, u) = t /\ StatusUpdate(t, u) = ValidateTransition(t, v)
    BY <1>1 DEF StatusUpdate
  <2>2. ~ "insufficient" \in {v.symptom, v.outcome}
    BY <2>1 DEF ValidateTransition
  <2>3. CASE current \notin Operating
    BY <2>1, <2>2, <2>3 DEF ValidateTransition
  <2>4. CASE current \in Operating /\ OperatingFailure(v)
    BY <2>1, <2>2, <2>4 DEF ValidateTransition, Operating
  <2>5. CASE current \in Operating /\ ~ OperatingFailure(v)
    BY <2>1, <2>2, <2>5 DEF ValidateTransition, Operating
  <2>. QED BY <2>3, <2>4, <2>5
<1>2. CASE u.kind = "status"
  BY <1>2 DEF StatusUpdate, MayRequest
<1>3. CASE u.kind = "entry"
  <2>1. StatusUpdate(current, u) = u.status /\ EntryAllowed(current, u)
    BY <1>3 DEF StatusUpdate
  <2>2. EntryAllowed(u.status, u)
    BY <2>1 DEF EntryAllowed, MayRequest
  <2>. QED BY <1>3, <2>1, <2>2 DEF StatusUpdate
<1>. QED BY <1>1, <1>2, <1>3

(* An entry that is where a call wants it needs no edit.                   *)
LEMMA GoalStays ==
  ASSUME NEW id, NEW F, Entry(F), NEW c, CallOn(c, id),
         StatusUpdate(Status(F), c.updates[id]) # Refused
  PROVE  \A e \in EditSet(id, Goal(F, id, c), c) :
            e.key \in DOMAIN Goal(F, id, c) /\ Goal(F, id, c)[e.key] = e.value
<1>. DEFINE u == c.updates[id]
            found == c.found[id]
            r == Entries!Requested(F, u)
            g == Goal(F, id, c)
<1>1. /\ "status" \in DOMAIN r /\ r["status"] = <<"text", StatusUpdate(Status(F), u)>>
      /\ u.kind = "entry" /\ u.wired_check # "" =>
            "wired_check" \in DOMAIN r /\ r["wired_check"] = <<"text", u.wired_check>>
      /\ u.kind = "entry" /\ u.artifacts # {} =>
            "artifact_ids" \in DOMAIN r /\ r["artifact_ids"] = <<"list", u.artifacts>>
  BY RequestReaches
<1>2. StatusUpdate(StatusUpdate(Status(F), u), u) = StatusUpdate(Status(F), u)
  <2>1. Status(F) \in Statuses
    BY EntryIs
  <2>. QED BY <2>1, StatusStays DEF CallOn
<1>3. /\ IsFiniteSet(found) /\ Days(found) \subseteq Int /\ c.day \in Int \cup {NoDay}
      /\ NoDay \notin Int
  BY LedgerAssumption DEF CallOn
<1>4. g = IF found = {} THEN r ELSE Entries!Widened(Entries!Counted(r, found), found, c.day)
  BY DEF Goal, Entries!Updated
<1>. DEFINE last == IF c.day = NoDay THEN Max(Days(found)) ELSE c.day
            old == OldSessions(F) \cup NewSessions(F, found)
<1>5. /\ \A k \in DOMAIN r : k \in RequestKeys => k \in DOMAIN g /\ g[k] = r[k]
      /\ found # {} =>
         /\ "evidence" \in DOMAIN g /\ g["evidence"] = <<"list", old>>
         /\ "sessions" \in DOMAIN g => \E n \in Int : g["sessions"] = <<"int", n>>
         /\ "first_seen" \in DOMAIN g
         /\ \E n \in Int : g["first_seen"] = <<"date", n>> /\ n <= Min(Days(found))
         /\ "last_seen" \in DOMAIN g
         /\ \E n \in Int : g["last_seen"] = <<"date", n>> /\ n >= last
  <2>1. CASE found = {}
    BY <1>4, <2>1
  <2>2. CASE found # {}
    <3>1. Reaches(id, F, RequestSet(id, F, u), r, RequestKeys)
      BY RequestReaches
    <3>2. g = Entries!Widened(Entries!Counted(r, found), found, c.day)
      BY <1>4, <2>2
    <3>. HIDE DEF g, r, found
    <3>3. Found(F, r, found, c.day, g)
      BY <1>3, <2>2, <3>1, <3>2, FindingsReach
    <3>. QED BY <3>3 DEF Found, last
  <2>. QED BY <2>1, <2>2
<1>. HIDE DEF g, r, found, u, last
<1>6. Status(g) = StatusUpdate(Status(F), u)
  <2>1. "status" \in RequestKeys
    BY DEF RequestKeys
  <2>2. g["status"] = <<"text", StatusUpdate(Status(F), u)>>
    BY <1>1, <1>5, <2>1
  <2>. QED BY <2>2 DEF Status
<1>7. \A e \in RequestSet(id, g, u) : e.key \in DOMAIN g /\ g[e.key] = e.value
  <2>. SUFFICES ASSUME NEW e \in RequestSet(id, g, u) PROVE e.key \in DOMAIN g /\ g[e.key] = e.value
    OBVIOUS
  <2>1. Some(StatusUpdate(Status(g), u) # Status(g), Edit(id, "status", <<"text", StatusUpdate(Status(g), u)>>)) = {}
    BY <1>2, <1>6 DEF Some
  <2>2. \/ e = Edit(id, "wired_check", <<"text", u.wired_check>>) /\ u.kind = "entry" /\ u.wired_check # ""
        \/ e = Edit(id, "artifact_ids", <<"list", u.artifacts>>) /\ u.kind = "entry" /\ u.artifacts # {}
    BY <2>1 DEF RequestSet, Some
  <2>3. CASE e = Edit(id, "wired_check", <<"text", u.wired_check>>) /\ u.kind = "entry" /\ u.wired_check # ""
    BY <1>1, <1>5, <2>3 DEF Edit, RequestKeys
  <2>4. CASE e = Edit(id, "artifact_ids", <<"list", u.artifacts>>) /\ u.kind = "entry" /\ u.artifacts # {}
    BY <1>1, <1>5, <2>4 DEF Edit, RequestKeys
  <2>. QED BY <2>2, <2>3, <2>4
<1>8. ASSUME found # {}
      PROVE  \A e \in FindingSet(id, g, found, c.day) : e.key \in DOMAIN g /\ g[e.key] = e.value
  <2>1. NewSessions(g, found) = {}
    <3>1. OldSessions(g) = old
      BY <1>5, <1>8 DEF OldSessions, Field
    <3>2. {f.session : f \in found} \subseteq old
      BY DEF NewSessions
    <3>. QED BY <3>1, <3>2 DEF NewSessions
  <2>2. Min(Days(found)) \in Int /\ last \in Int
    BY <1>3, <1>8, DaysAre DEF last
  <2>3. ~ Min(Days(found)) < Field(g, "first_seen", 0) /\ "first_seen" \in DOMAIN g
    BY <1>5, <1>8, <2>2 DEF Field
  <2>4. ~ last > Field(g, "last_seen", 0) /\ "last_seen" \in DOMAIN g
    BY <1>5, <1>8, <2>2 DEF Field
  <2>5. "evidence" \in DOMAIN g
    BY <1>5, <1>8
  <2>6. FindingSet(id, g, found, c.day)
          = Some("sessions" \in DOMAIN g, Edit(id, "sessions", <<"int", Field(g, "sessions", 0) + 0>>))
    BY <2>1, <2>3, <2>4, <2>5, FS_EmptySet DEF FindingSet, Some, last
  <2>7. "sessions" \in DOMAIN g => g["sessions"] = <<"int", Field(g, "sessions", 0) + 0>>
    BY <1>5, <1>8 DEF Field
  <2>. QED BY <2>6, <2>7 DEF Some, Edit
<1>9. EditSet(id, g, c) = RequestSet(id, g, u) \cup (IF found = {} THEN {} ELSE FindingSet(id, g, found, c.day))
  BY DEF EditSet, u, found
<1>10. \A e \in EditSet(id, g, c) : e.key \in DOMAIN g /\ g[e.key] = e.value
  BY <1>7, <1>8, <1>9
<1>. QED BY <1>10 DEF g

(* f[k] is the first k sequences of seqs, one after the other.             *)
Joins(f, seqs, k) == f = [i \in 1..k |-> IF i = 1 THEN seqs[i] ELSE f[i-1] \o seqs[i]]

(* FlattenSeq joins its sequences from the first to the last.              *)
LEMMA Flattened ==
  ASSUME NEW n \in Nat, n # 0, NEW seqs, Len(seqs) = n
  PROVE  \E f : Joins(f, seqs, n) /\ FlattenSeq(seqs) = f[n]
<1>. DEFINE J == {m \in Nat : \E f : Joins(f, seqs, m)}
<1>1. 0 \in J
  <2>. DEFINE none == [i \in 1..0 |-> <<>>]
  <2>1. none = [i \in 1..0 |-> IF i = 1 THEN seqs[i] ELSE none[i-1] \o seqs[i]]
    <3>1. \A i \in 1..0 : FALSE
      OBVIOUS
    <3>. QED BY <3>1
  <2>. HIDE DEF none
  <2>. QED BY <2>1 DEF Joins
<1>2. ASSUME NEW m \in Nat, m \in J PROVE m + 1 \in J
  <2>1. PICK f : Joins(f, seqs, m)
    BY <1>2
  <2>. DEFINE next == [i \in 1..m + 1 |-> IF i = 1 THEN seqs[i] ELSE f[i-1] \o seqs[i]]
  <2>2. \A i \in 1..m : next[i] = f[i]
    <3>1. \A i \in 1..m : i \in 1..m + 1
      OBVIOUS
    <3>2. \A i \in 1..m : f[i] = IF i = 1 THEN seqs[i] ELSE f[i-1] \o seqs[i]
      BY <2>1 DEF Joins
    <3>3. \A i \in 1..m + 1 : next[i] = IF i = 1 THEN seqs[i] ELSE f[i-1] \o seqs[i]
      OBVIOUS
    <3>. HIDE DEF next
    <3>. QED BY <3>1, <3>2, <3>3, Zenon
  <2>3. \A i \in 1..m + 1 : i # 1 => i - 1 \in 1..m
    OBVIOUS
  <2>4. next = [i \in 1..m + 1 |-> IF i = 1 THEN seqs[i] ELSE next[i-1] \o seqs[i]]
    BY <2>2, <2>3
  <2>. HIDE DEF next
  <2>5. Joins(next, seqs, m + 1)
    BY <2>4 DEF Joins
  <2>. QED BY <2>5
<1>3. n \in J
  <2>. HIDE DEF J
  <2>. QED BY <1>1, <1>2, EveryNumber
<1>4. PICK f : Joins(f, seqs, n)
  BY <1>3
<1>. DEFINE flat == CHOOSE g : g = [i \in 1..Len(seqs) |-> IF i = 1 THEN seqs[i] ELSE g[i-1] \o seqs[i]]
<1>5. FlattenSeq(seqs) = flat[n]
  BY DEF FlattenSeq
<1>6. Joins(flat, seqs, n)
  <2>1. f = [i \in 1..Len(seqs) |-> IF i = 1 THEN seqs[i] ELSE f[i-1] \o seqs[i]]
    BY <1>4 DEF Joins
  <2>2. flat = [i \in 1..Len(seqs) |-> IF i = 1 THEN seqs[i] ELSE flat[i-1] \o seqs[i]]
    BY <2>1
  <2>. HIDE DEF flat
  <2>. QED BY <2>2 DEF Joins
<1>. QED BY <1>5, <1>6

(* s lists the elements of the sets A[1], ..., A[n], set by set.           *)
ListsInTurn(s, A, n) ==
    /\ Lists(s, UNION {A[i] : i \in 1..n})
    /\ \A a, b \in 1..Len(s) : a < b => \E i, j \in 1..n : i <= j /\ s[a] \in A[i] /\ s[b] \in A[j]

LEMMA ListsOneMore ==
  ASSUME NEW n \in Nat, NEW A, NEW s, ListsInTurn(s, A, n), NEW t, Lists(t, A[n + 1])
  PROVE  ListsInTurn(s \o t, A, n + 1)
<1>. DEFINE U == UNION {A[i] : i \in 1..n}
            V == UNION {A[i] : i \in 1..n + 1}
<1>1. V = U \cup A[n + 1]
  <2>1. \A i \in 1..n + 1 : i \in 1..n \/ i = n + 1
    OBVIOUS
  <2>2. 1..n \subseteq 1..n + 1 /\ n + 1 \in 1..n + 1
    OBVIOUS
  <2>. QED BY <2>1, <2>2
<1>2. Lists(s, U) /\ \A a, b \in 1..Len(s) : a < b => \E i, j \in 1..n : i <= j /\ s[a] \in A[i] /\ s[b] \in A[j]
  BY DEF ListsInTurn
<1>3. \A x \in U : \E i \in 1..n : x \in A[i]
  OBVIOUS
<1>. HIDE DEF U
<1>4. Lists(s \o t, V)
  BY <1>1, <1>2, ListsJoined
<1>5. s \in Seq(U) /\ t \in Seq(A[n + 1])
  BY <1>2 DEF Lists
<1>6. s \in Seq(V) /\ t \in Seq(V)
  BY <1>1, <1>5
<1>7. /\ Len(s) \in Nat /\ Len(t) \in Nat /\ Len(s \o t) = Len(s) + Len(t)
      /\ \A a \in 1..Len(s) : (s \o t)[a] = s[a]
      /\ \A a \in 1..Len(t) : (s \o t)[Len(s) + a] = t[a]
  <2>. HIDE DEF V
  <2>. QED BY <1>6, Joined
<1>. HIDE DEF V
<1>8. ASSUME NEW a \in 1..Len(s \o t), NEW b \in 1..Len(s \o t), a < b
      PROVE  \E i, j \in 1..n + 1 : i <= j /\ (s \o t)[a] \in A[i] /\ (s \o t)[b] \in A[j]
  <2>1. \A c \in 1..Len(s \o t) : c > Len(s) => (s \o t)[c] \in A[n + 1]
    <3>. SUFFICES ASSUME NEW c \in 1..Len(s \o t), c > Len(s) PROVE (s \o t)[c] \in A[n + 1]
      OBVIOUS
    <3>1. c - Len(s) \in 1..Len(t) /\ Len(s) + (c - Len(s)) = c
      BY <1>7
    <3>2. (s \o t)[c] = t[c - Len(s)]
      BY <1>7, <3>1
    <3>3. t[c - Len(s)] \in A[n + 1]
      BY <1>5, <3>1
    <3>. QED BY <3>2, <3>3
  <2>2. \A c \in 1..Len(s) : \E i \in 1..n : (s \o t)[c] \in A[i]
    <3>. SUFFICES ASSUME NEW c \in 1..Len(s) PROVE \E i \in 1..n : (s \o t)[c] \in A[i]
      OBVIOUS
    <3>1. s[c] \in U
      BY <1>5
    <3>. QED BY <1>3, <1>7, <3>1
  <2>3. /\ \A i \in 1..n : i \in 1..n + 1 /\ i <= n + 1
        /\ n + 1 \in 1..n + 1 /\ n + 1 <= n + 1
    OBVIOUS
  <2>4. CASE b <= Len(s)
    <3>1. a \in 1..Len(s) /\ b \in 1..Len(s)
      BY <1>7, <1>8, <2>4
    <3>2. PICK i \in 1..n, j \in 1..n : i <= j /\ s[a] \in A[i] /\ s[b] \in A[j]
      BY <1>2, <1>8, <3>1
    <3>3. (s \o t)[a] = s[a] /\ (s \o t)[b] = s[b]
      BY <1>7, <3>1
    <3>. QED BY <2>3, <3>2, <3>3
  <2>5. CASE b > Len(s) /\ a <= Len(s)
    <3>1. a \in 1..Len(s)
      BY <1>7, <2>5
    <3>2. PICK i \in 1..n : (s \o t)[a] \in A[i]
      BY <2>2, <3>1
    <3>3. (s \o t)[b] \in A[n + 1]
      BY <2>1, <2>5
    <3>. QED BY <2>3, <3>2, <3>3
  <2>6. CASE a > Len(s)
    <3>1. b > Len(s)
      BY <1>7, <1>8, <2>6
    <3>. QED BY <2>1, <2>3, <2>6, <3>1
  <2>7. b <= Len(s) \/ (b > Len(s) /\ a <= Len(s)) \/ a > Len(s)
    BY <1>7
  <2>. QED BY <2>4, <2>5, <2>6, <2>7
<1>9. \A a, b \in 1..Len(s \o t) : a < b =>
         \E i, j \in 1..n + 1 : i <= j /\ (s \o t)[a] \in A[i] /\ (s \o t)[b] \in A[j]
  BY <1>8
<1>. QED BY <1>4, <1>9 DEF ListsInTurn, V

LEMMA FlattenLists ==
  ASSUME NEW n \in Nat, n # 0, NEW seqs, Len(seqs) = n, NEW A, \A i \in 1..n : Lists(seqs[i], A[i])
  PROVE  ListsInTurn(FlattenSeq(seqs), A, n)
<1>1. PICK f : Joins(f, seqs, n) /\ FlattenSeq(seqs) = f[n]
  BY Flattened
<1>2. \A i \in 1..n : f[i] = IF i = 1 THEN seqs[i] ELSE f[i-1] \o seqs[i]
  BY <1>1 DEF Joins
<1>. DEFINE J == {m \in Nat : m + 1 \in 1..n => ListsInTurn(f[m + 1], A, m + 1)}
<1>3. 0 \in J
  <2>1. 1 \in 1..n /\ 0 + 1 = 1
    OBVIOUS
  <2>2. f[1] = seqs[1] /\ Lists(seqs[1], A[1])
    BY <1>2, <2>1
  <2>3. UNION {A[i] : i \in 1..1} = A[1]
    <3>1. \A i \in 1..1 : i = 1
      OBVIOUS
    <3>2. 1 \in 1..1
      OBVIOUS
    <3>. QED BY <3>1, <3>2
  <2>4. \A a \in 1..Len(f[1]) : f[1][a] \in A[1]
    BY <2>2 DEF Lists
  <2>5. 1 \in 1..1 /\ 1 <= 1
    OBVIOUS
  <2>6. ListsInTurn(f[1], A, 1)
    BY <2>2, <2>3, <2>4, <2>5 DEF ListsInTurn
  <2>. QED BY <2>1, <2>6
<1>4. ASSUME NEW m \in Nat, m \in J PROVE m + 1 \in J
  <2>. SUFFICES ASSUME (m + 1) + 1 \in 1..n PROVE ListsInTurn(f[(m + 1) + 1], A, (m + 1) + 1)
    OBVIOUS
  <2>1. m + 1 \in 1..n /\ (m + 1) + 1 # 1 /\ ((m + 1) + 1) - 1 = m + 1 /\ m + 1 \in Nat
    OBVIOUS
  <2>2. ListsInTurn(f[m + 1], A, m + 1)
    BY <1>4, <2>1
  <2>3. f[(m + 1) + 1] = f[m + 1] \o seqs[(m + 1) + 1]
    BY <1>2, <2>1
  <2>4. Lists(seqs[(m + 1) + 1], A[(m + 1) + 1])
    OBVIOUS
  <2>. QED BY <2>1, <2>2, <2>3, <2>4, ListsOneMore
<1>5. n - 1 \in J
  <2>. HIDE DEF J
  <2>. QED BY <1>3, <1>4, EveryNumber
<1>6. (n - 1) + 1 = n /\ n \in 1..n
  OBVIOUS
<1>. QED BY <1>1, <1>5, <1>6

LEMMA EditIds ==
  ASSUME NEW id, NEW F, NEW c
  PROVE  \A e \in EditSet(id, F, c) : e.id = id
<1>1. \A condition, key, value : \A e \in Some(condition, Edit(id, key, value)) : e.id = id
  BY DEF Some, Edit
<1>2. \A u : \A e \in RequestSet(id, F, u) : \E condition, key, value : e \in Some(condition, Edit(id, key, value))
  BY ZenonT(60) DEF RequestSet
<1>3. \A found, day : \A e \in FindingSet(id, F, found, day) :
         \E condition, key, value : e \in Some(condition, Edit(id, key, value))
  BY ZenonT(60) DEF FindingSet
<1>. QED BY <1>1, <1>2, <1>3 DEF EditSet

(* The edits of a call, entry by entry, from the last entry named to the first. *)
EditsInOrder(es, entries, c) ==
    /\ Len(es) \in Nat /\ DOMAIN es = 1..Len(es) /\ es \in Seq({es[n] : n \in 1..Len(es)})
    /\ \A n \in 1..Len(es) :
          es[n].id \in DOMAIN c.updates /\ es[n] \in EditSet(es[n].id, entries[es[n].id], c)
    /\ \A id \in DOMAIN c.updates : \A e \in EditSet(id, entries[id], c) : \E n \in 1..Len(es) : es[n] = e
    /\ \A a, b \in 1..Len(es) : a < b =>
          \E i, j \in DOMAIN c.order : i <= j /\ es[b].id = c.order[i] /\ es[a].id = c.order[j]

LEMMA AllEditsAre ==
  ASSUME NEW entries, NEW c \in Calls
  PROVE  EditsInOrder(AllEdits(entries, c), entries, c)
<1>. DEFINE n == Len(c.order)
            A == [i \in 1..n |-> EditSet(Order(c)[i], entries[Order(c)[i]], c)]
            seqs == [i \in DOMAIN c.order |-> EditsOf(Order(c)[i], entries[Order(c)[i]], c)]
            es == AllEdits(entries, c)
<1>1. c.order \in Seq(DOMAIN c.updates) /\ {c.order[i] : i \in DOMAIN c.order} = DOMAIN c.updates
  BY LedgerAssumption DEF ToSet
<1>2. n \in Nat /\ DOMAIN c.order = 1..n
  BY <1>1
<1>3. \A i \in 1..n : Order(c)[i] = c.order[(n - i) + 1] /\ (n - i) + 1 \in 1..n
  BY <1>2 DEF Order, Reverse
<1>4. es = FlattenSeq(seqs)
  BY DEF AllEdits
<1>5. seqs = [i \in 1..n |-> EditsOf(Order(c)[i], entries[Order(c)[i]], c)]
  BY <1>2
<1>6. Len(seqs) = n
  <2>. HIDE DEF n
  <2>. QED BY <1>2, <1>5
<1>7. \A i \in 1..n : Lists(seqs[i], A[i])
  BY <1>5, EditsAre
<1>8. \A i \in 1..n : \A e \in A[i] : e.id = Order(c)[i] /\ e \in EditSet(e.id, entries[e.id], c)
  BY EditIds
<1>9. \A id \in DOMAIN c.updates : \E i \in 1..n : Order(c)[i] = id /\ A[i] = EditSet(id, entries[id], c)
  <2>. SUFFICES ASSUME NEW id \in DOMAIN c.updates
                PROVE  \E i \in 1..n : Order(c)[i] = id /\ A[i] = EditSet(id, entries[id], c)
    OBVIOUS
  <2>1. PICK j \in 1..n : c.order[j] = id
    BY <1>1, <1>2
  <2>. DEFINE i == (n - j) + 1
  <2>2. i \in 1..n /\ (n - i) + 1 = j
    BY <1>2
  <2>. HIDE DEF i
  <2>3. Order(c)[i] = id
    BY <1>3, <2>1, <2>2
  <2>4. A[i] = EditSet(id, entries[id], c)
    BY <2>2, <2>3
  <2>. QED BY <2>2, <2>3, <2>4
<1>. HIDE DEF A, seqs, n
<1>10. ListsInTurn(es, A, n)
  <2>1. CASE n = 0
    <3>1. es = <<>>
      <4>1. seqs = <<>>
        <5>1. 1..0 = {}
          OBVIOUS
        <5>. QED BY <1>5, <2>1, <5>1
      <4>. QED BY <1>4, <1>6, <2>1, <4>1 DEF FlattenSeq
    <3>2. UNION {A[i] : i \in 1..0} = {}
      <4>1. \A i \in 1..0 : FALSE
        OBVIOUS
      <4>. QED BY <4>1
    <3>3. \A a \in 1..0 : FALSE
      OBVIOUS
    <3>. HIDE DEF es
    <3>. QED BY <2>1, <3>1, <3>2, <3>3 DEF ListsInTurn, Lists
  <2>2. CASE n # 0
    BY <1>2, <1>4, <1>6, <1>7, <2>2, FlattenLists
  <2>. QED BY <2>1, <2>2
<1>. HIDE DEF es
<1>. DEFINE U == UNION {A[i] : i \in 1..n}
<1>11. /\ es \in Seq(U) /\ \A x \in U : \E k \in 1..Len(es) : es[k] = x
       /\ \A a, b \in 1..Len(es) : a < b => \E i, j \in 1..n : i <= j /\ es[a] \in A[i] /\ es[b] \in A[j]
  BY <1>10 DEF ListsInTurn, Lists
<1>12. \A x \in U : \E i \in 1..n : x \in A[i]
  OBVIOUS
<1>13. \A i \in 1..n : A[i] \subseteq U
  OBVIOUS
<1>. HIDE DEF U
<1>14. Len(es) \in Nat /\ DOMAIN es = 1..Len(es) /\ \A k \in 1..Len(es) : es[k] \in U
  BY <1>11
<1>15. es \in Seq({es[k] : k \in 1..Len(es)})
  <2>1. es = [k \in 1..Len(es) |-> es[k]]
    BY <1>11
  <2>. DEFINE S == {es[k] : k \in 1..Len(es)}
  <2>2. \A k \in 1..Len(es) : es[k] \in S
    OBVIOUS
  <2>. HIDE DEF S
  <2>3. es \in Seq(S)
    BY <1>14, <2>1, <2>2, SequenceOf
  <2>. QED BY <2>3 DEF S
<1>16. \A k \in 1..Len(es) :
          es[k].id \in DOMAIN c.updates /\ es[k] \in EditSet(es[k].id, entries[es[k].id], c)
  <2>. SUFFICES ASSUME NEW k \in 1..Len(es)
                PROVE  es[k].id \in DOMAIN c.updates /\ es[k] \in EditSet(es[k].id, entries[es[k].id], c)
    OBVIOUS
  <2>1. PICK i \in 1..n : es[k] \in A[i]
    BY <1>12, <1>14
  <2>2. Order(c)[i] \in DOMAIN c.updates
    BY <1>1, <1>2, <1>3
  <2>. QED BY <1>8, <2>1, <2>2
<1>17. \A id \in DOMAIN c.updates : \A e \in EditSet(id, entries[id], c) : \E k \in 1..Len(es) : es[k] = e
  BY <1>9, <1>11, <1>13
<1>18. ASSUME NEW a \in 1..Len(es), NEW b \in 1..Len(es), a < b
       PROVE  \E i, j \in DOMAIN c.order : i <= j /\ es[b].id = c.order[i] /\ es[a].id = c.order[j]
  <2>1. PICK i \in 1..n, j \in 1..n : i <= j /\ es[a] \in A[i] /\ es[b] \in A[j]
    <3>1. \A x, y \in 1..Len(es) : x < y => \E i, j \in 1..n : i <= j /\ es[x] \in A[i] /\ es[y] \in A[j]
      BY <1>11
    <3>2. \E i, j \in 1..n : i <= j /\ es[a] \in A[i] /\ es[b] \in A[j]
      BY <1>18, <3>1
    <3>. QED BY <3>2
  <2>2. es[a].id = c.order[(n - i) + 1] /\ es[b].id = c.order[(n - j) + 1]
    BY <1>3, <1>8, <2>1
  <2>3. (n - j) + 1 \in 1..n /\ (n - i) + 1 \in 1..n /\ (n - j) + 1 <= (n - i) + 1
    BY <1>2, <2>1
  <2>. QED BY <1>2, <2>2, <2>3
<1>19. EditsInOrder(es, entries, c)
  BY <1>14, <1>15, <1>16, <1>17, <1>18 DEF EditsInOrder
<1>. QED BY <1>19 DEF es

(* The edits es will write the field key of the entry id.                  *)
Waiting(es, id, key) == \E n \in 1..Len(es) : es[n].id = id /\ es[n].key = key

IsSequence(es) == Len(es) \in Nat /\ es \in Seq({es[n] : n \in 1..Len(es)})

(* The edits es, made one after the other, find the lines they are for.    *)
Editable(text, bs, es) ==
    /\ IsSequence(es)
    /\ \A n \in 1..Len(es) :
          /\ es[n].id \in Ids(text) /\ es[n].key \in FieldKeys /\ Typed(es[n].value)
          /\ bs[es[n].id] = BlocksOf(text)[es[n].id]
    /\ \A a, b \in 1..Len(es) : a < b => StartOf(text, es[b].id) <= StartOf(text, es[a].id)

(* With the edits es, the fields F of the entry id become g.               *)
Becomes(id, F, es, g) ==
    /\ \A n \in 1..Len(es) : es[n].id = id => es[n].key \in DOMAIN g /\ g[es[n].key] = es[n].value
    /\ \A k \in DOMAIN F : k \in DOMAIN g /\ (F[k] = g[k] \/ Waiting(es, id, k))
    /\ \A k \in DOMAIN g : k \in DOMAIN F \/ Waiting(es, id, k)

IsTail(es, t) ==
    /\ Head(es) = es[1] /\ 1 \in 1..Len(es)
    /\ IsSequence(t)
    /\ \A n \in 1..Len(t) : t[n] = es[n + 1] /\ n + 1 \in 1..Len(es)
    /\ \A n \in 1..Len(es) : n # 1 => n - 1 \in 1..Len(t) /\ t[n - 1] = es[n]

LEMMA SequenceIs ==
  ASSUME NEW S, NEW t \in Seq(S)
  PROVE  IsSequence(t)
<1>. DEFINE T == {t[n] : n \in 1..Len(t)}
            m == Len(t)
<1>1. m \in Nat /\ t = [n \in 1..m |-> t[n]]
  OBVIOUS
<1>2. \A n \in 1..m : t[n] \in T
  OBVIOUS
<1>3. t \in Seq(T)
  <2>. HIDE DEF T, m
  <2>. QED BY <1>1, <1>2, SequenceOf
<1>. QED BY <1>1, <1>3 DEF IsSequence

LEMMA TailIs ==
  ASSUME NEW es, IsSequence(es), es # <<>>
  PROVE  IsTail(es, Tail(es))
<1>. DEFINE S == {es[n] : n \in 1..Len(es)}
            t == Tail(es)
<1>1. es \in Seq(S)
  BY DEF IsSequence
<1>. HIDE DEF S
<1>2. Len(es) # 0 /\ Head(es) = es[1] /\ t \in Seq(S) /\ Len(t) = Len(es) - 1 /\ Len(es) \in Nat
  BY <1>1
<1>3. \A n \in 1..Len(t) : t[n] = es[n + 1] /\ n + 1 \in 1..Len(es)
  BY <1>1, <1>2
<1>. HIDE DEF t
<1>4. Len(t) \in Nat /\ 1 \in 1..Len(es) /\ \A n \in 1..Len(es) : n # 1 => n - 1 \in 1..Len(t) /\ (n - 1) + 1 = n
  BY <1>2
<1>5. IsSequence(t)
  BY <1>2, SequenceIs
<1>6. \A n \in 1..Len(es) : n # 1 => n - 1 \in 1..Len(t) /\ t[n - 1] = es[n]
  BY <1>3, <1>4
<1>7. IsTail(es, t)
  BY <1>2, <1>3, <1>4, <1>5, <1>6 DEF IsTail
<1>. QED BY <1>7 DEF t

(* Two entries start at different lines.                                   *)
LEMMA StartsDiffer ==
  ASSUME NEW text, Shaped(text), NEW a \in Ids(text), NEW b \in Ids(text)
  PROVE  /\ StartOf(text, a) \in Int /\ StartOf(text, b) \in Int
         /\ StartOf(text, a) = StartOf(text, b) => a = b
<1>1. \A id \in Ids(text) : StartOf(text, id) \in Starts(text) /\ IdAt(text, StartOf(text, id)) = id
  BY StartIs
<1>2. \A i \in Starts(text) : i \in Int
  BY DEF Shaped, Starts
<1>. QED BY <1>1, <1>2

(* What an edit rewrites.                                                  *)
EditRewrites(text, bs, text2, bs2, e, s, d, q) ==
    /\ Rewritten(text, text2, s, d, q, e.key, e.value)
    /\ bs2[e.id] = [at |-> With(BlocksOf(text)[e.id].at, e.key, q), end |-> EndOf(text, s) + d]
    /\ \A id \in DOMAIN bs : id # e.id => bs2[id] = bs[id]
    /\ DOMAIN bs2 = DOMAIN bs /\ IsFunction(bs2) /\ IsFunction(text2)

(* What is known after an edit.                                            *)
Made(text, text2, bs2, es, e) ==
    /\ Keeps(text, text2, {e.id})
    /\ Ledger(text2)[e.id] = With(Ledger(text)[e.id], e.key, e.value)
    /\ Editable(text2, bs2, Tail(es))

(* One edit is made: those after it still find their lines.                *)
LEMMA EditMade ==
  ASSUME NEW text, Shaped(text), NEW bs, NEW es, Editable(text, bs, es), es # <<>>,
         NEW e, e = Head(es), NEW s, s = StartOf(text, e.id), NEW text2, NEW d, NEW q,
         NEW bs2, EditRewrites(text, bs, text2, bs2, e, s, d, q), DOMAIN bs = Ids(text)
  PROVE  Made(text, text2, bs2, es, e)
<1>. DEFINE t == Tail(es)
<1>edit. /\ Rewritten(text, text2, s, d, q, e.key, e.value)
      /\ bs2[e.id] = [at |-> With(BlocksOf(text)[e.id].at, e.key, q), end |-> EndOf(text, s) + d]
      /\ \A n \in 1..Len(es) : es[n].id # e.id => bs2[es[n].id] = bs[es[n].id]
  BY DEF EditRewrites, Editable
<1>0. IsSequence(es)
  BY DEF Editable
<1>1. /\ Head(es) = es[1] /\ 1 \in 1..Len(es)
      /\ IsSequence(t)
      /\ \A n \in 1..Len(t) : t[n] = es[n + 1] /\ n + 1 \in 1..Len(es)
  <2>1. IsTail(es, t)
    BY <1>0, TailIs
  <2>. HIDE DEF t
  <2>. QED BY <2>1 DEF IsTail
<1>. HIDE DEF t
<1>2. e.id \in Ids(text) /\ e.key \in FieldKeys
  BY <1>1 DEF Editable
<1>3. e.key # "title"
  BY <1>2 DEF FieldKeys, RequestKeys, FindingKeys
<1>4. /\ Keeps(text, text2, {e.id})
      /\ Ledger(text2)[e.id] = With(Ledger(text)[e.id], e.key, e.value)
      /\ BlocksOf(text2)[e.id] = [at |-> With(BlocksOf(text)[e.id].at, e.key, q), end |-> EndOf(text, s) + d]
      /\ \A b \in Ids(text) : StartOf(text, b) < s => BlocksOf(text2)[b] = BlocksOf(text)[b]
  <2>. DEFINE id == e.id
              key == e.key
              value == e.value
  <2>1. id \in Ids(text) /\ s = StartOf(text, id) /\ key # "title" /\ Rewritten(text, text2, s, d, q, key, value)
    BY <1>2, <1>3, <1>edit
  <2>. HIDE DEF id, key, value
  <2>2. Wrote(text, text2, id, s, d, q, key, value)
    BY <2>1, RewrittenKeeps
  <2>. QED BY <2>2 DEF Wrote, id, key, value
<1>5. /\ Shaped(text2) /\ Ids(text2) = Ids(text)
      /\ \A a, b \in Ids(text) : StartOf(text2, a) < StartOf(text2, b) <=> StartOf(text, a) < StartOf(text, b)
  BY <1>4 DEF Keeps
<1>6. \A n \in 1..Len(es) :
          /\ es[n].id \in Ids(text) /\ es[n].key \in FieldKeys /\ Typed(es[n].value)
          /\ bs[es[n].id] = BlocksOf(text)[es[n].id]
  BY DEF Editable
<1>7. \A a, b \in 1..Len(es) : a < b => StartOf(text, es[b].id) <= StartOf(text, es[a].id)
  BY DEF Editable
<1>8. ASSUME NEW n \in 1..Len(t)
      PROVE  /\ t[n].id \in Ids(text2) /\ t[n].key \in FieldKeys /\ Typed(t[n].value)
             /\ bs2[t[n].id] = BlocksOf(text2)[t[n].id]
  <2>. DEFINE id == t[n].id
  <2>1. t[n] = es[n + 1] /\ n + 1 \in 1..Len(es) /\ 1 < n + 1
    BY <1>1
  <2>2. id \in Ids(text) /\ bs[id] = BlocksOf(text)[id] /\ t[n].key \in FieldKeys /\ Typed(t[n].value)
    BY <1>6, <2>1
  <2>3. StartOf(text, id) <= s
    BY <1>1, <1>7, <2>1
  <2>4. id # e.id => bs2[id] = bs[id]
    BY <1>edit, <2>1
  <2>. HIDE DEF id
  <2>5. CASE id = e.id
    BY <1>4, <1>5, <1>edit, <2>2, <2>5 DEF id
  <2>6. CASE id # e.id
    <3>1. StartOf(text, id) \in Int /\ s \in Int /\ StartOf(text, id) # s
      BY <1>2, <2>2, <2>6, StartsDiffer
    <3>2. StartOf(text, id) < s
      BY <2>3, <3>1
    <3>3. BlocksOf(text2)[id] = BlocksOf(text)[id]
      BY <1>4, <2>2, <3>2
    <3>. QED BY <1>5, <2>2, <2>4, <2>6, <3>3 DEF id
  <2>. QED BY <2>5, <2>6
<1>9. ASSUME NEW a \in 1..Len(t), NEW b \in 1..Len(t), a < b
      PROVE  StartOf(text2, t[b].id) <= StartOf(text2, t[a].id)
  <2>1. t[a] = es[a + 1] /\ t[b] = es[b + 1] /\ a + 1 \in 1..Len(es) /\ b + 1 \in 1..Len(es) /\ a + 1 < b + 1
    BY <1>1, <1>9
  <2>2. StartOf(text, t[b].id) <= StartOf(text, t[a].id) /\ t[a].id \in Ids(text) /\ t[b].id \in Ids(text)
    BY <1>6, <1>7, <2>1
  <2>3. /\ StartOf(text, t[a].id) \in Int /\ StartOf(text, t[b].id) \in Int
        /\ StartOf(text2, t[a].id) \in Int /\ StartOf(text2, t[b].id) \in Int
    BY <1>5, <2>2, StartsDiffer
  <2>4. ~ StartOf(text, t[a].id) < StartOf(text, t[b].id)
    BY <2>2, <2>3
  <2>5. ~ StartOf(text2, t[a].id) < StartOf(text2, t[b].id)
    BY <1>5, <2>2, <2>4
  <2>. QED BY <2>3, <2>5
<1>10. Editable(text2, bs2, t)
  BY <1>1, <1>8, <1>9 DEF Editable
<1>. QED BY <1>4, <1>10 DEF Made, t

(* The entries come nearer to what they are to become.                     *)
LEMMA EditBrings ==
  ASSUME NEW es, IsSequence(es), es # <<>>,
         NEW e, e = Head(es), NEW id, NEW F, NEW g, Becomes(id, F, es, g), NEW F2,
         F2 = IF id = e.id THEN With(F, e.key, e.value) ELSE F
  PROVE  Becomes(id, F2, Tail(es), g)
<1>. DEFINE t == Tail(es)
<1>1. /\ Head(es) = es[1] /\ 1 \in 1..Len(es)
      /\ \A n \in 1..Len(t) : t[n] = es[n + 1] /\ n + 1 \in 1..Len(es)
      /\ \A n \in 1..Len(es) : n # 1 => n - 1 \in 1..Len(t) /\ t[n - 1] = es[n]
  <2>1. IsTail(es, t)
    BY TailIs
  <2>. HIDE DEF t
  <2>. QED BY <2>1 DEF IsTail
<1>. HIDE DEF t
<1>2. \A n \in 1..Len(t) : t[n].id = id => t[n].key \in DOMAIN g /\ g[t[n].key] = t[n].value
  BY <1>1 DEF Becomes
<1>3. \A k : Waiting(es, id, k) => Waiting(t, id, k) \/ (id = e.id /\ k = e.key)
  <2>. SUFFICES ASSUME NEW k, Waiting(es, id, k), ~ (id = e.id /\ k = e.key) PROVE Waiting(t, id, k)
    OBVIOUS
  <2>1. PICK n \in 1..Len(es) : es[n].id = id /\ es[n].key = k
    BY DEF Waiting
  <2>2. n # 1
    BY <1>1, <2>1
  <2>3. n - 1 \in 1..Len(t) /\ t[n - 1] = es[n]
    BY <1>1, <2>2
  <2>. QED BY <2>1, <2>3 DEF Waiting
<1>4. /\ \A k \in DOMAIN F : k \in DOMAIN g /\ (F[k] = g[k] \/ Waiting(es, id, k))
      /\ \A k \in DOMAIN g : k \in DOMAIN F \/ Waiting(es, id, k)
  BY DEF Becomes
<1>5. CASE id # e.id
  <2>1. F2 = F
    BY <1>5
  <2>. QED BY <1>2, <1>3, <1>4, <1>5, <2>1 DEF Becomes, t
<1>6. CASE id = e.id
  <2>1. Given(F, e.key, e.value, F2)
    BY <1>6, WithKeeps
  <2>2. e.key \in DOMAIN g /\ g[e.key] = e.value
    BY <1>1, <1>6 DEF Becomes
  <2>3. \A k \in DOMAIN F2 : k \in DOMAIN g /\ (F2[k] = g[k] \/ Waiting(t, id, k))
    BY <1>3, <1>4, <2>1, <2>2 DEF Given
  <2>4. \A k \in DOMAIN g : k \in DOMAIN F2 \/ Waiting(t, id, k)
    BY <1>3, <1>4, <2>1 DEF Given
  <2>. QED BY <1>2, <2>3, <2>4 DEF Becomes, t
<1>. QED BY <1>5, <1>6

(* The order in which a call names its entries is theirs in the file.      *)
OrderFits(text, c) ==
    \A i, j \in DOMAIN c.order :
        i < j /\ {c.order[i], c.order[j]} \subseteq Ids(text)
        => StartOf(text, c.order[i]) < StartOf(text, c.order[j])

(* Two things the docstring leaves out, and the theorems about updates     *)
(* need: every line of the ledger ends with a newline, and calls name      *)
(* their entries in the order of the file.  Without them the promises are  *)
(* broken, as the README says.                                             *)
WholeLines == \A text \in Files : \A i \in DOMAIN text : text[i].newline = TRUE
FileOrder == \A text \in Files, c \in Calls : OrderFits(text, c)

(* A ledger whose edits can be followed.                                   *)
Sound(text) ==
    /\ Shaped(text) /\ IsFunction(text) /\ Parses(text)
    /\ \A c \in Calls : OrderFits(text, c)

(* The edit e would change nothing in the fields F.                        *)
Holds(F, e) == e.key \in DOMAIN F /\ F[e.key] = e.value

(* The call c would change nothing.                                        *)
Settled(text, c) ==
    \A id \in DOMAIN c.updates :
        /\ id \in Ids(text)
        /\ \A e \in EditSet(id, Ledger(text)[id], c) : Holds(Ledger(text)[id], e)

(* The call c on the text old has still to make the edits es on text, and  *)
(* its entries will then be what they are to become.                       *)
Pending(old, c, text, bs, es) ==
    /\ Keeps(old, text, DOMAIN c.updates) /\ IsFunction(text)
    /\ IsFunction(bs) /\ DOMAIN bs = Ids(old)
    /\ Editable(text, bs, es)
    /\ \A n \in 1..Len(es) : es[n].id \in DOMAIN c.updates
    /\ \A id \in DOMAIN c.updates : Becomes(id, Ledger(text)[id], es, Goal(Ledger(old)[id], id, c))

(* The edits es would change nothing, and nothing was changed.             *)
Repeats(old, text, es) == text = old /\ \A n \in 1..Len(es) : Holds(Ledger(old)[es[n].id], es[n])

(* The inductive invariant of a call in progress.                          *)
UpdateInv ==
    /\ Sound(file)
    /\ call = Absent => temporary = Absent /\ edits = <<>>
    /\ call # Absent =>
          /\ call \in Calls /\ Accepted(Ledger(file), call)
          /\ Pending(file, call, lines, blocks, edits)
          /\ temporary # Absent => temporary = lines /\ edits = <<>> /\ Parses(lines)
          /\ call = written => Repeats(file, lines, edits)
    /\ written # Absent => written \in Calls /\ Settled(file, written)

(* A text of whole lines is serialized as it is.                           *)
LEMMA SerializedIs ==
  ASSUME NEW text, Shaped(text)
  PROVE  Serialized(text) = text
<1>1. \A i \in 1..Len(text) : text[i].newline = TRUE
  BY DEF Shaped, IsLine
<1>2. {i \in 1..Len(text)-1 : ~ text[i].newline} = {}
  <2>1. \A i \in 1..Len(text)-1 : i \in 1..Len(text)
    BY DEF Shaped
  <2>. QED BY <1>1, <2>1
<1>. QED BY <1>2, Zenon DEF Serialized

(* The entries of a ledger that parses have the fields the code validates. *)
LEMMA EntriesAre ==
  ASSUME NEW text, Shaped(text), Parses(text), NEW id \in Ids(text)
  PROVE  Entry(Ledger(text)[id])
<1>. DEFINE i == StartOf(text, id)
            F == FieldsAt(text, i)
<1>1. i \in Starts(text) /\ Ledger(text)[id] = F
  BY StartIs, LedgerIs
<1>2. ValidFields(F)
  BY <1>1 DEF Parses
<1>3. IsFunction(F) /\ DOMAIN F = KeysAt(text, i)
  BY DEF FieldsAt, IsFunction
<1>. HIDE DEF i
<1>4. ASSUME NEW k \in DOMAIN F PROVE Typed(F[k])
  <2>1. F[k] = text[LineOf(text, i, k)].value
    BY <1>3 DEF FieldsAt
  <2>2. LineOf(text, i, k) \in FieldLines(text, i)
    BY <1>3 DEF KeysAt, LineOf
  <2>3. EndOf(text, i) \in Int /\ EndOf(text, i) <= Len(text) + 1 /\ i \in Int /\ 1 <= i
    BY <1>1, EndOfEntry DEF Shaped, Starts
  <2>4. LineOf(text, i, k) \in 1..Len(text)
    BY <2>2, <2>3 DEF FieldLines, Shaped
  <2>. QED BY <2>1, <2>4 DEF Shaped, IsLine
<1>. QED BY <1>1, <1>2, <1>3, <1>4 DEF Entry

LEMMA CallsAre ==
  ASSUME NEW c \in Calls, NEW id \in DOMAIN c.updates
  PROVE  CallOn(c, id)
  BY LedgerAssumption DEF CallOn

(* A call begins.                                                          *)
LEMMA Begins ==
  ASSUME NEW text, Sound(text), NEW c \in Calls, Accepted(Ledger(text), c)
  PROVE  Pending(text, c, text, BlocksOf(text), AllEdits(Ledger(text), c))
<1>. DEFINE es == AllEdits(Ledger(text), c)
            bs == BlocksOf(text)
<1>1. EditsInOrder(es, Ledger(text), c)
  BY AllEditsAre
<1>. HIDE DEF es
<1>2. Shaped(text) /\ IsFunction(text) /\ Parses(text) /\ OrderFits(text, c)
  BY DEF Sound
<1>3. Keeps(text, text, DOMAIN c.updates)
  BY <1>2, KeepsItself
<1>4. IsFunction(bs) /\ DOMAIN bs = Ids(text)
  BY DEF BlocksOf, IsFunction
<1>. HIDE DEF bs
<1>5. DOMAIN c.updates \subseteq Ids(text)
  BY DEF Accepted, Ledger
<1>6. \A id \in DOMAIN c.updates :
          Reaches(id, Ledger(text)[id], EditSet(id, Ledger(text)[id], c), Goal(Ledger(text)[id], id, c), FieldKeys)
  BY <1>2, <1>5, EntriesAre, CallsAre, GoalReached
<1>7. \A n \in 1..Len(es) :
          es[n].id \in DOMAIN c.updates /\ es[n] \in EditSet(es[n].id, Ledger(text)[es[n].id], c)
  BY <1>1 DEF EditsInOrder
<1>8. \A n \in 1..Len(es) : es[n].key \in FieldKeys /\ Typed(es[n].value)
  BY <1>6, <1>7 DEF Reaches
<1>9. \A a, b \in 1..Len(es) : a < b => StartOf(text, es[b].id) <= StartOf(text, es[a].id)
  <2>. SUFFICES ASSUME NEW a \in 1..Len(es), NEW b \in 1..Len(es), a < b
                PROVE  StartOf(text, es[b].id) <= StartOf(text, es[a].id)
    OBVIOUS
  <2>1. PICK i \in DOMAIN c.order, j \in DOMAIN c.order :
            i <= j /\ es[b].id = c.order[i] /\ es[a].id = c.order[j]
    BY <1>1 DEF EditsInOrder
  <2>2. es[a].id \in Ids(text) /\ es[b].id \in Ids(text)
    BY <1>5, <1>7
  <2>3. StartOf(text, es[a].id) \in Int /\ StartOf(text, es[b].id) \in Int
    BY <1>2, <2>2, StartsDiffer
  <2>4. i \in Int /\ j \in Int
    BY LedgerAssumption
  <2>5. CASE i = j
    BY <2>1, <2>3, <2>5
  <2>6. CASE i < j
    <3>1. StartOf(text, c.order[i]) < StartOf(text, c.order[j])
      BY <1>2, <2>1, <2>2, <2>6 DEF OrderFits
    <3>. QED BY <2>1, <2>3, <3>1
  <2>. QED BY <2>1, <2>4, <2>5, <2>6
<1>10. IsSequence(es)
  BY <1>1 DEF EditsInOrder, IsSequence
<1>11. Editable(text, bs, es)
  <2>1. \A n \in 1..Len(es) : es[n].id \in Ids(text) /\ bs[es[n].id] = BlocksOf(text)[es[n].id]
    BY <1>5, <1>7 DEF bs
  <2>. QED BY <1>8, <1>9, <1>10, <2>1 DEF Editable
<1>12. ASSUME NEW id \in DOMAIN c.updates
       PROVE  Becomes(id, Ledger(text)[id], es, Goal(Ledger(text)[id], id, c))
  <2>. DEFINE F == Ledger(text)[id]
              g == Goal(F, id, c)
              E == EditSet(id, F, c)
  <2>1. Reaches(id, F, E, g, FieldKeys)
    BY <1>6
  <2>2. \A n \in 1..Len(es) : es[n].id = id => es[n] \in E
    BY <1>7
  <2>3. \A e \in E : e.id = id /\ \E n \in 1..Len(es) : es[n] = e
    <3>1. \A e \in E : e.id = id
      BY EditIds
    <3>2. \A e \in E : \E n \in 1..Len(es) : es[n] = e
      BY <1>1 DEF EditsInOrder
    <3>. QED BY <3>1, <3>2
  <2>. HIDE DEF F, g, E
  <2>4. \A k : (\E e \in E : e.key = k) => Waiting(es, id, k)
    <3>. SUFFICES ASSUME NEW e \in E PROVE Waiting(es, id, e.key)
      OBVIOUS
    <3>1. PICK n \in 1..Len(es) : es[n] = e
      BY <2>3
    <3>. QED BY <2>3, <3>1 DEF Waiting
  <2>5. \A n \in 1..Len(es) : es[n].id = id => es[n].key \in DOMAIN g /\ g[es[n].key] = es[n].value
    BY <2>1, <2>2 DEF Reaches
  <2>6. \A k \in DOMAIN F : k \in DOMAIN g /\ (F[k] = g[k] \/ Waiting(es, id, k))
    BY <2>1, <2>4 DEF Reaches
  <2>7. \A k \in DOMAIN g : k \in DOMAIN F \/ Waiting(es, id, k)
    BY <2>1, <2>4 DEF Reaches
  <2>8. Becomes(id, F, es, g)
    BY <2>5, <2>6, <2>7 DEF Becomes
  <2>. QED BY <2>8 DEF F, g
<1>13. \A n \in 1..Len(es) : es[n].id \in DOMAIN c.updates
  BY <1>7
<1>14. Pending(text, c, text, bs, es)
  BY <1>2, <1>3, <1>4, <1>11, <1>12, <1>13 DEF Pending
<1>. QED BY <1>14 DEF bs, es

(* _replace_field: of a field that is there, of a field that is not.       *)
Replaced(text, bs, text2, bs2, e) ==
    /\ e.key \in DOMAIN bs[e.id].at
    /\ text2 = [text EXCEPT ![bs[e.id].at[e.key]] =
                   [key |-> e.key, value |-> e.value, newline |-> @.newline]]
    /\ bs2 = bs

Inserted(text, bs, text2, bs2, e) ==
    /\ e.key \notin DOMAIN bs[e.id].at
    /\ text2 = InsertAt(text, bs[e.id].end, [key |-> e.key, value |-> e.value, newline |-> TRUE])
    /\ bs2 = [bs EXCEPT ![e.id] = [at |-> With(@.at, e.key, @.end), end |-> @.end + 1]]

LEMMA AtIs ==
  ASSUME NEW text, NEW id \in Ids(text), NEW s, s = StartOf(text, id)
  PROVE  /\ BlocksOf(text)[id] = [at |-> BlocksOf(text)[id].at, end |-> EndOf(text, s)]
         /\ IsFunction(BlocksOf(text)[id].at)
         /\ DOMAIN BlocksOf(text)[id].at = DOMAIN Ledger(text)[id]
<1>1. BlocksOf(text)[id] = Block(text, s) /\ Ledger(text)[id] = FieldsAt(text, s)
  BY LedgerIs
<1>2. DOMAIN FieldsAt(text, s) = KeysAt(text, s)
  BY DEF FieldsAt
<1>3. /\ Block(text, s) = [at |-> Block(text, s).at, end |-> EndOf(text, s)]
      /\ IsFunction(Block(text, s).at)
      /\ DOMAIN Block(text, s).at = KeysAt(text, s)
  BY DEF Block, IsFunction
<1>. QED BY <1>1, <1>2, <1>3

LEMMA WithSame ==
  ASSUME NEW m, IsFunction(m), NEW key \in DOMAIN m, NEW q, q = m[key]
  PROVE  With(m, key, q) = m
  BY DEF With, IsFunction

(* Both edits rewrite their entry, and keep the blocks in step with the    *)
(* text.                                                                   *)
LEMMA EditRewritten ==
  ASSUME NEW text, Shaped(text), NEW bs, IsFunction(bs), NEW e, e.id \in Ids(text), e.id \in DOMAIN bs,
         e.key \in FieldKeys, Typed(e.value), bs[e.id] = BlocksOf(text)[e.id],
         NEW text2, NEW bs2, Replaced(text, bs, text2, bs2, e) \/ Inserted(text, bs, text2, bs2, e),
         NEW s, s = StartOf(text, e.id)
  PROVE  \E d, q : EditRewrites(text, bs, text2, bs2, e, s, d, q)
<1>. DEFINE id == e.id
            key == e.key
            value == e.value
            at == BlocksOf(text)[id].at
<1>0. EndOf(text, s) \in Int
  BY StartIs, EndOfEntry DEF Shaped
<1>1. key \notin {"id", "note"}
  BY DEF FieldKeys, RequestKeys, FindingKeys
<1>2. /\ bs[id] = [at |-> at, end |-> EndOf(text, s)]
      /\ IsFunction(at) /\ DOMAIN at = DOMAIN Ledger(text)[id]
  BY AtIs
<1>3. CASE Replaced(text, bs, text2, bs2, e)
  <2>. DEFINE q == at[key]
  <2>1. key \in DOMAIN at /\ bs2 = bs
        /\ text2 = [text EXCEPT ![q] = [key |-> key, value |-> value, newline |-> @.newline]]
    BY <1>2, <1>3 DEF Replaced
  <2>2. Rewritten(text, text2, s, 0, q, key, value)
    <3>1. key \in DOMAIN Ledger(text)[id]
      BY <1>2, <2>1
    <3>. HIDE DEF id, key, value
    <3>2. q = BlocksOf(text)[id].at[key]
      OBVIOUS
    <3>3. id \in Ids(text) /\ s = StartOf(text, id) /\ Typed(value)
      BY DEF id, value
    <3>. HIDE DEF q
    <3>. QED BY <1>1, <2>1, <3>1, <3>2, <3>3, Replaces
  <2>3. With(at, key, q) = at
    BY <1>2, <2>1, WithSame
  <2>4. IsFunction(text2)
    BY <2>1 DEF IsFunction
  <2>. HIDE DEF q, at
  <2>5. bs2[id] = [at |-> With(at, key, q), end |-> EndOf(text, s) + 0]
    BY <1>0, <1>2, <2>1, <2>3
  <2>6. EditRewrites(text, bs, text2, bs2, e, s, 0, q)
    BY <2>1, <2>2, <2>4, <2>5 DEF EditRewrites, at
  <2>. QED BY <2>6
<1>4. CASE Inserted(text, bs, text2, bs2, e)
  <2>. DEFINE q == EndOf(text, s)
              line == [key |-> key, value |-> value, newline |-> TRUE]
  <2>1. key \notin DOMAIN at /\ text2 = InsertAt(text, q, line)
        /\ bs2 = [bs EXCEPT ![id] = [at |-> With(@.at, key, @.end), end |-> @.end + 1]]
    BY <1>2, <1>4 DEF Inserted
  <2>2. Rewritten(text, text2, s, 1, q, key, value) /\ IsFunction(text2)
    <3>1. key \notin DOMAIN Ledger(text)[id] /\ q = BlocksOf(text)[id].end
      BY <1>2, <2>1
    <3>. HIDE DEF id, key, value
    <3>3. id \in Ids(text) /\ s = StartOf(text, id) /\ Typed(value)
      BY DEF id, value
    <3>. HIDE DEF q
    <3>. QED BY <1>1, <2>1, <3>1, <3>3, Inserts
  <2>4. /\ bs2[id] = [at |-> With(bs[id].at, key, bs[id].end), end |-> bs[id].end + 1]
        /\ \A b \in DOMAIN bs : b # id => bs2[b] = bs[b]
        /\ DOMAIN bs2 = DOMAIN bs /\ IsFunction(bs2)
    BY <2>1 DEF IsFunction
  <2>. HIDE DEF q, at
  <2>5. bs2[id] = [at |-> With(at, key, q), end |-> EndOf(text, s) + 1]
    BY <1>2, <2>4 DEF q
  <2>6. EditRewrites(text, bs, text2, bs2, e, s, 1, q)
    BY <2>2, <2>4, <2>5 DEF EditRewrites, at
  <2>. QED BY <2>6
<1>. QED BY <1>3, <1>4

(* One more edit of a call is made.                                        *)
LEMMA EditSteps ==
  ASSUME NEW old, NEW c, DOMAIN c.updates \subseteq Ids(old), NEW text, NEW bs, NEW es,
         Pending(old, c, text, bs, es), es # <<>>, NEW e, e = Head(es), NEW text2, NEW bs2,
         Replaced(text, bs, text2, bs2, e) \/ Inserted(text, bs, text2, bs2, e)
  PROVE  Pending(old, c, text2, bs2, Tail(es))
<1>. DEFINE t == Tail(es)
            s == StartOf(text, e.id)
            ids == DOMAIN c.updates
<1>1. /\ Keeps(old, text, ids) /\ Editable(text, bs, es)
      /\ IsFunction(bs) /\ DOMAIN bs = Ids(old)
  BY DEF Pending
<1>2. Shaped(text) /\ Ids(text) = Ids(old)
  BY <1>1 DEF Keeps
<1>3. IsSequence(es)
  BY <1>1 DEF Editable
<1>4. IsTail(es, t)
  BY <1>3, TailIs
<1>. HIDE DEF t
<1>5. e = es[1] /\ 1 \in 1..Len(es) /\ \A n \in 1..Len(t) : t[n] = es[n + 1] /\ n + 1 \in 1..Len(es)
  BY <1>4 DEF IsTail
<1>6. \A n \in 1..Len(es) :
          /\ es[n].id \in Ids(text) /\ es[n].key \in FieldKeys /\ Typed(es[n].value)
          /\ bs[es[n].id] = BlocksOf(text)[es[n].id]
  BY <1>1 DEF Editable
<1>7. \A n \in 1..Len(es) : es[n].id \in ids
  BY DEF Pending
<1>8. PICK d, q : EditRewrites(text, bs, text2, bs2, e, s, d, q)
  <2>1. e.id \in Ids(text) /\ e.id \in DOMAIN bs /\ e.key \in FieldKeys /\ Typed(e.value)
        /\ bs[e.id] = BlocksOf(text)[e.id]
    BY <1>1, <1>2, <1>5, <1>6
  <2>. QED BY <1>1, <1>2, <2>1, EditRewritten
<1>9. /\ Rewritten(text, text2, s, d, q, e.key, e.value)
      /\ bs2[e.id] = [at |-> With(BlocksOf(text)[e.id].at, e.key, q), end |-> EndOf(text, s) + d]
      /\ \A n \in 1..Len(es) : es[n].id # e.id => bs2[es[n].id] = bs[es[n].id]
      /\ DOMAIN bs2 = Ids(old) /\ IsFunction(bs2) /\ IsFunction(text2)
  <2>1. \A n \in 1..Len(es) : es[n].id \in DOMAIN bs
    BY <1>1, <1>2, <1>6
  <2>. QED BY <1>1, <1>8, <2>1 DEF EditRewrites
<1>10. /\ Keeps(text, text2, {e.id})
       /\ Ledger(text2)[e.id] = With(Ledger(text)[e.id], e.key, e.value)
       /\ Editable(text2, bs2, t)
  <2>1. Made(text, text2, bs2, es, e)
    BY <1>1, <1>2, <1>8, EditMade
  <2>. QED BY <2>1 DEF Made, t
<1>11. Keeps(old, text2, ids)
  BY <1>1, <1>5, <1>7, <1>10, KeepsOn
<1>12. \A n \in 1..Len(t) : t[n].id \in ids
  BY <1>5, <1>7
<1>13. ASSUME NEW id \in ids
       PROVE  Becomes(id, Ledger(text2)[id], t, Goal(Ledger(old)[id], id, c))
  <2>. DEFINE F == Ledger(text)[id]
              F2 == Ledger(text2)[id]
              g == Goal(Ledger(old)[id], id, c)
  <2>1. Becomes(id, F, es, g)
    BY DEF Pending
  <2>2. F2 = IF id = e.id THEN With(F, e.key, e.value) ELSE F
    <3>1. id # e.id => id \in Ids(text) \ {e.id}
      BY <1>2
    <3>2. id # e.id => F2 = F
      BY <1>10, <3>1 DEF Keeps
    <3>. QED BY <1>10, <3>2
  <2>. HIDE DEF F, F2, g
  <2>3. Becomes(id, F2, t, g)
    BY <1>3, <2>1, <2>2, EditBrings DEF t
  <2>. QED BY <2>3 DEF F2, g
<1>14. Pending(old, c, text2, bs2, t)
  BY <1>9, <1>10, <1>11, <1>12, <1>13 DEF Pending
<1>. QED BY <1>14 DEF t

(* An edit that asks for what is there leaves the text as it is.           *)
LEMMA RepeatSteps ==
  ASSUME NEW old, Sound(old), NEW c, NEW bs, NEW es, NEW text,
         Pending(old, c, text, bs, es), Repeats(old, text, es), es # <<>>, NEW e, e = Head(es),
         NEW text2, NEW bs2,
         Replaced(text, bs, text2, bs2, e) \/ Inserted(text, bs, text2, bs2, e)
  PROVE  Repeats(old, text2, Tail(es))
<1>. DEFINE t == Tail(es)
            id == e.id
            key == e.key
            s == StartOf(old, id)
            F == Ledger(old)[id]
<1>1. /\ text = old /\ \A n \in 1..Len(es) : Holds(Ledger(old)[es[n].id], es[n])
  BY DEF Repeats
<1>2. Shaped(old) /\ IsFunction(old) /\ Parses(old)
  BY DEF Sound
<1>3. Editable(old, bs, es) /\ IsSequence(es)
  BY <1>1 DEF Editable, Pending
<1>4. IsTail(es, t)
  BY <1>3, TailIs
<1>. HIDE DEF t
<1>5. e = es[1] /\ 1 \in 1..Len(es) /\ \A n \in 1..Len(t) : t[n] = es[n + 1] /\ n + 1 \in 1..Len(es)
  BY <1>4 DEF IsTail
<1>6. \A n \in 1..Len(t) : Holds(Ledger(old)[t[n].id], t[n])
  BY <1>1, <1>5
<1>7. id \in Ids(old) /\ bs[id] = BlocksOf(old)[id] /\ key \in DOMAIN F /\ F[key] = e.value
  <2>1. Holds(Ledger(old)[es[1].id], es[1])
    BY <1>1, <1>5
  <2>2. es[1].id \in Ids(old) /\ bs[es[1].id] = BlocksOf(old)[es[1].id]
    BY <1>3, <1>5 DEF Editable
  <2>. QED BY <1>5, <2>1, <2>2 DEF Holds
<1>8. s \in Starts(old) /\ F = FieldsAt(old, s) /\ BlocksOf(old)[id] = Block(old, s)
  BY <1>2, <1>7, StartIs, LedgerIs
<1>9. DOMAIN F = KeysAt(old, s) /\ F[key] = old[LineOf(old, s, key)].value
  BY <1>7, <1>8 DEF FieldsAt
<1>10. DOMAIN bs[id].at = KeysAt(old, s) /\ bs[id].at[key] = LineOf(old, s, key)
  BY <1>7, <1>8, <1>9 DEF Block
<1>. DEFINE q == LineOf(old, s, key)
<1>11. q \in FieldLines(old, s) /\ old[q].key = key
  BY <1>7, <1>9 DEF KeysAt, LineOf
<1>12. q \in 1..Len(old)
  <2>1. EndOf(old, s) \in Int /\ EndOf(old, s) <= Len(old) + 1 /\ s \in Int /\ 1 <= s
    BY <1>2, <1>8, EndOfEntry DEF Shaped, Starts
  <2>. HIDE DEF q, s
  <2>. QED BY <1>2, <1>11, <2>1 DEF FieldLines, Shaped
<1>13. old[q] = [key |-> key, value |-> e.value, newline |-> old[q].newline]
  <2>1. IsLine(old[q])
    BY <1>2, <1>12 DEF Shaped
  <2>2. old[q].value = e.value
    BY <1>7, <1>9
  <2>. HIDE DEF q, key
  <2>3. old[q] = [key |-> old[q].key, newline |-> TRUE, value |-> old[q].value]
    BY <2>1 DEF IsLine
  <2>. QED BY <1>11, <2>2, <2>3
<1>14. text2 = [old EXCEPT ![q] = [key |-> key, value |-> e.value, newline |-> @.newline]]
  BY <1>1, <1>7, <1>9, <1>10 DEF Replaced, Inserted
<1>15. text2 = old
  <2>. DEFINE line == [key |-> key, value |-> e.value, newline |-> old[q].newline]
  <2>1. text2 = [old EXCEPT ![q] = line]
    BY <1>14
  <2>2. old[q] = line
    BY <1>13
  <2>. HIDE DEF line, q
  <2>. QED BY <1>2, <2>1, <2>2 DEF IsFunction
<1>16. Repeats(old, text2, t)
  BY <1>6, <1>15 DEF Repeats
<1>. QED BY <1>16 DEF t

(* All edits of a call are made.                                           *)
LEMMA Completes ==
  ASSUME NEW old, Sound(old), NEW c \in Calls, Accepted(Ledger(old), c), NEW text, NEW bs,
         Pending(old, c, text, bs, <<>>), Parses(text)
  PROVE  /\ Sound(text)
         /\ \A id \in DOMAIN c.updates : Ledger(text)[id] = Goal(Ledger(old)[id], id, c)
         /\ Settled(text, c)
<1>1. Keeps(old, text, DOMAIN c.updates) /\ IsFunction(text)
  BY DEF Pending
<1>2. Shaped(text) /\ Ids(text) = Ids(old)
      /\ \A a, b \in Ids(old) : StartOf(text, a) < StartOf(text, b) <=> StartOf(old, a) < StartOf(old, b)
  BY <1>1 DEF Keeps
<1>3. \A d \in Calls : OrderFits(text, d)
  <2>. SUFFICES ASSUME NEW d \in Calls, NEW i \in DOMAIN d.order, NEW j \in DOMAIN d.order,
                       i < j, {d.order[i], d.order[j]} \subseteq Ids(text)
                PROVE  StartOf(text, d.order[i]) < StartOf(text, d.order[j])
    BY DEF OrderFits
  <2>1. d.order[i] \in Ids(old) /\ d.order[j] \in Ids(old)
    BY <1>2
  <2>2. OrderFits(old, d)
    BY DEF Sound
  <2>3. StartOf(old, d.order[i]) < StartOf(old, d.order[j])
    BY <2>1, <2>2 DEF OrderFits
  <2>. QED BY <1>2, <2>1, <2>3
<1>4. Sound(text)
  BY <1>1, <1>2, <1>3 DEF Sound
<1>5. DOMAIN c.updates \subseteq Ids(old)
  BY DEF Accepted, Ledger
<1>6. ASSUME NEW id \in DOMAIN c.updates
      PROVE  /\ Entry(Ledger(old)[id]) /\ CallOn(c, id)
             /\ StatusUpdate(Status(Ledger(old)[id]), c.updates[id]) # Refused
  <2>1. Entry(Ledger(old)[id])
    BY <1>5, EntriesAre DEF Sound
  <2>2. CallOn(c, id)
    BY CallsAre
  <2>. QED BY <2>1, <2>2 DEF Accepted
<1>7. ASSUME NEW id \in DOMAIN c.updates
      PROVE  Ledger(text)[id] = Goal(Ledger(old)[id], id, c)
  <2>. DEFINE F == Ledger(text)[id]
              g == Goal(Ledger(old)[id], id, c)
  <2>1. Becomes(id, F, <<>>, g)
    BY DEF Pending
  <2>2. IsFunction(F)
    <3>1. Entry(F)
      BY <1>2, <1>5, EntriesAre
    <3>. QED BY <3>1 DEF Entry
  <2>3. IsFunction(g)
    <3>. DEFINE F0 == Ledger(old)[id]
    <3>1. Reaches(id, F0, EditSet(id, F0, c), Goal(F0, id, c), FieldKeys)
      BY <1>6, GoalReached
    <3>. HIDE DEF F0
    <3>2. IsFunction(Goal(F0, id, c))
      BY <3>1 DEF Reaches
    <3>. QED BY <3>2 DEF F0
  <2>. HIDE DEF F, g
  <2>4. \A k : ~ Waiting(<<>>, id, k)
    BY DEF Waiting
  <2>5. DOMAIN F = DOMAIN g /\ \A k \in DOMAIN F : F[k] = g[k]
    BY <2>1, <2>4 DEF Becomes
  <2>6. F = g
    BY <2>2, <2>3, <2>5 DEF IsFunction
  <2>. QED BY <2>6 DEF F, g
<1>8. ASSUME NEW id \in DOMAIN c.updates
      PROVE  \A e \in EditSet(id, Ledger(text)[id], c) : Holds(Ledger(text)[id], e)
  <2>. DEFINE F0 == Ledger(old)[id]
  <2>1. \A e \in EditSet(id, Goal(F0, id, c), c) :
            e.key \in DOMAIN Goal(F0, id, c) /\ Goal(F0, id, c)[e.key] = e.value
    BY <1>6, GoalStays
  <2>. QED BY <1>7, <2>1 DEF Holds
<1>9. Settled(text, c)
  BY <1>2, <1>5, <1>8 DEF Settled
<1>. QED BY <1>4, <1>7, <1>9

(* A call that changes nothing is made again.                              *)
LEMMA RepeatBegins ==
  ASSUME NEW text, NEW c \in Calls, Settled(text, c)
  PROVE  Repeats(text, text, AllEdits(Ledger(text), c))
<1>. DEFINE es == AllEdits(Ledger(text), c)
<1>1. EditsInOrder(es, Ledger(text), c)
  BY AllEditsAre
<1>. HIDE DEF es
<1>2. \A n \in 1..Len(es) : Holds(Ledger(text)[es[n].id], es[n])
  BY <1>1 DEF EditsInOrder, Settled
<1>3. Repeats(text, text, es)
  BY <1>2 DEF Repeats
<1>. QED BY <1>3 DEF es

(* The invariant holds initially, and every action keeps it.               *)
LEMMA InitUpdates ==
  ASSUME WholeLines, FileOrder, Init
  PROVE  UpdateInv
<1>1. file \in Files /\ temporary = Absent /\ call = Absent /\ edits = <<>> /\ written = Absent
  BY DEF Init
<1>2. /\ file \in Seq(ToSet(file)) /\ Parses(file)
      /\ \A i \in DOMAIN file :
            /\ file[i] = [key |-> file[i].key, newline |-> file[i].newline,
                          value |-> <<file[i].value[1], file[i].value[2]>>]
            /\ file[i].value[1] \in {"int", "date"} => file[i].value[2] \in Int
  BY <1>1, LedgerAssumption
<1>3. DOMAIN file = 1..Len(file) /\ Len(file) \in Nat /\ IsFunction(file)
  <2>1. IsFunction(file)
    BY <1>2, SequenceMaps
  <2>. QED BY <1>2, <2>1
<1>4. \A i \in 1..Len(file) : IsLine(file[i])
  <2>. SUFFICES ASSUME NEW i \in 1..Len(file) PROVE IsLine(file[i])
    OBVIOUS
  <2>. DEFINE line == file[i]
              v == line.value
  <2>1. file[i].newline = TRUE
    BY <1>1, <1>3 DEF WholeLines
  <2>2. line = [key |-> line.key, newline |-> line.newline, value |-> <<v[1], v[2]>>]
        /\ (v[1] \in {"int", "date"} => v[2] \in Int)
    BY <1>2, <1>3
  <2>3. line.newline = TRUE
    BY <2>1
  <2>. HIDE DEF line
  <2>4. v = <<v[1], v[2]>>
    BY <2>2
  <2>. HIDE DEF v
  <2>5. line = [key |-> line.key, newline |-> TRUE, value |-> v] /\ Typed(v)
    BY <2>2, <2>3, <2>4 DEF Typed
  <2>. QED BY <2>5 DEF IsLine, line, v
<1>5. /\ \A j \in 1..Len(file) : file[j].key # "note" => \E i \in Starts(file) : i <= j
      /\ \A i \in Starts(file) : \A j, k \in FieldLines(file, i) : file[j].key = file[k].key => j = k
  BY <1>2, <1>3 DEF Parses
<1>6. \A i, j \in Starts(file) : IdAt(file, i) = IdAt(file, j) => i = j
  <2>. SUFFICES ASSUME NEW i \in Starts(file), NEW j \in Starts(file), IdAt(file, i) = IdAt(file, j) PROVE i = j
    OBVIOUS
  <2>1. \A m \in Starts(file) : file[m].value = <<"text", IdAt(file, m)>>
    <3>. SUFFICES ASSUME NEW m \in Starts(file) PROVE file[m].value = <<"text", IdAt(file, m)>>
      OBVIOUS
    <3>1. m \in 1..Len(file) /\ file[m].key = "id" /\ m \in Int /\ m < EndOf(file, m) /\ EndOf(file, m) \in Int
      BY <1>3, EndOfEntry
    <3>2. m \in FieldLines(file, m)
      BY <3>1 DEF FieldLines
    <3>3. LineOf(file, m, "id") = m
      BY <1>5, <3>1, <3>2 DEF LineOf
    <3>4. FieldsAt(file, m)["id"] = file[m].value /\ "id" \in DOMAIN FieldsAt(file, m)
      BY <3>1, <3>2, <3>3 DEF FieldsAt, KeysAt
    <3>5. ValidFields(FieldsAt(file, m))
      BY <1>2 DEF Parses
    <3>6. file[m].value[1] = "text"
      BY <3>4, <3>5 DEF ValidFields, TypeOf
    <3>7. file[m].value = <<file[m].value[1], file[m].value[2]>>
      BY <1>4, <3>1 DEF IsLine, Typed
    <3>. QED BY <3>6, <3>7 DEF IdAt
  <2>2. file[i].value = file[j].value
    BY <2>1
  <2>. QED BY <1>2, <2>2 DEF Parses
<1>7. Shaped(file)
  BY <1>3, <1>4, <1>5, <1>6 DEF Shaped
<1>8. \A c \in Calls : OrderFits(file, c)
  BY <1>1 DEF FileOrder
<1>9. Sound(file)
  BY <1>2, <1>3, <1>7, <1>8 DEF Sound
<1>. QED BY <1>1, <1>9 DEF UpdateInv

LEMMA NextUpdates ==
  ASSUME UpdateInv, [Next]_vars
  PROVE  UpdateInv'
<1>0. /\ Sound(file)
      /\ call = Absent => temporary = Absent /\ edits = <<>>
      /\ call # Absent =>
            /\ call \in Calls /\ Accepted(Ledger(file), call)
            /\ Pending(file, call, lines, blocks, edits)
            /\ temporary # Absent => temporary = lines /\ edits = <<>> /\ Parses(lines)
            /\ call = written => Repeats(file, lines, edits)
      /\ written # Absent => written \in Calls /\ Settled(file, written)
  BY DEF UpdateInv
<1>1. ASSUME NEW c \in Calls, Begin(c, Parses(file), Ledger(file))
      PROVE  UpdateInv'
  <2>1. call = Absent /\ temporary = Absent /\ edits = <<>> /\ UNCHANGED <<written, file, temporary>>
    BY <1>0, <1>1 DEF Begin
  <2>2. CASE Parses(file) /\ Accepted(Ledger(file), c)
    <3>1. /\ call' = c /\ lines' = file /\ blocks' = BlocksOf(file) /\ edits' = AllEdits(Ledger(file), c)
      BY <1>1, <2>2 DEF Begin
    <3>2. Pending(file, c, file, BlocksOf(file), AllEdits(Ledger(file), c))
      BY <1>0, <2>2, Begins
    <3>3. c = written => Repeats(file, file, AllEdits(Ledger(file), c))
      <4>1. Absent \notin Calls
        BY LedgerAssumption
      <4>2. c = written => Settled(file, c)
        BY <1>0, <4>1
      <4>. QED BY <4>2, RepeatBegins
    <3>4. c # Absent
      BY LedgerAssumption
    <3>. QED BY <1>0, <2>1, <2>2, <3>1, <3>2, <3>3, <3>4 DEF UpdateInv
  <2>3. CASE ~ (Parses(file) /\ Accepted(Ledger(file), c))
    <3>1. UNCHANGED <<file, temporary, call, lines, blocks, edits>>
      BY <1>1, <2>3 DEF Begin
    <3>. QED BY <1>0, <2>1, <3>1 DEF UpdateInv
  <2>. QED BY <2>2, <2>3
<1>2. CASE ReplaceField \/ InsertField
  <2>. DEFINE e == Head(edits)
  <2>1. edits # <<>> /\ edits' = Tail(edits) /\ UNCHANGED <<file, temporary, call, written>>
    BY <1>2 DEF ReplaceField, InsertField
  <2>2. call # Absent /\ temporary = Absent
    BY <1>0, <2>1
  <2>3. Replaced(lines, blocks, lines', blocks', e) \/ Inserted(lines, blocks, lines', blocks', e)
    BY <1>2 DEF ReplaceField, InsertField, Replaced, Inserted
  <2>. HIDE DEF e
  <2>4. Pending(file, call, lines', blocks', Tail(edits))
    <3>1. DOMAIN call.updates \subseteq Ids(file)
      BY <1>0, <2>2 DEF Accepted, Ledger
    <3>. QED BY <1>0, <2>1, <2>2, <2>3, <3>1, EditSteps DEF e
  <2>5. call = written => Repeats(file, lines', Tail(edits))
    BY <1>0, <2>1, <2>2, <2>3, RepeatSteps DEF e
  <2>. QED BY <1>0, <2>1, <2>2, <2>4, <2>5 DEF UpdateInv
<1>3. CASE WriteTemporary
  <2>1. call # Absent /\ edits = <<>> /\ temporary = Absent /\ UNCHANGED <<file, written>>
    BY <1>3 DEF WriteTemporary
  <2>2. Serialized(lines) = lines
    <3>1. Shaped(lines)
      BY <1>0, <2>1 DEF Pending, Keeps
    <3>. QED BY <3>1, SerializedIs
  <2>3. CASE Parses(Serialized(lines))
    <3>1. temporary' = lines /\ Parses(lines) /\ UNCHANGED <<call, lines, blocks, edits>>
      BY <1>3, <2>2, <2>3 DEF WriteTemporary
    <3>. QED BY <1>0, <2>1, <3>1 DEF UpdateInv
  <2>4. CASE ~ Parses(Serialized(lines))
    <3>1. Idle
      BY <1>3, <2>4 DEF WriteTemporary
    <3>. QED BY <1>0, <2>1, <3>1 DEF UpdateInv, Idle
  <2>. QED BY <2>3, <2>4
<1>4. CASE ReplaceFile
  <2>1. temporary # Absent /\ file' = temporary /\ written' = call /\ Idle
    BY <1>4 DEF ReplaceFile
  <2>2. call # Absent /\ temporary = lines /\ edits = <<>> /\ Parses(lines)
    BY <1>0, <2>1
  <2>3. Sound(lines) /\ Settled(lines, call)
    <3>1. Pending(file, call, lines, blocks, <<>>)
      BY <1>0, <2>2
    <3>. QED BY <1>0, <2>2, <3>1, Completes
  <2>. QED BY <1>0, <2>1, <2>2, <2>3 DEF UpdateInv, Idle
<1>5. CASE Crash
  BY <1>0, <1>5 DEF Crash, Idle, UpdateInv
<1>6. CASE UNCHANGED vars
  BY <1>0, <1>6 DEF vars, UpdateInv
<1>7. CASE \E c \in Calls : Begin(c, Parses(file), Ledger(file))
  BY <1>1, <1>7
<1>. QED BY <1>2, <1>3, <1>4, <1>5, <1>6, <1>7 DEF Next

(* What a write finds.                                                     *)
LEMMA Writes ==
  ASSUME UpdateInv, ReplaceFile
  PROVE  /\ call \in Calls /\ Accepted(Ledger(file), call) /\ file' = lines
         /\ Keeps(file, file', DOMAIN call.updates)
         /\ \A id \in DOMAIN call.updates : Ledger(file')[id] = Goal(Ledger(file)[id], id, call)
         /\ call = written => file' = file
<1>1. temporary # Absent /\ file' = temporary
  BY DEF ReplaceFile
<1>2. call # Absent /\ temporary = lines /\ edits = <<>> /\ Parses(lines)
      /\ call \in Calls /\ Accepted(Ledger(file), call) /\ Pending(file, call, lines, blocks, edits)
      /\ (call = written => Repeats(file, lines, edits)) /\ Sound(file)
  BY <1>1 DEF UpdateInv
<1>3. Keeps(file, lines, DOMAIN call.updates)
  BY <1>2 DEF Pending
<1>4. \A id \in DOMAIN call.updates : Ledger(lines)[id] = Goal(Ledger(file)[id], id, call)
  <2>1. Pending(file, call, lines, blocks, <<>>)
    BY <1>2
  <2>. QED BY <1>2, <2>1, Completes
<1>5. call = written => lines = file
  BY <1>2 DEF Repeats
<1>. QED BY <1>1, <1>2, <1>3, <1>4, <1>5

(* What holds throughout a call: the text being edited keeps the entries   *)
(* and lines the call does not name, the edits still to be made find their *)
(* lines, and bring every entry to what the abstract ledger makes of it.   *)
THEOREM UpdateInvariance ==
  ASSUME WholeLines, FileOrder
  PROVE  Spec => []UpdateInv
<1>1. Init => UpdateInv
  BY InitUpdates
<1>2. UpdateInv /\ [Next]_vars => UpdateInv'
  BY NextUpdates
<1>. QED BY <1>1, <1>2, PTL DEF Spec

(* The promise of the docstring: a write changes the lines of the entries  *)
(* the call names, adds lines to them, and touches no other entry, no      *)
(* title and no comment.                                                   *)
THEOREM LinesStay ==
  ASSUME WholeLines, FileOrder
  PROVE  Spec => UntouchedLinesStay
<1>1. UpdateInv /\ [Next]_vars =>
        [ReplaceFile =>
          /\ Ids(file') = Ids(file)
          /\ \A id \in Ids(file) \ DOMAIN call.updates : BlockText(file', id) = BlockText(file, id)
          /\ Notes(file') = Notes(file)
          /\ \A id \in Ids(file) : Title(file', id) = Title(file, id)]_vars
  <2>1. ASSUME UpdateInv, ReplaceFile
        PROVE  /\ Ids(file') = Ids(file)
               /\ \A id \in Ids(file) \ DOMAIN call.updates : BlockText(file', id) = BlockText(file, id)
               /\ Notes(file') = Notes(file)
               /\ \A id \in Ids(file) : Title(file', id) = Title(file, id)
    <3>1. Keeps(file, file', DOMAIN call.updates)
      BY <2>1, Writes
    <3>. QED BY <3>1 DEF Keeps
  <2>. QED BY <2>1
<1>2. Spec => []UpdateInv
  BY UpdateInvariance
<1>. QED BY <1>1, <1>2, PTL DEF Spec, UntouchedLinesStay

(* A call that is made again after it was written writes the same text.    *)
THEOREM RetryStays ==
  ASSUME WholeLines, FileOrder
  PROVE  Spec => RetryChangesNothing
<1>1. UpdateInv /\ [Next]_vars => [ReplaceFile /\ call = written => file' = file]_vars
  BY Writes
<1>2. Spec => []UpdateInv
  BY UpdateInvariance
<1>. QED BY <1>1, <1>2, PTL DEF Spec, RetryChangesNothing

(* A step is one of the abstract ledger, or does not change its entries.   *)
LEMMA EntriesStep ==
  ASSUME UpdateInv, [Next]_vars
  PROVE  [Entries!Next]_(Ledger(file))
<1>1. CASE file' = file
  <2>1. Ledger(file)' = Ledger(file)
    BY <1>1
  <2>. QED BY <2>1
<1>2. CASE ReplaceFile
  <2>. DEFINE old == Ledger(file)
              new == Ledger(file')
  <2>1. call \in Calls /\ Accepted(old, call) /\ Keeps(file, file', DOMAIN call.updates)
        /\ \A id \in DOMAIN call.updates : new[id] = Goal(old[id], id, call)
    BY <1>2, Writes
  <2>2. DOMAIN old = Ids(file) /\ DOMAIN new = Ids(file')
    BY DEF Ledger
  <2>3. DOMAIN new = DOMAIN old /\ \A id \in DOMAIN old \ DOMAIN call.updates : new[id] = old[id]
    BY <2>1, <2>2 DEF Keeps
  <2>. HIDE DEF old, new
  <2>4. Entries!Accepts(old, call)
    <3>1. \A F, u : Entries!StatusUpdate(Entries!Status(F), u) = StatusUpdate(Status(F), u)
      BY SameOperators, SameStatusUpdate
    <3>2. Entries!Refused = Refused
      BY DEF Entries!Refused, Refused
    <3>. QED BY <2>1, <3>1, <3>2 DEF Accepted, Entries!Accepts
  <2>5. \A id \in DOMAIN old :
            new[id] = IF id \in DOMAIN call.updates
                      THEN Entries!Updated(old[id], call.updates[id], call.found[id], call.day)
                      ELSE old[id]
    BY <2>1, <2>3 DEF Goal
  <2>6. Entries!Step(old, new)
    BY <2>1, <2>3, <2>4, <2>5 DEF Entries!Step
  <2>7. Ledger(file)' = new
    BY DEF new
  <2>. QED BY <2>6, <2>7 DEF Entries!Next, old
<1>3. file' = file \/ ReplaceFile
  BY DEF Next, Begin, ReplaceField, InsertField, WriteTemporary, Crash, vars
<1>. QED BY <1>1, <1>2, <1>3

(* Editing lines one by one by the numbers of the first parse implements   *)
(* the ledger of entries, where a call moves its entries in one step.      *)
THEOREM EntriesImplemented ==
  ASSUME WholeLines, FileOrder
  PROVE  Spec => ImplementsEntries
<1>1. Init => Entries!Init
  <2>. SUFFICES ASSUME Init, NEW id \in DOMAIN Ledger(file) PROVE Entries!ValidFields(Ledger(file)[id])
    BY DEF Entries!Init
  <2>1. Shaped(file) /\ Parses(file)
    BY InitUpdates DEF UpdateInv, Sound
  <2>2. id \in Ids(file)
    BY DEF Ledger
  <2>3. ValidFields(Ledger(file)[id])
    BY <2>1, <2>2, EntriesAre DEF Entry
  <2>. QED BY <2>3, SameValidFields
<1>2. Spec => []UpdateInv
  BY UpdateInvariance
<1>3. UpdateInv /\ [Next]_vars => [Entries!Next]_(Ledger(file))
  BY EntriesStep
<1>. QED BY <1>1, <1>2, <1>3, PTL DEF Spec, ImplementsEntries, Entries!Spec
=============================================================================
