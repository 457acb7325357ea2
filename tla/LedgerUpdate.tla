---------------------------- MODULE LedgerUpdate ----------------------------
(***************************************************************************)
(* update_ledger on the text of the ledger (src/scripts/ledger.py): parse  *)
(* the lines into blocks, edit the lines one field at a time, parse the    *)
(* result, and replace the file.                                           *)
(*                                                                         *)
(* A line is [key, value, newline].  Its key is "id" where an entry        *)
(* starts, "note" for a comment or an empty line, else the field's name.   *)
(* Its value is typed, <<type, value>>, as _parse_value makes it.  Only    *)
(* the last line may lack its newline; texts are taken to be written       *)
(* without quotes and line ends to be of one kind.  The edits go by the    *)
(* line numbers of the first parse: they are only right as long as no line *)
(* moves.                                                                  *)
(***************************************************************************)
EXTENDS LedgerFields, Orders, Sequences, SequencesExt, FiniteSetsExt

CONSTANTS
    Files,      \* the ledgers a host may have written
    Calls,      \* calls, see LedgerEntries, with "order": the touched ids
                \* in the order of the caller's mapping
    NoDay,
    Absent,     \* no temporary file, no call
    MaxCalls    \* bound on the calls of a behavior

VARIABLES
    file,       \* the ledger on disk
    temporary,  \* the temporary file next to it, or Absent
    call,       \* the call in progress, or Absent
    lines,      \* its lines, as edited so far
    blocks,     \* its blocks: per id, the recorded fields and the end
    edits,      \* what it has yet to edit: a sequence of [id, key, value]
    calls,      \* the number of calls made
    written     \* history: the last call whose result was written, or Absent

vars == <<file, temporary, call, lines, blocks, edits, calls, written>>

-----------------------------------------------------------------------------
(* _parse_document. *)

Starts(text) == {i \in DOMAIN text : text[i].key = "id"}
EndOf(text, i) == Min({j \in Starts(text) : j > i} \cup {Len(text) + 1})

FieldLines(text, i) == {j \in i..EndOf(text, i)-1 : text[j].key # "note"}

KeysAt(text, i) == {text[j].key : j \in FieldLines(text, i)}
LineOf(text, i, key) == CHOOSE j \in FieldLines(text, i) : text[j].key = key

FieldsAt(text, i) == [k \in KeysAt(text, i) |-> text[LineOf(text, i, k)].value]
Block(text, i) == [at |-> [k \in KeysAt(text, i) |-> LineOf(text, i, k)], end |-> EndOf(text, i)]

Parses(text) ==
    /\ \A j \in DOMAIN text :
          text[j].key # "note" => \E i \in Starts(text) : i <= j
    /\ \A i \in Starts(text) :
          /\ \A j, k \in FieldLines(text, i) : text[j].key = text[k].key => j = k
          /\ ValidFields(FieldsAt(text, i))
    /\ \A i, j \in Starts(text) : text[i].value = text[j].value => i = j

IdAt(text, i) == text[i].value[2]
Ids(text) == {IdAt(text, i) : i \in Starts(text)}
StartOf(text, id) == CHOOSE i \in Starts(text) : IdAt(text, i) = id

(* The ledger as the entries it stands for. *)
Ledger(text) == [id \in Ids(text) |-> FieldsAt(text, StartOf(text, id))]
BlocksOf(text) == [id \in Ids(text) |-> Block(text, StartOf(text, id))]

(***************************************************************************)
(* The serialized text, parsed again.  A line that ends without a newline  *)
(* runs into the line after it: a comment swallows it, a list before a     *)
(* list becomes a list of one strange item, a text becomes another text    *)
(* (which no id or status may be), and nothing else is a value of the type *)
(* its field needs.                                                        *)
(***************************************************************************)
Glued(first, second) ==
    LET value ==
          CASE first.key = "note" -> first.value
            [] first.key # "note" /\ first.value[1] = "list" /\ second.value[1] = "list" ->
                  <<"list", {"glued"}>>
            [] first.key \notin {"note", "id"} /\ first.value[1] = "text" -> <<"text", "glued">>
            [] OTHER -> <<"none", "glued">>
    IN  [key |-> first.key, value |-> value, newline |-> second.newline]

Serialized(text) ==
    LET open == {i \in 1..Len(text)-1 : ~ text[i].newline}
    IN  IF open = {} THEN text
        ELSE LET i == CHOOSE i \in open : TRUE
             IN  SubSeq(text, 1, i-1) \o <<Glued(text[i], text[i+1])>>
                   \o SubSeq(text, i+2, Len(text))

(* What a host may have written, and hand over. *)
ASSUME LedgerAssumption ==
    /\ \A text \in Files :
          /\ text \in Seq(ToSet(text)) /\ Parses(text)
          /\ \A i \in DOMAIN text :
                /\ text[i] = [key |-> text[i].key, newline |-> text[i].newline,
                              value |-> <<text[i].value[1], text[i].value[2]>>]
                /\ text[i].value[1] \in {"int", "date"} => text[i].value[2] \in Int
    /\ \A c \in Calls :
          /\ c.order \in Seq(DOMAIN c.updates) /\ ToSet(c.order) = DOMAIN c.updates
          /\ IsInjective(c.order)
          /\ \A id \in DOMAIN c.updates :
                /\ c.updates[id].kind \in {"checks", "status", "entry"}
                /\ IsFiniteSet(c.found[id]) /\ Days(c.found[id]) \subseteq Int
          /\ c.day \in Int \cup {NoDay}
    /\ NoDay \notin Int /\ Absent \notin Calls

-----------------------------------------------------------------------------
(***************************************************************************)
(* The edits of one entry, in the order update_ledger makes them.  All of  *)
(* them follow from the entry as it was parsed.                            *)
(***************************************************************************)
Edit(id, key, value) == [id |-> id, key |-> key, value |-> value]
If(condition, edit) == IF condition THEN <<edit>> ELSE <<>>

RequestEdits(id, fields, update) ==
    LET current == Status(fields)
        target == StatusUpdate(current, update)
        entry == update.kind = "entry"
    IN  If(target # current, Edit(id, "status", <<"text", target>>))
        \o If(entry /\ update.wired_check # "",
              Edit(id, "wired_check", <<"text", update.wired_check>>))
        \o If(entry /\ update.artifacts # {},
              Edit(id, "artifact_ids", <<"list", update.artifacts>>))

FindingEdits(id, fields, found, day) ==
    LET new == NewSessions(fields, found)
        first == Min(Days(found))
        last == IF day = NoDay THEN Max(Days(found)) ELSE day
        has(key) == key \in DOMAIN fields
    IN  If(new # {} \/ ~ has("evidence"),
           Edit(id, "evidence", <<"list", OldSessions(fields) \cup new>>))
        \o If(new # {} \/ has("sessions"),
              Edit(id, "sessions",
                   <<"int", Field(fields, "sessions", 0) + Cardinality(new)>>))
        \o If(~ has("first_seen") \/ first < Field(fields, "first_seen", 0),
              Edit(id, "first_seen", <<"date", first>>))
        \o If(~ has("last_seen") \/ last > Field(fields, "last_seen", 0),
              Edit(id, "last_seen", <<"date", last>>))

(* Mutant: with findings, the requested part is forgotten. *)
EitherEditsOf(id, fields, c) ==
    IF c.found[id] = {} THEN RequestEdits(id, fields, c.updates[id])
    ELSE FindingEdits(id, fields, c.found[id], c.day)

EditsOf(id, fields, c) ==
    RequestEdits(id, fields, c.updates[id])
    \o (IF c.found[id] = {} THEN <<>> ELSE FindingEdits(id, fields, c.found[id], c.day))

(* Mutant: the touched entries are taken first to last. *)
CallersOrder(c) == c.order

(* The touched entries are taken last to first in the caller's order. *)
Order(c) == Reverse(c.order)

AllEdits(entries, c) ==
    FlattenSeq([i \in DOMAIN c.order |-> EditsOf(Order(c)[i], entries[Order(c)[i]], c)])

(* A call is refused as a whole when an id is unknown or a status refused. *)
Accepted(entries, c) ==
    /\ DOMAIN c.updates \subseteq DOMAIN entries
    /\ \A id \in DOMAIN c.updates : StatusUpdate(Status(entries[id]), c.updates[id]) # Refused

-----------------------------------------------------------------------------
Idle == /\ temporary' = Absent /\ call' = Absent
        /\ lines' = <<>> /\ blocks' = <<>> /\ edits' = <<>>

Init ==
    /\ file \in Files
    /\ temporary = Absent /\ call = Absent
    /\ lines = <<>> /\ blocks = <<>> /\ edits = <<>>
    /\ calls = 0
    /\ written = Absent

(* The host calls; a refused call raises before anything is written. *)
Begin(c, parses, entries) ==
    /\ call = Absent
    /\ calls < MaxCalls
    /\ calls' = calls + 1
    /\ UNCHANGED written
    /\ IF parses /\ Accepted(entries, c)
       THEN /\ call' = c
            /\ lines' = file
            /\ blocks' = BlocksOf(file)
            /\ edits' = AllEdits(entries, c)
            /\ UNCHANGED <<file, temporary>>
       ELSE UNCHANGED <<file, temporary, call, lines, blocks, edits>>

(* _replace_field of a field that was there at the parse: the line that now *)
(* has its number becomes the field, whatever it was.                       *)
ReplaceField ==
    /\ edits # <<>>
    /\ LET e == Head(edits)
           at == blocks[e.id].at
       IN  /\ e.key \in DOMAIN at
           /\ lines' = [lines EXCEPT ![at[e.key]] =
                          [key |-> e.key, value |-> e.value, newline |-> @.newline]]
    /\ edits' = Tail(edits)
    /\ UNCHANGED <<file, temporary, call, blocks, calls, written>>

(* _replace_field of a field that was not there: a new line at the end of   *)
(* the block, as recorded.                                                  *)
InsertField ==
    /\ edits # <<>>
    /\ LET e == Head(edits)
           block == blocks[e.id]
       IN  /\ e.key \notin DOMAIN block.at
           /\ lines' = InsertAt(lines, block.end,
                                [key |-> e.key, value |-> e.value, newline |-> TRUE])
           /\ blocks' = [blocks EXCEPT ![e.id] =
                           [at |-> With(@.at, e.key, @.end), end |-> @.end + 1]]
    /\ edits' = Tail(edits)
    /\ UNCHANGED <<file, temporary, call, calls, written>>

(* Mutant: the result is not parsed again. *)
WriteTemporaryUnparsed ==
    /\ call # Absent /\ edits = <<>> /\ temporary = Absent
    /\ temporary' = Serialized(lines)
    /\ UNCHANGED <<file, call, lines, blocks, edits, calls, written>>

(* The result is parsed again, and written to a temporary file. *)
WriteTemporary ==
    /\ call # Absent /\ edits = <<>> /\ temporary = Absent
    /\ IF Parses(Serialized(lines))
       THEN /\ temporary' = Serialized(lines)
            /\ UNCHANGED <<call, lines, blocks, edits>>
       ELSE Idle
    /\ UNCHANGED <<file, calls, written>>

(* os.replace. *)
ReplaceFile ==
    /\ temporary # Absent
    /\ file' = temporary
    /\ written' = call
    /\ Idle
    /\ UNCHANGED calls

(* The caller is killed, or a system call fails: the file is as it was. *)
Crash ==
    /\ call # Absent
    /\ Idle
    /\ UNCHANGED <<file, calls, written>>

Next ==
    \/ LET parses == Parses(file)
           entries == Ledger(file)
       IN  \E c \in Calls : Begin(c, parses, entries)
    \/ ReplaceField \/ InsertField
    \/ WriteTemporary \/ ReplaceFile \/ Crash

Spec == Init /\ [][Next]_vars
-----------------------------------------------------------------------------
(* The ledger on disk parses at all times, also after a crash.             *)
LedgerAlwaysParses == Parses(file)

(* The lines of an entry, with its comments. *)
BlockText(text, id) == SubSeq(text, StartOf(text, id), EndOf(text, StartOf(text, id)) - 1)
NoteLines(text) == {i \in DOMAIN text : text[i].key = "note"}
Before(S) == {p \in S \X S : p[1] < p[2]}
Notes(text) == [n \in 1..Cardinality(NoteLines(text)) |->
                   text[InOrder(NoteLines(text), Before(NoteLines(text)))[n]]]
Title(text, id) == Field(Ledger(text)[id], "title", "none")

(***************************************************************************)
(* The docstring of update_ledger: only touched entries are updated, and   *)
(* "existing comments and unrelated fields remain byte-for-byte            *)
(* unchanged".                                                             *)
(***************************************************************************)
UntouchedLinesStay ==
    [][ReplaceFile =>
          /\ Ids(file') = Ids(file)
          /\ \A id \in Ids(file) \ DOMAIN call.updates : BlockText(file', id) = BlockText(file, id)
          /\ Notes(file') = Notes(file)
          /\ \A id \in Ids(file) : Title(file', id) = Title(file, id)]_vars

(***************************************************************************)
(* A call made again after it was written (the caller was killed before it *)
(* saw the end) writes the same text: no session is counted twice.         *)
(***************************************************************************)
RetryChangesNothing == [][ReplaceFile /\ call = written => file' = file]_vars

(***************************************************************************)
(* Every write is one step of the abstract ledger, and nothing else        *)
(* changes its entries.                                                    *)
(***************************************************************************)
Entries == INSTANCE LedgerEntries WITH entries <- Ledger(file)
ImplementsEntries == Entries!Spec
=============================================================================
