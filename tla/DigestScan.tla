----------------------------- MODULE DigestScan -----------------------------
(***************************************************************************)
(* The scan of live transcripts (src/scripts/digest.py), and the check of  *)
(* the manifest it leaves behind against transcripts that have lived on    *)
(* (_load_manifest, _validate_continuation_manifest of                     *)
(* src/scripts/reflect_setup.py, discover_sessions of                      *)
(* src/scripts/runtime.py).                                                *)
(*                                                                         *)
(* The sessions append to their transcripts while the tool reads them.     *)
(* What a session will ever write is its script, a sequence of entries; a  *)
(* transcript is the first size[p] pieces of it.  An entry is written in   *)
(* three pieces: the head of its JSON text, the tail, and the newline.     *)
(* Neither half of a text is JSON.  A hash of the bytes read is the number *)
(* of pieces read.                                                         *)
(*                                                                         *)
(* An entry is [time, broken, meta, signals]: its event time, or NoTime;   *)
(* whether its text is not JSON; the session metadata it carries (Codex);  *)
(* and the kinds of signal in it.                                          *)
(***************************************************************************)
EXTENDS Integers, Sequences

CONSTANTS
    Paths,      \* the transcripts that may come to be, apart from "memory"
    Rank,       \* [Paths -> Nat], the place of a path among the sorted paths
    Folder,     \* [Paths -> project], the first part of the path or NoProject
    Subagents,  \* the paths with a part "subagents"
    Scripts,    \* what the sessions may write: functions from Paths to
                \* sequences of entries
    Specs,      \* [codex: BOOLEAN, projects: those the filter matches,
                \*  subagents: BOOLEAN]
    Since,      \* the cutoff
    NoTime, NoProject,
    NoMeta,     \* an entry that is no session_meta
    BadMeta,    \* a session_meta without a usable session id
    Unread,     \* no scan, no hash
    None

ASSUME ScanAssumption ==
    /\ Rank \in [Paths -> Nat]
    /\ \A p, q \in Paths : Rank[p] = Rank[q] => p = q
    /\ Subagents \subseteq Paths
    /\ DOMAIN Folder = Paths
    /\ \A s \in Scripts : DOMAIN s = Paths /\ \A p \in Paths : Len(s[p]) \in Nat
    /\ NoTime \notin Int
    /\ None \notin {"complete", "incomplete", "accepted", "refused"}

VARIABLES
    spec, script,  \* chosen at the start: the runtime and scope, the sessions
    file,       \* per path: "none" yet, "here", or "gone"
    size,       \* per path: the pieces written
    pc,         \* "list", "scan", "idle", "discover", "hash", "rescan", "stop"
    pending,    \* the paths still to be handled in this phase
    scan,       \* the scan in progress, or Unread
    records,    \* the manifest's source_files, as scanned so far
    found,      \* the sessions found by the continuation so far
    outcome     \* None, "complete", "incomplete", "accepted", "refused"

vars == <<spec, script, file, size, pc, pending, scan, records, found, outcome>>
world == <<spec, script, file, size>>

Pieces(p) == 3 * Len(script[p])

-----------------------------------------------------------------------------
(***************************************************************************)
(* One line, read by _scan_typed_source: from the position of the reader   *)
(* to the next newline, or to the end of what is written by now.  The rest *)
(* of a line that was read too early becomes a line of its own.            *)
(***************************************************************************)
NextNewline(at) == 3 * (at \div 3) + 3

(* Mutant: the reader goes on to the newline, written or not. *)
LineEndUnwritten(at, n) == NextNewline(at)

LineEnd(at, n) == IF NextNewline(at) <= n THEN NextNewline(at) ELSE n

NewScan == [at |-> 0, line |-> 0, malformed |-> FALSE, meta |-> NoMeta,
            badMeta |-> FALSE, signals |-> {}]

BlankLine(r) == r.at % 3 = 2
WholeLine(r, to, entry) == r.at % 3 = 0 /\ to >= r.at + 2 /\ ~ entry.broken

SignalsOf(entry, line) ==
    IF entry.time # NoTime /\ entry.time >= Since
    THEN {[line |-> line, time |-> entry.time, kind |-> kind] : kind \in entry.signals}
    ELSE {}

Noticed(r, entry) ==
    [r EXCEPT !.meta = IF @ = NoMeta /\ entry.meta # BadMeta THEN entry.meta ELSE @,
              !.badMeta = @ \/ entry.meta = BadMeta,
              !.signals = @ \cup SignalsOf(entry, r.line)]

(* Mutant: a line that is not JSON is skipped without a note. *)
AfterLineTolerant(r, to, entry) ==
    LET moved == [r EXCEPT !.at = to, !.line = @ + 1]
    IN  IF WholeLine(r, to, entry) THEN Noticed(moved, entry) ELSE moved

AfterLine(r, to, entry) ==
    LET moved == [r EXCEPT !.at = to, !.line = @ + 1]
    IN  IF BlankLine(r) THEN moved
        ELSE IF WholeLine(r, to, entry) THEN Noticed(moved, entry)
        ELSE [moved EXCEPT !.malformed = TRUE]

-----------------------------------------------------------------------------
(* What a finished scan becomes in the manifest. *)

Project(p, meta) ==
    IF ~ spec.codex THEN Folder[p]
    ELSE IF meta = NoMeta THEN NoProject ELSE meta.project

Session(p, meta) == IF spec.codex THEN meta.session ELSE p

PathIncluded(p) == spec.subagents \/ p \notin Subagents

InScope(p, meta) ==
    /\ PathIncluded(p)
    /\ spec.codex => meta # NoMeta /\ (spec.subagents \/ meta.thread = "user")
    /\ Project(p, meta) \in spec.projects

Indexed(p, meta, signals) ==
    IF InScope(p, meta)
    THEN {[line |-> s.line, time |-> s.time, kind |-> s.kind,
           project |-> Project(p, meta), session |-> Session(p, meta)] : s \in signals}
    ELSE {}

(* complete: no malformed line and, for Codex, usable metadata. *)
SourceOf(p, r) ==
    [hash |-> r.at, project |-> Project(p, r.meta),
     thread |-> IF spec.codex /\ r.meta # NoMeta THEN r.meta.thread ELSE None,
     index |-> Indexed(p, r.meta, r.signals),
     complete |-> ~ r.malformed /\ (spec.codex => r.meta # NoMeta /\ ~ r.badMeta)]

(* The transcript could not be opened. *)
Unreadable(p) ==
    [hash |-> Unread, project |-> Project(p, NoMeta), thread |-> None, index |-> {},
     complete |-> FALSE]

Complete == \A p \in DOMAIN records : records[p].complete

-----------------------------------------------------------------------------
(* What a continuation compares. *)

(* _load_manifest refuses an index entry without a project. *)
ManifestLoads == \A p \in DOMAIN records : \A e \in records[p].index : e.project # NoProject

(* Mutant: the threads of the sessions are not looked at. *)
ManifestSessionsOfAllThreads ==
    {p \in DOMAIN records : PathIncluded(p) /\ records[p].project \in spec.projects}

(* _manifest_session_paths: the manifest's sources that are in scope. *)
ManifestSessions ==
    {p \in DOMAIN records :
        /\ PathIncluded(p)
        /\ spec.codex /\ ~ spec.subagents => records[p].thread = "user"
        /\ records[p].project \in spec.projects}

(* The entries of a transcript that read as JSON by now. *)
Readable(p) == {i \in 1..Len(script[p]) : 3*i - 1 <= size[p] /\ ~ script[p][i].broken}

(* _read_codex_metadata: the first session_meta, usable or not. *)
FirstMeta(p) ==
    LET metas == {i \in Readable(p) : script[p][i].meta # NoMeta}
    IN  IF metas = {} THEN NoMeta
        ELSE script[p][CHOOSE i \in metas : \A j \in metas : i <= j].meta

(* discover_sessions, of one path. *)
IsSession(p) ==
    IF spec.codex THEN FirstMeta(p) # BadMeta /\ InScope(p, FirstMeta(p))
                  ELSE InScope(p, NoMeta)

(* Mutant: the evidence index is not compared. *)
SameSourceButIndex(recorded, again) ==
    recorded.project = again.project /\ recorded.thread = again.thread

SameSource(recorded, again) ==
    /\ recorded.project = again.project
    /\ recorded.thread = again.thread
    /\ recorded.index = again.index

-----------------------------------------------------------------------------
(* The sessions, which do not wait for the tool. *)

Create(p) ==
    /\ file[p] = "none"
    /\ file' = [file EXCEPT ![p] = "here"]
    /\ UNCHANGED <<spec, script, size, pc, pending, scan, records, found, outcome>>

Write(p) ==
    /\ file[p] = "here" /\ size[p] < Pieces(p)
    /\ size' = [size EXCEPT ![p] = @ + 1]
    /\ UNCHANGED <<spec, script, file, pc, pending, scan, records, found, outcome>>

(* A transcript is deleted; a reader that has it open reads on. *)
Vanish(p) ==
    /\ file[p] = "here"
    /\ file' = [file EXCEPT ![p] = "gone"]
    /\ UNCHANGED <<spec, script, size, pc, pending, scan, records, found, outcome>>

-----------------------------------------------------------------------------
(* Reading a transcript, for the manifest or for the check of it. *)

Present == {p \in Paths : file[p] = "here"}

(* The paths are taken in their sorted order. *)
Due(p) == p \in pending /\ \A q \in pending : Rank[p] <= Rank[q]

(* _candidate_paths. *)
List ==
    /\ pc = "list"
    /\ pc' = "scan" /\ pending' = Present
    /\ UNCHANGED <<world, scan, records, found, outcome>>

Open(p) ==
    /\ pc \in {"scan", "rescan"} /\ Due(p) /\ scan = Unread
    /\ file[p] = "here"
    /\ scan' = NewScan
    /\ UNCHANGED <<world, pc, pending, records, found, outcome>>

ReadLine(p) ==
    /\ Due(p) /\ scan # Unread /\ scan.at < size[p]
    /\ scan' = AfterLine(scan, LineEnd(scan.at, size[p]), script[p][scan.at \div 3 + 1])
    /\ UNCHANGED <<world, pc, pending, records, found, outcome>>

(* The reader is at the end of the file, or could not open it: the record. *)
Scanned(p, source) ==
    \/ scan = Unread /\ file[p] # "here" /\ source = Unreadable(p)
    \/ scan # Unread /\ scan.at = size[p] /\ source = SourceOf(p, scan)

Sources(p) == {Unreadable(p)} \cup (IF scan = Unread THEN {} ELSE {SourceOf(p, scan)})

Record(p) ==
    /\ pc = "scan" /\ Due(p)
    /\ \E source \in Sources(p) :
          /\ Scanned(p, source)
          /\ records' = [q \in DOMAIN records \cup {p} |-> IF q = p THEN source ELSE records[q]]
    /\ pending' = pending \ {p} /\ scan' = Unread
    /\ UNCHANGED <<world, pc, found, outcome>>

(* The digests and the manifest are written: see ReflectionRun. *)
WriteManifest ==
    /\ pc = "scan" /\ pending = {}
    /\ IF Complete THEN pc' = "idle" /\ outcome' = "complete"
                   ELSE pc' = "stop" /\ outcome' = "incomplete"
    /\ UNCHANGED <<world, pending, scan, records, found>>

-----------------------------------------------------------------------------
(* A continuation. *)

Refuse == /\ pc' = "idle" /\ outcome' = "refused"
          /\ pending' = {} /\ scan' = Unread /\ found' = {}
          /\ UNCHANGED <<world, records>>

Load ==
    /\ pc = "idle"
    /\ IF ManifestLoads
       THEN /\ pc' = "discover" /\ pending' = Present
            /\ UNCHANGED <<world, scan, records, found, outcome>>
       ELSE Refuse

Discover(p) ==
    /\ pc = "discover" /\ Due(p)
    /\ found' = found \cup {q \in {p} : file[q] = "here" /\ IsSession(q)}
    /\ pending' = pending \ {p}
    /\ UNCHANGED <<world, pc, scan, records, outcome>>

CompareSessions ==
    /\ pc = "discover" /\ pending = {}
    /\ IF found = ManifestSessions
       THEN /\ pc' = "hash" /\ found' = {}
            /\ pending' = DOMAIN records
            /\ UNCHANGED <<world, scan, records, outcome>>
       ELSE Refuse

CompareHash(p) ==
    /\ pc = "hash" /\ Due(p)
    /\ IF file[p] = "here" /\ size[p] = records[p].hash
       THEN /\ pc' = "rescan"
            /\ UNCHANGED <<world, pending, scan, records, found, outcome>>
       ELSE Refuse

CompareSource(p) ==
    /\ pc = "rescan" /\ Due(p)
    /\ \E source \in Sources(p) :
          /\ Scanned(p, source)
          /\ IF SameSource(records[p], source)
             THEN /\ pc' = "hash" /\ pending' = pending \ {p} /\ scan' = Unread
                  /\ UNCHANGED <<world, records, found, outcome>>
             ELSE Refuse

Accept ==
    /\ pc = "hash" /\ pending = {}
    /\ pc' = "idle" /\ outcome' = "accepted"
    /\ UNCHANGED <<world, pending, scan, records, found>>

-----------------------------------------------------------------------------
Init ==
    /\ spec \in Specs /\ script \in Scripts
    /\ file \in [Paths -> {"none", "here"}]
    /\ size = [p \in Paths |-> 0]
    /\ pc = "list" /\ pending = {} /\ scan = Unread
    /\ records = [p \in {} |-> None] /\ found = {} /\ outcome = None

Next ==
    \/ \E p \in Paths :
          \/ Create(p) \/ Write(p) \/ Vanish(p)
          \/ Open(p) \/ ReadLine(p) \/ Record(p)
          \/ Discover(p) \/ CompareHash(p) \/ CompareSource(p)
    \/ List \/ WriteManifest \/ Load \/ CompareSessions \/ Accept

Spec == Init /\ [][Next]_vars

-----------------------------------------------------------------------------
(* A transcript of n pieces at rest, said without reading it line by line. *)

WholeEntries(p, n) == {i \in 1..Len(script[p]) : 3*i - 1 <= n /\ ~ script[p][i].broken}

TrueMeta(p, n) ==
    LET metas == {i \in WholeEntries(p, n) : script[p][i].meta \notin {NoMeta, BadMeta}}
    IN  IF metas = {} THEN NoMeta
        ELSE script[p][CHOOSE i \in metas : \A j \in metas : i <= j].meta

TrueIndex(p, n) ==
    Indexed(p, TrueMeta(p, n), UNION {SignalsOf(script[p][i], i) : i \in WholeEntries(p, n)})

Unnumbered(index) == {[e EXCEPT !.line = 0] : e \in index}

TypeOK ==
    /\ spec \in Specs /\ script \in Scripts
    /\ file \in [Paths -> {"none", "here", "gone"}]
    /\ \A p \in Paths : size[p] \in 0..Pieces(p)
    /\ pc \in {"list", "scan", "idle", "discover", "hash", "rescan", "stop"}
    /\ pending \subseteq Paths /\ found \subseteq Paths /\ DOMAIN records \subseteq Paths
    /\ scan # Unread => \E p \in Paths : Due(p) /\ scan.at <= size[p] /\ scan.line <= scan.at
    /\ outcome \in {None, "complete", "incomplete", "accepted", "refused"}

(***************************************************************************)
(* A manifest is called complete only if its evidence index has exactly    *)
(* the signals of the bytes it hashed, and these end between two lines:    *)
(* whatever the sessions wrote while they were read, nothing of it is      *)
(* half taken in.  (The numbers of the lines are another matter: a line    *)
(* read before its newline was written shifts those after it.)             *)
(***************************************************************************)
CompleteMeansWhole ==
    outcome # None /\ Complete =>
        \A p \in DOMAIN records :
            /\ records[p].hash % 3 # 1
            /\ Unnumbered(records[p].index) = Unnumbered(TrueIndex(p, records[p].hash))

(***************************************************************************)
(* When a continuation accepts the manifest, every line number of the      *)
(* evidence index is right: what a miner cites is what was said there.     *)
(***************************************************************************)
AcceptedIndexIsTrue ==
    outcome = "accepted" =>
        \A p \in DOMAIN records : records[p].index = TrueIndex(p, records[p].hash)

(***************************************************************************)
(* A complete manifest is refused only if a transcript has grown, appeared *)
(* or gone, or was numbered wrongly: two ways to list the sessions and two *)
(* ways to read a transcript agree on what is in scope.  ("A later         *)
(* invocation with the same run directory reuses its complete manifest.")  *)
(***************************************************************************)
RefusedForAReason ==
    outcome = "refused" =>
        \E p \in Paths :
            IF p \in DOMAIN records
            THEN \/ file[p] = "gone" \/ size[p] # records[p].hash
                 \/ records[p].index # TrueIndex(p, records[p].hash)
            ELSE file[p] # "none"
=============================================================================
