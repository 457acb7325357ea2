--------------------------- MODULE LedgerEntries ---------------------------
(***************************************************************************)
(* What update_ledger promises (src/scripts/ledger.py, its docstring): the *)
(* ledger is a set of entries, a call moves the entries it names in one    *)
(* step, each by its own update and its own findings, and leaves the       *)
(* others alone.                                                           *)
(*                                                                         *)
(* A call is a record                                                      *)
(*   [updates: id -> update, found: id -> set of [session, day], day].     *)
(***************************************************************************)
EXTENDS LedgerFields, FiniteSetsExt

CONSTANTS
    Calls,      \* the calls of update_ledger
    NoDay       \* a call without run_date

VARIABLE entries

(* The requested part of an update: status, wired check, artifacts. *)
Requested(fields, update) ==
    LET moved == With(fields, "status", <<"text", StatusUpdate(Status(fields), update)>>)
        wired == IF update.kind = "entry" /\ update.wired_check # ""
                 THEN With(moved, "wired_check", <<"text", update.wired_check>>) ELSE moved
    IN  IF update.kind = "entry" /\ update.artifacts # {}
        THEN With(wired, "artifact_ids", <<"list", update.artifacts>>) ELSE wired

(* The findings' part: sessions are counted once, dates only widen. *)
Counted(fields, found) ==
    LET new == NewSessions(fields, found)
        seen == With(fields, "evidence", <<"list", OldSessions(fields) \cup new>>)
    IN  IF new # {} \/ "sessions" \in DOMAIN fields
        THEN With(seen, "sessions", <<"int", Field(fields, "sessions", 0) + Cardinality(new)>>)
        ELSE seen

Widened(fields, found, day) ==
    LET first == Min(Days(found) \cup ({Field(fields, "first_seen", NoDay)} \ {NoDay}))
        last == Max(({Field(fields, "last_seen", NoDay)} \ {NoDay})
                      \cup (IF day = NoDay THEN {Max(Days(found))} ELSE {day}))
    IN  With(With(fields, "first_seen", <<"date", first>>), "last_seen", <<"date", last>>)

Updated(fields, update, found, day) ==
    LET requested == Requested(fields, update)
    IN  IF found = {} THEN requested
        ELSE Widened(Counted(requested, found), found, day)

(* A call is refused as a whole when one of its entries is. *)
Accepts(before, call) ==
    /\ DOMAIN call.updates \subseteq DOMAIN before
    /\ \A id \in DOMAIN call.updates :
          StatusUpdate(Status(before[id]), call.updates[id]) # Refused

Step(before, after) ==
    /\ DOMAIN after = DOMAIN before
    /\ \E call \in Calls :
          /\ Accepts(before, call)
          /\ \A id \in DOMAIN before :
                after[id] = IF id \in DOMAIN call.updates
                            THEN Updated(before[id], call.updates[id], call.found[id], call.day)
                            ELSE before[id]

(* Bound, so that TLC computes the two ledgers of a step once. *)
Next == \E before \in {entries}, after \in {entries'} : before # after /\ Step(before, after)

Init == \A id \in DOMAIN entries : ValidFields(entries[id])

Spec == Init /\ [][Next]_entries
=============================================================================
