---------------------------- MODULE LedgerFields ----------------------------
(***************************************************************************)
(* The fields of a ledger entry (src/scripts/ledger.py): a function from   *)
(* field names to typed values <<type, value>>, as _parse_value makes      *)
(* them; and what the findings of a run mean for them.                     *)
(***************************************************************************)
EXTENDS LedgerTransitions, Integers, FiniteSets

(***************************************************************************)
(* _validate_fields: what the fields of an entry must be for the ledger to *)
(* parse.                                                                  *)
(***************************************************************************)
TypeOf ==
    [id |-> "text", title |-> "text", status |-> "text", wired_check |-> "text",
     first_seen |-> "date", last_seen |-> "date", sessions |-> "int",
     evidence |-> "list", artifact_ids |-> "list"]

ValidFields(fields) ==
    /\ {"id", "status"} \subseteq DOMAIN fields
    /\ \A k \in DOMAIN fields : fields[k][1] = TypeOf[k]
    /\ fields["status"][2] \in Statuses
    /\ fields["status"][2] \in Operating =>
          /\ {"wired_check", "artifact_ids"} \subseteq DOMAIN fields
          /\ fields["wired_check"][2] \notin {"", " "} /\ fields["artifact_ids"][2] # {}

(* A mapping with one more key, or another value under it. *)
With(map, key, value) ==
    [k \in DOMAIN map \cup {key} |-> IF k = key THEN value ELSE map[k]]

Field(fields, key, default) == IF key \in DOMAIN fields THEN fields[key][2] ELSE default

Status(fields) == fields["status"][2]

OldSessions(fields) == Field(fields, "evidence", {})

(* Mutant: a session that is listed already counts again. *)
EverySession(fields, found) == {f.session : f \in found}

NewSessions(fields, found) == {f.session : f \in found} \ OldSessions(fields)
Days(found) == {f.day : f \in found}
=============================================================================
