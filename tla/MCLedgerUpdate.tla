--------------------------- MODULE MCLedgerUpdate ---------------------------
(* Ledgers of three entries, and calls that touch one or two of them.      *)
EXTENDS LedgerUpdate

Text(value) == <<"text", value>>
List(value) == <<"list", value>>
Line(key, value) == [key |-> key, value |-> value, newline |-> TRUE]
Note(value) == Line("note", Text(value))

(* An entry just found: most of its fields are still to be inserted. *)
Young(id, title) == <<Line("id", Text(id)), Line("status", Text("new")), Line("title", Text(title))>>

(* An entry with a fix, all fields, and a comment. *)
Applied(id, title) ==
    <<Line("id", Text(id)), Line("title", Text(title)), Line("status", Text("fix-applied")),
      Note(title), Line("wired_check", Text("watch")), Line("artifact_ids", List({"hook"})),
      Line("evidence", List({"s1"})), Line("sessions", <<"int", 1>>),
      Line("first_seen", <<"date", 2>>), Line("last_seen", <<"date", 2>>)>>

(* An entry with a fix and no history, and a comment before what follows. *)
Wired(id, title) ==
    <<Line("id", Text(id)), Line("status", Text("fix-applied")),
      Line("wired_check", Text("watch")), Line("artifact_ids", List({"hook"})), Note(title)>>

MCFiles ==
    {<<Note("header")>> \o first \o second \o third :
        first \in {Young("a", "A"), Applied("a", "A")},
        second \in {Young("b", "B"), Wired("b", "B")},
        third \in {Young("c", "C"), Applied("c", "C")}}

Verified(s, i, o) == [kind |-> "checks", checks |-> [symptom |-> s, invocation |-> i, outcome |-> o]]
MCRequest == [kind |-> "status", status |-> "monitor"]
MCEntry == [kind |-> "entry", status |-> "fix-applied", wired_check |-> "look", artifacts |-> {"skill"}]
(* An entry whose wired check is blank: found out when the text is parsed again. *)
MCBlank == [MCEntry EXCEPT !.wired_check = " "]
MCUpdates ==
    {Verified("pass", "pass", "pass"), Verified("fail", "pass", "fail"),
     MCRequest,
     MCEntry, MCBlank}
MCFound == {{}, {[session |-> "s1", day |-> 1], [session |-> "s2", day |-> 3]}}

CallsOn(orders, updates) ==
    UNION {[order: {order}, updates: [ToSet(order) -> updates],
            found: [ToSet(order) -> MCFound], day: {NoDay, 2}] : order \in orders}

(* The touched entries in the order of the file, and in any order. *)
MCAnyOrder == CallsOn({<<"a", "c">>, <<"c", "a">>, <<"b", "a">>}, MCUpdates)
MCInOrder ==
    {c \in CallsOn({<<"a", "c">>}, MCUpdates) :
        c.day = NoDay /\ c.updates["c"] \in {Verified("pass", "pass", "pass"), MCEntry}}
    \cup {c \in CallsOn({<<"b">>}, MCUpdates) : c.day # NoDay}

(* Without its last newline, a ledger is safe if nothing is inserted there. *)
MCSafeFiles ==
    LET wired == {t \in MCFiles : \E i \in DOMAIN t : t[i] = Line("id", Text("b"))
                                      /\ t[i+1].value = <<"text", "fix-applied">>}
    IN  wired \cup {[t EXCEPT ![Len(t)].newline = FALSE] :
                     t \in {u \in wired : Last(u).key = "last_seen"}}
=============================================================================
