---------------------------- MODULE MCDigestScan ----------------------------
(* Two transcripts of a few entries, in either runtime.                    *)
EXTENDS DigestScan

CONSTANTS a, b, project, other

Meta(session, thread, name) == [session |-> session, thread |-> thread, project |-> name]

Entry(time, signals) == [time |-> time, broken |-> FALSE, meta |-> NoMeta, signals |-> signals]
Header(meta) == [Entry(1, {}) EXCEPT !.meta = meta]

Said == Entry(2, {"user"})
Failed == Entry(3, {"user", "error"})
Early == Entry(0, {"user"})
Undated == Entry(NoTime, {"user"})
Broken == [Said EXCEPT !.broken = TRUE]

Own == Header(Meta("s", "user", project))
Resumed == Header(Meta("t", "subagent", other))

MCRank == [p \in Paths |-> IF p = a THEN 1 ELSE 2]

(* The second transcript is short; the first one has what can go wrong.    *)
Scripted(first, second) == [p \in Paths |-> IF p = a THEN first ELSE second]

MCScripts ==
    {Scripted(first, <<Own>>) :
        first \in {<<Own, Failed>>, <<Own, Resumed>>, <<Said, Own>>, <<Resumed, Said>>,
                   <<Header(BadMeta), Said>>, <<Own, Broken>>, <<Early, Undated>>}}
    \cup {Scripted(<<Own, Failed>>, <<Said>>)}

Scope(codex, projects, subagents) ==
    [codex |-> codex, projects |-> projects, subagents |-> subagents]

Every == {project, other, NoProject}
MCSpecs == [codex: BOOLEAN, projects: {Every, {project}}, subagents: {FALSE}]
           \cup {Scope(TRUE, Every, TRUE)}

(* All transcripts in a project folder, the second one of a subagent.      *)
MCFolder == [p \in Paths |-> IF p = a THEN project ELSE other]
=============================================================================
