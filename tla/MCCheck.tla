------------------------------ MODULE MCCheck ------------------------------
(***************************************************************************)
(* Check on a baseline of three entries over two references, one of them   *)
(* recorded twice, of a project that may declare a third or lack one.      *)
(***************************************************************************)
EXTENDS Check

CONSTANTS npm, six, react, extra, e1, e2, e3, h1, h2

MCEcosystem == {npm}
MCName == {six, react, extra}
MCHash == {h1, h2}
MCEntry == {e1, e2, e3}
MCAnswer == {[hash |-> h1, stale |-> FALSE], [hash |-> h1, stale |-> TRUE],
             [hash |-> h2, stale |-> FALSE], [hash |-> NoHash, stale |-> FALSE]}

Ref(n) == [eco |-> npm, name |-> n]
\* The tools a baseline records: react at entry e3, or six throughout.
Recorded(name3) ==
    [e \in MCEntry |-> [ref |-> IF e = e3 THEN Ref(name3) ELSE Ref(six), hash |-> h1]]
MCBaselines ==
    {[state |-> s, tools |-> Recorded(react)] :
        s \in {"unreadable", "unsigned", "forged", "trusted"}}
    \cup {[state |-> "trusted", tools |-> Recorded(six)]}
MCProjects ==
    {[state |-> "unknown", refs |-> {}],
     [state |-> "declared", refs |-> {Ref(six), Ref(react)}],
     [state |-> "declared", refs |-> {Ref(six), Ref(react), Ref(extra)}],
     [state |-> "declared", refs |-> {Ref(six)}]}
=============================================================================
