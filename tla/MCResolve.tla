----------------------------- MODULE MCResolve -----------------------------
(***************************************************************************)
(* Resolve on lockfiles of up to three references.  The first list has one *)
(* name in two ecosystems and one ecosystem large enough for a batch; the  *)
(* second has a reference no resolver is known for.                        *)
(***************************************************************************)
EXTENDS Resolve

CONSTANTS npm, pypi, helm, six, react, h1

MCEcosystem == {npm, pypi, helm}
MCKnownEcosystem == {npm, pypi}
MCName == {six, react}
MCHash == {h1}
MCAnswer == {[hash |-> h1, stale |-> TRUE], [hash |-> NoHash, stale |-> FALSE]}

Ref(e, n) == [eco |-> e, name |-> n]
RefLists == {{Ref(npm, six), Ref(pypi, six)},
             {Ref(npm, six), Ref(npm, react), Ref(helm, six)},
             {Ref(npm, six), Ref(helm, six), Ref(helm, react)},
             {}}

MCInit == ResolveInit /\ refs \in RefLists
MCSpec == MCInit /\ [][ResolveNext \/ Returned]_resolveVars /\ LocalFairness
=============================================================================
