------------------------------ MODULE Register ------------------------------
(***************************************************************************)
(* What the lockfile on disk promises its readers and writers: a register  *)
(* that holds one whole document (or none) at any time.                    *)
(*   - A write takes effect at one instant, or never.  It reports success  *)
(*     only if it took effect, and failure only if it did not and will     *)
(*     not.                                                                *)
(*   - A read answers with what the register held at one instant.          *)
(*   - An outage may bring back something the register held before, and    *)
(*     leaves the callers of unfinished writes without an outcome.         *)
(* A document is named by the write that made it.                          *)
(***************************************************************************)
CONSTANTS Writer, Reader, Old, NoFile

VARIABLES
    value,      \* what the register holds
    past,       \* all it has ever held
    outcome,    \* what each write has reported
    seen,       \* what a read in progress has picked up
    answer      \* what each reader was last told

registerVars == <<value, past, outcome, seen, answer>>

Init ==
    /\ value \in {Old, NoFile}
    /\ past = {value}
    /\ outcome = [w \in Writer |-> "pending"]
    /\ seen = [r \in Reader |-> NoFile]
    /\ answer = [r \in Reader |-> "none"]

TakeEffect(w) ==
    /\ outcome[w] = "pending" /\ w \notin past
    /\ value' = w
    /\ past' = past \cup {w}
    /\ UNCHANGED <<outcome, seen, answer>>

Report(w) ==
    /\ outcome[w] = "pending"
    /\ outcome' = [outcome EXCEPT ![w] = IF w \in past THEN "ok" ELSE "failed"]
    /\ UNCHANGED <<value, past, seen, answer>>

\* The writing process dies.
Vanish(w) ==
    /\ outcome[w] = "pending"
    /\ outcome' = [outcome EXCEPT ![w] = "unknown"]
    /\ UNCHANGED <<value, past, seen, answer>>

Look(r) ==
    /\ seen' = [seen EXCEPT ![r] = value]
    /\ UNCHANGED <<value, past, outcome, answer>>

Tell(r) ==
    /\ answer' = [answer EXCEPT ![r] = seen[r]]
    /\ UNCHANGED <<value, past, outcome, seen>>

Outage ==
    /\ value' \in past
    /\ \E S \in SUBSET {w \in Writer : outcome[w] = "pending"} :
         outcome' = [w \in Writer |-> IF w \in S THEN "unknown" ELSE outcome[w]]
    /\ UNCHANGED <<past, seen, answer>>

Next ==
    \/ \E w \in Writer : TakeEffect(w) \/ Report(w) \/ Vanish(w)
    \/ \E r \in Reader : Look(r) \/ Tell(r)
    \/ Outage

Spec == Init /\ [][Next]_registerVars
=============================================================================
