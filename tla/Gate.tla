-------------------------------- MODULE Gate --------------------------------
(***************************************************************************)
(* What scg check promises a pipeline, with the way it finds out left      *)
(* open.  Evidence about the entries of the baseline is gathered, each     *)
(* piece once; then one verdict is given, it is final, and each verdict    *)
(* needs its grounds:                                                      *)
(*   clean        the baseline is trusted, the project still matches it,   *)
(*                and every entry was confirmed;                           *)
(*   finding      the baseline is not trusted, or the project departs from *)
(*                it, or some entry was seen to differ;                    *)
(*   operational  something kept the check from completing: an entry that  *)
(*                could not be judged, the deadline, the report's file.    *)
(***************************************************************************)
CONSTANT Entry

VARIABLES
    trusted,    \* the baseline's signature is the platform's
    changed,    \* the project is known to differ from the baseline
    hindered,   \* the deadline passed, or the report could not be written
    evidence,   \* what is known of each entry
    verdict

gateVars == <<trusted, changed, hindered, evidence, verdict>>

Judgement == {"confirmed", "differs", "unknown"}
Verdict == {"clean", "finding", "operational"}

Init ==
    /\ trusted \in BOOLEAN
    /\ changed \in BOOLEAN
    /\ hindered = FALSE
    /\ evidence = [e \in Entry |-> "none"]
    /\ verdict = "none"

Hinder ==
    /\ hindered' = TRUE
    /\ UNCHANGED <<trusted, changed, evidence, verdict>>

\* Evidence only counts against a trusted baseline, and is never revised.
Examine ==
    /\ trusted /\ verdict = "none"
    /\ \E S \in SUBSET {e \in Entry : evidence[e] = "none"} :
         \E j \in [S -> Judgement] :
           evidence' = [e \in Entry |-> IF e \in S THEN j[e] ELSE evidence[e]]
    /\ UNCHANGED <<trusted, changed, hindered, verdict>>

Grounds(v) ==
    \/ /\ v = "clean"
       /\ trusted /\ ~changed /\ \A e \in Entry : evidence[e] = "confirmed"
    \/ /\ v = "finding"
       /\ ~trusted \/ changed \/ \E e \in Entry : evidence[e] = "differs"
    \/ /\ v = "operational"
       /\ hindered \/ \E e \in Entry : evidence[e] = "unknown"

Conclude ==
    /\ verdict = "none"
    /\ \E v \in Verdict : Grounds(v) /\ verdict' = v
    /\ UNCHANGED <<trusted, changed, hindered, evidence>>

Next == Hinder \/ Examine \/ Conclude

Spec == Init /\ [][Next]_gateVars
=============================================================================
