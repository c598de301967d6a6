------------------------ MODULE LockfileStoreProofs ------------------------
(***************************************************************************)
(* Theorems about the lockfile on disk, for any number of writers and      *)
(* readers: it is never truncated, and it is the register of module        *)
(* Register.                                                               *)
(***************************************************************************)
EXTENDS LockfileStore, TLAPS

\* A file only gets its document, its fsync and its name in this order, and
\* what a reader has open was named by the path at some time.
StoreInv ==
    /\ StoreTypeOK
    /\ \A w \in Writer :
         /\ w \in synced => content[w] = "whole"
         /\ wpc[w] = "sync" => content[w] = "whole"
         /\ wpc[w] \in {"install", "installed", "ok"} => w \in synced
         /\ wpc[w] \in {"start", "write"} => w \notin synced
         /\ w \in held => w \in synced
         /\ w \in held => wpc[w] \in {"installed", "ok", "killed"}
         /\ wpc[w] \in {"installed", "ok"} => w \in held
    /\ \A r \in Reader : rpc[r] = "read" => opened[r] \in held
    /\ \A r \in Reader : answer[r] # "damaged"

\* The invariant holds before any write.
LEMMA StoreInvInit == StoreInit => StoreInv
BY DistinctAssumption, MarksAssumption
   DEF StoreInit, StoreInv, StoreTypeOK, Running, Content, File

\* No step of a writer, a reader or the machine breaks the types.
LEMMA StoreTypeStep ==
    ASSUME StoreInv, [StoreNext]_storeVars
    PROVE  StoreTypeOK'
<1> USE DEF StoreInv, StoreTypeOK, Running, Content, File, Step
<1>1. ASSUME NEW w \in Writer,
             Create(w) \/ WritePart(w) \/ WriteRest(w) \/ Sync(w) \/ Install(w)
      PROVE  StoreTypeOK'
  BY <1>1 DEF Create, WritePart, WriteRest, Sync, Install
<1>2. ASSUME NEW w \in Writer, Fail(w) \/ Return(w) \/ Kill(w)
      PROVE  StoreTypeOK'
  BY <1>2 DEF Fail, Return, Kill
<1>3. ASSUME NEW r \in Reader, Stat(r) \/ Open(r) \/ Read(r)
      PROVE  StoreTypeOK'
  BY <1>3 DEF Stat, Open, Read
<1>4. CASE Flush \/ PowerLoss
  BY <1>4 DEF Flush, PowerLoss
<1>5. CASE UNCHANGED storeVars
  BY <1>5 DEF storeVars
<1> QED
  BY <1>1, <1>2, <1>3, <1>4, <1>5 DEF StoreNext

\* No step of a writer, a reader or the machine breaks the invariant.
LEMMA StoreInvStep ==
    ASSUME StoreInv, [StoreNext]_storeVars
    PROVE  StoreInv'
<1>0. StoreTypeOK'
  BY StoreTypeStep
<1> USE <1>0 DEF StoreInv, StoreTypeOK, Running, Content, File, Step
<1>1. ASSUME NEW w \in Writer, Create(w) \/ WritePart(w)
      PROVE  StoreInv'
  BY <1>1 DEF Create, WritePart
<1>2. ASSUME NEW w \in Writer, WriteRest(w)
      PROVE  StoreInv'
  BY <1>2 DEF WriteRest
<1>3. ASSUME NEW w \in Writer, Sync(w)
      PROVE  StoreInv'
  BY <1>3 DEF Sync
<1>4. ASSUME NEW w \in Writer, Install(w)
      PROVE  StoreInv'
  BY <1>4 DEF Install
<1>5. ASSUME NEW w \in Writer, Fail(w) \/ Return(w) \/ Kill(w)
      PROVE  StoreInv'
  BY <1>5 DEF Fail, Return, Kill
<1>6. ASSUME NEW r \in Reader, Stat(r) \/ Open(r)
      PROVE  StoreInv'
  BY <1>6 DEF Stat, Open
<1>7. ASSUME NEW r \in Reader, Read(r)
      PROVE  StoreInv'
  <2>1. opened[r] # "damaged" /\ Whole(opened[r])
    BY <1>7, DistinctAssumption, MarksAssumption DEF Read, Whole
  <2> QED
    BY <1>7, <2>1 DEF Read
<1>8. CASE Flush
  BY <1>8 DEF Flush
<1>9. CASE PowerLoss
  <2>1. \A w \in synced : content'[w] = content[w]
    BY <1>9 DEF PowerLoss
  <2> QED
    BY <1>9, <2>1 DEF PowerLoss
<1>10. CASE UNCHANGED storeVars
  BY <1>10 DEF storeVars
<1> QED
  BY <1>1, <1>2, <1>3, <1>4, <1>5, <1>6, <1>7, <1>8, <1>9, <1>10 DEF StoreNext

\* The invariant that carries the two theorems below.
THEOREM StoreInductive == StoreSpec => []StoreInv
BY StoreInvInit, StoreInvStep, PTL DEF StoreSpec

\* Type correctness of the store.
THEOREM StoreTypeCorrect == StoreSpec => []StoreTypeOK
<1>1. StoreInv => StoreTypeOK
  BY DEF StoreInv
<1> QED
  BY <1>1, StoreInductive, PTL

\* Neither failures, kills nor power losses, at any step of any number of
\* concurrent writes, make WriteLockfile leave a truncated lockfile behind or
\* make ReadLockfile see one.
THEOREM StoreNeverTruncated == StoreSpec => []NeverTruncated
<1>1. StoreInv => NeverTruncated
  BY DEF StoreInv, StoreTypeOK, NeverTruncated, Whole, File
<1> QED
  BY <1>1, StoreInductive, PTL

----------------------------------------------------------------------------
\* An initial state of the store is an initial state of the register.
LEMMA RegisterInit == StoreInit => R!Init
BY DEF StoreInit, R!Init, outcome

\* A write is pending as long as its call has neither returned nor died.
LEMMA OutcomePending ==
    ASSUME NEW w \in Writer
    PROVE  outcome[w] = "pending" <=> wpc[w] \notin {"ok", "failed", "killed"}
BY DEF outcome

\* A step inside the call reports nothing.
LEMMA OutcomeUnchanged ==
    ASSUME NEW s, NEW t, NEW w \in Writer, StoreTypeOK, Step(w, s, t),
           s \notin {"ok", "failed", "killed"}, t \notin {"ok", "failed", "killed"}
    PROVE  outcome' = outcome
BY DEF outcome, Step, StoreTypeOK

\* The step that returns reports.
LEMMA OutcomeReported ==
    ASSUME NEW s, NEW t \in {"ok", "failed"}, NEW w \in Writer, StoreTypeOK, Step(w, s, t)
    PROVE  outcome' = [outcome EXCEPT ![w] = t]
BY DEF outcome, Step, StoreTypeOK

\* A killed call reports nothing any more.
LEMMA OutcomeLost ==
    ASSUME NEW s, NEW w \in Writer, StoreTypeOK, Step(w, s, "killed")
    PROVE  outcome' = [outcome EXCEPT ![w] = "unknown"]
BY DEF outcome, Step, StoreTypeOK

\* A step of the store is a step of the register or a stutter.
LEMMA RegisterStep ==
    ASSUME StoreInv, StoreInv', [StoreNext]_storeVars
    PROVE  [R!Next]_(R!registerVars)
<1>0. StoreTypeOK
  BY DEF StoreInv
<1>1. ASSUME NEW w \in Writer,
             Create(w) \/ WritePart(w) \/ WriteRest(w) \/ Sync(w) \/ Fail(w)
      PROVE  UNCHANGED R!registerVars
  <2>1. outcome' = outcome
    <3>1. CASE WritePart(w)
      BY <3>1 DEF WritePart, outcome
    <3> QED
      BY <1>0, <1>1, <3>1, OutcomeUnchanged DEF Create, WriteRest, Sync, Fail
  <2> QED
    BY <1>1, <2>1 DEF Create, WritePart, WriteRest, Sync, Fail, R!registerVars
<1>2. ASSUME NEW w \in Writer, Install(w)
      PROVE  R!TakeEffect(w)
  <2>1. outcome' = outcome
    BY <1>0, <1>2, OutcomeUnchanged DEF Install
  <2>2. outcome[w] = "pending" /\ w \notin held
    BY <1>2, OutcomePending DEF Install, Step, StoreInv
  <2> QED
    BY <1>2, <2>1, <2>2 DEF Install, R!TakeEffect
<1>3. ASSUME NEW w \in Writer, Return(w)
      PROVE  R!Report(w)
  <2>1. outcome[w] = "pending"
    BY <1>3, OutcomePending DEF Return, Step
  <2>2. w \in held <=> Step(w, "installed", "ok")
    BY <1>3 DEF Return, Step, StoreInv
  <2>3. outcome' = [outcome EXCEPT ![w] = IF w \in held THEN "ok" ELSE "failed"]
    BY <1>0, <1>3, <2>2, OutcomeReported DEF Return
  <2> QED
    BY <1>3, <2>1, <2>3 DEF Return, R!Report
<1>4. ASSUME NEW w \in Writer, Kill(w)
      PROVE  R!Vanish(w)
  <2>1. outcome[w] = "pending"
    BY <1>4, OutcomePending DEF Kill, Step, Running
  <2>2. outcome' = [outcome EXCEPT ![w] = "unknown"]
    BY <1>0, <1>4, OutcomeLost DEF Kill
  <2> QED
    BY <1>4, <2>1, <2>2 DEF Kill, R!Vanish
<1>5. ASSUME NEW r \in Reader, Stat(r) \/ Open(r) \/ Read(r) \/ Flush
      PROVE  outcome' = outcome
  BY <1>5 DEF Stat, Open, Read, Flush, outcome
<1>6. ASSUME NEW r \in Reader, Stat(r) \/ Open(r)
      PROVE  R!Look(r) \/ UNCHANGED R!registerVars
  BY <1>5, <1>6 DEF Stat, Open, StoreInv, StoreTypeOK, R!Look, R!registerVars
<1>7. ASSUME NEW r \in Reader, Read(r)
      PROVE  R!Tell(r)
  <2>1. Whole(opened[r])
    BY <1>7 DEF Read, Whole, StoreInv
  <2> QED
    BY <1>5, <1>7, <2>1 DEF Read, R!Tell
<1>8. ASSUME Flush
      PROVE  UNCHANGED R!registerVars
  <2>1. outcome' = outcome
    BY <1>8 DEF Flush, outcome
  <2> QED
    BY <1>8, <2>1 DEF Flush, R!registerVars
<1>9. ASSUME PowerLoss
      PROVE  R!Outage
  <2> DEFINE S == {w \in Writer : wpc[w] \in Running}
  <2>1. S \in SUBSET {w \in Writer : outcome[w] = "pending"}
    BY OutcomePending DEF Running
  <2>2. outcome' = [w \in Writer |-> IF w \in S THEN "unknown" ELSE outcome[w]]
    <3>1. \A w \in Writer : wpc'[w] = IF w \in S THEN "killed" ELSE wpc[w]
      BY <1>9 DEF PowerLoss
    <3>2. \A w \in S : wpc[w] \notin {"ok", "failed"}
      BY DEF Running
    <3> HIDE DEF S
    <3>3. \A w \in Writer : outcome'[w] = IF w \in S THEN "unknown" ELSE outcome[w]
      BY <3>1, <3>2 DEF outcome
    <3>4. outcome' = [w \in Writer |-> outcome'[w]]
      BY DEF outcome
    <3> QED
      BY <3>3, <3>4
  <2>3. lock' \in held
    BY <1>0, <1>9 DEF PowerLoss, StoreTypeOK
  <2> HIDE DEF S
  <2>4. \E T \in SUBSET {w \in Writer : outcome[w] = "pending"} :
          outcome' = [w \in Writer |-> IF w \in T THEN "unknown" ELSE outcome[w]]
    BY <2>1, <2>2, Zenon
  <2>5. UNCHANGED <<held, opened, answer>>
    BY <1>9 DEF PowerLoss
  <2> QED
    BY <2>3, <2>4, <2>5 DEF R!Outage
<1>10. ASSUME UNCHANGED storeVars
       PROVE  UNCHANGED R!registerVars
  BY <1>10 DEF storeVars, R!registerVars, outcome
<1> QED
  BY <1>1, <1>2, <1>3, <1>4, <1>6, <1>7, <1>8, <1>9, <1>10
     DEF StoreNext, R!Next

\* WriteLockfile and ReadLockfile together implement the register: a write
\* is atomic, and what it reports is what happened to the lockfile.
THEOREM StoreIsRegister == StoreSpec => RegisterSpec
BY RegisterInit, RegisterStep, StoreInductive, PTL DEF StoreSpec, RegisterSpec, R!Spec
=============================================================================
