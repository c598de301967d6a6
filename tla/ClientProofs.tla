---------------------------- MODULE ClientProofs ----------------------------
(***************************************************************************)
(* Theorems about one call of Client.do, for every number of attempts, and *)
(* about scg unwatch around it: what a call's result says, and that exit 0 *)
(* means the repository is not watched any more.                           *)
(***************************************************************************)
EXTENDS Unwatch, SequenceTheorems, TLAPS

IsTransient(e) == e \cap Transient # {}

\* Before the call returns every failure so far was transient; a delay runs
\* only between the reply that asked for it and the next attempt, and there is
\* an attempt left for whoever waits or has sent.
ClientInv ==
    /\ ClientTypeOK
    /\ phase # "done" => \A i \in 1..Len(failures) : IsTransient(failures[i])
    /\ phase # "done" => Len(failures) <= Attempts
    /\ phase \in {"wait", "sent"} => transport = "safe" /\ Len(failures) < Attempts
    /\ phase = "wait" => failures # <<>>
    /\ phase = "sent" => ~quiet
    /\ phase # "done" /\ quiet => failures # <<>> /\ Hinted(LastErr)
    /\ ResultExplained

\* A retried error is transient, and the other way round.
LEMMA RetryableIsTransient == \A e : Retryable(e) <=> IsTransient(e)
BY DEF Retryable, IsTransient, Transient, Is

\* At least one attempt is made.
LEMMA AttemptsPositive == Attempts \in Nat /\ Attempts >= 1
BY RetriesAssumption DEF Attempts

\* Every error an attempt may end with is an error, and none is nil.
LEMMA AttemptErrors ==
    /\ Status \subseteq Error
    /\ Lost \subseteq Error \ {NoError}
    /\ Garbled \subseteq Error \ {NoError}
    /\ NoError \in Error /\ {"other"} \in Error \ {NoError}
    /\ \A c \in {"deadline", "interrupted"} : ContextErr(c) \in Error \ {NoError}
BY DEF Status, Lost, Garbled, Error, NoError, Identity, ContextErr

\* The last element of a sequence that grows, and the rest.
LEMMA Appended ==
    ASSUME NEW S, NEW s \in Seq(S), NEW e \in S
    PROVE  /\ Append(s, e) \in Seq(S) /\ Append(s, e) # <<>>
           /\ Len(Append(s, e)) = Len(s) + 1
           /\ Append(s, e)[Len(Append(s, e))] = e
           /\ \A i \in 1..Len(s) : Append(s, e)[i] = s[i]
           /\ \A i \in 1..Len(Append(s, e)) : i = Len(Append(s, e)) \/ i \in 1..Len(s)
BY AppendProperties

\* The invariant holds before the first attempt.
LEMMA ClientInvInit ==
    ASSUME ClientInit
    PROVE  ClientInv
<1> USE DEF ClientInit
<1>1. failures \in Seq(Error \ {NoError}) /\ Len(failures) = 0
  BY EmptySeq
<1>2. result \in Error /\ quiet \in BOOLEAN /\ flight \in {{}, {"request"}} \cup Status
  BY AttemptErrors
<1>3. ClientTypeOK
  BY <1>1, <1>2 DEF ClientTypeOK
<1> QED
  BY <1>1, <1>3, AttemptsPositive DEF ClientInv, ResultExplained

\* An attempt that fails is recorded, and repeated only if that can help.
LEMMA AttemptedStep ==
    ASSUME ClientInv, NEW e \in Error \ {NoError}, Attempted(e)
    PROVE  ClientInv'
<1> USE DEF ClientInv, ClientTypeOK
<1> DEFINE longer == Append(failures, e)
<1>1. /\ longer \in Seq(Error \ {NoError}) /\ longer # <<>>
      /\ Len(longer) = Len(failures) + 1 /\ longer[Len(longer)] = e
      /\ \A i \in 1..Len(failures) : longer[i] = failures[i]
      /\ \A i \in 1..Len(longer) : i = Len(longer) \/ i \in 1..Len(failures)
  BY Appended
<1>2. /\ phase = "sent" /\ flight' = {} /\ failures' = longer /\ quiet' = Is(e, "hinted")
      /\ IF Retryable(e) THEN phase' = "top" /\ result' = result
         ELSE phase' = "done" /\ result' = e
      /\ ctx' = ctx /\ transport' = transport
  BY DEF Attempted, Counted, Finish
<1> HIDE DEF longer
<1>3. Len(failures) \in Nat /\ Len(failures) < Attempts /\ LastErr' = e
  BY <1>1, <1>2 DEF LastErr
<1>4. ClientTypeOK'
  BY <1>1, <1>2, <1>3, RetriesAssumption DEF Attempts, Is
<1>5. \A i \in 1..Len(failures) : IsTransient(failures'[i])
  BY <1>1, <1>2
<1>6. CASE Retryable(e)
  <2>1. \A i \in 1..Len(longer) : IsTransient(failures'[i])
    BY <1>1, <1>2, <1>5, <1>6, RetryableIsTransient
  <2> QED
    BY <1>1, <1>2, <1>3, <1>4, <1>6, <2>1, AttemptsPositive
       DEF ResultExplained, IsTransient, Hinted
<1>7. CASE ~Retryable(e)
  <2>1. ~IsTransient(e)
    BY <1>7, RetryableIsTransient
  <2>2. \A i \in 1..Len(longer) : ~IsTransient(failures'[i]) => i = Len(longer)
    BY <1>1, <1>2, <1>5
  <2> QED
    BY <1>1, <1>2, <1>3, <1>4, <1>7, <2>1, <2>2 DEF ResultExplained, IsTransient
<1> QED
  BY <1>6, <1>7

\* No step of the call, the network or a timer breaks the invariant.
LEMMA ClientInvStep ==
    ASSUME ClientInv, [ClientNext \/ Done]_clientVars
    PROVE  ClientInv'
<1> USE DEF ClientInv, ClientTypeOK
<1>0. Len(failures) \in Nat /\ (failures = <<>> <=> Len(failures) = 0)
  BY LenProperties, EmptySeq
<1>1. CASE ClientContextEnds
  BY <1>1 DEF ClientContextEnds, ResultExplained, LastErr, Hinted
<1>2. CASE Refuse
  BY <1>2, AttemptErrors DEF Refuse, Finish, ResultExplained, IsTransient
<1>3. CASE Exhausted
  <2>1. failures # <<>> /\ LastErr \in Error
    BY <1>0, <1>3, AttemptsPositive, ElementOfSeq DEF Exhausted, LastErr
  <2> QED
    BY <1>3, <2>1 DEF Exhausted, Finish, ResultExplained, IsTransient, LastErr
<1>4. CASE StopAtTop \/ CutWait
  BY <1>4, AttemptErrors
     DEF StopAtTop, CutWait, Finish, ResultExplained, IsTransient, InLoop
<1>5. CASE FirstSend \/ Pause
  BY <1>0, <1>5, AttemptsPositive
     DEF FirstSend, Pause, Send, InLoop, ResultExplained, IsTransient, LastErr, Hinted
<1>6. CASE SendAgain
  BY <1>6, AttemptErrors
     DEF SendAgain, Send, Finish, ResultExplained, IsTransient, LastErr, Hinted
<1>7. CASE CutAttempt \/ Deliver \/ Garble \/ Lose
  <2> PICK e \in Error \ {NoError} : Attempted(e)
    BY <1>7, AttemptErrors DEF CutAttempt, Deliver, Garble, Lose
  <2> QED
    BY AttemptedStep
<1>8. CASE Succeed
  BY <1>8 DEF Succeed, Finish, ResultExplained, IsTransient, Error
<1>9. CASE QuietEnds
  BY <1>9 DEF QuietEnds, ResultExplained, LastErr
<1>10. ASSUME NEW e \in Status, Serve(e)
       PROVE  ClientInv'
  BY <1>10 DEF Serve, ResultExplained, LastErr, Hinted
<1>11. CASE UNCHANGED clientVars
  BY <1>11 DEF clientVars, ResultExplained, LastErr, Hinted
<1> QED
  BY <1>1, <1>2, <1>3, <1>4, <1>5, <1>6, <1>7, <1>8, <1>9, <1>10, <1>11
     DEF ClientNext, ClientStep, DoStep, AttemptEnds, TimerStep, Done

\* The invariant the theorems about one call rest on.
THEOREM ClientInductive == ClientSpec => []ClientInv
BY ClientInvInit, ClientInvStep, PTL DEF ClientSpec

\* Type correctness, with the bound MaxRetries puts on the attempts of a call.
THEOREM ClientTypeCorrect == ClientSpec => []ClientTypeOK
<1>1. ClientInv => ClientTypeOK
  BY DEF ClientInv
<1> QED
  BY <1>1, ClientInductive, PTL

\* What a call returns is nil, the last of a run of transient failures that
\* used the attempts up, the first failure that would not change, or the end
\* of the context, for every MaxRetries.
THEOREM ResultCorrect == ClientSpec => []ResultExplained
<1>1. ClientInv => ResultExplained
  BY DEF ClientInv
<1> QED
  BY <1>1, ClientInductive, PTL

\* No attempt is under way while a Retry-After runs, and none is one too many.
THEOREM DelayHonoured == ClientSpec => []ServerDelayHonoured
<1>1. ClientInv => ServerDelayHonoured
  BY DEF ClientInv, ServerDelayHonoured
<1> QED
  BY <1>1, ClientInductive, PTL

----------------------------------------------------------------------------
\* A reply that the repository is not there, or is there no more, is only ever
\* given of one that is not watched; exit 0 is made of nothing else.
Gone(e) == e = NoError \/ Is(e, "notfound")

UnwatchInv ==
    /\ ClientInv
    /\ flight # {} /\ Gone(flight) => ~watched
    /\ \A i \in 1..Len(failures) : Gone(failures[i]) => ~watched
    /\ phase = "done" /\ Gone(result) => ~watched
    /\ exit # {} => phase = "done" /\ exit = {ExitCodeFor(UnwatchError(result))}

\* The errors the client makes up itself say nothing of the repository.
LEMMA OwnErrors ==
    /\ \A e \in Lost \cup Garbled : ~Gone(e)
    /\ \A c \in {"deadline", "interrupted"} : ~Gone(ContextErr(c))
    /\ ~Gone({"other"})
BY DEF Lost, Garbled, Gone, Is, NoError, ContextErr

\* Only nil makes exit 0, and runUnwatch makes nil of two errors only.
LEMMA CleanMeansGone ==
    ASSUME NEW e, ExitCodeFor(UnwatchError(e)) = ExitClean
    PROVE  Gone(e)
<1>1. UnwatchError(e) = NoError
  BY DEF ExitCodeFor, ExitClean, ExitFinding, ExitOperational
<1>2. ASSUME e # NoError PROVE ClassifyEntitlement(e) # NoError
  BY <1>2 DEF ClassifyEntitlement, Operational, NoError, Is
<1> QED
  BY <1>1, <1>2 DEF UnwatchError, Gone, NoError

\* The invariant holds before the command has sent anything.
LEMMA UnwatchInvInit ==
    ASSUME UnwatchInit
    PROVE  UnwatchInv
<1>1. ClientInv /\ ClientInit /\ exit = {}
  BY ClientInvInit DEF UnwatchInit
<1>2. phase = "top" /\ flight = {} /\ Len(failures) = 0
  BY <1>1, EmptySeq DEF ClientInit
<1> QED
  BY <1>1, <1>2 DEF UnwatchInv

\* The attempt that fails leaves the platform as it was.
LEMMA AttemptedGone ==
    ASSUME UnwatchInv, NEW e \in Error \ {NoError}, Attempted(e), watched' = watched,
           exit' = exit, Gone(e) => ~watched
    PROVE  UnwatchInv'
<1>1. ClientInv'
  BY AttemptedStep DEF UnwatchInv
<1>2. /\ failures' = Append(failures, e) /\ flight' = {}
      /\ phase = "sent" /\ phase' \in {"top", "done"}
      /\ phase' = "done" => result' = e
  BY DEF Attempted, Counted, Finish
<1>3. \A i \in 1..Len(failures') : Gone(failures'[i]) => ~watched
  BY <1>2, Appended DEF UnwatchInv, ClientInv, ClientTypeOK
<1> QED
  BY <1>1, <1>2, <1>3 DEF UnwatchInv

\* No step of the command or of the platform breaks the invariant.
LEMMA UnwatchInvStep ==
    ASSUME UnwatchInv, [UnwatchNext \/ Ended]_unwatchVars
    PROVE  UnwatchInv'
<1>0. ASSUME [ClientNext \/ Done]_clientVars PROVE ClientInv'
  BY <1>0, ClientInvStep DEF UnwatchInv
<1>1. ASSUME NEW e \in Status, Serve(e), Gone(e) => ~watched', watched' => watched,
             exit' = exit
      PROVE  UnwatchInv'
  <2>1. ClientInv'
    BY <1>0, <1>1 DEF ClientNext
  <2> QED
    BY <1>1, <2>1 DEF Serve, UnwatchInv
<1>2. CASE Remove
  <2>1. NoError \in Status /\ {"notfound"} \in Status
    BY DEF Status
  <2> QED
    BY <1>1, <1>2, <2>1 DEF Remove
<1>3. CASE Decline
  <2>1. \A e \in Status \ {NoError, {"notfound"}} : ~Gone(e)
    BY DEF Status, Gone, Is, NoError
  <2> QED
    BY <1>1, <1>3, <2>1 DEF Decline
<1>4. CASE Call
  <2>1. ClientInv' /\ watched' = watched /\ exit' = exit
    BY <1>0, <1>4 DEF Call, ClientNext
  <2>2. CASE CutAttempt \/ Deliver \/ Garble \/ Lose
    <3>1. ctx # "live" => ctx \in {"deadline", "interrupted"}
      BY DEF UnwatchInv, ClientInv, ClientTypeOK
    <3>2. CutAttempt \/ Garble \/ Lose =>
            \E e \in Error \ {NoError} : Attempted(e) /\ ~Gone(e)
      BY <3>1, AttemptErrors, OwnErrors DEF CutAttempt, Garble, Lose
    <3>3. Deliver => /\ flight \in Error \ {NoError} /\ Attempted(flight)
                     /\ Gone(flight) => ~watched
      BY AttemptErrors DEF Deliver, UnwatchInv, Status
    <3> QED
      BY <2>1, <2>2, <3>2, <3>3, AttemptedGone
  <2>3. CASE Exhausted
    <3>1. failures # <<>> /\ Len(failures) \in 1..Len(failures)
      BY <2>3, AttemptsPositive, EmptySeq, LenProperties
         DEF Exhausted, UnwatchInv, ClientInv, ClientTypeOK
    <3> QED
      BY <2>1, <2>3, <3>1 DEF Exhausted, Finish, LastErr, UnwatchInv
  <2>4. CASE Refuse \/ StopAtTop \/ CutWait \/ SendAgain
    <3>1. ctx # "live" => ~Gone(ContextErr(ctx))
      BY OwnErrors DEF UnwatchInv, ClientInv, ClientTypeOK
    <3>2. ~Gone({"request"})
      BY DEF Gone, Is, NoError
    <3>3. /\ UNCHANGED failures
          /\ \/ phase' = "done" /\ ~Gone(result') /\ flight' = flight
             \/ phase' = "sent" /\ flight' = {"request"}
      BY <2>4, <3>1, OwnErrors, Zenon
         DEF Refuse, StopAtTop, CutWait, SendAgain, Send, Finish, InLoop
    <3> QED
      BY <2>1, <2>4, <3>2, <3>3
         DEF UnwatchInv, Refuse, StopAtTop, CutWait, SendAgain, InLoop
  <2>5. CASE FirstSend \/ Pause \/ QuietEnds \/ ClientContextEnds
    BY <2>1, <2>5
       DEF FirstSend, Pause, QuietEnds, ClientContextEnds, Send, UnwatchInv, Gone, Is,
           NoError, InLoop
  <2>6. CASE Succeed
    BY <2>1, <2>6 DEF Succeed, Finish, UnwatchInv, Gone, NoError
  <2> QED
    BY <1>4, <2>2, <2>3, <2>4, <2>5, <2>6
       DEF Call, ClientStep, DoStep, AttemptEnds, TimerStep
<1>5. CASE Conclude
  <2>1. ClientInv' /\ UNCHANGED <<flight, failures, phase, result, watched, all>>
    BY <1>0, <1>5 DEF Conclude, clientVars
  <2> QED
    BY <1>5, <2>1 DEF Conclude, UnwatchInv, UnwatchError
<1>6. CASE UNCHANGED unwatchVars
  <2>1. ClientInv'
    BY <1>0, <1>6 DEF unwatchVars
  <2> QED
    BY <1>6, <2>1 DEF unwatchVars, clientVars, UnwatchInv, UnwatchError
<1> QED
  BY <1>2, <1>3, <1>4, <1>5, <1>6 DEF UnwatchNext, Ended

\* The invariant of the command around its call.
THEOREM UnwatchInductive == UnwatchSpec => []UnwatchInv
BY UnwatchInvInit, UnwatchInvStep, PTL DEF UnwatchSpec

\* Whichever requests and replies are lost, and however many attempts that
\* takes, exit 0 of scg unwatch means that the platform watches no more.
THEOREM UnwatchedCorrect == UnwatchSpec => []SuccessMeansUnwatched
<1>1. UnwatchInv => SuccessMeansUnwatched
  <2> SUFFICES ASSUME UnwatchInv, ExitClean \in exit PROVE ~watched
    BY DEF SuccessMeansUnwatched
  <2>1. phase = "done" /\ ExitCodeFor(UnwatchError(result)) = ExitClean
    BY DEF UnwatchInv
  <2> QED
    BY <2>1, CleanMeansGone DEF UnwatchInv
<1> QED
  BY <1>1, UnwatchInductive, PTL
=============================================================================
