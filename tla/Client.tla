------------------------------- MODULE Client -------------------------------
(***************************************************************************)
(* One call of Client.do (platform/client.go): a request to the platform,  *)
(* retried while its failures are transient.  The network may lose the     *)
(* request or the reply, and the client cannot tell which; the platform is *)
(* whatever answers.  Durations are left out except that a delay the       *)
(* server asked for has or has not passed.                                 *)
(***************************************************************************)
EXTENDS ExitCodes, Sequences

CONSTANT MaxRetries     \* Client.MaxRetries
ASSUME RetriesAssumption == MaxRetries \in Nat

VARIABLES
    ctx,        \* the caller's context
    transport,  \* checkTransport: "safe", or "plain" with a key to protect
    phase,      \* where do() is
    flight,     \* the request, or the platform's reply, on the network
    quiet,      \* the delay a reply asked for has not passed
    failures,   \* the errors of the attempts so far, lastErr at the end
    result      \* what do() returned

clientVars == <<ctx, transport, phase, flight, quiet, failures, result>>

\* Mistakes seeded for the properties below to notice, used by no behaviour:
\* a loop of one attempt too many, ...
AttemptsOffByOne == MaxRetries + 1
\* ... any error worth another attempt, the server's delay ignored, ...
RetryAll(e) == TRUE
HintIgnored(e) == FALSE
\* ... a pause that does not watch the context, ...
WaitUncut == FALSE
\* ... and a rate limit that does not count as an attempt.
RateLimitFree(e) == IF Is(e, "ratelimited") THEN failures ELSE Append(failures, e)

Attempts == IF MaxRetries < 1 THEN 1 ELSE MaxRetries

\* statusError: what the client makes of each status.
Status ==
    {NoError, {"unauthorized"}, {"notentitled"}, {"notfound"}, {"ratelimited"},
     {"ratelimited", "hinted"}, {"unavailable"}, {"other"}}

\* No reply: the connection failed, or http.Client's own timeout ended it,
\* which errors.Is takes for a context.DeadlineExceeded.
Lost == {{"unavailable"}, {"unavailable", "deadline"}}

\* The body of a 2xx does not decode, or the timeout or the context cut it.
Garbled ==
    {{"other"}, {"other", "deadline"}}
    \cup (IF ctx = "interrupted" THEN {{"other", "canceled"}} ELSE {})

LastErr == failures[Len(failures)]
Retryable(e) == Is(e, "unavailable") \/ Is(e, "ratelimited")

\* The type invariant, with the bound MaxRetries puts on the attempts of one
\* call of do().
ClientTypeOK ==
    /\ ctx \in {"live", "deadline", "interrupted"}
    /\ transport \in {"safe", "plain"}
    /\ phase \in {"top", "wait", "sent", "done"}
    /\ flight \in {{}, {"request"}} \cup Status
    /\ quiet \in BOOLEAN
    /\ failures \in Seq(Error \ {NoError})
    /\ Len(failures) <= MaxRetries \/ Len(failures) <= 1
    /\ result \in Error

ClientInit ==
    /\ ctx = "live"
    /\ transport \in {"safe", "plain"}
    /\ phase = "top"
    /\ flight = {}
    /\ quiet = FALSE
    /\ failures = <<>>
    /\ result = NoError

----------------------------------------------------------------------------
ClientContextEnds ==
    /\ ctx = "live" /\ phase # "done"
    /\ ctx' \in {"deadline", "interrupted"}
    /\ UNCHANGED <<transport, phase, flight, quiet, failures, result>>

Finish(e) == phase' = "done" /\ result' = e

\* checkTransport fails.
Refuse ==
    /\ phase = "top" /\ failures = <<>> /\ transport = "plain"
    /\ Finish({"other"})
    /\ UNCHANGED <<ctx, transport, flight, quiet, failures>>

\* The loop is over.
Exhausted ==
    /\ phase = "top" /\ Len(failures) = Attempts
    /\ Finish(LastErr)
    /\ UNCHANGED <<ctx, transport, flight, quiet, failures>>

InLoop == phase = "top" /\ transport = "safe" /\ Len(failures) < Attempts

StopAtTop ==
    /\ InLoop /\ ctx # "live"
    /\ Finish(ContextErr(ctx))
    /\ UNCHANGED <<ctx, transport, flight, quiet, failures>>

Send == phase' = "sent" /\ flight' = {"request"} /\ UNCHANGED result

FirstSend ==
    /\ InLoop /\ ctx = "live" /\ failures = <<>>
    /\ Send
    /\ UNCHANGED <<ctx, transport, quiet, failures>>

Pause ==
    /\ InLoop /\ ctx = "live" /\ failures # <<>>
    /\ phase' = "wait"
    /\ UNCHANGED <<ctx, transport, flight, quiet, failures, result>>

\* retryAfterHint: the server's delay, where it asked for one.
Hinted(e) == Is(e, "hinted")

\* With the context ended too, select may still take the timer; the attempt
\* then fails before it is sent.
SendAgain ==
    /\ phase = "wait"
    /\ Hinted(LastErr) => ~quiet
    /\ IF ctx = "live" THEN Send ELSE Finish(ContextErr(ctx)) /\ UNCHANGED flight
    /\ UNCHANGED <<ctx, transport, quiet, failures>>

CutWait ==
    /\ phase = "wait" /\ ctx # "live"
    /\ Finish(ContextErr(ctx))
    /\ UNCHANGED <<ctx, transport, flight, quiet, failures>>

\* The next turn of the loop.
Counted(e) == Append(failures, e)

\* The attempt ends with error e.
Attempted(e) ==
    /\ phase = "sent"
    /\ flight' = {}
    /\ failures' = Counted(e)
    /\ quiet' = Is(e, "hinted")
    /\ IF Retryable(e) THEN phase' = "top" /\ UNCHANGED result ELSE Finish(e)
    /\ UNCHANGED <<ctx, transport>>

\* The platform replies.
Serve(e) ==
    /\ phase = "sent" /\ flight = {"request"}
    /\ flight' = e
    /\ UNCHANGED <<ctx, transport, phase, quiet, failures, result>>

Succeed ==
    /\ phase = "sent" /\ flight = NoError
    /\ flight' = {}
    /\ Finish(NoError)
    /\ UNCHANGED <<ctx, transport, quiet, failures>>

Deliver == flight \in Status \ {NoError} /\ Attempted(flight)

Garble == flight = NoError /\ \E e \in Garbled : Attempted(e)

\* The request or the reply is lost; the client cannot know which.
Lose == \E e \in Lost : Attempted(e)

CutAttempt == ctx # "live" /\ Attempted(ContextErr(ctx))

\* The delay the server asked for passes.
QuietEnds ==
    /\ quiet /\ phase # "done"
    /\ quiet' = FALSE
    /\ UNCHANGED <<ctx, transport, phase, flight, failures, result>>

\* Steps of do() itself, and those that take the network or a timer.
DoStep ==
    \/ Refuse \/ Exhausted \/ StopAtTop \/ FirstSend \/ Pause \/ CutWait \/ CutAttempt
AttemptEnds == Succeed \/ Deliver \/ Garble \/ Lose
TimerStep == SendAgain \/ QuietEnds

ClientStep == ClientContextEnds \/ DoStep \/ AttemptEnds \/ TimerStep

ClientNext == ClientStep \/ \E e \in Status : Serve(e)

Done == phase = "done" /\ UNCHANGED clientVars

\* do() runs when it can.  Only timers and the HTTP client's 30 second limit
\* on an attempt end the rest.
ClientFairness == WF_clientVars(DoStep)
WaitFairness == WF_clientVars(AttemptEnds) /\ WF_clientVars(SendAgain) /\ WF_clientVars(QuietEnds)

ClientSpec == ClientInit /\ [][ClientNext \/ Done]_clientVars /\ ClientFairness

----------------------------------------------------------------------------
Transient == {"unavailable", "ratelimited"}

\* The attempts form one run of transient failures: an answer that will not
\* change is returned at once, a transient one only with the attempts used
\* up, and an error of the context only once the context has ended.
ResultExplained ==
    /\ \A i \in 1..Len(failures) :
         failures[i] \cap Transient = {} => i = Len(failures) /\ phase = "done"
    /\ phase = "done" =>
         \/ result = NoError
         \/ transport = "plain" /\ failures = <<>>
         \/ ctx # "live" /\ result = ContextErr(ctx)
         \/ /\ failures # <<>> /\ result = LastErr
            /\ result \cap Transient # {} => Len(failures) = Attempts

\* No request is on its way while a delay the server asked for is running,
\* and no call makes more requests than it may.
ServerDelayHonoured ==
    phase = "sent" => ~quiet /\ Len(failures) < Attempts

\* A call returns once its context has ended, even in mid attempt or in a
\* long Retry-After, and without a context as long as attempts end.
ContextEndsCall == (ctx # "live") ~> (phase = "done")
CallEnds == WaitFairness => <>(phase = "done")
=============================================================================
