----------------------------- MODULE ExitCodes -----------------------------
(***************************************************************************)
(* How an scg command turns the error it ends with into a process exit     *)
(* code (cmd/scg/exit.go, cmd/scg/deadline.go).                            *)
(*                                                                         *)
(* An error is the set of identities that errors.Is and errors.As find in  *)
(* its chain.  Wrapping with %w keeps the set; formatting with any other   *)
(* verb loses it.  Messages are left out, except that `operational' and    *)
(* the exit code it leads to are what the user reads as "nothing was       *)
(* detected".                                                              *)
(***************************************************************************)
EXTENDS Naturals

ExitClean == 0
ExitFinding == 1
ExitOperational == 2

\* Identities an error can carry.  "drift" and "selection" name the two
\* errors with which check reports a detection.  The second line are the
\* sentinels of platform/client.go; "hinted" is a rate limit with a Retry-After.
Identity ==
    {"operational", "deadline", "canceled", "drift", "selection", "other"} \cup
    {"unavailable", "ratelimited", "hinted", "unauthorized", "notentitled", "notfound"}

\* Go's nil error.  It is no subset of Identity.
NoError == {"nil"}
Error == (SUBSET Identity) \cup {NoError}

Is(err, id) == id \in err

\* operational(format, err): an OperationalError around err.
Operational(err) == err \cup {"operational"}

\* The errors one call of the client may end with while the context lives, as
\* far as any command tells them apart.
CallErrors ==
    {{"unavailable"}, {"unavailable", "deadline"}, {"ratelimited"}, {"notentitled"},
     {"notfound"}, {"other"}}

\* ctx.Err() for a context that is live, out of time or interrupted.
ContextErr(ctx) ==
    CASE ctx = "live" -> NoError
      [] ctx = "deadline" -> {"deadline"}
      [] ctx = "interrupted" -> {"canceled"}

\* The timeout error formats its text from the limit alone: the error it
\* replaces is not wrapped, so none of its identities survive.
ClassifyDeadline(ctx, err) ==
    IF err # NoError /\ (Is(ContextErr(ctx), "deadline") \/ Is(err, "deadline"))
    THEN Operational({})
    ELSE err

\* The watch commands: a plan or a key that is refused is no finding.
ClassifyEntitlement(err) ==
    IF Is(err, "notentitled") \/ Is(err, "unauthorized") THEN Operational(err) ELSE err

ExitCodeFor(err) ==
    CASE err = NoError -> ExitClean
      [] err # NoError /\ Is(err, "operational") -> ExitOperational
      [] OTHER -> ExitFinding
=============================================================================
