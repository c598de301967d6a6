------------------------------ MODULE Unwatch ------------------------------
(***************************************************************************)
(* scg unwatch (cmd/scg/watch.go): a DELETE through Client.do, against a   *)
(* platform that carries each request that reaches it out, whether or not  *)
(* its reply gets back.  One repository; with --all it is one that         *)
(* ListWatches returned.  The context is the caller's and may end either   *)
(* way; main.go hands over one that only SIGINT ends.                      *)
(***************************************************************************)
EXTENDS Client

VARIABLES
    all,        \* --all
    watched,    \* the platform watches the repository
    was,        \* history: it did when the command began
    err,        \* what runUnwatch returned
    exit        \* the exit code, in a set

unwatchVars == <<clientVars, all, watched, was, err, exit>>

UnwatchInit ==
    /\ ClientInit
    /\ all \in BOOLEAN
    /\ watched \in BOOLEAN
    /\ was = watched
    /\ err = NoError
    /\ exit = {}

\* The platform's handler, as runUnwatch relies on it.
Remove ==
    /\ Serve(IF watched THEN NoError ELSE {"notfound"})
    /\ watched' = FALSE
    /\ UNCHANGED <<all, was, err, exit>>

Decline ==
    /\ \E e \in Status \ {NoError, {"notfound"}} : Serve(e)
    /\ UNCHANGED <<all, watched, was, err, exit>>

Call ==
    /\ ClientStep
    /\ UNCHANGED <<all, watched, was, err, exit>>

\* A mistake seeded for the property below to notice: with --all any error
\* is passed over.
AllForgives(e) == IF e = NoError \/ all THEN NoError ELSE ClassifyEntitlement(e)

\* "is not watched" does not wrap ErrNotFound.
UnwatchError(e) ==
    CASE e = NoError -> NoError
      [] Is(e, "notfound") -> IF all THEN NoError ELSE {"other"}
      [] OTHER -> ClassifyEntitlement(e)

SaysNotWatched(e) == Is(e, "notfound") /\ ~all

Conclude ==
    /\ phase = "done" /\ exit = {}
    /\ err' = UnwatchError(result)
    /\ exit' = {ExitCodeFor(err')}
    /\ UNCHANGED <<clientVars, all, watched, was>>

UnwatchNext == Remove \/ Decline \/ Call \/ Conclude

Ended == exit # {} /\ UNCHANGED unwatchVars

UnwatchSpec == UnwatchInit /\ [][UnwatchNext \/ Ended]_unwatchVars /\ ClientFairness

----------------------------------------------------------------------------
\* Exit 0 means the repository is not watched any more, whichever requests
\* and replies were lost on the way.
SuccessMeansUnwatched == ExitClean \in exit => ~watched

\* "<repository> is not watched", with exit 1, is said of a repository that
\* was not watched, and not of one this command has just removed.
NotWatchedMeansItWasNot == exit # {} /\ SaysNotWatched(result) => ~was
=============================================================================
