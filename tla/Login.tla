------------------------------- MODULE Login -------------------------------
(***************************************************************************)
(* scg login and scg logout (cmd/scg/login.go, login_password.go) around   *)
(* the credentials file: the device flow polls until a person has approved *)
(* the code, the password flow buys one key with a session, both store the *)
(* key; logout removes it.  Requests and replies get lost, codes expire,   *)
(* and several logins and a logout may run at once on one machine.         *)
(***************************************************************************)
EXTENDS Credentials, Naturals

CONSTANT Setups     \* how each session signs in, and where

ASSUME SetupsAssumption ==
    Setups \subseteq [Session -> [flow : {"device", "password"}, base : Base]]

VARIABLES
    setup,          \* one of Setups
    interrupted,    \* sessions that have received SIGINT
    stage,          \* how far a session is
    code,           \* platform: the device code it was given
    issued,         \* platform: how many keys it was issued
    told,           \* what its user was told at the end
    logout,         \* how far scg logout is
    forgets         \* the credential logout has read, as a set

sessionVars == <<setup, interrupted, stage, code, issued, told>>
logoutVars == <<logout, forgets>>
loginVars == <<fileVars, sessionVars, logoutVars>>

Over == {"ended", "killed"}

LoginTypeOK ==
    /\ CredentialsTypeOK
    /\ setup \in Setups
    /\ interrupted \subseteq Session
    /\ stage \in [Session -> {"start", "prompt", "posting", "waiting", "polling", "keys",
                             "saving"} \cup Over]
    /\ code \in [Session -> {"none", "pending", "approved", "expired", "collected"}]
    /\ issued \in [Session -> 0..2]
    /\ told \in [Session -> {"nothing", "signed in", "expired", "refused", "failed",
                             "not stored"}]
    /\ logout \in {"idle", "loaded", "forgot", "failed"}
    /\ forgets \in {{}} \cup {{c} : c \in Credential}

LoginInit ==
    /\ CredentialsInit
    /\ setup \in Setups
    /\ interrupted = {}
    /\ stage = [s \in Session |-> "start"]
    /\ code = [s \in Session |-> "none"]
    /\ issued = [s \in Session |-> 0]
    /\ told = [s \in Session |-> "nothing"]
    /\ logout = "idle"
    /\ forgets = {}

\* secureBaseURL
SecureBaseURL(u) == u.scheme = "https" \/ (u.scheme = "http" /\ u.host = "local")

To(s, next) == stage' = [stage EXCEPT ![s] = next]
End(s, what) == To(s, "ended") /\ told' = [told EXCEPT ![s] = what]

\* The reply carries key material: SaveCredentials is called with it.
Keep(s, blank) ==
    /\ hand' = [hand EXCEPT ![s] = [by |-> s, blank |-> blank, url |-> setup[s].base]]
    /\ save' = [save EXCEPT ![s] = "open"]
    /\ To(s, "saving")
    /\ UNCHANGED <<path, tmp, data, size, fd, overlapped, superseded>>

Issue(s) == issued' = [issued EXCEPT ![s] = @ + 1]

----------------------------------------------------------------------------
(* Mistakes seeded for the properties to notice, used by no behaviour.      *)

\* Polling goes on after any error.
PollGoesOn(s) == To(s, "waiting") /\ UNCHANGED told

\* A key that did not arrive is asked for again.
MintRetries(s) == UNCHANGED <<stage, told>>

\* What came of the save is not looked at.
SaveUnchecked(s) ==
    /\ stage[s] = "saving" /\ save[s] \in {"stored", "failed"}
    /\ End(s, "signed in")
    /\ UNCHANGED <<setup, interrupted, code, issued, logoutVars, fileVars>>

\* The request is made without the context.
PollPendingUncut(s) ==
    /\ stage[s] = "polling" /\ code[s] = "pending"
    /\ To(s, "waiting")
    /\ UNCHANGED <<setup, interrupted, code, issued, told, logoutVars, fileVars>>

\* An expired code is like one not approved yet.
ExpiredWaits(s) ==
    /\ stage[s] = "polling" /\ s \notin interrupted /\ code[s] \in {"expired", "collected"}
    /\ To(s, "waiting")
    /\ UNCHANGED <<setup, interrupted, code, issued, told, logoutVars, fileVars>>

----------------------------------------------------------------------------
(* The environment: people, the platform's clock, signals. *)

Approve(s) ==
    /\ code[s] = "pending"
    /\ code' = [code EXCEPT ![s] = "approved"]
    /\ UNCHANGED <<setup, interrupted, stage, issued, told, logoutVars, fileVars>>

Expire(s) ==
    /\ code[s] \in {"pending", "approved"}
    /\ code' = [code EXCEPT ![s] = "expired"]
    /\ UNCHANGED <<setup, interrupted, stage, issued, told, logoutVars, fileVars>>

Interrupt(s) ==
    /\ stage[s] \notin Over
    /\ interrupted' = interrupted \cup {s}
    /\ UNCHANGED <<setup, stage, code, issued, told, logoutVars, fileVars>>

Kill(s) ==
    /\ stage[s] \notin Over
    /\ To(s, "killed")
    /\ save' = [save EXCEPT ![s] = "killed"]
    /\ UNCHANGED <<setup, interrupted, code, issued, told, logoutVars>>
    /\ UNCHANGED <<path, tmp, data, size, hand, fd, overlapped, superseded>>

----------------------------------------------------------------------------
(* runLogin and the device flow. *)

\* The platform's address is not safe, or --email does not fit.
Refuse(s) ==
    /\ stage[s] = "start"
    /\ ~SecureBaseURL(setup[s].base) \/ setup[s].flow = "device"
    /\ End(s, "failed")
    /\ UNCHANGED <<setup, interrupted, code, issued, logoutVars, fileVars>>

StartDevice(s) ==
    /\ stage[s] = "start" /\ setup[s].flow = "device"
    /\ SecureBaseURL(setup[s].base) /\ s \notin interrupted
    /\ code' = [code EXCEPT ![s] = "pending"]
    /\ To(s, "waiting")
    /\ UNCHANGED <<setup, interrupted, issued, told, logoutVars, fileVars>>

\* Not carried out, refused, or carried out and the reply lost or late; no
\* one learns the code.
StartFails(s) ==
    /\ stage[s] = "start" /\ setup[s].flow = "device" /\ SecureBaseURL(setup[s].base)
    /\ End(s, "failed")
    /\ UNCHANGED <<setup, interrupted, code, issued, logoutVars, fileVars>>

Interrupted(s) ==
    /\ stage[s] = "waiting" /\ s \in interrupted
    /\ End(s, "failed")
    /\ UNCHANGED <<setup, interrupted, code, issued, logoutVars, fileVars>>

Tick(s) ==
    /\ stage[s] = "waiting"
    /\ To(s, "polling")
    /\ UNCHANGED <<setup, interrupted, code, issued, told, logoutVars, fileVars>>

\* 428
PollPending(s) ==
    /\ stage[s] = "polling" /\ s \notin interrupted /\ code[s] = "pending"
    /\ To(s, "waiting")
    /\ UNCHANGED <<setup, interrupted, code, issued, told, logoutVars, fileVars>>

\* 410; a code that has been collected is no longer there either.
PollExpired(s) ==
    /\ stage[s] = "polling" /\ s \notin interrupted /\ code[s] \in {"expired", "collected"}
    /\ End(s, "expired")
    /\ UNCHANGED <<setup, interrupted, code, issued, logoutVars, fileVars>>

\* 200.  Nobody looks whether there is a token in the reply.
PollCollects(s) ==
    /\ stage[s] = "polling" /\ s \notin interrupted /\ code[s] = "approved"
    /\ code' = [code EXCEPT ![s] = "collected"]
    /\ Issue(s)
    /\ \E blank \in BOOLEAN : Keep(s, blank)
    /\ UNCHANGED <<setup, interrupted, told, logoutVars>>

PollGivesUp(s) == End(s, "failed")

\* Any other status, a lost or late request or reply, a context that has
\* ended: the platform may have handed the key out.
PollFails(s) ==
    /\ stage[s] = "polling"
    /\ \/ UNCHANGED <<code, issued>>
       \/ /\ code[s] = "approved"
          /\ code' = [code EXCEPT ![s] = "collected"]
          /\ Issue(s)
    /\ PollGivesUp(s)
    /\ UNCHANGED <<setup, interrupted, logoutVars, fileVars>>

----------------------------------------------------------------------------
(* readPassword.  It looks at nothing but its input, so at the prompt an      *)
(* interrupt, which the process has taken over, is noticed by nobody.         *)

\* SCG_PASSWORD is set; or the password is asked for.
ReadPassword(s) ==
    /\ stage[s] = "start" /\ setup[s].flow = "password" /\ SecureBaseURL(setup[s].base)
    /\ To(s, "posting") \/ To(s, "prompt")
    /\ UNCHANGED <<setup, interrupted, code, issued, told, logoutVars, fileVars>>

\* The person, or what is piped in, gives a line, be it an empty one.
Answer(s) ==
    /\ stage[s] = "prompt"
    /\ To(s, "posting")
    /\ UNCHANGED <<setup, interrupted, code, issued, told, logoutVars, fileVars>>

PromptFails(s) ==
    /\ stage[s] = "prompt"
    /\ End(s, "failed")
    /\ UNCHANGED <<setup, interrupted, code, issued, logoutVars, fileVars>>

----------------------------------------------------------------------------
(* loginWithPassword. *)

PasswordAccepted(s) ==
    /\ stage[s] = "posting" /\ s \notin interrupted
    /\ To(s, "keys")
    /\ UNCHANGED <<setup, interrupted, code, issued, told, logoutVars, fileVars>>

\* 401 and 429.
PasswordRefused(s) ==
    /\ stage[s] = "posting" /\ s \notin interrupted
    /\ End(s, "refused")
    /\ UNCHANGED <<setup, interrupted, code, issued, logoutVars, fileVars>>

\* No address or password was given; or the request failed in any other way,
\* an ended context included; or there is no session in the reply.
PasswordFails(s) ==
    /\ stage[s] = "posting"
    /\ End(s, "failed")
    /\ UNCHANGED <<setup, interrupted, code, issued, logoutVars, fileVars>>

MintKey(s) ==
    /\ stage[s] = "keys" /\ s \notin interrupted
    /\ Issue(s)
    /\ Keep(s, FALSE)
    /\ UNCHANGED <<setup, interrupted, code, told, logoutVars>>

\* As PollFails; an empty key is an error too, and there is no second try.
MintGivesUp(s) == End(s, "failed")

MintFails(s) ==
    /\ stage[s] = "keys"
    /\ UNCHANGED issued \/ Issue(s)
    /\ MintGivesUp(s)
    /\ UNCHANGED <<setup, interrupted, code, logoutVars, fileVars>>

----------------------------------------------------------------------------
(* Storing the key; the context plays no part any more. *)

Storing(s) ==
    /\ stage[s] = "saving"
    /\ SaveStep(s)
    /\ UNCHANGED <<sessionVars, logoutVars>>

Report(s) ==
    /\ stage[s] = "saving" /\ save[s] \in {"stored", "failed"}
    /\ End(s, IF save[s] = "stored" THEN "signed in" ELSE "not stored")
    /\ UNCHANGED <<setup, interrupted, code, issued, logoutVars, fileVars>>

----------------------------------------------------------------------------
(* scg logout: reads, for what it says, and then removes.  The temporary     *)
(* name is not touched.                                                      *)

LogoutLoads ==
    /\ logout = "idle"
    /\ forgets' = Stored
    /\ logout' = "loaded"
    /\ UNCHANGED <<sessionVars, fileVars>>

LogoutRemoves ==
    /\ logout = "loaded"
    /\ path' = NoFile
    /\ superseded' = Session
    /\ logout' = "forgot"
    /\ UNCHANGED <<sessionVars, forgets, tmp, data, size, save, hand, fd, overlapped>>

LogoutFails ==
    /\ logout = "loaded"
    /\ logout' = "failed"
    /\ UNCHANGED <<sessionVars, forgets, fileVars>>

----------------------------------------------------------------------------
LoginStep(s) ==
    \/ Refuse(s) \/ StartDevice(s) \/ StartFails(s) \/ Interrupted(s) \/ Tick(s)
    \/ PollPending(s) \/ PollExpired(s) \/ PollCollects(s) \/ PollFails(s)
    \/ ReadPassword(s) \/ PasswordAccepted(s) \/ PasswordRefused(s) \/ PasswordFails(s)
    \/ MintKey(s) \/ MintFails(s) \/ Storing(s) \/ Report(s)

\* What comes from the standard input.
PromptStep(s) == Answer(s) \/ PromptFails(s)

LoginNext ==
    \/ \E s \in Session :
         LoginStep(s) \/ PromptStep(s) \/ Approve(s) \/ Expire(s) \/ Interrupt(s) \/ Kill(s)
    \/ LogoutLoads \/ LogoutRemoves \/ LogoutFails

Finished ==
    /\ \A s \in Session : stage[s] \in Over
    /\ logout \in {"forgot", "failed"}
    /\ UNCHANGED loginVars

\* A process runs, its ticker ticks, and http.Client ends a request after 30
\* seconds if nothing else does.  Nobody need answer the prompt.
LoginSpec ==
    /\ LoginInit /\ [][LoginNext \/ Finished]_loginVars
    /\ \A s \in Session : WF_loginVars(LoginStep(s))

----------------------------------------------------------------------------
\* "Key stored in": unless another save had the temporary file open at the
\* same time, who is told so finds its own whole credential at the path, until
\* somebody else signs in or out.  What killed saves left behind, an older
\* file and a concurrent logout included, changes nothing.
SignedInMeansStored ==
    \A s \in Session :
        told[s] = "signed in" /\ s \notin overlapped \cup superseded => Stored = {hand[s]}

\* Who is told that the login failed has not replaced what was there, and the
\* file is never half a document, however saves fail or are killed; again for
\* saves that do not share the temporary file.
FailureLeavesFile ==
    overlapped = {} =>
        /\ \A s \in Session :
             told[s] \notin {"nothing", "signed in"} => \A c \in Stored : c.by # s
        /\ path \in Session => Stored # {}

\* A stored key is used for no other platform than the one that issued it,
\* whichever of its addresses is configured, and never in the clear.
KeyStaysHome ==
    \A u \in Base : \A c \in Loaded(u) :
        c.by \in Session => SamePlatform(setup[c.by].base, u) /\ SecureBaseURL(u)

\* A user who is told that the code expired or the password was refused has
\* no key at the platform that nobody knows of: a lost reply never turns into
\* one of these two, and no login is issued more than one key.
RefusedMeansNoKey ==
    \A s \in Session :
        /\ issued[s] <= 1
        /\ told[s] \in {"expired", "refused"} => issued[s] = 0

\* SIGINT ends a login, whatever the platform does, unless it stands at the
\* prompt; once somebody has answered that, SIGINT ends it as well.
InterruptEndsLogin ==
    \A s \in Session : (s \in interrupted) ~> (stage[s] \in Over \cup {"prompt"})

\* So does the end of the code's life, though the person never came.
ExpiryEndsLogin ==
    \A s \in Session : (code[s] = "expired") ~> (stage[s] \in Over)
=============================================================================
