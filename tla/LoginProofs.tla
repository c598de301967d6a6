---------------------------- MODULE LoginProofs ----------------------------
(***************************************************************************)
(* Theorems about scg login and scg logout, for any number of logins that  *)
(* save to one credentials file through one temporary name: who is told    *)
(* "signed in" is, who is told that it failed has replaced nothing, a key  *)
(* is used for the platform that issued it, and no refusal leaves a key.   *)
(***************************************************************************)
EXTENDS Login, TLAPS

\* What a session has done so far: before it saves it has no key, from then
\* on it holds its own, and what it is told is what came of the save.
SessionOK(s) ==
    /\ issued[s] <= 1
    /\ stage[s] \in {"start", "waiting", "polling", "prompt", "posting", "keys"} =>
         save[s] = "idle" /\ issued[s] = 0
    /\ stage[s] \in {"waiting", "polling", "prompt", "posting", "keys", "saving"} =>
         SecureBaseURL(setup[s].base)
    /\ stage[s] = "saving" => hand[s].by = s /\ hand[s].url = setup[s].base
    /\ told[s] # "nothing" => stage[s] = "ended"
    /\ told[s] = "signed in" => save[s] = "stored"
    /\ told[s] \notin {"nothing", "signed in"} => save[s] \in {"idle", "failed"}
    /\ told[s] \in {"expired", "refused"} => issued[s] = 0

SessionInv == \A s \in Session : SessionOK(s)

\* Every key in a file is there with the address of the platform that issued
\* it, which is a safe one.
AtHome ==
    \A i \in Inode : \A c \in data[i] :
        c.by \in Session =>
            c.url = setup[c.by].base /\ SecureBaseURL(setup[c.by].base)

\* The two names are never links to one file, and a session's own file has no
\* name before the session opens it.
NamesApart ==
    /\ tmp # NoFile => tmp # path
    /\ \A s \in Session : save[s] \in {"idle", "open"} => s # path /\ s # tmp

Alone(s) == s \in Saving /\ s \notin overlapped

\* A save that shares the temporary file with no other has it to itself: what
\* it renames is what it wrote, over a file it has emptied.
AloneInv ==
    \A s \in Session : Alone(s) =>
        /\ Saving = {s}
        /\ tmp # NoFile /\ fd[s] = tmp
        /\ save[s] = "write" => ~size[fd[s]]
        /\ save[s] = "rename" => data[fd[s]] = {hand[s]}

\* After such a save, until others change the path, its credential is there and
\* nobody has that file open for writing.
StoredInv ==
    \A s \in Session :
        save[s] = "stored" /\ s \notin overlapped \cup superseded =>
            /\ path # NoFile
            /\ data[path] = {hand[s]}
            /\ \A t \in Saving : fd[t] # path

\* If no saves share the temporary file, a key at the path is there because its
\* own session renamed it there, and there is one if any session did.
RenamedInv ==
    overlapped = {} =>
        /\ \A c \in Stored : c.by \in Session => save[c.by] \in {"stored", "killed"}
        /\ path \in Session => Stored # {}

FileInv == NamesApart /\ AloneInv /\ StoredInv /\ RenamedInv

LoginInv == LoginTypeOK /\ SessionInv /\ AtHome /\ FileInv

\* A setup of the runs is one address and one flow for each session.
LEMMA SetupTyped ==
    ASSUME setup \in Setups
    PROVE  setup \in [Session -> [flow : {"device", "password"}, base : Base]]
BY SetupsAssumption

\* A step of a session that leaves the credentials file alone, the people's
\* and the signals' included.
QuietStep(s) ==
    \/ Refuse(s) \/ StartDevice(s) \/ StartFails(s) \/ Interrupted(s) \/ Tick(s)
    \/ PollPending(s) \/ PollExpired(s) \/ PollFails(s)
    \/ ReadPassword(s) \/ Answer(s) \/ PromptFails(s)
    \/ PasswordAccepted(s) \/ PasswordRefused(s) \/ PasswordFails(s)
    \/ MintFails(s) \/ Report(s)
    \/ Approve(s) \/ Expire(s) \/ Interrupt(s)

\* Every step is one of these.
LEMMA StepCases ==
    ASSUME [LoginNext \/ Finished]_loginVars
    PROVE  \/ \E s \in Session :
                \/ QuietStep(s) \/ PollCollects(s) \/ MintKey(s)
                \/ Storing(s) \/ Kill(s)
           \/ LogoutLoads \/ LogoutRemoves \/ LogoutFails
           \/ UNCHANGED loginVars
BY DEF LoginNext, LoginStep, PromptStep, Finished, QuietStep

\* A quiet step leaves the file, the saves and logout alone.
LEMMA QuietChanges ==
    ASSUME NEW s \in Session, QuietStep(s)
    PROVE  UNCHANGED <<fileVars, logoutVars, setup>>
BY DEF QuietStep, Refuse, StartDevice, StartFails, Interrupted, Tick, PollPending,
       PollExpired, PollFails, ReadPassword, Answer, PromptFails, PasswordAccepted,
       PasswordRefused, PasswordFails, MintFails, Report, Approve, Expire, Interrupt, fileVars, logoutVars

\* A step of a save keeps the types of the file and of the saves.
LEMMA SaveTypeStep ==
    ASSUME CredentialsTypeOK, NEW s \in Session, SaveStep(s)
    PROVE  CredentialsTypeOK'
<1> USE DEF CredentialsTypeOK, Inode
<1>1. CASE OpenFails(s) \/ RenameFails(s)
  BY <1>1 DEF OpenFails, RenameFails
<1>2. CASE Open(s)
  BY <1>2 DEF Open, Truncated, Saving
<1>3. CASE WriteTmp(s)
  <2>1. PICK d \in {{hand[s]}, {}} : data' = [data EXCEPT ![fd[s]] = d]
    BY <1>3 DEF WriteTmp
  <2>2. hand[s] \in Credential
    OBVIOUS
  <2>3. d \in {{}} \cup {{c} : c \in Credential}
    BY <2>2
  <2>4. data' \in [Inode -> {{}} \cup {{c} : c \in Credential}]
    BY <2>1, <2>3
  <2> QED
    BY <1>3, <2>4 DEF WriteTmp
<1>4. CASE WriteFails(s)
  BY <1>4 DEF WriteFails
<1>5. CASE Rename(s)
  BY <1>5 DEF Rename
<1> QED
  BY <1>1, <1>2, <1>3, <1>4, <1>5 DEF SaveStep

\* The key of a session is a credential.
LEMMA KeptTyped ==
    ASSUME LoginTypeOK, NEW s \in Session, NEW blank \in BOOLEAN, Keep(s, blank)
    PROVE  CredentialsTypeOK'
<1>1. setup[s].base \in Base
  BY SetupTyped DEF LoginTypeOK
<1>2. [by |-> s, blank |-> blank, url |-> setup[s].base] \in Credential
  BY <1>1 DEF Credential
<1> QED
  BY <1>2 DEF Keep, LoginTypeOK, CredentialsTypeOK, Inode

\* The invariant holds before any session starts.
LEMMA LoginTypeInit == LoginInit => LoginTypeOK
<1> SUFFICES ASSUME LoginInit PROVE LoginTypeOK
  OBVIOUS
<1>1. NoCredential \in Credential
  BY DEF NoCredential, Credential
<1>2. ASSUME NEW u \in {PlatformURL, NoURL}
      PROVE  [by |-> Earlier, blank |-> FALSE, url |-> u] \in Credential
  BY DEF Credential
<1>3. data \in [Inode -> {{}} \cup {{c} : c \in Credential}]
  BY <1>2 DEF LoginInit, CredentialsInit, Inode
<1>4. CredentialsTypeOK
  BY <1>1, <1>3 DEF LoginInit, CredentialsInit, CredentialsTypeOK, Inode
<1> QED
  BY <1>4 DEF LoginInit, LoginTypeOK

\* A first key is a key the platform can count.
LEMMA IssuedTyped ==
    ASSUME issued \in [Session -> 0..2], NEW s \in Session, issued[s] = 0, Issue(s)
    PROVE  /\ issued' \in [Session -> 0..2]
           /\ issued' = [issued EXCEPT ![s] = 1]
BY DEF Issue

\* No step of a session, a person, a signal or logout breaks the types.
LEMMA LoginTypeStep ==
    ASSUME LoginTypeOK, SessionInv, [LoginNext \/ Finished]_loginVars
    PROVE  LoginTypeOK'
<1>1. ASSUME NEW s \in Session, QuietStep(s)
      PROVE  LoginTypeOK'
  <2>1. CredentialsTypeOK'
    BY <1>1, QuietChanges DEF LoginTypeOK, CredentialsTypeOK, fileVars
  <2>2. CASE Refuse(s) \/ StartDevice(s) \/ StartFails(s) \/ Interrupted(s) \/ Tick(s)
             \/ PollPending(s) \/ PollExpired(s)
    BY <2>1, <2>2 DEF LoginTypeOK, Over, To, End, Refuse, StartDevice, StartFails,
       Interrupted, Tick, PollPending, PollExpired, logoutVars
  <2>3. CASE PollFails(s) \/ MintFails(s)
    <3>1. issued' \in [Session -> 0..2]
      BY <2>3, IssuedTyped DEF LoginTypeOK, SessionInv, SessionOK, PollFails,
         MintFails
    <3> QED
      BY <2>1, <2>3, <3>1 DEF LoginTypeOK, Over, To, End, PollFails, PollGivesUp,
         MintFails, MintGivesUp, logoutVars
  <2>4. CASE PasswordAccepted(s) \/ PasswordRefused(s) \/ PasswordFails(s) \/ Report(s)
    BY <2>1, <2>4 DEF LoginTypeOK, Over, To, End, PasswordAccepted, PasswordRefused,
       PasswordFails, Report, logoutVars
  <2>6. CASE ReadPassword(s) \/ Answer(s) \/ PromptFails(s)
    BY <2>1, <2>6 DEF LoginTypeOK, Over, To, End, ReadPassword, Answer, PromptFails, logoutVars
  <2>5. CASE Approve(s) \/ Expire(s) \/ Interrupt(s)
    BY <2>1, <2>5 DEF LoginTypeOK, Over, Approve, Expire, Interrupt, logoutVars
  <2> QED
    BY <1>1, <2>2, <2>3, <2>4, <2>5, <2>6 DEF QuietStep
<1>2. ASSUME NEW s \in Session, PollCollects(s) \/ MintKey(s)
      PROVE  LoginTypeOK'
  <2>1. PICK blank \in BOOLEAN : Keep(s, blank)
    BY <1>2 DEF PollCollects, MintKey
  <2>2. CredentialsTypeOK'
    BY <2>1, KeptTyped
  <2>3. issued' \in [Session -> 0..2]
    BY <1>2, IssuedTyped DEF LoginTypeOK, SessionInv, SessionOK, PollCollects,
       MintKey
  <2> QED
    BY <1>2, <2>1, <2>2, <2>3 DEF LoginTypeOK, Keep, To, Over, PollCollects, MintKey,
       logoutVars
<1>3. ASSUME NEW s \in Session, Storing(s)
      PROVE  LoginTypeOK'
  BY <1>3, SaveTypeStep DEF LoginTypeOK, Storing, sessionVars, logoutVars
<1>4. ASSUME NEW s \in Session, Kill(s)
      PROVE  LoginTypeOK'
  BY <1>4 DEF LoginTypeOK, CredentialsTypeOK, Kill, To, Over, logoutVars
<1>5. CASE LogoutLoads
  <2>1. Stored \in {{}} \cup {{c} : c \in Credential}
    BY DEF LoginTypeOK, CredentialsTypeOK, Stored, Inode
  <2> QED
    BY <1>5, <2>1 DEF LoginTypeOK, CredentialsTypeOK, LogoutLoads, sessionVars, fileVars
<1>6. CASE LogoutRemoves
  BY <1>6 DEF LoginTypeOK, CredentialsTypeOK, LogoutRemoves, sessionVars, Inode
<1>7. CASE LogoutFails \/ UNCHANGED loginVars
  BY <1>7 DEF LoginTypeOK, CredentialsTypeOK, LogoutFails, loginVars, sessionVars,
     fileVars, logoutVars
<1> QED
  BY <1>1, <1>2, <1>3, <1>4, <1>5, <1>6, <1>7, StepCases

\* A step of one session leaves what is known of the others as it was.
Others(s) ==
    \A t \in Session \ {s} :
        /\ stage'[t] = stage[t] /\ issued'[t] = issued[t] /\ told'[t] = told[t]
        /\ save'[t] = save[t] /\ hand'[t] = hand[t]

\* So only its own part of the invariant has to be looked at.
LEMMA OneSession ==
    ASSUME SessionInv, NEW s \in Session, Others(s), setup' = setup, SessionOK(s)'
    PROVE  SessionInv'
<1>1. ASSUME NEW t \in Session, t # s
      PROVE  SessionOK(t)'
  <2>1. /\ stage'[t] = stage[t] /\ issued'[t] = issued[t] /\ told'[t] = told[t]
        /\ save'[t] = save[t] /\ hand'[t] = hand[t] /\ setup'[t] = setup[t]
    BY <1>1 DEF Others
  <2>2. SessionOK(t)
    BY DEF SessionInv
  <2> QED
    BY <2>1, <2>2 DEF SessionOK
<1> QED
  BY <1>1 DEF SessionInv

\* What each session is at stays true, whichever of them takes a step.
LEMMA SessionStep ==
    ASSUME LoginTypeOK, SessionInv, [LoginNext \/ Finished]_loginVars
    PROVE  SessionInv'
<1> DEFINE Fn(f) == f = [x \in Session |-> f[x]]
<1>0. Fn(stage) /\ Fn(told) /\ Fn(save) /\ Fn(hand) /\ issued \in [Session -> 0..2]
  BY DEF LoginTypeOK, CredentialsTypeOK
<1>1. ASSUME NEW s \in Session, QuietStep(s)
      PROVE  SessionInv'
  <2>0. SessionOK(s)
    BY DEF SessionInv
  <2>1. UNCHANGED <<setup, save, hand>>
    BY <1>1, QuietChanges DEF fileVars
  <2> SUFFICES Others(s) /\ SessionOK(s)'
    BY <2>1, OneSession
  <2> USE <1>0, <2>0, <2>1 DEF SessionOK, Others, To, End, Over
  <2>2. CASE Refuse(s) \/ StartDevice(s) \/ StartFails(s) \/ Interrupted(s) \/ Tick(s)
    BY <2>2 DEF Refuse, StartDevice, StartFails, Interrupted, Tick
  <2>3. CASE PollPending(s) \/ PollExpired(s) \/ PasswordAccepted(s) \/ PasswordRefused(s)
    BY <2>3 DEF PollPending, PollExpired, PasswordAccepted, PasswordRefused
  <2>7. CASE ReadPassword(s) \/ Answer(s) \/ PromptFails(s) \/ PasswordFails(s)
    BY <2>7 DEF ReadPassword, Answer, PromptFails, PasswordFails
  <2>4. CASE PollFails(s) \/ MintFails(s)
    <3>1. issued' \in {issued, [issued EXCEPT ![s] = 1]}
      BY <2>4, IssuedTyped DEF PollFails, MintFails
    <3>2. issued'[s] \in {0, 1} /\ \A t \in Session \ {s} : issued'[t] = issued[t]
      BY <2>4, <3>1 DEF PollFails, MintFails
    <3>3. stage'[s] = "ended" /\ told'[s] = "failed" /\ save[s] = "idle"
      BY <2>4 DEF PollFails, PollGivesUp, MintFails, MintGivesUp
    <3>4. Others(s)
      BY <2>4, <3>2 DEF PollFails, PollGivesUp, MintFails, MintGivesUp
    <3>5. SessionOK(s)'
      <4> HIDE <1>0, <2>0
      <4>1. issued'[s] <= 1
        BY <3>2
      <4>2. save'[s] = "idle"
        BY <3>3
      <4> QED
        BY <3>3, <4>1, <4>2
    <3> QED
      BY <3>4, <3>5
  <2>5. CASE Report(s)
    BY <2>5 DEF Report
  <2>6. CASE Approve(s) \/ Expire(s) \/ Interrupt(s)
    BY <2>6 DEF Approve, Expire, Interrupt
  <2> QED
    BY <1>1, <2>2, <2>3, <2>4, <2>5, <2>6, <2>7 DEF QuietStep
<1>2. ASSUME NEW s \in Session, PollCollects(s) \/ MintKey(s)
      PROVE  SessionInv'
  <2>0. SessionOK(s)
    BY DEF SessionInv
  <2>1. PICK blank \in BOOLEAN : Keep(s, blank)
    BY <1>2 DEF PollCollects, MintKey
  <2>2. stage[s] \in {"polling", "keys"} /\ UNCHANGED <<setup, told>> /\ Issue(s)
    BY <1>2 DEF PollCollects, MintKey
  <2>3. issued' = [issued EXCEPT ![s] = 1]
    BY <1>0, <2>0, <2>2, IssuedTyped DEF SessionOK
  <2>4. hand'[s].by = s /\ hand'[s].url = setup[s].base
    BY <1>0, <2>1 DEF Keep
  <2>5. SessionOK(s)'
    <3>1. issued'[s] = 1 /\ stage'[s] = "saving" /\ told'[s] = "nothing"
      BY <1>0, <2>0, <2>1, <2>2, <2>3 DEF SessionOK, Keep, To
    <3>2. setup'[s] = setup[s] /\ SecureBaseURL(setup[s].base)
      BY <2>0, <2>2 DEF SessionOK
    <3> QED
      BY <2>4, <3>1, <3>2 DEF SessionOK
  <2>6. Others(s)
    BY <1>0, <2>1, <2>2, <2>3 DEF Others, Keep, To
  <2> QED
    BY <2>2, <2>5, <2>6, OneSession
<1>3. ASSUME NEW s \in Session, Storing(s)
      PROVE  SessionInv'
  <2>0. SessionOK(s)
    BY DEF SessionInv
  <2>1. UNCHANGED <<setup, stage, issued, told, hand>> /\ stage[s] = "saving"
    BY <1>3 DEF Storing, sessionVars, SaveStep, OpenFails, Open, WriteTmp, WriteFails,
       Rename, RenameFails
  <2>2. \A t \in Session \ {s} : save'[t] = save[t]
    BY <1>0, <1>3 DEF Storing, SaveStep, OpenFails, Open, WriteTmp, WriteFails, Rename,
       RenameFails
  <2>3. SessionOK(s)'
    BY <2>0, <2>1 DEF SessionOK
  <2> QED
    BY <2>1, <2>2, <2>3, OneSession DEF Others
<1>4. ASSUME NEW s \in Session, Kill(s)
      PROVE  SessionInv'
  <2>1. SessionOK(s)
    BY DEF SessionInv
  <2>2. SessionOK(s)' /\ Others(s)
    BY <1>0, <1>4, <2>1 DEF Kill, To, SessionOK, Others, Over
  <2> QED
    BY <1>4, <2>2, OneSession DEF Kill
<1>5. CASE LogoutLoads \/ LogoutRemoves \/ LogoutFails \/ UNCHANGED loginVars
  <2>1. UNCHANGED <<setup, stage, issued, told, save, hand>>
    BY <1>5 DEF LogoutLoads, LogoutRemoves, LogoutFails, loginVars, sessionVars, fileVars
  <2> QED
    BY <2>1 DEF SessionInv, SessionOK
<1> QED
  BY <1>1, <1>2, <1>3, <1>4, <1>5, StepCases

\* What a step does to the file: nothing (a person, a signal, the platform, what
\* a user is told, a logout that reads or fails), a first key taken to be
\* saved, a step of a save, a kill, or the removal.
FileCases ==
    \/ UNCHANGED fileVars
    \/ \E s \in Session : \/ stage[s] \in {"polling", "keys"} /\ \E b \in BOOLEAN : Keep(s, b)
                          \/ stage[s] = "saving" /\ SaveStep(s)
                          \/ Kill(s)
    \/ LogoutRemoves

\* Every step does one of these to it, and none changes the setup.
LEMMA FileStepCases ==
    ASSUME [LoginNext \/ Finished]_loginVars
    PROVE  FileCases /\ setup' = setup
<1>1. ASSUME NEW s \in Session, QuietStep(s)
      PROVE  FileCases /\ setup' = setup
  BY <1>1, QuietChanges DEF FileCases
<1>2. ASSUME NEW s \in Session, PollCollects(s) \/ MintKey(s)
      PROVE  FileCases /\ setup' = setup
  BY <1>2 DEF FileCases, PollCollects, MintKey
<1>3. ASSUME NEW s \in Session, Storing(s) \/ Kill(s)
      PROVE  FileCases /\ setup' = setup
  BY <1>3 DEF FileCases, Storing, Kill, sessionVars
<1>4. CASE LogoutLoads \/ LogoutRemoves \/ LogoutFails \/ UNCHANGED loginVars
  BY <1>4 DEF FileCases, LogoutLoads, LogoutRemoves, LogoutFails, loginVars, sessionVars
<1> QED
  BY <1>1, <1>2, <1>3, <1>4, StepCases

\* What a step of a save puts into a file is nothing, or the whole credential.
LEMMA Written ==
    ASSUME CredentialsTypeOK, NEW s \in Session, SaveStep(s)
    PROVE  \A i \in Inode : data'[i] \in {data[i], {}, {hand[s]}}
<1> USE DEF CredentialsTypeOK, Inode
<1>1. CASE OpenFails(s) \/ Rename(s) \/ RenameFails(s)
  BY <1>1 DEF OpenFails, Rename, RenameFails
<1>2. CASE Open(s)
  BY <1>2 DEF Open, Truncated
<1>3. CASE WriteTmp(s)
  <2>1. PICK d \in {{hand[s]}, {}} : data' = [data EXCEPT ![fd[s]] = d]
    BY <1>3 DEF WriteTmp
  <2> QED
    BY <2>1
<1>4. CASE WriteFails(s)
  BY <1>4 DEF WriteFails
<1> QED
  BY <1>1, <1>2, <1>3, <1>4 DEF SaveStep

\* No step puts a key into a file without the address it was issued at.
LEMMA AtHomeStep ==
    ASSUME LoginTypeOK, SessionInv, AtHome, [LoginNext \/ Finished]_loginVars
    PROVE  AtHome'
<1>0. setup' = setup
  BY FileStepCases
<1>1. CASE data' = data
  BY <1>0, <1>1 DEF AtHome
<1>2. ASSUME NEW s \in Session, stage[s] = "saving", SaveStep(s)
      PROVE  AtHome'
  <2>1. /\ hand[s].by = s /\ hand[s].url = setup[s].base
        /\ SecureBaseURL(setup[s].base)
    BY <1>2 DEF SessionInv, SessionOK
  <2>2. SUFFICES ASSUME NEW i \in Inode, NEW c \in data'[i], c.by \in Session
                 PROVE  c.url = setup[c.by].base /\ SecureBaseURL(setup[c.by].base)
    BY <1>0 DEF AtHome
  <2>3. data'[i] \in {data[i], {}, {hand[s]}}
    BY <1>2, Written DEF LoginTypeOK
  <2>4. c \in data[i] \/ c = hand[s]
    BY <2>2, <2>3
  <2> QED
    BY <2>1, <2>2, <2>4 DEF AtHome
<1>3. FileCases
  BY FileStepCases
<1>4. UNCHANGED fileVars => data' = data
  BY DEF fileVars
<1>5. LogoutRemoves => data' = data
  BY DEF LogoutRemoves
<1>6. ASSUME NEW s \in Session, Kill(s) \/ \E b \in BOOLEAN : Keep(s, b)
      PROVE  data' = data
  BY <1>6 DEF Kill, Keep
<1> QED
  BY <1>1, <1>2, <1>3, <1>4, <1>5, <1>6 DEF FileCases

\* The facts about the file and the saves that the steps below use.
FileFacts ==
    /\ path \in Inode \cup {NoFile} /\ tmp \in Inode \cup {NoFile}
    /\ save = [t \in Session |-> save[t]]
    /\ hand = [t \in Session |-> hand[t]]
    /\ fd = [t \in Session |-> fd[t]]
    /\ data = [i \in Inode |-> data[i]]
    /\ size = [i \in Inode |-> size[i]]
    /\ NoFile \notin Inode /\ Session \subseteq Inode

\* They follow from the types.
LEMMA FileFactsHold == CredentialsTypeOK => FileFacts
BY SessionAssumption DEF CredentialsTypeOK, FileFacts, Inode

\* A save that fails, and one that is killed, leaves both names and all files
\* as they are.
LEMMA FileLeft ==
    ASSUME FileFacts, FileInv, NEW s \in Session,
           OpenFails(s) \/ RenameFails(s) \/ Kill(s)
    PROVE  FileInv'
<1> DEFINE Left(x) == save' = [save EXCEPT ![s] = x]
<1>1. Left("killed") \/ (Left("failed") /\ save[s] \in {"open", "rename"})
  BY DEF OpenFails, RenameFails, Kill
<1>2. UNCHANGED <<path, tmp, data, size, hand, fd, overlapped, superseded>>
  BY DEF OpenFails, RenameFails, Kill
<1>3. \A t \in Session \ {s} : save'[t] = save[t]
  BY <1>1 DEF FileFacts
<1>4. save'[s] \in {"failed", "killed"}
  BY <1>1 DEF FileFacts
<1>5. Saving' = Saving \ {s}
  BY <1>3, <1>4 DEF Saving
<1>6. NamesApart'
  BY <1>2, <1>3, <1>4 DEF FileInv, NamesApart
<1>7. AloneInv'
  BY <1>2, <1>3, <1>5 DEF FileInv, AloneInv, Alone, Saving
<1>8. StoredInv'
  BY <1>2, <1>3, <1>4, <1>5 DEF FileInv, StoredInv
<1>9. RenamedInv'
  <2>1. \A t \in Session : save[t] \in {"stored", "killed"} =>
            save'[t] \in {"stored", "killed"}
    BY <1>1, <1>3 DEF FileFacts
  <2> QED
    BY <1>2, <2>1 DEF FileInv, RenamedInv, Stored
<1> QED
  BY <1>6, <1>7, <1>8, <1>9 DEF FileInv

\* A session that takes its key to be saved has no part in any save yet.
LEMMA FileKept ==
    ASSUME FileFacts, FileInv, NEW s \in Session, NEW b \in BOOLEAN, Keep(s, b),
           save[s] = "idle"
    PROVE  FileInv'
<1>1. UNCHANGED <<path, tmp, data, size, fd, overlapped, superseded>>
  BY DEF Keep
<1>2. \A t \in Session \ {s} : save'[t] = save[t] /\ hand'[t] = hand[t]
  BY DEF Keep, FileFacts
<1>3. save'[s] = "open"
  BY DEF Keep, FileFacts
<1>4. Saving' = Saving /\ s \notin Saving
  BY <1>2, <1>3 DEF Saving
<1>5. NamesApart'
  BY <1>1, <1>2, <1>3 DEF FileInv, NamesApart
<1>6. AloneInv'
  BY <1>1, <1>2, <1>4 DEF FileInv, AloneInv, Alone
<1>7. StoredInv'
  BY <1>1, <1>2, <1>3, <1>4 DEF FileInv, StoredInv
<1>8. RenamedInv'
  <2>1. \A t \in Session : save[t] \in {"stored", "killed"} =>
            save'[t] \in {"stored", "killed"}
    BY <1>2
  <2> QED
    BY <1>1, <2>1 DEF FileInv, RenamedInv, Stored
<1> QED
  BY <1>5, <1>6, <1>7, <1>8 DEF FileInv

\* A save opens a file that the path does not name, and empties it.
LEMMA FileOpened ==
    ASSUME FileFacts, FileInv, NEW s \in Session, Open(s)
    PROVE  FileInv'
<1>1. save[s] = "open" /\ UNCHANGED <<path, hand, superseded>>
  BY DEF Open
<1>2. tmp' = IF tmp = NoFile THEN s ELSE tmp
  BY DEF Open
<1>3. tmp' \in Inode /\ tmp' # path
  BY <1>1, <1>2 DEF FileFacts, FileInv, NamesApart
<1>4. /\ data'[tmp'] = {} /\ size'[tmp'] = FALSE
      /\ \A i \in Inode : i # tmp' => data'[i] = data[i]
  BY <1>3 DEF Open, Truncated, FileFacts
<1>5. /\ \A t \in Session \ {s} : save'[t] = save[t] /\ fd'[t] = fd[t]
      /\ save'[s] = "write" /\ fd'[s] = tmp'
  BY DEF Open, FileFacts
<1>6. Saving' = Saving \cup {s} /\ s \notin Saving
  BY <1>1, <1>5 DEF Saving
<1>7. /\ overlapped \subseteq overlapped'
      /\ Saving # {} => Saving' \subseteq overlapped'
  BY <1>6 DEF Open
<1>8. NamesApart'
  BY <1>1, <1>2, <1>3, <1>5 DEF FileInv, NamesApart
<1>9. AloneInv'
  <2> SUFFICES ASSUME NEW t \in Session, Alone(t)'
               PROVE  /\ Saving' = {t} /\ tmp' # NoFile /\ fd'[t] = tmp'
                      /\ save'[t] = "write" /\ ~size'[fd'[t]]
    BY DEF AloneInv
  <2>1. Saving = {} /\ t = s
    BY <1>6, <1>7 DEF Alone
  <2> QED
    BY <1>3, <1>4, <1>5, <1>6, <2>1 DEF FileFacts
<1>10. StoredInv'
  <2> SUFFICES ASSUME NEW t \in Session, save'[t] = "stored",
                      t \notin overlapped' \cup superseded'
               PROVE  /\ path' # NoFile /\ data'[path'] = {hand'[t]}
                      /\ \A u \in Saving' : fd'[u] # path'
    BY DEF StoredInv
  <2>1. t # s /\ save[t] = "stored" /\ t \notin overlapped \cup superseded
    BY <1>1, <1>5, <1>7
  <2>2. /\ path # NoFile /\ data[path] = {hand[t]}
        /\ \A u \in Saving : fd[u] # path
    BY <2>1 DEF FileInv, StoredInv
  <2>3. data'[path] = data[path]
    BY <1>3, <1>4, <2>2 DEF FileFacts
  <2> QED
    BY <1>1, <1>3, <1>5, <1>6, <2>2, <2>3 DEF Saving
<1>11. RenamedInv'
  <2>1. Stored' = Stored
    BY <1>1, <1>3, <1>4 DEF Stored, FileFacts
  <2>2. overlapped' = {} => overlapped = {}
    BY <1>7
  <2>3. \A t \in Session : save[t] \in {"stored", "killed"} =>
            save'[t] \in {"stored", "killed"}
    BY <1>1, <1>5
  <2> QED
    BY <1>1, <2>1, <2>2, <2>3 DEF FileInv, RenamedInv
<1> QED
  BY <1>8, <1>9, <1>10, <1>11 DEF FileInv

\* A save that writes, in whole, in part or not at all, touches a file another
\* holds or the path names only if it shares the temporary file.
LEMMA FileWritten ==
    ASSUME FileFacts, FileInv, NEW s \in Session, WriteTmp(s) \/ WriteFails(s)
    PROVE  FileInv'
<1>1. /\ save[s] = "write"
      /\ UNCHANGED <<path, tmp, hand, fd, overlapped, superseded>>
  BY DEF WriteTmp, WriteFails
<1>2. /\ \A t \in Session \ {s} : save'[t] = save[t]
      /\ save'[s] \in {"rename", "failed"}
  BY DEF WriteTmp, WriteFails, FileFacts
<1>3. s \in Saving /\ Saving' \subseteq Saving
  BY <1>1, <1>2 DEF Saving
<1>4. \A i \in Inode : i # fd[s] => data'[i] = data[i]
  BY DEF WriteTmp, WriteFails, FileFacts
<1>5. s \notin overlapped =>
        /\ Saving = {s} /\ tmp # NoFile /\ fd[s] = tmp /\ tmp # path
        /\ ~size[fd[s]]
  BY <1>1, <1>3 DEF FileInv, AloneInv, Alone, NamesApart
<1>6. \A t \in Session : save[t] \in {"stored", "killed"} => save'[t] = save[t]
  BY <1>1, <1>2
<1>7. NamesApart'
  BY <1>1, <1>2 DEF FileInv, NamesApart
<1>8. AloneInv'
  <2> SUFFICES ASSUME NEW t \in Session, Alone(t)'
               PROVE  /\ Saving' = {t} /\ tmp' # NoFile /\ fd'[t] = tmp'
                      /\ save'[t] = "rename" /\ data'[fd'[t]] = {hand'[t]}
    BY DEF AloneInv
  <2>1. Alone(t)
    BY <1>1, <1>3 DEF Alone
  <2>2. t = s
    BY <1>3, <2>1 DEF FileInv, AloneInv
  <2>3. s \in Saving' /\ s \notin overlapped
    BY <1>1, <2>2 DEF Alone
  <2>4. WriteTmp(s) /\ save'[s] = "rename"
    BY <1>1, <2>3 DEF Saving, WriteFails, WriteTmp, FileFacts
  <2>5. tmp \in Inode
    BY <1>5, <2>3 DEF FileFacts
  <2>6. data' = [data EXCEPT ![fd[s]] = {hand[s]}]
    BY <1>5, <2>3, <2>4 DEF WriteTmp
  <2>7. data'[fd[s]] = {hand[s]}
    BY <1>5, <2>3, <2>5, <2>6 DEF FileFacts
  <2>8. Saving' = {s}
    BY <1>3, <1>5, <2>3
  <2> QED
    BY <1>1, <1>5, <2>2, <2>3, <2>4, <2>7, <2>8
<1>9. StoredInv'
  <2> SUFFICES ASSUME NEW t \in Session, save'[t] = "stored",
                      t \notin overlapped' \cup superseded'
               PROVE  /\ path' # NoFile /\ data'[path'] = {hand'[t]}
                      /\ \A u \in Saving' : fd'[u] # path'
    BY DEF StoredInv
  <2>1. save[t] = "stored" /\ t \notin overlapped \cup superseded
    BY <1>1, <1>2
  <2>2. /\ path # NoFile /\ data[path] = {hand[t]}
        /\ \A u \in Saving : fd[u] # path
    BY <2>1 DEF FileInv, StoredInv
  <2>3. data'[path] = data[path]
    BY <1>3, <1>4, <2>2 DEF FileFacts
  <2> QED
    BY <1>1, <1>3, <2>2, <2>3
<1>10. RenamedInv'
  <2> SUFFICES ASSUME overlapped = {}
               PROVE  /\ \A c \in Stored' : c.by \in Session =>
                             save'[c.by] \in {"stored", "killed"}
                      /\ path' \in Session => Stored' # {}
    BY <1>1 DEF RenamedInv
  <2>1. Stored' = Stored
    BY <1>1, <1>4, <1>5 DEF Stored, FileFacts
  <2> QED
    BY <1>1, <1>6, <2>1 DEF FileInv, RenamedInv
<1> QED
  BY <1>7, <1>8, <1>9, <1>10 DEF FileInv

\* What a save renames to the path is its own whole credential, if it shares
\* the temporary file with no other.
LEMMA FileRenamed ==
    ASSUME FileFacts, FileInv, NEW s \in Session, Rename(s), hand[s].by = s
    PROVE  FileInv'
<1>1. /\ save[s] = "rename" /\ tmp # NoFile
      /\ path' = tmp /\ tmp' = NoFile /\ superseded' = Session \ {s}
      /\ UNCHANGED <<data, size, hand, fd, overlapped>>
  BY DEF Rename
<1>2. save'[s] = "stored" /\ \A t \in Session \ {s} : save'[t] = save[t]
  BY DEF Rename, FileFacts
<1>3. s \in Saving /\ Saving' = Saving \ {s}
  BY <1>1, <1>2 DEF Saving
<1>4. s \notin overlapped => Saving = {s} /\ data[tmp] = {hand[s]}
  BY <1>1, <1>3 DEF FileInv, AloneInv, Alone
<1>5. NamesApart'
  BY <1>1, <1>2 DEF FileInv, NamesApart, FileFacts
<1>6. AloneInv'
  <2> SUFFICES ASSUME NEW t \in Session, Alone(t)'
               PROVE  FALSE
    BY DEF AloneInv
  <2>1. Alone(t) /\ t # s
    BY <1>1, <1>3 DEF Alone
  <2> QED
    BY <1>3, <2>1 DEF FileInv, AloneInv
<1>7. StoredInv'
  <2> SUFFICES ASSUME NEW t \in Session, t \notin overlapped' \cup superseded'
               PROVE  /\ path' # NoFile /\ data'[path'] = {hand'[t]}
                      /\ \A u \in Saving' : fd'[u] # path'
    BY DEF StoredInv
  <2>1. t = s /\ s \notin overlapped
    BY <1>1
  <2> QED
    BY <1>1, <1>3, <1>4, <2>1
<1>8. RenamedInv'
  <2> SUFFICES ASSUME overlapped = {}
               PROVE  /\ \A c \in Stored' : c.by \in Session =>
                             save'[c.by] \in {"stored", "killed"}
                      /\ path' \in Session => Stored' # {}
    BY <1>1 DEF RenamedInv
  <2>1. Stored' = {hand[s]}
    BY <1>1, <1>4 DEF Stored
  <2> QED
    BY <1>2, <2>1
<1> QED
  BY <1>5, <1>6, <1>7, <1>8 DEF FileInv

\* Logout leaves nothing at the path, and changes it for everybody.
LEMMA FileRemoved ==
    ASSUME FileFacts, FileInv, LogoutRemoves
    PROVE  FileInv'
<1>1. /\ path' = NoFile /\ superseded' = Session
      /\ UNCHANGED <<tmp, data, size, save, hand, fd, overlapped>>
  BY DEF LogoutRemoves
<1>2. Saving' = Saving
  BY <1>1 DEF Saving
<1>3. NamesApart'
  BY <1>1 DEF FileInv, NamesApart, FileFacts
<1>4. AloneInv'
  BY <1>1, <1>2 DEF FileInv, AloneInv, Alone
<1>5. StoredInv'
  BY <1>1 DEF StoredInv
<1>6. RenamedInv'
  BY <1>1 DEF RenamedInv, Stored, FileFacts
<1> QED
  BY <1>3, <1>4, <1>5, <1>6 DEF FileInv

\* No step of a session, a person, a signal or logout breaks the file.
LEMMA FileStep ==
    ASSUME LoginTypeOK, SessionInv, FileInv, [LoginNext \/ Finished]_loginVars
    PROVE  FileInv'
<1>0. FileFacts
  BY FileFactsHold DEF LoginTypeOK
<1>1. CASE UNCHANGED fileVars
  BY <1>1 DEF fileVars, FileInv, NamesApart, AloneInv, Alone, Saving, StoredInv,
     RenamedInv, Stored
<1>2. ASSUME NEW s \in Session, NEW b \in BOOLEAN, stage[s] \in {"polling", "keys"},
             Keep(s, b)
      PROVE  FileInv'
  <2>1. save[s] = "idle"
    BY <1>2 DEF SessionInv, SessionOK
  <2> QED
    BY <1>0, <1>2, <2>1, FileKept
<1>3. ASSUME NEW s \in Session, stage[s] = "saving", SaveStep(s)
      PROVE  FileInv'
  <2>1. hand[s].by = s
    BY <1>3 DEF SessionInv, SessionOK
  <2> QED
    BY <1>0, <1>3, <2>1, FileLeft, FileOpened, FileWritten, FileRenamed DEF SaveStep
<1>4. ASSUME NEW s \in Session, Kill(s)
      PROVE  FileInv'
  BY <1>0, <1>4, FileLeft
<1>5. CASE LogoutRemoves
  BY <1>0, <1>5, FileRemoved
<1>6. FileCases
  BY FileStepCases
<1> QED
  BY <1>1, <1>2, <1>3, <1>4, <1>5, <1>6 DEF FileCases

\* The invariant holds before any session starts.
LEMMA LoginInvInit == LoginInit => LoginInv
<1> SUFFICES ASSUME LoginInit PROVE LoginInv
  OBVIOUS
<1>1. LoginTypeOK
  BY LoginTypeInit
<1>2. SessionInv
  <2> SUFFICES ASSUME NEW s \in Session PROVE SessionOK(s)
    BY DEF SessionInv
  <2>1. stage[s] = "start" /\ issued[s] = 0 /\ told[s] = "nothing" /\ save[s] = "idle"
    BY DEF LoginInit, CredentialsInit
  <2> QED
    BY <2>1 DEF SessionOK
<1>3. AtHome
  BY SessionAssumption DEF LoginInit, CredentialsInit, AtHome
<1>4. NamesApart
  BY SessionAssumption DEF LoginInit, CredentialsInit, NamesApart
<1>5. AloneInv /\ StoredInv
  BY DEF LoginInit, CredentialsInit, AloneInv, Alone, Saving, StoredInv
<1>6. RenamedInv
  <2>1. path \in {Earlier, NoFile}
    BY DEF LoginInit, CredentialsInit
  <2>2. \A i \in Inode : \A c \in data[i] : c.by = Earlier
    BY DEF LoginInit, CredentialsInit
  <2>3. \A c \in Stored : c.by = Earlier
    BY <2>1, <2>2 DEF Stored, Inode
  <2> QED
    BY <2>1, <2>3, SessionAssumption DEF RenamedInv
<1> QED
  BY <1>1, <1>2, <1>3, <1>4, <1>5, <1>6 DEF LoginInv, FileInv

\* LoginInv is an inductive invariant, for any number of sessions and any way
\* each of them signs in.
THEOREM LoginInductive == LoginSpec => []LoginInv
<1>1. LoginInit => LoginInv
  BY LoginInvInit
<1>2. LoginInv /\ [LoginNext \/ Finished]_loginVars => LoginInv'
  BY LoginTypeStep, SessionStep, AtHomeStep, FileStep DEF LoginInv
<1> QED
  BY <1>1, <1>2, PTL DEF LoginSpec

\* The variables of login, logout and the credentials file keep their types;
\* one is that no session is issued more keys than the platform could count.
THEOREM LoginTypeCorrect == LoginSpec => []LoginTypeOK
<1>1. LoginInv => LoginTypeOK
  BY DEF LoginInv
<1> QED
  BY <1>1, LoginInductive, PTL

\* "Key stored in" is true when it is said: runLogin and loginWithPassword say it
\* after SaveCredentials has returned, which is after its rename.
THEOREM SignedInIsStored == LoginSpec => []SignedInMeansStored
<1>1. LoginInv => SignedInMeansStored
  <2> SUFFICES ASSUME LoginInv, NEW s \in Session, told[s] = "signed in",
                      s \notin overlapped \cup superseded
               PROVE  Stored = {hand[s]}
    BY DEF SignedInMeansStored
  <2>1. save[s] = "stored"
    BY DEF LoginInv, SessionInv, SessionOK
  <2> QED
    BY <2>1 DEF LoginInv, FileInv, StoredInv, Stored
<1> QED
  BY <1>1, LoginInductive, PTL

\* A login that tells its user it failed has replaced nothing: SaveCredentials
\* writes another file first and returns an error unless it was renamed.
THEOREM FailureIsHarmless == LoginSpec => []FailureLeavesFile
<1>1. LoginInv => FailureLeavesFile
  <2> SUFFICES ASSUME LoginInv, overlapped = {}
               PROVE  /\ \A s \in Session : told[s] \notin {"nothing", "signed in"} =>
                             \A c \in Stored : c.by # s
                      /\ path \in Session => Stored # {}
    BY DEF FailureLeavesFile
  <2>1. \A s \in Session :
          told[s] \notin {"nothing", "signed in"} => save[s] \in {"idle", "failed"}
    BY DEF LoginInv, SessionInv, SessionOK
  <2> QED
    BY <2>1 DEF LoginInv, FileInv, RenamedInv
<1> QED
  BY <1>1, LoginInductive, PTL

\* What canonicalPlatform takes for the same platform is addressed as safely.
LEMMA SamePlatformAsSafe ==
    ASSUME NEW u \in Base, NEW v \in Base, SamePlatform(u, v), SecureBaseURL(u)
    PROVE  SecureBaseURL(v)
<1>1. /\ Canonical(u).scheme = u.scheme /\ Canonical(v).scheme = v.scheme
      /\ Canonical(u).host = (IF Trim(u) = LegacyPlatformURL THEN "site" ELSE u.host)
      /\ Canonical(v).host = (IF Trim(v) = LegacyPlatformURL THEN "site" ELSE v.host)
  BY BaseAssumption DEF Canonical, Trim, URL, LegacyPlatformURL, PlatformURL
<1>2. /\ Trim(u) = LegacyPlatformURL => u.scheme = "https"
      /\ Trim(v) = LegacyPlatformURL => v.scheme = "https"
  BY BaseAssumption DEF Trim, URL, LegacyPlatformURL
<1> QED
  BY <1>1, <1>2 DEF SamePlatform, SecureBaseURL

\* A key that config.Load finds for an address was issued by the platform at that
\* address, and goes to it in the clear only on the same machine.
THEOREM KeyIsHome == LoginSpec => []KeyStaysHome
<1>1. LoginInv => KeyStaysHome
  <2> SUFFICES ASSUME LoginInv, NEW u \in Base, NEW c \in Loaded(u), c.by \in Session
               PROVE  SamePlatform(setup[c.by].base, u) /\ SecureBaseURL(u)
    BY DEF KeyStaysHome
  <2>1. c \in data[path] /\ path \in Inode
    BY DEF Loaded, Stored, LoginInv, LoginTypeOK, CredentialsTypeOK
  <2>2. c.url = setup[c.by].base /\ SecureBaseURL(setup[c.by].base)
    BY <2>1 DEF LoginInv, AtHome
  <2>3. setup[c.by].base \in Base
    BY SetupTyped DEF LoginInv, LoginTypeOK
  <2>4. c.url # NoURL
    BY <2>2, <2>3, BaseAssumption DEF NoURL
  <2>5. SamePlatform(setup[c.by].base, u)
    BY <2>2, <2>4 DEF Loaded
  <2> QED
    BY <2>2, <2>3, <2>5, SamePlatformAsSafe
<1> QED
  BY <1>1, LoginInductive, PTL

\* "Expired" and "refused" mean that there is no key at the platform: after a reply
\* that is lost login and loginWithPassword end with another error, and do not ask
\* again.
THEOREM RefusedHasNoKey == LoginSpec => []RefusedMeansNoKey
<1>1. LoginInv => RefusedMeansNoKey
  BY DEF LoginInv, SessionInv, SessionOK, RefusedMeansNoKey
<1> QED
  BY <1>1, LoginInductive, PTL
=============================================================================
