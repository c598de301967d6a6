---------------------------- MODULE Credentials ----------------------------
(***************************************************************************)
(* The credentials file (internal/config/credentials.go, config.go): how   *)
(* SaveCredentials replaces it through one fixed temporary name, what a    *)
(* reader makes of what it finds, and for which platform a stored key is   *)
(* used.  Several processes save at once; any of them may be killed        *)
(* between two system calls.                                               *)
(***************************************************************************)
CONSTANTS
    Session,    \* processes that save credentials
    Base,       \* platform URLs as they are configured
    Earlier,    \* who saved what is in the file at the start
    NoFile      \* a name that is not in the directory

\* A URL as canonicalPlatform tells URLs apart.
URL == [scheme : {"https", "http", "none"}, host : {"site", "api", "local", "else"},
        slash : BOOLEAN]
PlatformURL == [scheme |-> "https", host |-> "site", slash |-> FALSE]
LegacyPlatformURL == [scheme |-> "https", host |-> "api", slash |-> FALSE]
NoURL == [scheme |-> "none", host |-> "else", slash |-> FALSE]

ASSUME BaseAssumption == Base \subseteq {u \in URL : u.scheme # "none"}
ASSUME SessionAssumption == Earlier \notin Session /\ NoFile \notin Session \cup {Earlier}

\* A key is known by the session it was issued to; `blank' is a key without
\* a token.
Credential ==
    [by : Session \cup {Earlier}, blank : BOOLEAN, url : Base \cup {PlatformURL, NoURL}]
NoCredential == [by |-> Earlier, blank |-> TRUE, url |-> NoURL]

Inode == Session \cup {Earlier}

VARIABLES
    path, tmp,  \* the files the two names are links to
    data,       \* per file: {c} if it parses as the credential c, else {}
    size,       \* per file: whether anything has been written to it
    save,       \* how far the save of each session is
    hand,       \* the credential it was called with
    fd,         \* the file it has open
    overlapped, \* history: saves that had the temporary file open together
    superseded  \* history: sessions since whose save others changed the path

fileVars == <<path, tmp, data, size, save, hand, fd, overlapped, superseded>>

\* Saves that have opened the temporary name and not yet left it.
Saving == {s \in Session : save[s] \in {"write", "rename"}}

CredentialsTypeOK ==
    /\ path \in Inode \cup {NoFile} /\ tmp \in Inode \cup {NoFile}
    /\ data \in [Inode -> {{}} \cup {{c} : c \in Credential}]
    /\ size \in [Inode -> BOOLEAN]
    /\ save \in [Session -> {"idle", "open", "write", "rename", "stored", "failed", "killed"}]
    /\ hand \in [Session -> Credential]
    /\ fd \in [Session -> Inode \cup {NoFile}]
    /\ overlapped \subseteq Session
    /\ superseded \subseteq Session

\* Nothing is stored; or a key of an earlier login, or one without a URL; or
\* something that does not parse.
CredentialsInit ==
    /\ path \in {Earlier, NoFile}
    /\ tmp = NoFile
    /\ \E c \in {{}} \cup {{[by |-> Earlier, blank |-> FALSE, url |-> u]} :
                              u \in {PlatformURL, NoURL}} :
         data = [i \in Inode |-> IF i = path THEN c ELSE {}]
    /\ size = [i \in Inode |-> i = path]
    /\ save = [s \in Session |-> "idle"]
    /\ hand = [s \in Session |-> NoCredential]
    /\ fd = [s \in Session |-> NoFile]
    /\ overlapped = {}
    /\ superseded = {}

----------------------------------------------------------------------------
(* Mistakes seeded for the properties to notice, used by no behaviour.      *)

\* The temporary file is opened without O_TRUNC.
NotTruncated(i) == UNCHANGED <<data, size>>

\* A write that failed is noticed by nobody.
WriteFailsUnnoticed(s) ==
    /\ save[s] = "write"
    /\ data' = [data EXCEPT ![fd[s]] = {}]
    /\ size' = [size EXCEPT ![fd[s]] = TRUE]
    /\ save' = [save EXCEPT ![s] = "rename"]
    /\ UNCHANGED <<path, tmp, hand, fd, overlapped, superseded>>

\* Hosts are compared, schemes are not.
HostOnly(u) == IF u.host = "api" THEN "site" ELSE u.host

----------------------------------------------------------------------------
(* SaveCredentials. *)

\* The directory cannot be made, or the temporary file not opened.
OpenFails(s) ==
    /\ save[s] = "open"
    /\ save' = [save EXCEPT ![s] = "failed"]
    /\ UNCHANGED <<path, tmp, data, size, hand, fd, overlapped, superseded>>

Truncated(i) ==
    /\ data' = [data EXCEPT ![i] = {}]
    /\ size' = [size EXCEPT ![i] = FALSE]

\* os.WriteFile opens with O_CREATE and O_TRUNC: what has the name is used.
Open(s) ==
    /\ save[s] = "open"
    /\ tmp' = IF tmp = NoFile THEN s ELSE tmp
    /\ Truncated(tmp')
    /\ fd' = [fd EXCEPT ![s] = tmp']
    /\ overlapped' = IF Saving = {} THEN overlapped ELSE overlapped \cup Saving \cup {s}
    /\ save' = [save EXCEPT ![s] = "write"]
    /\ UNCHANGED <<path, hand, superseded>>

\* The document goes to the start of the file.  Over a longer one it leaves a
\* tail, and the whole does not parse.
WriteTmp(s) ==
    /\ save[s] = "write"
    /\ \E c \in {{hand[s]}} \cup (IF size[fd[s]] THEN {{}} ELSE {}) :
         data' = [data EXCEPT ![fd[s]] = c]
    /\ size' = [size EXCEPT ![fd[s]] = TRUE]
    /\ save' = [save EXCEPT ![s] = "rename"]
    /\ UNCHANGED <<path, tmp, hand, fd, overlapped, superseded>>

\* Some of it was written, or none.
WriteFails(s) ==
    /\ save[s] = "write"
    /\ \/ /\ data' = [data EXCEPT ![fd[s]] = {}]
          /\ size' = [size EXCEPT ![fd[s]] = TRUE]
       \/ UNCHANGED <<data, size>>
    /\ save' = [save EXCEPT ![s] = "failed"]
    /\ UNCHANGED <<path, tmp, hand, fd, overlapped, superseded>>

Rename(s) ==
    /\ save[s] = "rename" /\ tmp # NoFile
    /\ path' = tmp
    /\ tmp' = NoFile
    /\ superseded' = Session \ {s}
    /\ save' = [save EXCEPT ![s] = "stored"]
    /\ UNCHANGED <<data, size, hand, fd, overlapped>>

\* Refused; or another save has taken the temporary name away.
RenameFails(s) ==
    /\ save[s] = "rename"
    /\ save' = [save EXCEPT ![s] = "failed"]
    /\ UNCHANGED <<path, tmp, data, size, hand, fd, overlapped, superseded>>

SaveStep(s) ==
    \/ OpenFails(s) \/ Open(s) \/ WriteTmp(s) \/ WriteFails(s)
    \/ Rename(s) \/ RenameFails(s)

----------------------------------------------------------------------------
(* LoadCredentials and Load.  A file that is missing and one that does not   *)
(* parse both leave the command without a key.                               *)

Stored == IF path = NoFile THEN {} ELSE data[path]

Trim(u) == [u EXCEPT !.slash = FALSE]
Canonical(u) == IF Trim(u) = LegacyPlatformURL THEN PlatformURL ELSE Trim(u)
SamePlatform(u, v) == Canonical(u) = Canonical(v)

\* The stored credential a command addressing base uses, as a set, unless
\* SCG_API_KEY is set.
Loaded(base) ==
    {c \in Stored : ~c.blank /\ (c.url = NoURL \/ SamePlatform(c.url, base))}
=============================================================================
