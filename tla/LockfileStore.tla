--------------------------- MODULE LockfileStore ---------------------------
(***************************************************************************)
(* WriteLockfile and ReadLockfile (manifest/lock.go) over a file system:   *)
(* several commands write the lockfile of one project while others read    *)
(* it, any of them may fail or be killed at any step, and the machine may  *)
(* lose power.                                                             *)
(*                                                                         *)
(* Each write makes one file, so the file is named by its writer.  The     *)
(* file system is the usual one: a rename is atomic, file data reaches the *)
(* disk for certain only with fsync, and a directory entry at some time    *)
(* after the rename.  CreateTemp's names are random; the model takes them  *)
(* to be distinct.                                                         *)
(***************************************************************************)
CONSTANTS
    Writer,     \* calls of WriteLockfile
    Reader,     \* processes that call ReadLockfile, again and again
    Old,        \* the lockfile that was there before
    NoFile

File == Writer \cup {Old}

ASSUME DistinctAssumption == Old \notin Writer /\ NoFile \notin File
ASSUME MarksAssumption == {"none", "damaged"} \cap (File \cup {NoFile}) = {}

VARIABLES
    lock,       \* the file the lockfile's path names
    onDisk,     \* the files the path may name after a power loss
    held,       \* history: the files the path has ever named
    content,    \* how much of its document each writer's file holds
    synced,     \* the writers whose file has been through fsync
    temp,       \* the writers whose temporary name exists
    wpc,        \* where each WriteLockfile is
    rpc,        \* where each ReadLockfile is
    opened,     \* the file the reader has open
    answer      \* what the reader's last ReadLockfile returned

storeVars == <<lock, onDisk, held, content, synced, temp, wpc, rpc, opened, answer>>

Content == {"empty", "torn", "whole"}
Running == {"write", "sync", "install", "failing", "installed"}

\* The type invariant, with what the names on disk can be: a temporary name is
\* gone once its file is installed.
StoreTypeOK ==
    /\ held \subseteq File \cup {NoFile}
    /\ onDisk \subseteq held
    /\ lock \in onDisk
    /\ content \in [Writer -> Content]
    /\ synced \subseteq Writer
    /\ wpc \in [Writer -> Running \cup {"start", "ok", "failed", "killed"}]
    /\ temp \subseteq {w \in Writer : wpc[w] \notin {"start", "installed", "ok"}}
    /\ rpc \in [Reader -> {"stat", "open", "read"}]
    /\ opened \in [Reader -> File \cup {NoFile}]
    /\ answer \in [Reader -> File \cup {NoFile, "none", "damaged"}]

StoreInit ==
    /\ lock \in {Old, NoFile}
    /\ onDisk = {lock}
    /\ held = {lock}
    /\ content = [w \in Writer |-> "empty"]
    /\ synced = {}
    /\ temp = {}
    /\ wpc = [w \in Writer |-> "start"]
    /\ rpc = [r \in Reader |-> "stat"]
    /\ opened = [r \in Reader |-> NoFile]
    /\ answer = [r \in Reader |-> "none"]

Whole(f) == f \in Writer => content[f] = "whole"

Step(w, from, to) == wpc[w] = from /\ wpc' = [wpc EXCEPT ![w] = to]

----------------------------------------------------------------------------
(* Mistakes seeded for the properties to notice, used by no behaviour.      *)

SyncSkipped(w) ==
    /\ Step(w, "sync", "install")
    /\ UNCHANGED <<lock, onDisk, held, content, synced, temp, rpc, opened, answer>>

\* os.Link, which leaves the temporary name for the deferred Remove.
InstallByLink(w) ==
    /\ Step(w, "install", "installed")
    /\ lock' = w
    /\ onDisk' = onDisk \cup {w}
    /\ held' = held \cup {w}
    /\ UNCHANGED <<content, synced, temp, rpc, opened, answer>>

\* Chmod after the rename: its failure is reported for an installed file.
FailAfterInstall(w) ==
    /\ \E s \in {"start", "write", "sync", "install", "installed"} : Step(w, s, "failing")
    /\ UNCHANGED <<lock, onDisk, held, content, synced, temp, rpc, opened, answer>>

----------------------------------------------------------------------------
(* WriteLockfile. *)

Create(w) ==
    /\ Step(w, "start", "write")
    /\ temp' = temp \cup {w}
    /\ UNCHANGED <<lock, onDisk, held, content, synced, rpc, opened, answer>>

WritePart(w) ==
    /\ wpc[w] = "write" /\ content[w] = "empty"
    /\ content' = [content EXCEPT ![w] = "torn"]
    /\ UNCHANGED <<lock, onDisk, held, synced, temp, wpc, rpc, opened, answer>>

WriteRest(w) ==
    /\ Step(w, "write", "sync")
    /\ content' = [content EXCEPT ![w] = "whole"]
    /\ UNCHANGED <<lock, onDisk, held, synced, temp, rpc, opened, answer>>

Sync(w) ==
    /\ Step(w, "sync", "install")
    /\ synced' = synced \cup {w}
    /\ UNCHANGED <<lock, onDisk, held, content, temp, rpc, opened, answer>>

\* Close and Chmod change nothing a reader can tell; Rename does.
Install(w) ==
    /\ Step(w, "install", "installed")
    /\ lock' = w
    /\ onDisk' = onDisk \cup {w}
    /\ held' = held \cup {w}
    /\ temp' = temp \ {w}
    /\ UNCHANGED <<content, synced, rpc, opened, answer>>

\* Any call up to and including the rename may return an error.
Fail(w) ==
    /\ \E s \in {"start", "write", "sync", "install"} : Step(w, s, "failing")
    /\ UNCHANGED <<lock, onDisk, held, content, synced, temp, rpc, opened, answer>>

\* The deferred Remove is best effort, and a no-op after the rename.
Return(w) ==
    /\ Step(w, "installed", "ok") \/ Step(w, "failing", "failed")
    /\ temp' \in {temp, temp \ {w}}
    /\ UNCHANGED <<lock, onDisk, held, content, synced, rpc, opened, answer>>

Kill(w) ==
    /\ \E s \in Running : Step(w, s, "killed")
    /\ UNCHANGED <<lock, onDisk, held, content, synced, temp, rpc, opened, answer>>

----------------------------------------------------------------------------
(* ReadLockfile: Stat and ReadFile each look the path up. *)

Stat(r) ==
    /\ rpc[r] = "stat"
    /\ rpc' = [rpc EXCEPT ![r] = IF lock = NoFile THEN "read" ELSE "open"]
    /\ opened' = [opened EXCEPT ![r] = IF lock = NoFile THEN NoFile ELSE @]
    /\ UNCHANGED <<lock, onDisk, held, content, synced, temp, wpc, answer>>

Open(r) ==
    /\ rpc[r] = "open"
    /\ rpc' = [rpc EXCEPT ![r] = "read"]
    /\ opened' = [opened EXCEPT ![r] = lock]
    /\ UNCHANGED <<lock, onDisk, held, content, synced, temp, wpc, answer>>

\* A document that is cut short does not parse.
Read(r) ==
    /\ rpc[r] = "read"
    /\ rpc' = [rpc EXCEPT ![r] = "stat"]
    /\ answer' = [answer EXCEPT ![r] = IF Whole(opened[r]) THEN opened[r] ELSE "damaged"]
    /\ UNCHANGED <<lock, onDisk, held, content, synced, temp, wpc, opened>>

----------------------------------------------------------------------------
(* The machine. *)

\* The directory reaches the disk.
Flush ==
    /\ onDisk' = {lock}
    /\ UNCHANGED <<lock, held, content, synced, temp, wpc, rpc, opened, answer>>

\* What may be left of a file that was never synced.
Survives(c) ==
    CASE c = "empty" -> {"empty"}
      [] c = "torn" -> {"empty", "torn"}
      [] c = "whole" -> {"empty", "torn", "whole"}

\* Every process ends; the commands that had not started may start later.
PowerLoss ==
    /\ lock' \in onDisk
    /\ onDisk' = {lock'}
    /\ \E c \in [Writer -> Content] :
         /\ \A w \in Writer : IF w \in synced THEN c[w] = content[w]
                                              ELSE c[w] \in Survives(content[w])
         /\ content' = c
    /\ wpc' = [w \in Writer |-> IF wpc[w] \in Running THEN "killed" ELSE wpc[w]]
    /\ rpc' = [r \in Reader |-> "stat"]
    /\ UNCHANGED <<held, synced, temp, opened, answer>>

StoreNext ==
    \/ \E w \in Writer :
         \/ Create(w) \/ WritePart(w) \/ WriteRest(w) \/ Sync(w) \/ Install(w)
         \/ Fail(w) \/ Return(w) \/ Kill(w)
    \/ \E r \in Reader : Stat(r) \/ Open(r) \/ Read(r)
    \/ Flush
    \/ PowerLoss

StoreSpec == StoreInit /\ [][StoreNext]_storeVars

----------------------------------------------------------------------------
\* Whatever the path names, now or after a power loss at this instant, is a
\* whole document and so is whatever a reader was given: "an interrupted or
\* failed write can never leave a truncated scg.lock behind" (lock.go).
NeverTruncated ==
    /\ \A f \in onDisk : Whole(f) /\ (f \in Writer => f \in synced)
    /\ \A r \in Reader : answer[r] # "damaged"

\* The store is a register: see module Register for what that promises.  A
\* write that reports an error never turns up, one that reports success was
\* installed, and no reader sees a mixture of two writes.
outcome ==
    [w \in Writer |-> CASE wpc[w] \in {"ok", "failed"} -> wpc[w]
                       [] wpc[w] = "killed" -> "unknown"
                       [] OTHER -> "pending"]

R == INSTANCE Register WITH value <- lock, past <- held, seen <- opened

RegisterSpec == R!Spec
=============================================================================
