-------------------------- MODULE PresentationFile --------------------------
(***************************************************************************)
(* The file store of Presentation resources (store/file.go), seen through  *)
(* one resource: Get, Put and Delete under the mutex of the store, one     *)
(* step for each call that changes the file system, and power failures.    *)
(*                                                                         *)
(* A crash leaves one of the directory entries that the resource has had   *)
(* since its directory was last synced, and bytes that were never synced   *)
(* may be torn.                                                            *)
(***************************************************************************)
EXTENDS PresentationRequests, FiniteSets

CONSTANTS
  Torn,          \* a document with missing bytes
  ShardPersists  \* whether syncing a directory also keeps its own entry

ASSUME TornIsNew == Torn \notin Bodies \cup {Absent}
ASSUME ShardPersistsType == ShardPersists \in BOOLEAN

VARIABLES
  mu,          \* FileStore.mu: the client that holds it, or None
  pc, op, reply,
  temp,        \* the temporary file of a write: its body and whether it is synced
  file,        \* what the name of the resource leads to
  survivors,   \* what a crash may make of it
  shard,       \* the shard directory: "missing", "made" or "durable"
  promised     \* history: the documents the clients know may be left

clientVars == <<pc, op, reply, temp>>
diskVars == <<file, survivors, shard>>
vars == <<mu, clientVars, diskVars, promised>>

NoFile == [body |-> Absent, synced |-> TRUE]
Files == [body : Bodies \cup {Absent}, synced : BOOLEAN]
            \cup [body : {Torn}, synced : {TRUE}]

Init ==
  /\ mu = None
  /\ pc = [c \in Clients |-> "idle"]
  /\ op = [c \in Clients |-> None]
  /\ reply = [c \in Clients |-> None]
  /\ temp = [c \in Clients |-> None]
  /\ file = NoFile
  /\ survivors = {NoFile}
  /\ shard = "missing"
  /\ promised = {Absent}

Goto(c, step) == pc' = [pc EXCEPT ![c] = step]

\* The deferred Unlock, and the answer of the handler.
Finish(c, r) ==
  /\ mu' = None
  /\ reply' = [reply EXCEPT ![c] = r]
  /\ temp' = [temp EXCEPT ![c] = None]
  /\ Goto(c, "replied")

Request(c) ==
  /\ pc[c] = "idle"
  /\ \E o \in Operations : op' = [op EXCEPT ![c] = o]
  /\ Goto(c, "lock")
  /\ UNCHANGED <<mu, reply, temp, diskVars, promised>>

\* Mutant: the store is not locked.
LockShared(c) ==
  /\ pc[c] = "lock"
  /\ mu' = c
  /\ Goto(c, "check")
  /\ UNCHANGED <<op, reply, temp, diskVars, promised>>

Lock(c) ==
  /\ pc[c] = "lock"
  /\ mu = None
  /\ mu' = c
  /\ Goto(c, "check")
  /\ UNCHANGED <<op, reply, temp, diskVars, promised>>

\* Get: the document is read and validated; what does not validate is an error.
Read(c) ==
  /\ pc[c] = "check"
  /\ op[c] \in Gets
  /\ Finish(c, IF file.body = Torn THEN Failed ELSE Found(file.body))
  /\ UNCHANGED <<op, diskVars, promised>>

\* Put makes the shard directory before it looks at the condition.
MakeShard(c) ==
  IF op[c].kind = "put" /\ shard = "missing"
    THEN shard' = IF ShardPersists THEN "durable" ELSE "made"
    ELSE UNCHANGED shard

Check(c) ==
  /\ pc[c] = "check"
  /\ op[c] \in Writes
  /\ Accepts(op[c], file.body)
  /\ MakeShard(c)
  /\ Goto(c, IF op[c].kind = "put" THEN "write" ELSE "remove")
  /\ UNCHANGED <<mu, op, reply, temp, file, survivors, promised>>

\* Mutant: a refused write keeps the lock.
RefuseLocked(c) ==
  /\ pc[c] = "check"
  /\ op[c] \in Writes
  /\ ~Accepts(op[c], file.body)
  /\ MakeShard(c)
  /\ reply' = [reply EXCEPT ![c] = Refused]
  /\ Goto(c, "replied")
  /\ UNCHANGED <<mu, op, temp, file, survivors, promised>>

Refuse(c) ==
  /\ pc[c] = "check"
  /\ op[c] \in Writes
  /\ ~Accepts(op[c], file.body)
  /\ MakeShard(c)
  /\ Finish(c, Refused)
  /\ UNCHANGED <<op, file, survivors, promised>>

---------------------------------------------------------------------------
\* atomicWriteFile

WriteTemp(c) ==
  /\ pc[c] = "write"
  /\ temp' = [temp EXCEPT ![c] = [body |-> op[c].body, synced |-> FALSE]]
  /\ Goto(c, "sync")
  /\ UNCHANGED <<mu, op, reply, diskVars, promised>>

\* Mutant: the bytes are not synced before the rename.
SyncTempSkipped(c) ==
  /\ pc[c] = "sync"
  /\ Goto(c, "rename")
  /\ UNCHANGED <<mu, op, reply, temp, diskVars, promised>>

SyncTemp(c) ==
  /\ pc[c] = "sync"
  /\ temp' = [temp EXCEPT ![c] = [body |-> op[c].body, synced |-> TRUE]]
  /\ Goto(c, "rename")
  /\ UNCHANGED <<mu, op, reply, diskVars, promised>>

\* The name leads to another file, or to none; the old entry may come back.
Install(f) ==
  /\ file' = f
  /\ survivors' = survivors \cup {f}
  /\ promised' = promised \cup {f.body}

Rename(c) ==
  /\ pc[c] = "rename"
  /\ Install(temp[c])
  /\ temp' = [temp EXCEPT ![c] = None]
  /\ Goto(c, "syncdir")
  /\ UNCHANGED <<mu, op, reply, shard>>

Remove(c) ==
  /\ pc[c] = "remove"
  /\ Install(NoFile)
  /\ Goto(c, "syncdir")
  /\ UNCHANGED <<mu, op, reply, temp, shard>>

\* Mutant: the directory is not synced before the answer.
SyncDirectorySkipped(c) ==
  /\ pc[c] = "syncdir"
  /\ promised' = {file.body}
  /\ Finish(c, Accepted(op[c]))
  /\ UNCHANGED <<op, diskVars>>

SyncDirectory(c) ==
  /\ pc[c] = "syncdir"
  /\ survivors' = {file}
  /\ promised' = {file.body}
  /\ Finish(c, Accepted(op[c]))
  /\ UNCHANGED <<op, file, shard>>

\* Mutant: a failed call keeps the lock.
FailLocked(c) ==
  /\ pc[c] \in {"check", "write", "sync", "rename", "remove", "syncdir"}
  /\ reply' = [reply EXCEPT ![c] = Failed]
  /\ temp' = [temp EXCEPT ![c] = None]
  /\ Goto(c, "replied")
  /\ UNCHANGED <<mu, op, diskVars, promised>>

\* Any of these calls fails.  The temporary file is removed; the rename stays.
Fail(c) ==
  /\ pc[c] \in {"check", "write", "sync", "rename", "remove", "syncdir"}
  /\ MakeShard(c) \/ UNCHANGED shard
  /\ Finish(c, Failed)
  /\ UNCHANGED <<op, file, survivors, promised>>

Return(c) ==
  /\ pc[c] = "replied"
  /\ op' = [op EXCEPT ![c] = None]
  /\ reply' = [reply EXCEPT ![c] = None]
  /\ Goto(c, "idle")
  /\ UNCHANGED <<mu, temp, diskVars, promised>>

---------------------------------------------------------------------------
\* What a crash may leave: with a shard directory whose own entry was not kept,
\* nothing at all.
Leftover(f) ==
  /\ f \in survivors \/ (shard = "made" /\ f = NoFile)
  /\ file' \in IF f.synced THEN {f} ELSE {f, [body |-> Torn, synced |-> TRUE]}

Crash ==
  /\ \E f \in Files : Leftover(f)
  /\ survivors' = {file'}
  /\ shard' = IF shard = "made" /\ file' = NoFile THEN "missing" ELSE shard
  /\ promised' = {file'.body}
  /\ mu' = None
  /\ pc' = [c \in Clients |-> "idle"]
  /\ op' = [c \in Clients |-> None]
  /\ reply' = [c \in Clients |-> None]
  /\ temp' = [c \in Clients |-> None]

Step(c) ==
  \/ Lock(c) \/ Read(c) \/ Check(c) \/ Refuse(c)
  \/ WriteTemp(c) \/ SyncTemp(c) \/ Rename(c) \/ Remove(c) \/ SyncDirectory(c)
  \/ Fail(c) \/ Return(c)

Next == (\E c \in Clients : Request(c) \/ Step(c)) \/ Crash

Spec == Init /\ [][Next]_vars

\* sync.Mutex is handed to a waiter that has starved for a millisecond, so a
\* goroutine that wants it infinitely often gets it; every call returns.
FairSpec ==
  /\ Spec
  /\ \A c \in Clients : SF_vars(Lock(c)) /\ WF_vars(Step(c))

---------------------------------------------------------------------------
Locked == {"check", "write", "sync", "rename", "remove", "syncdir"}

TypeOK ==
  /\ mu \in Clients \cup {None}
  /\ pc \in [Clients -> Locked \cup {"idle", "lock", "replied"}]
  /\ op \in [Clients -> Operations \cup {None}]
  /\ temp \in [Clients -> Files \cup {None}]
  /\ file \in Files
  /\ survivors \in SUBSET Files /\ file \in survivors
  /\ shard \in {"missing", "made", "durable"}
  /\ promised \in SUBSET (Bodies \cup {Absent, Torn})
  /\ \A c \in Clients : mu = c <=> pc[c] \in Locked

\* After a crash the document is one that was acknowledged last, or that a write
\* which was not refused since then may have put there.
AcknowledgedSurvives ==
  [][Crash => file'.body \in promised]_vars

\* No crash leaves a document with missing bytes under the name.
NeverTorn == file.body # Torn

\* Every request is answered, or lost in a crash.
RequestsReturn == \A c \in Clients : pc[c] = "lock" ~> pc[c] = "idle"

\* The file store is a conditional register.
Stage(c) ==
  IF pc[c] \in {"idle", "replied"} THEN pc[c]
  ELSE IF pc[c] = "syncdir" THEN "applied"
  ELSE "called"

Register ==
  INSTANCE ConditionalRegister
    WITH doc <- file.body, stage <- [c \in Clients |-> Stage(c)]

Refines == Register!Spec
=============================================================================
