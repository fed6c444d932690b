----------------------- MODULE PresentationFileProofs -----------------------
(***************************************************************************)
(* Proofs about PresentationFile, for any clients and documents: the lock  *)
(* is held by the one client between lock and answer, no document is torn, *)
(* and, where a synced directory keeps its own entry, the file store       *)
(* implements the conditional register.                                    *)
(***************************************************************************)
EXTENDS PresentationFile, TLAPS

\* A client that has been admitted has a request, and one that is about to change
\* the directory found its condition met by the document that is still there.
Admitted ==
  \A c \in Clients :
    /\ pc[c] # "idle" => op[c] \in Operations
    /\ pc[c] \in {"write", "sync", "rename"} =>
         op[c] \in Writes /\ op[c].kind = "put" /\ Accepts(op[c], file.body)
    /\ pc[c] = "remove" =>
         op[c] \in Writes /\ op[c].kind = "delete" /\ Accepts(op[c], file.body)
    /\ pc[c] = "syncdir" => op[c] \in Writes

\* The temporary file of a write has the bytes of its request.
Temporary ==
  \A c \in Clients :
    /\ pc[c] = "sync" => temp[c] = [body |-> op[c].body, synced |-> FALSE]
    /\ pc[c] = "rename" => temp[c] = [body |-> op[c].body, synced |-> TRUE]

\* What a crash may leave was synced, is a whole document, and is promised.
Recoverable ==
  /\ \A f \in survivors : f.synced /\ f.body # Torn /\ f.body \in promised
  /\ ShardPersists => shard # "made"

IInv == TypeOK /\ Admitted /\ Temporary /\ Recoverable

---------------------------------------------------------------------------
\* What the requests write.
LEMMA Operands ==
  /\ Writes \subseteq Operations
  /\ \A o \in Writes : o.kind \in {"put", "delete"} /\ o.body \in Bodies \cup {Absent}
  /\ \A o \in Writes : o.kind = "put" => o.body \in Bodies
  /\ \A o \in Writes : o.kind = "delete" => o.body = Absent
  /\ \A o \in Gets : o.kind = "get"
  /\ Gets \cap Writes = {}
  BY DEF Writes, Operations, Gets, Creates, Replaces, Deletes

\* An empty root satisfies the invariant.
LEMMA InitIInv == Init => IInv
  <1> SUFFICES ASSUME Init PROVE IInv
    OBVIOUS
  <1>1. TypeOK
    BY AbsentIsNew, NoneIsNew DEF Init, TypeOK, Locked, NoFile, Files
  <1>2. Admitted /\ Temporary
    BY DEF Init, Admitted, Temporary
  <1>3. Recoverable
    BY TornIsNew DEF Init, Recoverable, NoFile
  <1> QED
    BY <1>1, <1>2, <1>3 DEF IInv

\* A request arrives.
LEMMA RequestKeeps == ASSUME IInv, NEW c \in Clients, Request(c) PROVE IInv'
  <1>0. op' \in [Clients -> Operations \cup {None}]
    BY DEF IInv, TypeOK, Request
  <1>1. TypeOK'
    BY <1>0 DEF IInv, TypeOK, Locked, Request, Goto, diskVars
  <1>2. Admitted'
    BY DEF IInv, TypeOK, Admitted, Request, Goto, diskVars
  <1>3. Temporary'
    BY DEF IInv, Temporary, Request, Goto
  <1>4. Recoverable'
    BY DEF IInv, Recoverable, Request, diskVars
  <1> QED
    BY <1>1, <1>2, <1>3, <1>4 DEF IInv

\* The mutex goes to one client.
LEMMA LockKeeps == ASSUME IInv, NEW c \in Clients, Lock(c) PROVE IInv'
  <1>1. TypeOK'
    BY NoneIsNew DEF IInv, TypeOK, Locked, Lock, Goto, diskVars
  <1>2. Admitted'
    BY DEF IInv, Admitted, Lock, Goto, diskVars
  <1>3. Temporary'
    BY DEF IInv, Temporary, Lock, Goto
  <1>4. Recoverable'
    BY DEF IInv, Recoverable, Lock, diskVars
  <1> QED
    BY <1>1, <1>2, <1>3, <1>4 DEF IInv

\* A read changes nothing but its own answer.
LEMMA ReadKeeps == ASSUME IInv, NEW c \in Clients, Read(c) PROVE IInv'
  <1>1. TypeOK'
    BY NoneIsNew DEF IInv, TypeOK, Locked, Read, Goto, diskVars, Finish
  <1>2. Admitted'
    BY DEF IInv, TypeOK, Admitted, Read, Goto, Finish
  <1>3. Temporary'
    BY DEF IInv, Temporary, Read, Goto, Finish
  <1>4. Recoverable'
    BY DEF IInv, Recoverable, Read, diskVars
  <1> QED
    BY <1>1, <1>2, <1>3, <1>4 DEF IInv

\* A condition that is met stays met: nobody else holds the mutex.
LEMMA CheckKeeps == ASSUME IInv, NEW c \in Clients, Check(c) PROVE IInv'
  <1>1. TypeOK'
    BY DEF IInv, TypeOK, Locked, Check, Goto, MakeShard
  <1>2. Admitted'
    BY Operands DEF IInv, Admitted, Check, Goto
  <1>3. Temporary'
    BY DEF IInv, Temporary, Check, Goto
  <1>4. Recoverable'
    BY DEF IInv, Recoverable, Check, MakeShard
  <1> QED
    BY <1>1, <1>2, <1>3, <1>4 DEF IInv

\* A refused write may have made the shard directory.
LEMMA RefuseKeeps == ASSUME IInv, NEW c \in Clients, Refuse(c) PROVE IInv'
  <1>1. TypeOK'
    BY NoneIsNew DEF IInv, TypeOK, Locked, Refuse, Goto, Finish, MakeShard
  <1>2. Admitted'
    BY DEF IInv, Admitted, Refuse, Goto, Finish
  <1>3. Temporary'
    BY DEF IInv, Temporary, Refuse, Goto, Finish
  <1>4. Recoverable'
    BY DEF IInv, Recoverable, Refuse, MakeShard
  <1> QED
    BY <1>1, <1>2, <1>3, <1>4 DEF IInv

\* The temporary file gets the bytes of the request.
LEMMA WriteTempKeeps == ASSUME IInv, NEW c \in Clients, WriteTemp(c) PROVE IInv'
  <1>1. TypeOK'
    BY Operands DEF IInv, TypeOK, Admitted, Locked, Files, WriteTemp, Goto, diskVars
  <1>2. Admitted'
    BY DEF IInv, Admitted, WriteTemp, Goto, diskVars
  <1>3. Temporary'
    BY DEF IInv, TypeOK, Temporary, WriteTemp, Goto
  <1>4. Recoverable'
    BY DEF IInv, Recoverable, WriteTemp, diskVars
  <1> QED
    BY <1>1, <1>2, <1>3, <1>4 DEF IInv

\* The temporary file is synced.
LEMMA SyncTempKeeps == ASSUME IInv, NEW c \in Clients, SyncTemp(c) PROVE IInv'
  <1>0. op[c].body \in Bodies /\ temp[c] = [body |-> op[c].body, synced |-> FALSE]
    BY Operands DEF IInv, Admitted, Temporary, SyncTemp
  <1>1. TypeOK'
    BY <1>0 DEF IInv, TypeOK, Locked, Files, SyncTemp, Goto, diskVars
  <1>2. Admitted'
    BY DEF IInv, Admitted, SyncTemp, Goto, diskVars
  <1>3. Temporary'
    BY DEF IInv, TypeOK, Temporary, SyncTemp, Goto
  <1>4. Recoverable'
    BY DEF IInv, Recoverable, SyncTemp, diskVars
  <1> QED
    BY <1>1, <1>2, <1>3, <1>4 DEF IInv

\* The name gets a synced file, which a crash may now leave.
LEMMA RenameKeeps == ASSUME IInv, NEW c \in Clients, Rename(c) PROVE IInv'
  <1>0. temp[c] = [body |-> op[c].body, synced |-> TRUE] /\ op[c].body \in Bodies
    BY Operands DEF IInv, Admitted, Temporary, Rename
  <1>f. temp[c] \in Files /\ temp[c].body \in Bodies
    BY <1>0 DEF Files
  <1>1. TypeOK'
    BY <1>f DEF IInv, TypeOK, Locked, Rename, Goto, Install
  <1>2. Admitted'
    BY DEF IInv, TypeOK, Admitted, Rename, Goto
  <1>3. Temporary'
    BY DEF IInv, TypeOK, Temporary, Rename, Goto
  <1>4. Recoverable'
    BY Operands, TornIsNew
       DEF IInv, TypeOK, Admitted, Temporary, Recoverable, Rename, Install
  <1> QED
    BY <1>1, <1>2, <1>3, <1>4 DEF IInv

\* The name disappears, and a crash may now leave nothing.
LEMMA RemoveKeeps == ASSUME IInv, NEW c \in Clients, Remove(c) PROVE IInv'
  <1>f. NoFile \in Files /\ NoFile.body = Absent
    BY DEF NoFile, Files
  <1>1. TypeOK'
    BY <1>f DEF IInv, TypeOK, Locked, Remove, Goto, Install
  <1>2. Admitted'
    BY DEF IInv, TypeOK, Admitted, Remove, Goto
  <1>3. Temporary'
    BY DEF IInv, Temporary, Remove, Goto
  <1>4. Recoverable'
    BY TornIsNew DEF IInv, Recoverable, NoFile, Remove, Install
  <1> QED
    BY <1>1, <1>2, <1>3, <1>4 DEF IInv

\* Only the current entry can be left.
LEMMA SyncDirectoryKeeps == ASSUME IInv, NEW c \in Clients, SyncDirectory(c) PROVE IInv'
  <1>1. TypeOK'
    BY NoneIsNew DEF IInv, TypeOK, Locked, Files, SyncDirectory, Goto, Finish
  <1>2. Admitted'
    BY DEF IInv, Admitted, SyncDirectory, Goto, Finish
  <1>3. Temporary'
    BY DEF IInv, Temporary, SyncDirectory, Goto, Finish
  <1>4. Recoverable'
    BY DEF IInv, TypeOK, Recoverable, SyncDirectory
  <1> QED
    BY <1>1, <1>2, <1>3, <1>4 DEF IInv

\* A failed call leaves the directory as it is.
LEMMA FailKeeps == ASSUME IInv, NEW c \in Clients, Fail(c) PROVE IInv'
  <1>1. TypeOK'
    BY NoneIsNew DEF IInv, TypeOK, Locked, Fail, Goto, Finish, MakeShard
  <1>2. Admitted'
    BY DEF IInv, Admitted, Fail, Goto, Finish
  <1>3. Temporary'
    BY DEF IInv, TypeOK, Temporary, Fail, Goto, Finish
  <1>4. Recoverable'
    BY DEF IInv, Recoverable, Fail, MakeShard
  <1> QED
    BY <1>1, <1>2, <1>3, <1>4 DEF IInv

\* An answer goes out.
LEMMA ReturnKeeps == ASSUME IInv, NEW c \in Clients, Return(c) PROVE IInv'
  <1>1. TypeOK'
    BY DEF IInv, TypeOK, Locked, Return, Goto, diskVars
  <1>2. Admitted'
    BY DEF IInv, TypeOK, Admitted, Return, Goto, diskVars
  <1>3. Temporary'
    BY DEF IInv, Temporary, Return, Goto
  <1>4. Recoverable'
    BY DEF IInv, Recoverable, Return, diskVars
  <1> QED
    BY <1>1, <1>2, <1>3, <1>4 DEF IInv

\* Whatever a crash leaves was there before, synced and promised.
LEMMA CrashLeaves ==
  ASSUME IInv, Crash
  PROVE  /\ file' \in Files /\ file'.synced /\ file'.body # Torn
         /\ ShardPersists => file'.body \in promised
  <1>1. PICK f \in Files : Leftover(f)
    BY DEF Crash
  <1>2. f.synced /\ f.body # Torn
    <2>1. CASE f \in survivors
      BY <2>1 DEF IInv, Recoverable
    <2>2. CASE f = NoFile
      BY <2>2, TornIsNew DEF NoFile
    <2> QED
      BY <1>1, <2>1, <2>2 DEF Leftover
  <1>3. file' = f
    BY <1>1, <1>2 DEF Leftover
  <1>4. ShardPersists => f.body \in promised
    BY <1>1 DEF Leftover, IInv, Recoverable
  <1> QED
    BY <1>2, <1>3, <1>4

\* A restart finds the lock free, and one entry.
LEMMA CrashKeeps == ASSUME IInv, Crash PROVE IInv'
  <1> file' \in Files /\ file'.synced /\ file'.body # Torn
    BY CrashLeaves
  <1>1. TypeOK'
    BY NoneIsNew DEF IInv, TypeOK, Crash, Locked, Files
  <1>2. Admitted' /\ Temporary'
    BY DEF Crash, Admitted, Temporary
  <1>3. Recoverable'
    BY DEF IInv, Recoverable, Crash
  <1> QED
    BY <1>1, <1>2, <1>3 DEF IInv

\* Every step of the specification, a stutter included, preserves the invariant.
LEMMA NextKeeps == IInv /\ [Next]_vars => IInv'
  <1> SUFFICES ASSUME IInv, [Next]_vars PROVE IInv'
    OBVIOUS
  <1>1. ASSUME NEW c \in Clients, Request(c) \/ Step(c) PROVE IInv'
    BY <1>1, RequestKeeps, LockKeeps, ReadKeeps, CheckKeeps, RefuseKeeps,
       WriteTempKeeps,
       SyncTempKeeps, RenameKeeps, RemoveKeeps, SyncDirectoryKeeps, FailKeeps, ReturnKeeps
       DEF Step
  <1>2. CASE UNCHANGED vars
    BY <1>2
       DEF vars, clientVars, diskVars, IInv, TypeOK, Admitted, Temporary,
           Recoverable
  <1> QED
    BY <1>1, <1>2, CrashKeeps DEF Next

\* The invariant holds throughout.
THEOREM Invariance == Spec => []IInv
  BY InitIInv, NextKeeps, PTL DEF Spec

\* The mutex of the store is held by exactly the request between Lock and Unlock,
\* and every variable keeps its type.
THEOREM TypeCorrect == Spec => []TypeOK
  <1>1. IInv => TypeOK
    BY DEF IInv
  <1> QED
    BY <1>1, Invariance, PTL

\* atomicWriteFile never lets a crash leave missing bytes under the name.
THEOREM DocumentsAreWhole == Spec => []NeverTorn
  <1>1. IInv => NeverTorn
    BY DEF IInv, TypeOK, Recoverable, NeverTorn
  <1> QED
    BY <1>1, Invariance, PTL

\* An acknowledged Put or Delete survives a crash, provided that a synced shard
\* directory does.
THEOREM WritesSurvive == ASSUME ShardPersists PROVE Spec => AcknowledgedSurvives
  <1>1. IInv /\ [Next]_vars => [Crash => file'.body \in promised]_vars
    BY CrashLeaves
  <1> QED
    BY <1>1, Invariance, PTL DEF Spec, AcknowledgedSurvives

---------------------------------------------------------------------------
\* The refinement mapping on the steps of the clients.

Stages == [c \in Clients |-> Stage(c)]

\* A step of a client moves the stage of that client only.
LEMMA StageMoves ==
  ASSUME IInv, NEW c \in Clients, NEW s, Goto(c, s)
  PROVE  Stages' = [Stages EXCEPT ![c] =
           IF s \in {"idle", "replied"} THEN s ELSE IF s = "syncdir" THEN "applied" ELSE "called"]
  BY DEF IInv, TypeOK, Stages, Stage, Goto

\* The requests, conditions and answers of the register are those of the store.
LEMMA SameRequests ==
  /\ Register!Operations = Operations /\ Register!Gets = Gets /\ Register!Writes = Writes
  /\ \A o, d : Register!Accepts(o, d) <=> Accepts(o, d)
  /\ \A d : Register!Found(d) = Found(d)
  /\ \A o : Register!Accepted(o) = Accepted(o)
  /\ Register!Refused = Refused /\ Register!Failed = Failed
  BY DEF Operations, Gets, Writes, Creates, Replaces, Deletes, IfMatchHeaders, ETags,
         DocumentETag, Accepts, IfMatchMatches, Found, Accepted, Refused, Failed,
         Register!Operations, Register!Gets, Register!Writes, Register!Creates,
         Register!Replaces, Register!Deletes, Register!IfMatchHeaders, Register!ETags,
         Register!DocumentETag, Register!Accepts, Register!IfMatchMatches, Register!Found,
         Register!Accepted, Register!Refused, Register!Failed

\* The store starts as an empty register.
LEMMA InitMaps == Init => Register!Init
  BY DEF Init, NoFile, Stage, Register!Init

\* A request is a call.
LEMMA RequestMaps == ASSUME IInv, NEW c \in Clients, Request(c) PROVE Register!Call(c)
  <1>1. Stages[c] = "idle" /\ Stages' = [Stages EXCEPT ![c] = "called"]
    BY StageMoves DEF Request, Stages, Stage
  <1> QED
    BY <1>1, SameRequests DEF Request, Stages, diskVars, Register!Call, Register!Move

\* Waiting for the mutex, and the steps before the rename, are not visible.
LEMMA PrepareMaps ==
  ASSUME IInv, NEW c \in Clients, Lock(c) \/ Check(c) \/ WriteTemp(c) \/ SyncTemp(c)
  PROVE  UNCHANGED Register!vars
  <1>1. PICK s \in {"check", "write", "remove", "sync", "rename"} : Goto(c, s)
    BY DEF Lock, Check, WriteTemp, SyncTemp
  <1>2. Stages[c] = "called" /\ Stages' = [Stages EXCEPT ![c] = "called"]
    BY <1>1, StageMoves DEF Lock, Check, WriteTemp, SyncTemp, Stages, Stage
  <1>3. Stages' = Stages
    BY <1>2 DEF Stages
  <1>4. UNCHANGED <<file, promised, op, reply>>
    BY DEF Lock, Check, WriteTemp, SyncTemp, diskVars
  <1> QED
    BY <1>3, <1>4 DEF Stages, Register!vars

\* A read answers with the document.
LEMMA ReadMaps == ASSUME IInv, NEW c \in Clients, Read(c) PROVE Register!Read(c)
  <1>1. Stages[c] = "called" /\ Stages' = [Stages EXCEPT ![c] = "replied"]
    BY StageMoves DEF Read, Finish, Stages, Stage
  <1>2. file.body # Torn
    BY DEF IInv, TypeOK, Recoverable
  <1> QED
    BY <1>1, <1>2, SameRequests
       DEF Read, Finish, Stages, diskVars, Register!Read, Register!Move, Register!Reply

\* A refused write changes nothing.
LEMMA RefuseMaps == ASSUME IInv, NEW c \in Clients, Refuse(c) PROVE Register!Refuse(c)
  <1>1. Stages[c] = "called" /\ Stages' = [Stages EXCEPT ![c] = "replied"]
    BY StageMoves DEF Refuse, Finish, Stages, Stage
  <1> QED
    BY <1>1, SameRequests
       DEF Refuse, Finish, Stages, Register!Refuse, Register!Move, Register!Reply

\* The rename puts the document of a request whose condition is still met.
LEMMA RenameMaps == ASSUME IInv, NEW c \in Clients, Rename(c) PROVE Register!Apply(c)
  <1>1. Stages[c] = "called" /\ Stages' = [Stages EXCEPT ![c] = "applied"]
    BY StageMoves DEF Rename, Stages, Stage
  <1>2. op[c] \in Writes /\ Accepts(op[c], file.body)
    BY DEF IInv, Admitted, Rename
  <1>3. temp[c] = [body |-> op[c].body, synced |-> TRUE]
    BY DEF IInv, Temporary, Rename
  <1> QED
    BY <1>1, <1>2, <1>3, SameRequests
       DEF Rename, Install, Stages, Register!Apply, Register!Move

\* So does the removal.
LEMMA RemoveMaps == ASSUME IInv, NEW c \in Clients, Remove(c) PROVE Register!Apply(c)
  <1>1. Stages[c] = "called" /\ Stages' = [Stages EXCEPT ![c] = "applied"]
    BY StageMoves DEF Remove, Stages, Stage
  <1>2. op[c] \in Writes /\ Accepts(op[c], file.body) /\ op[c].body = Absent
    BY Operands DEF IInv, Admitted, Remove
  <1> QED
    BY <1>1, <1>2, SameRequests
       DEF Remove, Install, NoFile, Stages, Register!Apply, Register!Move

\* A write is acknowledged once its directory is synced.
LEMMA SyncDirectoryMaps ==
  ASSUME IInv, NEW c \in Clients, SyncDirectory(c) PROVE Register!Acknowledge(c)
  <1>1. Stages[c] = "applied" /\ Stages' = [Stages EXCEPT ![c] = "replied"]
    BY StageMoves DEF SyncDirectory, Finish, Stages, Stage
  <1> QED
    BY <1>1, SameRequests
       DEF SyncDirectory, Finish, Stages, Register!Acknowledge, Register!Move, Register!Reply

\* A failure is answered, before the rename or after it.
LEMMA FailMaps == ASSUME IInv, NEW c \in Clients, Fail(c) PROVE Register!Fail(c)
  <1>1. Stages[c] \in {"called", "applied"} /\ Stages' = [Stages EXCEPT ![c] = "replied"]
    BY StageMoves DEF Fail, Finish, Stages, Stage
  <1> QED
    BY <1>1, SameRequests
       DEF Fail, Finish, Stages, Register!Fail, Register!Move, Register!Reply

\* The client is idle again.
LEMMA ReturnMaps == ASSUME IInv, NEW c \in Clients, Return(c) PROVE Register!Return(c)
  <1>1. Stages[c] = "replied" /\ Stages' = [Stages EXCEPT ![c] = "idle"]
    BY StageMoves DEF Return, Stages, Stage
  <1> QED
    BY <1>1 DEF Return, Stages, diskVars, Register!Return, Register!Move, Register!Reply

\* A power failure takes every client, and leaves a promised document.
LEMMA CrashMaps == ASSUME ShardPersists, IInv, Crash PROVE Register!Crash(Clients)
  <1>1. file'.body \in promised
    BY CrashLeaves
  <1>2. Stages' = [c \in Clients |-> "idle"]
    BY DEF Crash, Stages, Stage
  <1> QED
    BY <1>1, <1>2 DEF Crash, Stages, Register!Crash

\* Every step maps to a step of the register or to a stutter.
LEMMA NextMaps ==
  ASSUME ShardPersists, IInv, [Next]_vars PROVE [Register!Next]_(Register!vars)
  <1>1. ASSUME NEW c \in Clients, Request(c) \/ Step(c) PROVE [Register!Next]_(Register!vars)
    BY <1>1, RequestMaps, PrepareMaps, ReadMaps, RefuseMaps, RenameMaps, RemoveMaps,
       SyncDirectoryMaps, FailMaps, ReturnMaps DEF Step, Register!Next
  <1>2. CASE UNCHANGED vars
    BY <1>2 DEF vars, clientVars, diskVars, Stage, Register!vars
  <1>3. CASE Crash
    BY <1>3, CrashMaps DEF Register!Next
  <1> QED
    BY <1>1, <1>2, <1>3 DEF Next

\* The file store is a conditional register: Put and Delete take effect at one
\* instant, on a document that meets their condition, and survive once they are
\* acknowledged, provided that a synced shard directory does.
THEOREM Implements == ASSUME ShardPersists PROVE Spec => Refines
  <1>1. Init => Register!Init
    BY InitMaps
  <1>2. IInv /\ [Next]_vars => [Register!Next]_(Register!vars)
    BY NextMaps
  <1> QED
    BY <1>1, <1>2, Invariance, PTL DEF Spec, Refines, Register!Spec
=============================================================================
