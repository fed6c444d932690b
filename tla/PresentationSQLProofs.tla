----------------------- MODULE PresentationSQLProofs -----------------------
(***************************************************************************)
(* Proofs about PresentationSQL, for any clients, servers and documents:   *)
(* the row lock belongs to the one transaction whose copy of the row is    *)
(* compared and overwritten, and the store implements the conditional      *)
(* register, whatever connections break and whatever servers stop.         *)
(***************************************************************************)
EXTENDS PresentationSQL, TLAPS

\* A client has the request its stage is about, and a COMMIT that is sent, or may have
\* been, was preceded by a comparison that the row in the transaction has passed.
Admitted ==
  \A c \in Clients :
    /\ pc[c] # "idle" => op[c] \in Operations
    /\ pc[c] \in {"select", "compare", "commit", "broken"} => op[c] \in Replaces \cup Deletes
    /\ pc[c] \in {"answer", "unknown"} => op[c] \in Writes
    /\ pc[c] = "commit" => Accepts(op[c], current[c])
    /\ pc[c] = "unknown" /\ op[c] \notin Creates => Accepts(op[c], current[c])

\* The three parts of TypeOK: the types, who holds the lock, and who may still run.
Typed ==
  /\ row \in Bodies \cup {Absent}
  /\ lock \in Clients \cup {None}
  /\ pc \in [Clients -> Steps]
  /\ op \in [Clients -> Operations \cup {None}]
  /\ reply \in [Clients -> Answers \cup {None}]
  /\ current \in [Clients -> Bodies \cup {Absent, None}]
  /\ server \in [Servers -> {"running", "closing", "closed", "stopped"}]

Locking ==
  \A c \in Clients :
    /\ lock = c <=> Transacting(c)
    /\ Transacting(c) => current[c] = row

Serving == \A c \in Clients : server[ServerOf[c]] = "stopped" => pc[c] = "idle"

IInv == Typed /\ Locking /\ Serving /\ Admitted

---------------------------------------------------------------------------
\* What the requests write.
LEMMA Operands ==
  /\ Writes \subseteq Operations
  /\ \A o \in Writes : o.body \in Bodies \cup {Absent}
  /\ \A o \in Creates : \A d : Accepts(o, d) <=> d = Absent
  /\ \A o \in Creates : o.body \in Bodies
  /\ \A o \in Replaces \cup Deletes : ~Accepts(o, Absent)
  /\ (Replaces \cup Deletes) \cap Creates = {}
  /\ Replaces \cup Deletes \subseteq Writes
  /\ Creates \subseteq Writes
  /\ Gets \cap Writes = {}
  BY DEF Writes, Operations, Gets, Creates, Replaces, Deletes, Accepts

\* The answers of the handler.
LEMMA Replies ==
  /\ \A d \in Bodies \cup {Absent} : Found(d) \in Answers
  /\ \A o \in Writes : Accepted(o) \in Answers
  /\ Refused \in Answers /\ Failed \in Answers
  BY DEF Answers

\* Any row, and no transaction, satisfies the invariant.
LEMMA InitIInv == Init => IInv
  <1> SUFFICES ASSUME Init PROVE IInv
    OBVIOUS
  <1>1. Typed
    BY DEF Init, Typed, Steps
  <1>2. Locking
    BY NoneIsNew DEF Init, Locking, Transacting
  <1>3. Serving /\ Admitted
    BY DEF Init, Serving, Admitted
  <1> QED
    BY <1>1, <1>2, <1>3 DEF IInv

\* A request arrives, at a server that is running.
LEMMA RequestKeeps == ASSUME IInv, NEW c \in Clients, Request(c) PROVE IInv'
  <1>1. Typed'
    BY Operands, Replies DEF IInv, Typed, Steps, Admitted, Request, Goto
  <1>2. Locking'
    BY Operands, NoneIsNew
       DEF IInv, Typed, Locking, Admitted, Transacting, Unlocked, Request, Goto
  <1>3. Serving'
    BY ServerOfType DEF IInv, Typed, Serving, Connected, Request, Goto
  <1>4. Admitted'
    BY Operands DEF IInv, Typed, Admitted, Request, Goto
  <1> QED
    BY <1>1, <1>2, <1>3, <1>4 DEF IInv

\* A read changes nothing but its own answer.
LEMMA ReadKeeps == ASSUME IInv, NEW c \in Clients, Read(c) PROVE IInv'
  <1>1. Typed'
    BY Operands, Replies DEF IInv, Typed, Steps, Admitted, Read, Goto, Finish
  <1>2. Locking'
    BY Operands, NoneIsNew
       DEF IInv, Typed, Locking, Admitted, Transacting, Unlocked, Read, Goto, Finish
  <1>3. Serving'
    BY ServerOfType DEF IInv, Typed, Serving, Connected, Read, Goto, Finish
  <1>4. Admitted'
    BY Operands DEF IInv, Typed, Admitted, Read, Goto, Finish
  <1> QED
    BY <1>1, <1>2, <1>3, <1>4 DEF IInv

\* An INSERT finds no transaction on the row.
LEMMA InsertKeeps == ASSUME IInv, NEW c \in Clients, Insert(c) PROVE IInv'
  <1>1. Typed'
    BY Operands, Replies DEF IInv, Typed, Steps, Admitted, Insert, Goto
  <1>2. Locking'
    BY Operands, NoneIsNew
       DEF IInv, Typed, Locking, Admitted, Transacting, Unlocked, Insert, Goto
  <1>3. Serving'
    BY ServerOfType DEF IInv, Typed, Serving, Connected, Insert, Goto
  <1>4. Admitted'
    BY Operands DEF IInv, Typed, Admitted, Insert, Goto
  <1> QED
    BY <1>1, <1>2, <1>3, <1>4 DEF IInv

\* A duplicate key changes nothing.
LEMMA DuplicateKeeps == ASSUME IInv, NEW c \in Clients, Duplicate(c) PROVE IInv'
  <1>1. Typed'
    BY Operands, Replies DEF IInv, Typed, Steps, Admitted, Duplicate, Goto, Finish
  <1>2. Locking'
    BY Operands, NoneIsNew
       DEF IInv, Typed, Locking, Admitted, Transacting, Unlocked, Duplicate, Goto, Finish
  <1>3. Serving'
    BY ServerOfType DEF IInv, Typed, Serving, Connected, Duplicate, Goto, Finish
  <1>4. Admitted'
    BY Operands DEF IInv, Typed, Admitted, Duplicate, Goto, Finish
  <1> QED
    BY <1>1, <1>2, <1>3, <1>4 DEF IInv

\* A transaction begins without a lock.
LEMMA BeginTxKeeps == ASSUME IInv, NEW c \in Clients, BeginTx(c) PROVE IInv'
  <1>1. Typed'
    BY Operands, Replies DEF IInv, Typed, Steps, Admitted, BeginTx, Goto
  <1>2. Locking'
    BY Operands, NoneIsNew
       DEF IInv, Typed, Locking, Admitted, Transacting, Unlocked, BeginTx, Goto
  <1>3. Serving'
    BY ServerOfType DEF IInv, Typed, Serving, Connected, BeginTx, Goto
  <1>4. Admitted'
    BY Operands DEF IInv, Typed, Admitted, BeginTx, Goto
  <1> QED
    BY <1>1, <1>2, <1>3, <1>4 DEF IInv

\* SELECT ... FOR UPDATE locks the row and copies it.
LEMMA SelectKeeps == ASSUME IInv, NEW c \in Clients, Select(c) PROVE IInv'
  <1>1. Typed'
    BY Operands, Replies DEF IInv, Typed, Steps, Admitted, Select, Goto
  <1>2. Locking'
    BY Operands, NoneIsNew
       DEF IInv, Typed, Locking, Admitted, Transacting, Unlocked, Select, Goto
  <1>3. Serving'
    BY ServerOfType DEF IInv, Typed, Serving, Connected, Select, Goto
  <1>4. Admitted'
    BY Operands DEF IInv, Typed, Admitted, Select, Goto
  <1> QED
    BY <1>1, <1>2, <1>3, <1>4 DEF IInv

\* No row, no lock.
LEMMA SelectNothingKeeps == ASSUME IInv, NEW c \in Clients, SelectNothing(c) PROVE IInv'
  <1>1. Typed'
    BY Operands, Replies DEF IInv, Typed, Steps, Admitted, SelectNothing, Goto, Finish
  <1>2. Locking'
    BY Operands, NoneIsNew
       DEF IInv, Typed, Locking, Admitted, Transacting, Unlocked, SelectNothing, Goto, Finish
  <1>3. Serving'
    BY ServerOfType DEF IInv, Typed, Serving, Connected, SelectNothing, Goto, Finish
  <1>4. Admitted'
    BY Operands DEF IInv, Typed, Admitted, SelectNothing, Goto, Finish
  <1> QED
    BY <1>1, <1>2, <1>3, <1>4 DEF IInv

\* A comparison that succeeds leaves the lock.
LEMMA ChangeKeeps == ASSUME IInv, NEW c \in Clients, Change(c) PROVE IInv'
  <1>1. Typed'
    BY Operands, Replies DEF IInv, Typed, Steps, Admitted, Change, Goto
  <1>2. Locking'
    BY Operands, NoneIsNew
       DEF IInv, Typed, Locking, Admitted, Transacting, Unlocked, Change, Goto
  <1>3. Serving'
    BY ServerOfType DEF IInv, Typed, Serving, Connected, Change, Goto
  <1>4. Admitted'
    BY Operands DEF IInv, Typed, Admitted, Change, Goto
  <1> QED
    BY <1>1, <1>2, <1>3, <1>4 DEF IInv

\* A comparison that fails gives up the lock.
LEMMA RefuseKeeps == ASSUME IInv, NEW c \in Clients, Refuse(c) PROVE IInv'
  <1>1. Typed'
    BY Operands, Replies DEF IInv, Typed, Steps, Admitted, Refuse, Goto, Finish, Release
  <1>2. Locking'
    BY Operands, NoneIsNew
       DEF IInv, Typed, Locking, Admitted, Transacting, Unlocked, Refuse, Goto, Finish, Release
  <1>3. Serving'
    BY ServerOfType DEF IInv, Typed, Serving, Connected, Refuse, Goto, Finish, Release
  <1>4. Admitted'
    BY Operands DEF IInv, Typed, Admitted, Refuse, Goto, Finish, Release
  <1> QED
    BY <1>1, <1>2, <1>3, <1>4 DEF IInv

\* A COMMIT gives up the lock with the row it changes.
LEMMA CommitKeeps == ASSUME IInv, NEW c \in Clients, Commit(c) PROVE IInv'
  <1>1. Typed'
    BY Operands, Replies DEF IInv, Typed, Steps, Admitted, Commit, Goto, Release
  <1>2. Locking'
    BY Operands, NoneIsNew
       DEF IInv, Typed, Locking, Admitted, Transacting, Unlocked, Commit, Goto, Release
  <1>3. Serving'
    BY ServerOfType DEF IInv, Typed, Serving, Connected, Commit, Goto, Release
  <1>4. Admitted'
    BY Operands DEF IInv, Typed, Admitted, Commit, Goto, Release
  <1> QED
    BY <1>1, <1>2, <1>3, <1>4 DEF IInv

\* An acknowledged write is over.
LEMMA AcknowledgeKeeps == ASSUME IInv, NEW c \in Clients, Acknowledge(c) PROVE IInv'
  <1>1. Typed'
    BY Operands, Replies DEF IInv, Typed, Steps, Admitted, Acknowledge, Goto, Finish
  <1>2. Locking'
    BY Operands, NoneIsNew
       DEF IInv, Typed, Locking, Admitted, Transacting, Unlocked, Acknowledge, Goto, Finish
  <1>3. Serving'
    BY ServerOfType DEF IInv, Typed, Serving, Connected, Acknowledge, Goto, Finish
  <1>4. Admitted'
    BY Operands DEF IInv, Typed, Admitted, Acknowledge, Goto, Finish
  <1> QED
    BY <1>1, <1>2, <1>3, <1>4 DEF IInv

\* So is a call that fails before it has a lock.
LEMMA FailKeeps == ASSUME IInv, NEW c \in Clients, Fail(c) PROVE IInv'
  <1>1. Typed'
    BY Operands, Replies DEF IInv, Typed, Steps, Admitted, Fail, Goto, Finish
  <1>2. Locking'
    BY Operands, NoneIsNew
       DEF IInv, Typed, Locking, Admitted, Transacting, Unlocked, Fail, Goto, Finish
  <1>3. Serving'
    BY ServerOfType DEF IInv, Typed, Serving, Connected, Fail, Goto, Finish
  <1>4. Admitted'
    BY Operands DEF IInv, Typed, Admitted, Fail, Goto, Finish
  <1> QED
    BY <1>1, <1>2, <1>3, <1>4 DEF IInv

\* A connection that breaks leaves its transaction to the database.
LEMMA LoseKeeps == ASSUME IInv, NEW c \in Clients, Lose(c) PROVE IInv'
  <1>1. Typed'
    BY Operands, Replies DEF IInv, Typed, Steps, Admitted, Lose, Goto
  <1>2. Locking'
    BY Operands, NoneIsNew
       DEF IInv, Typed, Locking, Admitted, Transacting, Unlocked, Lose, Goto
  <1>3. Serving'
    BY ServerOfType DEF IInv, Typed, Serving, Connected, Lose, Goto
  <1>4. Admitted'
    BY Operands DEF IInv, Typed, Admitted, Lose, Goto
  <1> QED
    BY <1>1, <1>2, <1>3, <1>4 DEF IInv

\* The database commits what it had received, and gives up the lock.
LEMMA SettleKeeps == ASSUME IInv, NEW c \in Clients, Settle(c) PROVE IInv'
  <1>1. Typed'
    BY Operands, Replies DEF IInv, Typed, Steps, Admitted, Settle, Goto, Release
  <1>2. Locking'
    BY Operands, NoneIsNew
       DEF IInv, Typed, Locking, Admitted, Transacting, Unlocked, Settle, Goto, Release
  <1>3. Serving'
    BY ServerOfType DEF IInv, Typed, Serving, Connected, Settle, Goto, Release
  <1>4. Admitted'
    BY Operands DEF IInv, Typed, Admitted, Settle, Goto, Release
  <1> QED
    BY <1>1, <1>2, <1>3, <1>4 DEF IInv

\* Or it rolls the transaction back.
LEMMA RollBackKeeps == ASSUME IInv, NEW c \in Clients, RollBack(c) PROVE IInv'
  <1>1. Typed'
    BY Operands, Replies DEF IInv, Typed, Steps, Admitted, RollBack, Goto, Release
  <1>2. Locking'
    BY Operands, NoneIsNew
       DEF IInv, Typed, Locking, Admitted, Transacting, Unlocked, RollBack, Goto, Release
  <1>3. Serving'
    BY ServerOfType DEF IInv, Typed, Serving, Connected, RollBack, Goto, Release
  <1>4. Admitted'
    BY Operands DEF IInv, Typed, Admitted, RollBack, Goto, Release
  <1> QED
    BY <1>1, <1>2, <1>3, <1>4 DEF IInv

\* The slot is free again.
LEMMA ReturnKeeps == ASSUME IInv, NEW c \in Clients, Return(c) PROVE IInv'
  <1>1. Typed'
    BY Operands, Replies DEF IInv, Typed, Steps, Admitted, Return, Goto
  <1>2. Locking'
    BY Operands, NoneIsNew
       DEF IInv, Typed, Locking, Admitted, Transacting, Unlocked, Return, Goto
  <1>3. Serving'
    BY ServerOfType DEF IInv, Typed, Serving, Connected, Return, Goto
  <1>4. Admitted'
    BY Operands DEF IInv, Typed, Admitted, Return, Goto
  <1> QED
    BY <1>1, <1>2, <1>3, <1>4 DEF IInv

\* Stopping and starting servers needs no lock, and stops no request.
LEMMA LifecycleKeeps == ASSUME IInv, NEW s \in Servers, Lifecycle(s) PROVE IInv'
  <1>1. Typed'
    BY DEF IInv, Typed, Lifecycle, Shutdown, CloseStore, Stop, Start, clientVars
  <1>2. Locking' /\ Admitted'
    BY DEF IInv, Locking, Transacting, Admitted, Lifecycle, Shutdown, CloseStore, Stop, Start,
           clientVars
  <1>3. Serving'
    BY ServerOfType
       DEF IInv, Typed, Serving, Lifecycle, Shutdown, CloseStore, Stop, Start, clientVars
  <1> QED
    BY <1>1, <1>2, <1>3 DEF IInv

\* Every step of the specification, a stutter included, preserves the invariant.
LEMMA NextKeeps == IInv /\ [Next]_vars => IInv'
  <1> SUFFICES ASSUME IInv, [Next]_vars PROVE IInv'
    OBVIOUS
  <1>1. ASSUME NEW c \in Clients, Request(c) \/ Step(c) PROVE IInv'
    BY <1>1, RequestKeeps, ReadKeeps, InsertKeeps, DuplicateKeeps, BeginTxKeeps, SelectKeeps,
       SelectNothingKeeps, ChangeKeeps, RefuseKeeps, CommitKeeps, AcknowledgeKeeps, FailKeeps,
       LoseKeeps, SettleKeeps, RollBackKeeps, ReturnKeeps
       DEF Step
  <1>2. ASSUME NEW s \in Servers, Lifecycle(s) PROVE IInv'
    BY <1>2, LifecycleKeeps
  <1>3. CASE UNCHANGED vars
    BY <1>3
       DEF vars, clientVars, IInv, Typed, Locking, Transacting, Serving, Admitted
  <1> QED
    BY <1>1, <1>2, <1>3 DEF Next

\* The invariant holds throughout.
THEOREM Invariance == Spec => []IInv
  BY InitIInv, NextKeeps, PTL DEF Spec

\* The row is locked by exactly the transaction that has read it and not ended yet,
\* nobody else changes what it has read (Put and Delete compare under FOR UPDATE), and
\* a server that has stopped has no requests.
THEOREM TypeCorrect == Spec => []TypeOK
  <1>1. IInv => TypeOK
    BY DEF IInv, Typed, Locking, Serving, TypeOK
  <1> QED
    BY <1>1, Invariance, PTL

---------------------------------------------------------------------------
\* The refinement mapping on the steps of the clients.

Stages == [c \in Clients |-> Stage(c)]

\* A step of a client moves the stage of that client only.
LEMMA StageMoves ==
  ASSUME IInv, NEW c \in Clients, NEW s \in Steps, Goto(c, s)
  PROVE  Stages' = [Stages EXCEPT ![c] =
           CASE s \in {"begin", "select", "compare", "commit"} -> "called"
             [] s = "answer" -> "applied"
             [] s = "unknown" -> "lost"
             [] s \in {"replied", "broken"} -> "replied"
             [] OTHER -> "idle"]
  BY DEF IInv, Typed, Stages, Stage, Goto

\* The requests, conditions and answers of the register are those of the store.
LEMMA SameRequests ==
  /\ Register!Operations = Operations /\ Register!Gets = Gets /\ Register!Writes = Writes
  /\ \A o, d : Register!Accepts(o, d) <=> Accepts(o, d)
  /\ \A d : Register!Found(d) = Found(d)
  /\ \A o : Register!Accepted(o) = Accepted(o)
  /\ Register!Refused = Refused /\ Register!Failed = Failed
  BY DEF Operations, Gets, Writes, Creates, Replaces, Deletes, IfMatchHeaders, ETags,
         DocumentETag, Accepts, IfMatchMatches, Found, Accepted, Refused, Failed,
         Register!Operations, Register!Gets, Register!Writes, Register!Creates,
         Register!Replaces, Register!Deletes, Register!IfMatchHeaders, Register!ETags,
         Register!DocumentETag, Register!Accepts, Register!IfMatchMatches, Register!Found,
         Register!Accepted, Register!Refused, Register!Failed

\* The row is the document, which the database keeps.
LEMMA InitMaps == Init => Register!Init
  BY DEF Init, Stage, Register!Init

\* A request is a call.
LEMMA RequestMaps == ASSUME IInv, NEW c \in Clients, Request(c) PROVE Register!Call(c)
  <1>1. Stages[c] = "idle" /\ Stages' = [Stages EXCEPT ![c] = "called"]
    BY StageMoves DEF Request, Stages, Stage, Steps
  <1> QED
    BY <1>1, SameRequests DEF Request, Stages, Register!Call, Register!Move

\* A transaction that begins, locks, compares and changes is not visible before COMMIT.
LEMMA PrepareMaps ==
  ASSUME IInv, NEW c \in Clients, BeginTx(c) \/ Select(c) \/ Change(c)
  PROVE  UNCHANGED Register!vars
  <1>1. PICK s \in {"select", "compare", "commit"} : Goto(c, s)
    BY DEF BeginTx, Select, Change
  <1>2. Stages[c] = "called" /\ Stages' = [Stages EXCEPT ![c] = "called"]
    BY <1>1, StageMoves DEF BeginTx, Select, Change, Stages, Stage, Steps
  <1>3. Stages' = Stages
    BY <1>2 DEF Stages
  <1>4. UNCHANGED <<row, op, reply>>
    BY DEF BeginTx, Select, Change
  <1> QED
    BY <1>3, <1>4 DEF Stages, Register!vars

\* A read answers with the committed row.
LEMMA ReadMaps == ASSUME IInv, NEW c \in Clients, Read(c) PROVE Register!Read(c)
  <1>1. Stages[c] = "called" /\ Stages' = [Stages EXCEPT ![c] = "replied"]
    BY StageMoves DEF Read, Finish, Stages, Stage, Steps
  <1> QED
    BY <1>1, SameRequests
       DEF Read, Finish, Stages, Register!Read, Register!Move, Register!Reply

\* An INSERT that finds no row, and a COMMIT after a comparison of the row that is
\* still there, put the document of the request.
LEMMA ApplyMaps ==
  ASSUME IInv, NEW c \in Clients, Insert(c) \/ Commit(c) PROVE Register!Apply(c)
  <1>1. Stages[c] = "called" /\ Stages' = [Stages EXCEPT ![c] = "applied"]
    BY StageMoves DEF Insert, Commit, Stages, Stage, Steps
  <1>2. op[c] \in Writes /\ Accepts(op[c], row)
    BY Operands DEF IInv, Locking, Transacting, Admitted, Insert, Commit
  <1>3. row' = op[c].body /\ UNCHANGED <<op, reply>>
    BY DEF Insert, Commit
  <1> QED
    BY <1>1, <1>2, <1>3, SameRequests DEF Stages, Register!Apply, Register!Move

\* A duplicate key, a missing row and a failed comparison are refusals of the row
\* that is there.
LEMMA RefuseMaps ==
  ASSUME IInv, NEW c \in Clients, Duplicate(c) \/ SelectNothing(c) \/ Refuse(c)
  PROVE  Register!Refuse(c)
  <1>1. Stages[c] = "called" /\ Stages' = [Stages EXCEPT ![c] = "replied"]
    BY StageMoves DEF Duplicate, SelectNothing, Refuse, Finish, Stages, Stage, Steps
  <1>2. op[c] \in Writes /\ ~Accepts(op[c], row)
    BY Operands
       DEF IInv, Locking, Transacting, Admitted, Duplicate, SelectNothing, Refuse
  <1>3. reply' = [reply EXCEPT ![c] = Refused] /\ UNCHANGED <<row, op>>
    BY DEF Duplicate, SelectNothing, Refuse, Finish
  <1> QED
    BY <1>1, <1>2, <1>3, SameRequests
       DEF Stages, Register!Refuse, Register!Move, Register!Reply

\* The answer of the database is passed on.
LEMMA AcknowledgeMaps ==
  ASSUME IInv, NEW c \in Clients, Acknowledge(c) PROVE Register!Acknowledge(c)
  <1>1. Stages[c] = "applied" /\ Stages' = [Stages EXCEPT ![c] = "replied"]
    BY StageMoves DEF Acknowledge, Finish, Stages, Stage, Steps
  <1> QED
    BY <1>1, SameRequests
       DEF Acknowledge, Finish, Stages, Register!Acknowledge, Register!Move, Register!Reply

\* A failure is answered, before the change or after it.
LEMMA FailMaps == ASSUME IInv, NEW c \in Clients, Fail(c) PROVE Register!Fail(c)
  <1>1. Stages[c] \in {"called", "applied"} /\ Stages' = [Stages EXCEPT ![c] = "replied"]
    BY StageMoves DEF Fail, Finish, Stages, Stage, Steps
  <1> QED
    BY <1>1, SameRequests
       DEF Fail, Finish, Stages, Register!Fail, Register!Move, Register!Reply

\* A connection that breaks before COMMIT is sent fails the request; one that breaks
\* later leaves open what becomes of it.
LEMMA LoseMaps ==
  ASSUME IInv, NEW c \in Clients, Lose(c) PROVE Register!Fail(c) \/ Register!Lose(c)
  <1>1. CASE pc[c] = "compare"
    <2>1. Stages[c] = "called" /\ Stages' = [Stages EXCEPT ![c] = "replied"]
      BY <1>1, StageMoves DEF Lose, Stages, Stage, Steps
    <2> QED
      BY <2>1, SameRequests DEF Lose, Stages, Register!Fail, Register!Move, Register!Reply
  <1>2. CASE pc[c] # "compare"
    <2>1. Stages[c] = "called" /\ Stages' = [Stages EXCEPT ![c] = "lost"]
      BY <1>2, StageMoves DEF Lose, Stages, Stage, Steps
    <2>2. op[c] \in Writes
      BY <1>2, Operands DEF IInv, Admitted, Lose
    <2> QED
      BY <2>1, <2>2, SameRequests
         DEF Lose, Stages, Register!Lose, Register!Move, Register!Reply
  <1> QED
    BY <1>1, <1>2

\* What was open takes effect, on a row that still meets the condition ...
LEMMA SettleMaps == ASSUME IInv, NEW c \in Clients, Settle(c) PROVE Register!Settle(c)
  <1>1. Stages[c] = "lost" /\ Stages' = [Stages EXCEPT ![c] = "replied"]
    BY StageMoves DEF Settle, Stages, Stage, Steps
  <1>2. op[c] \in Writes /\ Accepts(op[c], row)
    BY Operands DEF IInv, Locking, Transacting, Admitted, Settle
  <1> QED
    BY <1>1, <1>2, SameRequests DEF Settle, Stages, Register!Settle, Register!Move

\* ... or never does.
LEMMA RollBackMaps ==
  ASSUME IInv, NEW c \in Clients, RollBack(c)
  PROVE  Register!Settle(c) \/ UNCHANGED Register!vars
  <1>1. CASE pc[c] = "unknown"
    <2>1. Stages[c] = "lost" /\ Stages' = [Stages EXCEPT ![c] = "replied"]
      BY <1>1, StageMoves DEF RollBack, Stages, Stage, Steps
    <2> QED
      BY <2>1 DEF RollBack, Stages, Register!Settle, Register!Move
  <1>2. CASE pc[c] = "broken"
    <2>1. Stages[c] = "replied" /\ Stages' = [Stages EXCEPT ![c] = "replied"]
      BY <1>2, StageMoves DEF RollBack, Stages, Stage, Steps
    <2>2. Stages' = Stages
      BY <2>1 DEF Stages
    <2> QED
      BY <2>2 DEF RollBack, Stages, Register!vars
  <1> QED
    BY <1>1, <1>2 DEF RollBack

\* The client is idle again.
LEMMA ReturnMaps == ASSUME IInv, NEW c \in Clients, Return(c) PROVE Register!Return(c)
  <1>1. Stages[c] = "replied" /\ Stages' = [Stages EXCEPT ![c] = "idle"]
    BY StageMoves DEF Return, Stages, Stage, Steps
  <1> QED
    BY <1>1 DEF Return, Stages, Register!Return, Register!Move, Register!Reply

\* Every step maps to a step of the register or to a stutter.
LEMMA NextMaps == ASSUME IInv, [Next]_vars PROVE [Register!Next]_(Register!vars)
  <1>1. ASSUME NEW c \in Clients, Request(c) \/ Step(c) PROVE [Register!Next]_(Register!vars)
    BY <1>1, RequestMaps, PrepareMaps, ReadMaps, ApplyMaps, RefuseMaps, AcknowledgeMaps,
       FailMaps, LoseMaps, SettleMaps, RollBackMaps, ReturnMaps DEF Step, Register!Next
  <1>2. ASSUME NEW s \in Servers, Lifecycle(s) PROVE UNCHANGED Register!vars
    BY <1>2 DEF Lifecycle, Shutdown, CloseStore, Stop, Start, clientVars, Stage, Register!vars
  <1>3. CASE UNCHANGED vars
    BY <1>3 DEF vars, clientVars, Stage, Register!vars
  <1> QED
    BY <1>1, <1>2, <1>3 DEF Next

\* The MariaDB store is a conditional register: Put and Delete take effect at one
\* instant, on a row that meets their condition, and what they answer is true; only
\* after a failure may a write still take effect, once, and on such a row.
THEOREM Implements == Spec => Refines
  <1>1. Init => Register!Init
    BY InitMaps
  <1>2. IInv /\ [Next]_vars => [Register!Next]_(Register!vars)
    BY NextMaps
  <1> QED
    BY <1>1, <1>2, Invariance, PTL DEF Spec, Refines, Register!Spec
=============================================================================
