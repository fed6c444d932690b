-------------------------- MODULE PresentationSQL --------------------------
(***************************************************************************)
(* The MariaDB store of Presentation resources (store/mariadb.go), seen    *)
(* through one resource: its row, the transactions of any number of        *)
(* servers on it, connections that break, and the shutdown of a server     *)
(* (internal/server/server.go), which closes its store while requests are  *)
(* still in flight.                                                        *)
(*                                                                         *)
(* A step is one statement in the database, or its answer.  A crash of a   *)
(* server or of the database is seen as the breaking of its connections:   *)
(* neither the store nor a transaction keeps anything else in memory.      *)
(***************************************************************************)
EXTENDS PresentationRequests

CONSTANTS
  Servers,
  ServerOf   \* the server of each client

ASSUME ServerOfType == ServerOf \in [Clients -> Servers]

VARIABLES
  row,       \* the committed document of the resource
  lock,      \* the client whose transaction has locked the row, or None
  pc, op, reply,
  current,   \* what SELECT ... FOR UPDATE returned
  server     \* of each server: "running", "closing", "closed" or "stopped"

clientVars == <<pc, op, reply, current>>
vars == <<row, lock, clientVars, server>>

Init ==
  /\ row \in Bodies \cup {Absent}
  /\ lock = None
  /\ pc = [c \in Clients |-> "idle"]
  /\ op = [c \in Clients |-> None]
  /\ reply = [c \in Clients |-> None]
  /\ current = [c \in Clients |-> None]
  /\ server = [s \in Servers |-> "running"]

Goto(c, step) == pc' = [pc EXCEPT ![c] = step]

\* The answer of the handler.
Finish(c, r) ==
  /\ reply' = [reply EXCEPT ![c] = r]
  /\ Goto(c, "replied")

\* The end of the client's transaction.
Release(c) == lock' = IF lock = c THEN None ELSE lock
Unlocked(c) == lock = None

\* The connection pool hands out connections until Close.
Connected(c) == server[ServerOf[c]] \in {"running", "closing"}

Request(c) ==
  /\ pc[c] = "idle"
  /\ server[ServerOf[c]] = "running"
  /\ \E o \in Operations : op' = [op EXCEPT ![c] = o]
  /\ Goto(c, "begin")
  /\ UNCHANGED <<row, lock, reply, current, server>>

\* Get reads the last committed version and waits for no lock.
Read(c) ==
  /\ pc[c] = "begin"
  /\ op[c] \in Gets
  /\ Connected(c)
  /\ Finish(c, Found(row))
  /\ UNCHANGED <<row, lock, op, current, server>>

---------------------------------------------------------------------------
\* Put with If-None-Match: one INSERT, without a transaction of its own.

\* Mutant: the INSERT replaces what is there.
InsertOrReplace(c) ==
  /\ pc[c] = "begin"
  /\ op[c] \in Creates
  /\ Connected(c)
  /\ Unlocked(c)
  /\ row' = op[c].body
  /\ Goto(c, "answer")
  /\ UNCHANGED <<lock, op, reply, current, server>>

Insert(c) ==
  /\ pc[c] = "begin"
  /\ op[c] \in Creates
  /\ Connected(c)
  /\ Unlocked(c)
  /\ row = Absent
  /\ row' = op[c].body
  /\ Goto(c, "answer")
  /\ UNCHANGED <<lock, op, reply, current, server>>

\* isDuplicateKey
Duplicate(c) ==
  /\ pc[c] = "begin"
  /\ op[c] \in Creates
  /\ Connected(c)
  /\ Unlocked(c)
  /\ row # Absent
  /\ Finish(c, Refused)
  /\ UNCHANGED <<row, lock, op, current, server>>

---------------------------------------------------------------------------
\* Put with If-Match, and Delete: a transaction that locks the row.

BeginTx(c) ==
  /\ pc[c] = "begin"
  /\ op[c] \in Replaces \cup Deletes
  /\ Connected(c)
  /\ Goto(c, "select")
  /\ UNCHANGED <<row, lock, op, reply, current, server>>

\* Mutant: SELECT without FOR UPDATE.
SelectPlain(c) ==
  /\ pc[c] = "select"
  /\ row # Absent
  /\ lock' = IF lock = None THEN c ELSE lock
  /\ current' = [current EXCEPT ![c] = row]
  /\ Goto(c, "compare")
  /\ UNCHANGED <<row, op, reply, server>>

Select(c) ==
  /\ pc[c] = "select"
  /\ Unlocked(c)
  /\ row # Absent
  /\ lock' = c
  /\ current' = [current EXCEPT ![c] = row]
  /\ Goto(c, "compare")
  /\ UNCHANGED <<row, op, reply, server>>

\* sql.ErrNoRows
SelectNothing(c) ==
  /\ pc[c] = "select"
  /\ Unlocked(c)
  /\ row = Absent
  /\ Finish(c, Refused)
  /\ UNCHANGED <<row, lock, op, current, server>>

\* UPDATE or DELETE, which others see when it is committed.
Change(c) ==
  /\ pc[c] = "compare"
  /\ Accepts(op[c], current[c])
  /\ Goto(c, "commit")
  /\ UNCHANGED <<row, lock, op, reply, current, server>>

\* The deferred Rollback ends the transaction.
Refuse(c) ==
  /\ pc[c] = "compare"
  /\ ~Accepts(op[c], current[c])
  /\ Release(c)
  /\ Finish(c, Refused)
  /\ UNCHANGED <<row, op, current, server>>

Commit(c) ==
  /\ pc[c] = "commit"
  /\ row' = op[c].body
  /\ Release(c)
  /\ Goto(c, "answer")
  /\ UNCHANGED <<op, reply, current, server>>

---------------------------------------------------------------------------
\* The database reports success.
Acknowledge(c) ==
  /\ pc[c] = "answer"
  /\ Finish(c, Accepted(op[c]))
  /\ UNCHANGED <<row, lock, op, current, server>>

\* Mutant: a transaction that fails is begun anew.
FailRetried(c) ==
  /\ pc[c] \in {"begin", "select", "answer"}
  /\ IF pc[c] = "select" THEN Goto(c, "begin") /\ UNCHANGED reply ELSE Finish(c, Failed)
  /\ UNCHANGED <<row, lock, op, current, server>>

\* A call fails: the pool is closed, a wait for the lock times out, the client has
\* left, the connection breaks before its statement is executed or before it reports.
Fail(c) ==
  /\ pc[c] \in {"begin", "select", "answer"}
  /\ Finish(c, Failed)
  /\ UNCHANGED <<row, lock, op, current, server>>

\* As before, with a transaction that the database has not yet seen to be broken, or
\* an INSERT or COMMIT that may have been executed or may be.
Lose(c) ==
  /\ pc[c] \in {"compare", "commit"} \/ (pc[c] = "begin" /\ op[c] \in Creates /\ Connected(c))
  /\ reply' = [reply EXCEPT ![c] = Failed]
  /\ Goto(c, IF pc[c] = "compare" THEN "broken" ELSE "unknown")
  /\ UNCHANGED <<row, lock, op, current, server>>

\* The database executes what it has received ...
Settle(c) ==
  /\ pc[c] = "unknown"
  /\ lock \in {None, c}
  /\ op[c] \in Creates => row = Absent
  /\ row' = op[c].body
  /\ Release(c)
  /\ Goto(c, "replied")
  /\ UNCHANGED <<op, reply, current, server>>

\* ... or rolls back the transaction of a connection that is gone.
RollBack(c) ==
  /\ pc[c] \in {"broken", "unknown"}
  /\ Release(c)
  /\ Goto(c, "replied")
  /\ UNCHANGED <<row, op, reply, current, server>>

\* The slot of the request is free for another one.
Return(c) ==
  /\ pc[c] = "replied"
  /\ op' = [op EXCEPT ![c] = None]
  /\ reply' = [reply EXCEPT ![c] = None]
  /\ current' = [current EXCEPT ![c] = None]
  /\ Goto(c, "idle")
  /\ UNCHANGED <<row, lock, server>>

---------------------------------------------------------------------------
\* Run: Shutdown closes the listeners, starts what RegisterOnShutdown has registered
\* (Close of the store) and waits for the requests in flight, but at most 30 seconds.
\* A server that does not wait for them breaks their connections, as above.

Shutdown(s) ==
  /\ server[s] = "running"
  /\ server' = [server EXCEPT ![s] = "closing"]
  /\ UNCHANGED <<row, lock, clientVars>>

CloseStore(s) ==
  /\ server[s] = "closing"
  /\ server' = [server EXCEPT ![s] = "closed"]
  /\ UNCHANGED <<row, lock, clientVars>>

Stop(s) ==
  /\ server[s] = "closed"
  /\ \A c \in Clients : ServerOf[c] = s => pc[c] = "idle"
  /\ server' = [server EXCEPT ![s] = "stopped"]
  /\ UNCHANGED <<row, lock, clientVars>>

\* Build and Run of a new process.
Start(s) ==
  /\ server[s] = "stopped"
  /\ server' = [server EXCEPT ![s] = "running"]
  /\ UNCHANGED <<row, lock, clientVars>>

Step(c) ==
  \/ Read(c) \/ Insert(c) \/ Duplicate(c)
  \/ BeginTx(c) \/ Select(c) \/ SelectNothing(c) \/ Change(c) \/ Refuse(c) \/ Commit(c)
  \/ Acknowledge(c) \/ Fail(c) \/ Lose(c) \/ Settle(c) \/ RollBack(c) \/ Return(c)

Lifecycle(s) == Shutdown(s) \/ CloseStore(s) \/ Stop(s) \/ Start(s)

Next ==
  \/ \E c \in Clients : Request(c) \/ Step(c)
  \/ \E s \in Servers : Lifecycle(s)

Spec == Init /\ [][Next]_vars

\* Every statement ends, a wait for a lock by innodb_lock_wait_timeout if need be, and
\* the database notices a broken connection.  Nothing forces a shutdown to begin.
FairSpec ==
  /\ Spec
  /\ \A c \in Clients : WF_vars(Step(c))
  /\ \A s \in Servers : WF_vars(CloseStore(s)) /\ WF_vars(Stop(s))

---------------------------------------------------------------------------
Steps == {"idle", "begin", "select", "compare", "commit", "answer",
          "broken", "unknown", "replied"}
Answers == {Found(d) : d \in Bodies \cup {Absent}}
             \cup {Accepted(o) : o \in Writes} \cup {Refused, Failed}

\* What the transaction of a client holds: the lock, and the row it has read.
Transacting(c) ==
  pc[c] \in {"compare", "commit", "broken"} \/ (pc[c] = "unknown" /\ op[c] \notin Creates)

\* Every variable has its type; the row is locked by the one transaction that has read
\* it, whose row nobody else changes, and stopped servers have no requests.
TypeOK ==
  /\ row \in Bodies \cup {Absent}
  /\ lock \in Clients \cup {None}
  /\ pc \in [Clients -> Steps]
  /\ op \in [Clients -> Operations \cup {None}]
  /\ reply \in [Clients -> Answers \cup {None}]
  /\ current \in [Clients -> Bodies \cup {Absent, None}]
  /\ server \in [Servers -> {"running", "closing", "closed", "stopped"}]
  /\ \A c \in Clients : lock = c <=> Transacting(c)
  /\ \A c \in Clients : Transacting(c) => current[c] = row
  /\ \A c \in Clients : server[ServerOf[c]] = "stopped" => pc[c] = "idle"

\* Every request is answered, although others hold the lock or have lost their
\* connection with it, and every shutdown ends.
RequestsReturn ==
  /\ \A c \in Clients : pc[c] = "begin" ~> pc[c] = "idle"
  /\ \A s \in Servers : server[s] = "closing" ~> server[s] = "stopped"

\* The store is a conditional register, whose writes may take effect after the answer
\* only if that answer was a failure.
Stage(c) ==
  CASE pc[c] \in {"begin", "select", "compare", "commit"} -> "called"
    [] pc[c] = "answer" -> "applied"
    [] pc[c] = "unknown" -> "lost"
    [] pc[c] \in {"replied", "broken"} -> "replied"
    [] OTHER -> "idle"

Register ==
  INSTANCE ConditionalRegister
    WITH doc <- row, promised <- {row}, stage <- [c \in Clients |-> Stage(c)]

Refines == Register!Spec
=============================================================================
