------------------------ MODULE ConditionalRegister ------------------------
(***************************************************************************)
(* What a Presentation store promises about one resource: reads and        *)
(* conditional writes take effect at one instant each, a write only on a   *)
(* document that meets its condition, and a write that was acknowledged    *)
(* survives a crash.  A write that fails may have taken effect or not, or  *)
(* may yet take effect once.                                               *)
(***************************************************************************)
EXTENDS PresentationRequests

VARIABLES
  doc,        \* the document, or Absent
  promised,   \* the documents that a crash may leave
  op,         \* the request of each client
  stage,      \* "idle", "called", "applied", "replied" or "lost"
  reply       \* the answer of each client

vars == <<doc, promised, op, stage, reply>>

Init ==
  /\ doc \in Bodies \cup {Absent}
  /\ promised = {doc}
  /\ op = [c \in Clients |-> None]
  /\ stage = [c \in Clients |-> "idle"]
  /\ reply = [c \in Clients |-> None]

Move(c, from, to) == stage[c] = from /\ stage' = [stage EXCEPT ![c] = to]
Reply(c, r) == reply' = [reply EXCEPT ![c] = r]

Call(c) ==
  /\ Move(c, "idle", "called")
  /\ \E o \in Operations : op' = [op EXCEPT ![c] = o]
  /\ UNCHANGED <<doc, promised, reply>>

Read(c) ==
  /\ Move(c, "called", "replied")
  /\ op[c] \in Gets
  /\ Reply(c, Found(doc))
  /\ UNCHANGED <<doc, promised, op>>

\* The write takes effect; until it is acknowledged a crash may undo it, unless
\* the store makes it durable at once.
Apply(c) ==
  /\ Move(c, "called", "applied")
  /\ op[c] \in Writes
  /\ Accepts(op[c], doc)
  /\ doc' = op[c].body
  /\ promised' \in {promised \cup {doc'}, {doc'}}
  /\ UNCHANGED <<op, reply>>

Acknowledge(c) ==
  /\ Move(c, "applied", "replied")
  /\ promised' = {doc}
  /\ Reply(c, Accepted(op[c]))
  /\ UNCHANGED <<doc, op>>

Refuse(c) ==
  /\ Move(c, "called", "replied")
  /\ op[c] \in Writes
  /\ ~Accepts(op[c], doc)
  /\ Reply(c, Refused)
  /\ UNCHANGED <<doc, promised, op>>

Fail(c) ==
  /\ Move(c, "called", "replied") \/ Move(c, "applied", "replied")
  /\ Reply(c, Failed)
  /\ UNCHANGED <<doc, promised, op>>

\* The answer is a failure, and what becomes of the write is still open.
Lose(c) ==
  /\ Move(c, "called", "lost")
  /\ op[c] \in Writes
  /\ Reply(c, Failed)
  /\ UNCHANGED <<doc, promised, op>>

Settle(c) ==
  /\ Move(c, "lost", "replied")
  /\ \/ /\ Accepts(op[c], doc)
        /\ doc' = op[c].body
        /\ promised' = {doc'}
     \/ UNCHANGED <<doc, promised>>
  /\ UNCHANGED <<op, reply>>

Return(c) ==
  /\ Move(c, "replied", "idle")
  /\ op' = [op EXCEPT ![c] = None]
  /\ Reply(c, None)
  /\ UNCHANGED <<doc, promised>>

\* The clients in Lost lose their server.
Crash(lost) ==
  /\ doc' \in promised
  /\ promised' = {doc'}
  /\ op' = [c \in Clients |-> IF c \in lost THEN None ELSE op[c]]
  /\ stage' = [c \in Clients |-> IF c \in lost THEN "idle" ELSE stage[c]]
  /\ reply' = [c \in Clients |-> IF c \in lost THEN None ELSE reply[c]]

Next ==
  \/ \E c \in Clients :
       \/ Call(c) \/ Read(c) \/ Apply(c) \/ Acknowledge(c) \/ Refuse(c)
       \/ Fail(c) \/ Lose(c) \/ Settle(c) \/ Return(c)
  \/ \E lost \in SUBSET Clients : Crash(lost)

Spec == Init /\ [][Next]_vars
=============================================================================
