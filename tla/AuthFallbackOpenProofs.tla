---------------------- MODULE AuthFallbackOpenProofs ----------------------
(***************************************************************************)
(* Proofs about AuthFallbackOpen, for any finite set of requests and any   *)
(* keys and call objects.  The reference count is exact (RefsExact) and    *)
(* the other parts of the inductive invariant tie the temporary file, the  *)
(* in-flight map and the published result of a call to the requests that   *)
(* still refer to it.                                                      *)
(***************************************************************************)
EXTENDS AuthFallbackOpen, FiniteSetTheorems, TLAPS

Fetching == {"fetch", "copy", "finish"}

\* The requests that hold a reference to call c.
Holders(c) == {r \in Requests : call[r] = c /\ pc[r] \in Holding}

\* call.refs counts exactly the requests that have not released the call.
RefsExact == \A c \in Calls : refs[c] = Cardinality(Holders(c))

\* A request has a call and a key exactly while it is in the protocol, and the
\* call was fetched under that key.
Bound ==
  \A r \in Requests :
    /\ pc[r] = "idle" <=> call[r] = NoCall
    /\ pc[r] # "idle" => key[r] \in Keys /\ origin[call[r]] = key[r]

\* The in-flight map points at the calls that are being fetched, by one leader.
Leaders ==
  /\ \A r \in Requests : pc[r] \in Fetching => inflight[key[r]] = call[r]
  /\ \A k \in Keys : inflight[k] # NoCall =>
       \E r \in Requests : pc[r] \in Fetching /\ call[r] = inflight[k] /\ key[r] = k
  /\ \A q, r \in Requests :
       pc[q] \in Fetching /\ pc[r] \in Fetching /\ call[q] = call[r] => q = r

\* A call in use is either still being fetched or has its result.
Published ==
  /\ \A r \in Requests : pc[r] \in Fetching => ~doneClosed[call[r]]
  /\ \A r \in Requests : pc[r] \in {"closing", "open", "serving", "remove"} => doneClosed[call[r]]
  /\ \A r \in Requests : pc[r] # "idle" /\ ~doneClosed[call[r]] =>
       \E q \in Requests : pc[q] \in Fetching /\ call[q] = call[r]
  /\ \A c \in Calls : done[c] => doneClosed[c]
  /\ \A c \in Calls : path[c] <=> doneClosed[c] /\ err[c] = "none"

\* An object nobody refers to carries no result.
Collected ==
  \A c \in Calls : doneClosed[c] => \E r \in Requests : call[r] = c

\* Where the temporary file of a call stands.
FileStates ==
  /\ \A r \in Requests : pc[r] = "copy" => call[r] \in files
  /\ \A r \in Requests : pc[r] = "finish" /\ fetched[r] = "none" => call[r] \in files
  /\ \A r \in Requests : pc[r] \in Holding /\ path[call[r]] => call[r] \in files
  /\ \A c \in files :
       path[c] \/ \E r \in Requests :
                    /\ call[r] = c
                    /\ pc[r] \in {"copy", "finish"}
                    /\ fetched[r] = "none"

\* The locals of a request: the fetch result is none before the fetch ends, and
\* the removal in finishAuthFallbackOpen is never due.
Locals ==
  \A r \in Requests :
    /\ ~removing[r]
    /\ pc[r] # "finish" => fetched[r] = "none"

\* Nobody holds a call whose file is about to be removed.
LastOut == \A r \in Requests : pc[r] = "remove" => Holders(call[r]) = {}

IInv ==
  /\ TypeOK /\ RefsExact /\ Bound /\ Leaders /\ Published
  /\ Collected /\ FileStates /\ Locals /\ LastOut
  /\ OnlyOwnCancellation /\ (\A c \in Calls : err[c] # "cancelled")
  /\ (\A r \in Requests : fetched[r] # "cancelled")

---------------------------------------------------------------------------
\* Counting facts.

\* The holders of a call form a finite set.
LEMMA HoldersFinite ==
  ASSUME NEW c
  PROVE  /\ IsFiniteSet(Holders(c))
         /\ Cardinality(Holders(c)) \in Nat
         /\ Cardinality(Holders(c)) = 0 <=> Holders(c) = {}
<1>1. Holders(c) \subseteq Requests
  BY DEF Holders
<1>2. IsFiniteSet(Holders(c))
  BY <1>1, RequestsFinite, FS_Subset
<1>. QED
  BY <1>2, FS_CardinalityType, FS_EmptySet

\* Every action keeps the types of the variables.
LEMMA TypeOfActions ==
  ASSUME TypeOK, NEW r \in Requests,
         \/ \E k \in KeysOf[r] : Lead(r, k) \/ Join(r, k)
         \/ OpenUpstream(r) \/ FetchFails(r) \/ Spooled(r)
         \/ Finish(r) \/ CloseDone(r)
         \/ Wake(r) \/ WaiterGivesUp(r) \/ Disconnect(r)
         \/ OpenResult(r) \/ ResultFails(r)
         \/ Release(r) \/ Remove(r),
         Bound
  PROVE  TypeOK'
<1>. USE DEF TypeOK, Goto, Steps, Holding, Errors
<1>1. ASSUME NEW k \in KeysOf[r], Lead(r, k) PROVE TypeOK'
  <2>1. k \in Keys
    BY KeysOfType
  <2>2. Allocated \in Calls
    BY <1>1 DEF Lead, Allocated
  <2>. QED
    BY <1>1, <2>1, <2>2 DEF Lead
<1>2. ASSUME NEW k \in KeysOf[r], Join(r, k) PROVE TypeOK'
  <2>1. k \in Keys /\ inflight[k] \in Calls
    BY <1>2, KeysOfType DEF Join
  <2>. QED
    BY <1>2, <2>1 DEF Join
<1>3. CASE OpenUpstream(r)
  BY <1>3 DEF OpenUpstream, callVars, Bound
<1>4. CASE FetchFails(r)
  BY <1>4 DEF FetchFails, callVars
<1>5. CASE Spooled(r)
  BY <1>5 DEF Spooled, callVars
<1>6. CASE Finish(r)
  BY <1>6 DEF Finish
<1>7. CASE CloseDone(r)
  BY <1>7 DEF CloseDone
<1>8. CASE Wake(r)
  BY <1>8 DEF Wake, callVars
<1>9. CASE WaiterGivesUp(r)
  BY <1>9 DEF WaiterGivesUp, callVars
<1>10. CASE Disconnect(r)
  BY <1>10 DEF Disconnect, callVars
<1>11. CASE OpenResult(r)
  BY <1>11 DEF OpenResult, callVars
<1>12. CASE ResultFails(r)
  BY <1>12 DEF ResultFails, callVars
<1>13. CASE Release(r)
  <2>. DEFINE left == IF refs[call[r]] > 0 THEN refs[call[r]] - 1 ELSE refs[call[r]]
  <2>1. call[r] \in Calls
    BY <1>13 DEF Release, Bound
  <2>2. refs[call[r]] \in Nat
    BY <2>1
  <2>3. left \in Nat
    BY <2>2
  <2>. HIDE DEF left
  <2>4. refs' = [refs EXCEPT ![call[r]] = left]
    BY <1>13 DEF Release, left
  <2>5. refs' \in [Calls -> Nat]
    BY <2>3, <2>4
  <2>. QED
    BY <1>13, <2>5 DEF Release, Return
<1>14. CASE Remove(r)
  BY <1>14 DEF Remove, Return
<1>. QED
  BY <1>1, <1>2, <1>3, <1>4, <1>5, <1>6, <1>7, <1>8, <1>9, <1>10, <1>11, <1>12, <1>13, <1>14

---------------------------------------------------------------------------
\* Preservation of the inductive invariant, one lemma per action.

\* The empty registry satisfies the invariant.
LEMMA InitIInv == Init => IInv
<1>. SUFFICES ASSUME Init PROVE IInv
  OBVIOUS
<1>1. \A c : Holders(c) = {}
  BY DEF Init, Holders, Holding
<1>. QED
  BY <1>1, FS_EmptySet, NilsAreNew
  DEF Init, IInv, TypeOK, Steps, Holding, Errors, RefsExact, Bound, Leaders, Fetching,
      Published, Collected, FileStates, Locals, LastOut, OnlyOwnCancellation

\* beginAuthFallbackOpen, registering a call: its new reference is its only holder.
LEMMA LeadKeeps ==
  ASSUME IInv, NEW r \in Requests, NEW k \in KeysOf[r], Lead(r, k)
  PROVE  IInv'
<1>. USE DEF IInv, Goto
<1>1. TypeOK'
  BY TypeOfActions
<1>. PICK c \in Calls : c = Allocated /\ Fresh(c)
  BY DEF Lead, Allocated
<1>2. k \in Keys /\ c # NoCall
  BY KeysOfType, NilsAreNew
<1>3. /\ pc[r] = "idle" /\ inflight[k] = NoCall
      /\ pc' = [pc EXCEPT ![r] = "fetch"] /\ call' = [call EXCEPT ![r] = c]
      /\ key' = [key EXCEPT ![r] = k] /\ inflight' = [inflight EXCEPT ![k] = c]
      /\ refs' = [refs EXCEPT ![c] = 1] /\ origin' = [origin EXCEPT ![c] = k]
      /\ UNCHANGED <<fetched, removing, gone, cancelled, doneClosed, done, path, err, files>>
  BY DEF Lead
<1>4. \A q \in Requests : call[q] # c
  BY DEF Fresh
<1>5. Holders(c)' = {r}
  BY <1>2, <1>3, <1>4 DEF Holders, Holding, TypeOK
<1>6. \A d \in Calls \ {c} : Holders(d)' = Holders(d)
  BY <1>2, <1>3 DEF Holders, Holding, TypeOK
<1>7. RefsExact'
  BY <1>2, <1>3, <1>5, <1>6, FS_Singleton DEF RefsExact, TypeOK
<1>8. Bound'
  BY <1>2, <1>3, <1>4 DEF Bound, TypeOK
<1>9. Leaders'
  BY <1>2, <1>3, <1>4 DEF Leaders, Bound, Fetching, TypeOK, Fresh
<1>10. Published'
  BY <1>2, <1>3, <1>4 DEF Published, Collected, Fetching, TypeOK
<1>11. Collected'
  <2>. SUFFICES ASSUME NEW d \in Calls, doneClosed[d]
                PROVE  \E p \in Requests : call'[p] = d
    BY <1>3 DEF Collected
  <2>1. PICK p \in Requests : call[p] = d
    BY DEF Collected
  <2>2. p # r
    BY <1>3, NilsAreNew, <2>1 DEF Bound
  <2>. QED
    BY <1>3, <2>1, <2>2 DEF TypeOK
<1>12. FileStates'
  BY <1>2, <1>3, <1>4 DEF FileStates, Published, Collected, Locals, Holding, TypeOK, Fresh
<1>13. Locals'
  BY <1>3 DEF Locals, TypeOK
<1>14. LastOut'
  BY <1>2, <1>3, <1>4, <1>6 DEF LastOut, Bound, TypeOK
<1>15. OnlyOwnCancellation' /\ (\A d \in Calls : err'[d] # "cancelled")
        /\ (\A q \in Requests : fetched'[q] # "cancelled")
  BY <1>3 DEF OnlyOwnCancellation
<1>. QED
  BY <1>1, <1>7, <1>8, <1>9, <1>10, <1>11, <1>12, <1>13, <1>14, <1>15

\* beginAuthFallbackOpen, joining a call: one more reference, one more holder.
LEMMA JoinKeeps ==
  ASSUME IInv, NEW r \in Requests, NEW k \in KeysOf[r], Join(r, k)
  PROVE  IInv'
<1>. USE DEF IInv, Goto
<1>1. TypeOK'
  BY TypeOfActions
<1>. PICK c \in Calls : c = inflight[k]
  BY KeysOfType DEF Join, TypeOK
<1>2. k \in Keys /\ c # NoCall
  BY KeysOfType, NilsAreNew
<1>3. PICK q \in Requests : pc[q] \in Fetching /\ call[q] = c /\ key[q] = k
  BY <1>2 DEF Leaders
<1>4. /\ pc[r] = "idle" /\ call[r] = NoCall
      /\ pc' = [pc EXCEPT ![r] = "wait"] /\ call' = [call EXCEPT ![r] = c]
      /\ key' = [key EXCEPT ![r] = k] /\ refs' = [refs EXCEPT ![c] = @ + 1]
      /\ UNCHANGED <<fetched, removing, gone, cancelled, inflight,
                     doneClosed, done, path, err, origin, files>>
  BY DEF Join, Bound
<1>5. q # r /\ q \in Holders(c) /\ ~doneClosed[c] /\ origin[c] = k
  BY <1>3, <1>4 DEF Holders, Holding, Fetching, Published, Bound
<1>6. Holders(c)' = Holders(c) \cup {r} /\ r \notin Holders(c)
  BY <1>2, <1>4 DEF Holders, Holding, TypeOK
<1>7. \A d \in Calls \ {c} : Holders(d)' = Holders(d)
  BY <1>2, <1>4 DEF Holders, Holding, TypeOK
<1>8. RefsExact'
  <2>1. Cardinality(Holders(c) \cup {r}) = Cardinality(Holders(c)) + 1
    BY <1>6, HoldersFinite, FS_AddElement
  <2>. QED
    BY <1>2, <1>4, <1>6, <1>7, <2>1 DEF RefsExact, TypeOK
<1>9. Bound'
  BY <1>2, <1>4, <1>5 DEF Bound, TypeOK
<1>10. Leaders'
  BY <1>4 DEF Leaders, Fetching, TypeOK
<1>11. Published'
  BY <1>2, <1>3, <1>4, <1>5 DEF Published, Fetching, TypeOK
<1>12. Collected'
  <2>. SUFFICES ASSUME NEW d \in Calls, doneClosed[d]
                PROVE  \E p \in Requests : call'[p] = d
    BY <1>4 DEF Collected
  <2>1. PICK p \in Requests : call[p] = d
    BY DEF Collected
  <2>2. p # r
    BY <1>4, NilsAreNew, <2>1 DEF Bound
  <2>. QED
    BY <1>4, <2>1, <2>2 DEF TypeOK
<1>13. FileStates'
  BY <1>2, <1>4, <1>5 DEF FileStates, Published, Holding, TypeOK
<1>14. Locals'
  BY <1>4 DEF Locals, TypeOK
<1>15. LastOut'
  BY <1>2, <1>4, <1>5, <1>7 DEF LastOut, Bound, TypeOK
<1>16. OnlyOwnCancellation' /\ (\A d \in Calls : err'[d] # "cancelled")
        /\ (\A p \in Requests : fetched'[p] # "cancelled")
  BY <1>4 DEF OnlyOwnCancellation
<1>. QED
  BY <1>1, <1>8, <1>9, <1>10, <1>11, <1>12, <1>13, <1>14, <1>15, <1>16

\* The upstream answers: the temporary file that appears belongs to the leader.
LEMMA OpenUpstreamKeeps ==
  ASSUME IInv, NEW r \in Requests, OpenUpstream(r)
  PROVE  IInv'
<1>. USE DEF IInv
<1>1. TypeOK'
  BY TypeOfActions
<1>2. /\ pc[r] = "fetch" /\ pc' = [pc EXCEPT ![r] = "copy"]
      /\ files' = files \cup {call[r]}
      /\ UNCHANGED <<key, call, fetched, removing, gone, cancelled, inflight,
                     refs, doneClosed, done, path, err, origin>>
  BY DEF OpenUpstream, Goto, callVars
<1>3. r \in Holders(call[r]) /\ call[r] \in Calls /\ key[r] \in Keys
  BY <1>2 DEF Holders, Holding, Bound, TypeOK
<1>4. \A c : Holders(c)' = Holders(c)
  BY <1>2 DEF Holders, Holding, TypeOK
<1>5. RefsExact'
  BY <1>2, <1>4 DEF RefsExact
<1>6. Bound'
  BY <1>2 DEF Bound, TypeOK
<1>7. Leaders'
  BY <1>2, <1>3 DEF Leaders, Bound, Fetching, TypeOK
<1>8. Published'
  BY <1>2, <1>3 DEF Published, Leaders, Fetching, TypeOK
<1>9. Collected'
  BY <1>2, <1>3 DEF Collected, TypeOK
<1>10. FileStates'
  BY <1>2, <1>3 DEF FileStates, Published, Leaders, Fetching, Locals, Holding, TypeOK
<1>11. Locals'
  BY <1>2 DEF Locals, TypeOK
<1>12. LastOut'
  BY <1>2, <1>3, <1>4 DEF LastOut, TypeOK
<1>13. OnlyOwnCancellation' /\ (\A d \in Calls : err'[d] # "cancelled")
        /\ (\A p \in Requests : fetched'[p] # "cancelled")
  BY <1>2, <1>3 DEF OnlyOwnCancellation, TypeOK
<1>. QED
  BY <1>1, <1>5, <1>6, <1>7, <1>8, <1>9, <1>10, <1>11, <1>12, <1>13

\* A failed fetch removes its temporary file before anyone else knows of it.
LEMMA FetchFailsKeeps ==
  ASSUME IInv, NEW r \in Requests, FetchFails(r)
  PROVE  IInv'
<1>. USE DEF IInv
<1>1. TypeOK'
  BY TypeOfActions
<1>2. /\ pc[r] \in {"fetch", "copy"} /\ pc' = [pc EXCEPT ![r] = "finish"]
      /\ fetched' = [fetched EXCEPT ![r] = "upstream"]
      /\ files' = files \ {call[r]}
      /\ UNCHANGED <<key, call, removing, gone, cancelled, inflight,
                     refs, doneClosed, done, path, err, origin>>
  BY DEF FetchFails, Goto, callVars
<1>3. r \in Holders(call[r]) /\ call[r] \in Calls /\ key[r] \in Keys
  BY <1>2 DEF Holders, Holding, Bound, TypeOK
<1>4. \A c : Holders(c)' = Holders(c)
  BY <1>2 DEF Holders, Holding, TypeOK
<1>5. RefsExact'
  BY <1>2, <1>4 DEF RefsExact
<1>6. Bound'
  BY <1>2 DEF Bound, TypeOK
<1>7. Leaders'
  BY <1>2, <1>3 DEF Leaders, Bound, Fetching, TypeOK
<1>8. Published'
  BY <1>2, <1>3 DEF Published, Leaders, Fetching, TypeOK
<1>9. Collected'
  BY <1>2, <1>3 DEF Collected, TypeOK
<1>10. FileStates'
  BY <1>2, <1>3 DEF FileStates, Published, Leaders, Fetching, Locals, Holding, TypeOK
<1>11. Locals'
  BY <1>2 DEF Locals, TypeOK
<1>12. LastOut'
  BY <1>2, <1>3, <1>4 DEF LastOut, TypeOK
<1>13. OnlyOwnCancellation' /\ (\A d \in Calls : err'[d] # "cancelled")
        /\ (\A p \in Requests : fetched'[p] # "cancelled")
  BY <1>2, <1>3 DEF OnlyOwnCancellation, TypeOK
<1>. QED
  BY <1>1, <1>5, <1>6, <1>7, <1>8, <1>9, <1>10, <1>11, <1>12, <1>13

\* The whole source is in the temporary file, which the leader still owns.
LEMMA SpooledKeeps ==
  ASSUME IInv, NEW r \in Requests, Spooled(r)
  PROVE  IInv'
<1>. USE DEF IInv
<1>1. TypeOK'
  BY TypeOfActions
<1>2. /\ pc[r] = "copy" /\ pc' = [pc EXCEPT ![r] = "finish"]
      /\ UNCHANGED <<key, call, fetched, removing, gone, cancelled, inflight,
                     refs, doneClosed, done, path, err, origin, files>>
  BY DEF Spooled, Goto, callVars
<1>3. r \in Holders(call[r]) /\ call[r] \in Calls /\ key[r] \in Keys
  BY <1>2 DEF Holders, Holding, Bound, TypeOK
<1>4. \A c : Holders(c)' = Holders(c)
  BY <1>2 DEF Holders, Holding, TypeOK
<1>5. RefsExact'
  BY <1>2, <1>4 DEF RefsExact
<1>6. Bound'
  BY <1>2 DEF Bound, TypeOK
<1>7. Leaders'
  BY <1>2, <1>3 DEF Leaders, Bound, Fetching, TypeOK
<1>8. Published'
  BY <1>2, <1>3 DEF Published, Leaders, Fetching, TypeOK
<1>9. Collected'
  BY <1>2, <1>3 DEF Collected, TypeOK
<1>10. FileStates'
  BY <1>2, <1>3 DEF FileStates, Published, Leaders, Fetching, Locals, Holding, TypeOK
<1>11. Locals'
  BY <1>2 DEF Locals, TypeOK
<1>12. LastOut'
  BY <1>2, <1>3, <1>4 DEF LastOut, TypeOK
<1>13. OnlyOwnCancellation' /\ (\A d \in Calls : err'[d] # "cancelled")
        /\ (\A p \in Requests : fetched'[p] # "cancelled")
  BY <1>2, <1>3 DEF OnlyOwnCancellation, TypeOK
<1>. QED
  BY <1>1, <1>5, <1>6, <1>7, <1>8, <1>9, <1>10, <1>11, <1>12, <1>13

\* finishAuthFallbackOpen: the result is published and the key is free again.
LEMMA FinishKeeps ==
  ASSUME IInv, NEW r \in Requests, Finish(r)
  PROVE  IInv'
<1>. USE DEF IInv
<1>1. TypeOK'
  BY TypeOfActions
<1>2. /\ pc[r] = "finish" /\ pc' = [pc EXCEPT ![r] = "closing"]
      /\ err' = [err EXCEPT ![call[r]] = fetched[r]]
      /\ path' = [path EXCEPT ![call[r]] = (fetched[r] = "none")]
      /\ doneClosed' = [doneClosed EXCEPT ![call[r]] = TRUE]
      /\ inflight' = [inflight EXCEPT ![key[r]] = NoCall]
      /\ removing' = [removing EXCEPT ![r] = refs[call[r]] = 0 /\ fetched[r] = "none"]
      /\ fetched' = [fetched EXCEPT ![r] = "none"]
      /\ UNCHANGED <<key, call, gone, cancelled, refs, done, origin, files>>
  BY DEF Finish, Goto
<1>3. r \in Holders(call[r]) /\ call[r] \in Calls /\ key[r] \in Keys
  BY <1>2 DEF Holders, Holding, Bound, TypeOK
<1>4. \A c : Holders(c)' = Holders(c)
  BY <1>2 DEF Holders, Holding, TypeOK
<1>5. RefsExact'
  BY <1>2, <1>4 DEF RefsExact
<1>6. Bound'
  BY <1>2 DEF Bound, TypeOK
<1>7. Leaders'
  BY <1>2, <1>3 DEF Leaders, Bound, Fetching, TypeOK
<1>8. Published'
  <2>1. \A q \in Requests : pc'[q] \in Fetching => q # r /\ pc[q] \in Fetching /\ call[q] # call[r]
    BY <1>2 DEF Leaders, Fetching, TypeOK
  <2>2. \A c \in Calls \ {call[r]} : UNCHANGED <<doneClosed[c], done[c], path[c], err[c]>>
    BY <1>2 DEF TypeOK
  <2>3. doneClosed'[call[r]] /\ (path'[call[r]] <=> err'[call[r]] = "none")
    BY <1>2, <1>3 DEF TypeOK
  <2>4. \A q \in Requests : pc'[q] \in Fetching => ~doneClosed'[call'[q]]
    BY <1>2, <2>1 DEF Published, TypeOK
  <2>5. \A q \in Requests : pc'[q] \in {"closing", "open", "serving", "remove"} => doneClosed'[call'[q]]
    BY <1>2, <1>3 DEF Published, TypeOK, Bound
  <2>6. \A q \in Requests : pc'[q] # "idle" /\ ~doneClosed'[call'[q]] =>
          \E p \in Requests : pc'[p] \in Fetching /\ call'[p] = call'[q]
    <3>. SUFFICES ASSUME NEW q \in Requests, pc'[q] # "idle", ~doneClosed'[call'[q]]
                  PROVE  \E p \in Requests : pc'[p] \in Fetching /\ call'[p] = call'[q]
      OBVIOUS
    <3>1. pc[q] # "idle" /\ ~doneClosed[call[q]] /\ call[q] # call[r]
      BY <1>2, <1>3 DEF TypeOK, Bound
    <3>2. PICK p \in Requests : pc[p] \in Fetching /\ call[p] = call[q]
      BY <3>1 DEF Published
    <3>. QED
      BY <1>2, <3>1, <3>2 DEF TypeOK
  <2>. QED
    BY <1>2, <1>3, <2>2, <2>3, <2>4, <2>5, <2>6 DEF Published, TypeOK
<1>9. Collected'
  BY <1>2, <1>3 DEF Collected, TypeOK
<1>10. FileStates'
  <2>1. \A q \in Requests : pc[q] \in {"copy", "finish"} /\ q # r => call[q] # call[r]
    BY <1>2 DEF Leaders, Fetching
  <2>2. fetched[r] # "none" => call[r] \notin files
    BY <1>2, <1>3, <2>1 DEF FileStates, Published, Fetching
  <2>3. \A q \in Requests : pc'[q] \in Holding /\ path'[call'[q]] => call'[q] \in files'
    BY <1>2, <1>3 DEF FileStates, TypeOK, Holding, Bound
  <2>4. \A q \in Requests : pc'[q] \in {"copy", "finish"} => q # r
    BY <1>2 DEF TypeOK
  <2>5. \A c \in files : c # call[r] =>
          path'[c] \/ \E q \in Requests : /\ call'[q] = c
                                          /\ pc'[q] \in {"copy", "finish"}
                                          /\ fetched'[q] = "none"
    BY <1>2 DEF FileStates, TypeOK
  <2>6. call[r] \in files => path'[call[r]]
    BY <1>2, <1>3, <2>2 DEF TypeOK
  <2>. QED
    BY <1>2, <2>3, <2>4, <2>5, <2>6 DEF FileStates, TypeOK
<1>11. Locals'
  <2>1. refs[call[r]] # 0
    BY <1>3, HoldersFinite DEF RefsExact
  <2>. QED
    BY <1>2, <2>1 DEF Locals, TypeOK
<1>12. LastOut'
  BY <1>2, <1>3, <1>4 DEF LastOut, TypeOK
<1>13. OnlyOwnCancellation' /\ (\A d \in Calls : err'[d] # "cancelled")
        /\ (\A p \in Requests : fetched'[p] # "cancelled")
  BY <1>2, <1>3 DEF OnlyOwnCancellation, TypeOK
<1>. QED
  BY <1>1, <1>5, <1>6, <1>7, <1>8, <1>9, <1>10, <1>11, <1>12, <1>13

\* close(call.done) by the leader, which holds its reference until it returns.
LEMMA CloseDoneKeeps ==
  ASSUME IInv, NEW r \in Requests, CloseDone(r)
  PROVE  IInv'
<1>. USE DEF IInv
<1>1. TypeOK'
  BY TypeOfActions
<1>2. /\ pc[r] = "closing" /\ pc' = [pc EXCEPT ![r] = "open"]
      /\ done' = [done EXCEPT ![call[r]] = TRUE]
      /\ ~removing[r] /\ files' = files
      /\ removing' = [removing EXCEPT ![r] = FALSE]
      /\ UNCHANGED <<key, call, fetched, gone, cancelled, inflight,
                     refs, doneClosed, path, err, origin>>
  BY DEF CloseDone, Goto, Locals
<1>3. r \in Holders(call[r]) /\ call[r] \in Calls /\ key[r] \in Keys
  BY <1>2 DEF Holders, Holding, Bound, TypeOK
<1>4. \A c : Holders(c)' = Holders(c)
  BY <1>2 DEF Holders, Holding, TypeOK
<1>5. RefsExact'
  BY <1>2, <1>4 DEF RefsExact
<1>6. Bound'
  BY <1>2 DEF Bound, TypeOK
<1>7. Leaders'
  BY <1>2, <1>3 DEF Leaders, Bound, Fetching, TypeOK
<1>8. Published'
  BY <1>2, <1>3 DEF Published, Leaders, Fetching, TypeOK
<1>9. Collected'
  BY <1>2, <1>3 DEF Collected, TypeOK
<1>10. FileStates'
  BY <1>2, <1>3 DEF FileStates, Published, Leaders, Fetching, Locals, Holding, TypeOK
<1>11. Locals'
  BY <1>2 DEF Locals, TypeOK
<1>12. LastOut'
  BY <1>2, <1>3, <1>4 DEF LastOut, TypeOK
<1>13. OnlyOwnCancellation' /\ (\A d \in Calls : err'[d] # "cancelled")
        /\ (\A p \in Requests : fetched'[p] # "cancelled")
  BY <1>2, <1>3 DEF OnlyOwnCancellation, TypeOK
<1>. QED
  BY <1>1, <1>5, <1>6, <1>7, <1>8, <1>9, <1>10, <1>11, <1>12, <1>13

\* A waiter that sees call.done closed goes on with its reference.
LEMMA WakeKeeps ==
  ASSUME IInv, NEW r \in Requests, Wake(r)
  PROVE  IInv'
<1>. USE DEF IInv
<1>1. TypeOK'
  BY TypeOfActions
<1>2. /\ pc[r] = "wait" /\ done[call[r]] /\ pc' = [pc EXCEPT ![r] = "open"]
      /\ UNCHANGED <<key, call, fetched, removing, gone, cancelled, inflight,
                     refs, doneClosed, done, path, err, origin, files>>
  BY DEF Wake, Goto, callVars
<1>3. r \in Holders(call[r]) /\ call[r] \in Calls /\ key[r] \in Keys
  BY <1>2 DEF Holders, Holding, Bound, TypeOK
<1>4. \A c : Holders(c)' = Holders(c)
  BY <1>2 DEF Holders, Holding, TypeOK
<1>5. RefsExact'
  BY <1>2, <1>4 DEF RefsExact
<1>6. Bound'
  BY <1>2 DEF Bound, TypeOK
<1>7. Leaders'
  BY <1>2, <1>3 DEF Leaders, Bound, Fetching, TypeOK
<1>8. Published'
  BY <1>2, <1>3 DEF Published, Leaders, Fetching, TypeOK
<1>9. Collected'
  BY <1>2, <1>3 DEF Collected, TypeOK
<1>10. FileStates'
  BY <1>2, <1>3 DEF FileStates, Published, Leaders, Fetching, Locals, Holding, TypeOK
<1>11. Locals'
  BY <1>2 DEF Locals, TypeOK
<1>12. LastOut'
  BY <1>2, <1>3, <1>4 DEF LastOut, TypeOK
<1>13. OnlyOwnCancellation' /\ (\A d \in Calls : err'[d] # "cancelled")
        /\ (\A p \in Requests : fetched'[p] # "cancelled")
  BY <1>2, <1>3 DEF OnlyOwnCancellation, TypeOK
<1>. QED
  BY <1>1, <1>5, <1>6, <1>7, <1>8, <1>9, <1>10, <1>11, <1>12, <1>13

\* A waiter whose own context ends gives its reference back.
LEMMA WaiterGivesUpKeeps ==
  ASSUME IInv, NEW r \in Requests, WaiterGivesUp(r)
  PROVE  IInv'
<1>. USE DEF IInv
<1>1. TypeOK'
  BY TypeOfActions
<1>2. /\ pc[r] = "wait" /\ gone[r] /\ pc' = [pc EXCEPT ![r] = "release"]
      /\ cancelled' = [cancelled EXCEPT ![r] = TRUE]
      /\ UNCHANGED <<key, call, fetched, removing, gone, inflight,
                     refs, doneClosed, done, path, err, origin, files>>
  BY DEF WaiterGivesUp, Goto, callVars
<1>3. r \in Holders(call[r]) /\ call[r] \in Calls /\ key[r] \in Keys
  BY <1>2 DEF Holders, Holding, Bound, TypeOK
<1>4. \A c : Holders(c)' = Holders(c)
  BY <1>2 DEF Holders, Holding, TypeOK
<1>5. RefsExact'
  BY <1>2, <1>4 DEF RefsExact
<1>6. Bound'
  BY <1>2 DEF Bound, TypeOK
<1>7. Leaders'
  BY <1>2, <1>3 DEF Leaders, Bound, Fetching, TypeOK
<1>8. Published'
  BY <1>2, <1>3 DEF Published, Leaders, Fetching, TypeOK
<1>9. Collected'
  BY <1>2, <1>3 DEF Collected, TypeOK
<1>10. FileStates'
  BY <1>2, <1>3 DEF FileStates, Published, Leaders, Fetching, Locals, Holding, TypeOK
<1>11. Locals'
  BY <1>2 DEF Locals, TypeOK
<1>12. LastOut'
  BY <1>2, <1>3, <1>4 DEF LastOut, TypeOK
<1>13. OnlyOwnCancellation' /\ (\A d \in Calls : err'[d] # "cancelled")
        /\ (\A p \in Requests : fetched'[p] # "cancelled")
  BY <1>2, <1>3 DEF OnlyOwnCancellation, TypeOK
<1>. QED
  BY <1>1, <1>5, <1>6, <1>7, <1>8, <1>9, <1>10, <1>11, <1>12, <1>13

\* openAuthFallbackResult opens a file that its reference keeps.
LEMMA OpenResultKeeps ==
  ASSUME IInv, NEW r \in Requests, OpenResult(r)
  PROVE  IInv'
<1>. USE DEF IInv
<1>1. TypeOK'
  BY TypeOfActions
<1>2. /\ pc[r] = "open" /\ pc' = [pc EXCEPT ![r] = "serving"]
      /\ UNCHANGED <<key, call, fetched, removing, gone, cancelled, inflight,
                     refs, doneClosed, done, path, err, origin, files>>
  BY DEF OpenResult, Goto, callVars
<1>3. r \in Holders(call[r]) /\ call[r] \in Calls /\ key[r] \in Keys
  BY <1>2 DEF Holders, Holding, Bound, TypeOK
<1>4. \A c : Holders(c)' = Holders(c)
  BY <1>2 DEF Holders, Holding, TypeOK
<1>5. RefsExact'
  BY <1>2, <1>4 DEF RefsExact
<1>6. Bound'
  BY <1>2 DEF Bound, TypeOK
<1>7. Leaders'
  BY <1>2, <1>3 DEF Leaders, Bound, Fetching, TypeOK
<1>8. Published'
  BY <1>2, <1>3 DEF Published, Leaders, Fetching, TypeOK
<1>9. Collected'
  BY <1>2, <1>3 DEF Collected, TypeOK
<1>10. FileStates'
  BY <1>2, <1>3 DEF FileStates, Published, Leaders, Fetching, Locals, Holding, TypeOK
<1>11. Locals'
  BY <1>2 DEF Locals, TypeOK
<1>12. LastOut'
  BY <1>2, <1>3, <1>4 DEF LastOut, TypeOK
<1>13. OnlyOwnCancellation' /\ (\A d \in Calls : err'[d] # "cancelled")
        /\ (\A p \in Requests : fetched'[p] # "cancelled")
  BY <1>2, <1>3 DEF OnlyOwnCancellation, TypeOK
<1>. QED
  BY <1>1, <1>5, <1>6, <1>7, <1>8, <1>9, <1>10, <1>11, <1>12, <1>13

\* A request that reads an error from the call changes nothing shared.
LEMMA ResultFailsKeeps ==
  ASSUME IInv, NEW r \in Requests, ResultFails(r)
  PROVE  IInv'
<1>. USE DEF IInv
<1>1. TypeOK'
  BY TypeOfActions
<1>2. /\ pc[r] = "open" /\ pc' = [pc EXCEPT ![r] = "release"]
      /\ cancelled' = [cancelled EXCEPT ![r] = (err[call[r]] = "cancelled")]
      /\ UNCHANGED <<key, call, fetched, removing, gone, inflight,
                     refs, doneClosed, done, path, err, origin, files>>
  BY DEF ResultFails, Goto, callVars
<1>3. r \in Holders(call[r]) /\ call[r] \in Calls /\ key[r] \in Keys
  BY <1>2 DEF Holders, Holding, Bound, TypeOK
<1>4. \A c : Holders(c)' = Holders(c)
  BY <1>2 DEF Holders, Holding, TypeOK
<1>5. RefsExact'
  BY <1>2, <1>4 DEF RefsExact
<1>6. Bound'
  BY <1>2 DEF Bound, TypeOK
<1>7. Leaders'
  BY <1>2, <1>3 DEF Leaders, Bound, Fetching, TypeOK
<1>8. Published'
  BY <1>2, <1>3 DEF Published, Leaders, Fetching, TypeOK
<1>9. Collected'
  BY <1>2, <1>3 DEF Collected, TypeOK
<1>10. FileStates'
  BY <1>2, <1>3 DEF FileStates, Published, Leaders, Fetching, Locals, Holding, TypeOK
<1>11. Locals'
  BY <1>2 DEF Locals, TypeOK
<1>12. LastOut'
  BY <1>2, <1>3, <1>4 DEF LastOut, TypeOK
<1>13. OnlyOwnCancellation' /\ (\A d \in Calls : err'[d] # "cancelled")
        /\ (\A p \in Requests : fetched'[p] # "cancelled")
  BY <1>2, <1>3 DEF OnlyOwnCancellation, TypeOK
<1>. QED
  BY <1>1, <1>5, <1>6, <1>7, <1>8, <1>9, <1>10, <1>11, <1>12, <1>13

\* The end of the context of a request changes nothing shared.
LEMMA DisconnectKeeps ==
  ASSUME IInv, NEW r \in Requests, Disconnect(r)
  PROVE  IInv'
<1>. USE DEF IInv
<1>1. TypeOK'
  BY TypeOfActions
<1>2. /\ gone' = [gone EXCEPT ![r] = TRUE]
      /\ UNCHANGED <<pc, key, call, fetched, removing, cancelled, inflight,
                     refs, doneClosed, done, path, err, origin, files>>
  BY DEF Disconnect, callVars
<1>3. \A c : Holders(c)' = Holders(c)
  BY <1>2 DEF Holders
<1>. QED
  BY <1>1, <1>2, <1>3
  DEF RefsExact, Bound, Leaders, Published, Collected, FileStates, Locals, LastOut,
      OnlyOwnCancellation, TypeOK

\* A request that leaves the protocol disturbs nobody else's call, whether or not
\* the object is collected with it.
LEMMA ReturnKeeps ==
  ASSUME IInv, NEW r \in Requests, pc[r] \in {"serving", "release", "remove"},
         Return(r), UNCHANGED <<fetched, removing, inflight>>
  PROVE  /\ Bound' /\ Leaders' /\ Published' /\ Collected' /\ Locals'
         /\ OnlyOwnCancellation' /\ (\A d \in Calls : err'[d] # "cancelled")
         /\ \A q \in Requests \ {r} : pc'[q] = pc[q] /\ call'[q] = call[q]
         /\ pc'[r] = "idle" /\ call'[r] = NoCall
         /\ \A d \in Calls \ {call[r]} : path'[d] = path[d]
         /\ \A q \in Requests \ {r} : pc[q] # "idle" => path'[call[q]] = path[call[q]]
<1>. USE DEF IInv
<1>. DEFINE c == call[r]
            Alone == \A q \in Requests \ {r} : call[q] # c
<1>1. c \in Calls /\ c # NoCall
  BY NilsAreNew DEF Bound, TypeOK
<1>2. /\ pc' = [pc EXCEPT ![r] = "idle"] /\ key' = [key EXCEPT ![r] = NoKey]
      /\ call' = [call EXCEPT ![r] = NoCall]
      /\ gone' = [gone EXCEPT ![r] = FALSE] /\ cancelled' = [cancelled EXCEPT ![r] = FALSE]
  BY DEF Return, Goto
<1>3. \A d \in Calls : d # c \/ ~Alone =>
         UNCHANGED <<doneClosed[d], done[d], path[d], err[d], origin[d]>>
  BY DEF Return, TypeOK
<1>4. Alone => ~doneClosed'[c] /\ ~done'[c] /\ ~path'[c] /\ err'[c] = "none"
  BY <1>1 DEF Return, TypeOK
<1>5. \A q \in Requests \ {r} : /\ pc'[q] = pc[q] /\ key'[q] = key[q] /\ call'[q] = call[q]
                                /\ gone'[q] = gone[q] /\ cancelled'[q] = cancelled[q]
  BY <1>2 DEF TypeOK
<1>6. /\ pc'[r] = "idle" /\ call'[r] = NoCall
      /\ cancelled'[r] = FALSE
  BY <1>2 DEF TypeOK
<1>7. \A q \in Requests \ {r} : pc[q] # "idle" =>
         call[q] \in Calls /\ (call[q] # c \/ ~Alone)
  BY DEF Bound, TypeOK
<1>8. \A q \in Requests \ {r} : pc[q] # "idle" =>
         UNCHANGED <<doneClosed[call[q]], done[call[q]], path[call[q]],
                     err[call[q]], origin[call[q]]>>
  BY <1>3, <1>5, <1>7
<1>. HIDE DEF Alone
<1>9. Bound'
  BY <1>5, <1>6, <1>8 DEF Bound
<1>10. \A q \in Requests : pc[q] \in Fetching => q # r /\ pc[q] # "idle"
  BY DEF Fetching
<1>11. \A q \in Requests : pc'[q] \in Fetching => q # r
  BY <1>6 DEF Fetching
<1>12. Leaders'
  BY <1>5, <1>10, <1>11 DEF Leaders
<1>13. Published'
  <2>1. \A q \in Requests : pc'[q] \in Fetching => ~doneClosed'[call'[q]]
    BY <1>5, <1>8, <1>10, <1>11 DEF Published
  <2>2. \A q \in Requests : pc'[q] \in {"closing", "open", "serving", "remove"} =>
           doneClosed'[call'[q]]
    BY <1>5, <1>6, <1>8 DEF Published
  <2>3. \A q \in Requests : pc'[q] # "idle" /\ ~doneClosed'[call'[q]] =>
           \E p \in Requests : pc'[p] \in Fetching /\ call'[p] = call'[q]
    <3>. SUFFICES ASSUME NEW q \in Requests, pc'[q] # "idle", ~doneClosed'[call'[q]]
                  PROVE  \E p \in Requests : pc'[p] \in Fetching /\ call'[p] = call'[q]
      OBVIOUS
    <3>1. q # r /\ pc[q] # "idle" /\ ~doneClosed[call[q]] /\ call'[q] = call[q]
      BY <1>5, <1>6, <1>8
    <3>2. PICK p \in Requests : pc[p] \in Fetching /\ call[p] = call[q]
      BY <3>1 DEF Published
    <3>. QED
      BY <1>5, <1>10, <3>1, <3>2
  <2>4. \A d \in Calls : /\ done'[d] => doneClosed'[d]
                         /\ path'[d] <=> doneClosed'[d] /\ err'[d] = "none"
    BY <1>3, <1>4 DEF Published
  <2>. QED
    BY <2>1, <2>2, <2>3, <2>4 DEF Published
<1>14. Collected'
  <2>. SUFFICES ASSUME NEW d \in Calls, doneClosed'[d]
                PROVE  \E p \in Requests : call'[p] = d
    BY DEF Collected
  <2>1. d # c \/ ~Alone
    BY <1>4
  <2>2. doneClosed[d]
    BY <1>3, <2>1
  <2>3. PICK p \in Requests : call[p] = d
    BY <2>2 DEF Collected
  <2>4. \E q \in Requests \ {r} : call[q] = d
    BY <2>1, <2>3 DEF Alone
  <2>. QED
    BY <1>5, <2>4
<1>15. Locals'
  BY <1>2, <1>5, <1>6 DEF Locals
<1>16. OnlyOwnCancellation'
  BY <1>5, <1>6 DEF OnlyOwnCancellation
<1>17. \A d \in Calls : err'[d] # "cancelled"
  BY <1>3, <1>4
<1>. QED
  BY <1>3, <1>5, <1>6, <1>8, <1>9, <1>12, <1>13, <1>14, <1>15, <1>16, <1>17

\* releaseAuthFallbackOpen: one reference and one holder less; the last one is due
\* to remove the file.
LEMMA ReleaseKeeps ==
  ASSUME IInv, NEW r \in Requests, Release(r)
  PROVE  IInv'
<1>. USE DEF IInv
<1>1. TypeOK'
  BY TypeOfActions
<1>. PICK c \in Calls : c = call[r]
  BY DEF Release, Bound, TypeOK
<1>2. pc[r] \in {"serving", "release"} /\ c # NoCall
  BY NilsAreNew DEF Release
<1>3. r \in Holders(c) /\ refs[c] = Cardinality(Holders(c)) /\ refs[c] \in Nat \ {0}
  BY <1>2, HoldersFinite DEF RefsExact, Holders, Holding
<1>4. /\ refs' = [refs EXCEPT ![c] = refs[c] - 1]
      /\ UNCHANGED <<fetched, removing, inflight, files>>
      /\ \/ /\ doneClosed[c] /\ refs[c] - 1 = 0 /\ path[c]
            /\ pc' = [pc EXCEPT ![r] = "remove"]
            /\ UNCHANGED <<key, call, gone, cancelled, doneClosed, done, path, err, origin>>
         \/ /\ ~(doneClosed[c] /\ refs[c] - 1 = 0 /\ path[c])
            /\ Return(r)
  <2>1. refs[c] > 0
    BY <1>3
  <2>. QED
    BY <2>1 DEF Release, Goto
<1>5. Cardinality(Holders(c) \ {r}) = refs[c] - 1
  BY <1>3, HoldersFinite, FS_RemoveElement
<1>6. Holders(c)' = Holders(c) \ {r} /\ \A d \in Calls \ {c} : Holders(d)' = Holders(d)
  BY <1>2, <1>4 DEF Holders, Holding, TypeOK, Return, Goto
<1>7. RefsExact'
  BY <1>2, <1>4, <1>5, <1>6 DEF RefsExact, TypeOK
<1>8. \A q \in Requests, d \in Calls : pc[q] = "remove" /\ call[q] = d => Holders(d)' = {}
  BY <1>6 DEF LastOut
<1>9. CASE doneClosed[c] /\ refs[c] - 1 = 0 /\ path[c]
  <2>1. /\ pc' = [pc EXCEPT ![r] = "remove"]
        /\ UNCHANGED <<key, call, gone, cancelled, doneClosed, done, path, err, origin>>
    BY <1>4, <1>9
  <2>2. Holders(c)' = {}
    BY <1>3, <1>5, <1>6, <1>9, HoldersFinite, FS_EmptySet, FS_RemoveElement
  <2>3. Bound'
    BY <1>2, <2>1 DEF Bound, TypeOK
  <2>4. Leaders'
    BY <1>2, <1>4, <2>1 DEF Leaders, Fetching, TypeOK
  <2>5. Published' /\ Collected'
    BY <1>2, <1>9, <2>1 DEF Published, Collected, Fetching, TypeOK
  <2>6. FileStates'
    BY <1>2, <1>4, <2>1 DEF FileStates, Holding, TypeOK
  <2>7. Locals' /\ OnlyOwnCancellation'
    BY <1>2, <1>4, <2>1 DEF Locals, OnlyOwnCancellation, TypeOK
  <2>8. LastOut'
    <3>1. \A q \in Requests : pc[q] = "remove" => call[q] \in Calls
      BY DEF Bound, TypeOK
    <3>. QED
      BY <1>8, <2>1, <2>2, <3>1 DEF LastOut, TypeOK
  <2>. QED
    BY <1>1, <1>4, <1>7, <2>1, <2>3, <2>4, <2>5, <2>6, <2>7, <2>8
<1>10. CASE ~(doneClosed[c] /\ refs[c] - 1 = 0 /\ path[c])
  <2>1. Return(r)
    BY <1>4, <1>10
  <2>2. /\ Bound' /\ Leaders' /\ Published' /\ Collected' /\ Locals'
        /\ OnlyOwnCancellation' /\ (\A d \in Calls : err'[d] # "cancelled")
        /\ \A q \in Requests \ {r} : pc'[q] = pc[q] /\ call'[q] = call[q]
        /\ pc'[r] = "idle" /\ call'[r] = NoCall
        /\ \A d \in Calls \ {c} : path'[d] = path[d]
        /\ \A q \in Requests \ {r} : pc[q] # "idle" => path'[call[q]] = path[call[q]]
    BY <1>2, <1>4, <2>1, ReturnKeeps
  <2>3. c \in files => path'[c] \/ \E q \in Requests : /\ call'[q] = c
                                                       /\ pc'[q] \in {"copy", "finish"}
                                                       /\ fetched'[q] = "none"
    <3>. SUFFICES ASSUME c \in files, path[c]
                  PROVE  path'[c]
      BY <1>2, <1>4, <2>2 DEF FileStates
    <3>1. refs[c] - 1 # 0
      BY <1>10, <1>2 DEF Published
    <3>2. PICK q \in Holders(c) : q # r
      BY <1>3, <1>5, <3>1, FS_EmptySet
    <3>. QED
      BY <2>2, <3>2 DEF Holders, Holding
  <2>4. FileStates'
    <3>1. \A q \in Requests : pc'[q] # "idle" =>
             /\ q # r /\ pc'[q] = pc[q] /\ pc[q] # "idle" /\ call'[q] = call[q]
             /\ path'[call[q]] = path[call[q]]
      BY <2>2
    <3>2. \A d \in files : d # c => d \in Calls \ {c} /\ path'[d] = path[d]
      BY <2>2 DEF TypeOK
    <3>3. \A q \in Requests : pc[q] \in {"copy", "finish"} => pc'[q] = pc[q] /\ call'[q] = call[q]
      BY <1>2, <2>2
    <3>. QED
      BY <1>4, <2>3, <3>1, <3>2, <3>3 DEF FileStates, Holding
  <2>5. LastOut'
    <3>1. \A q \in Requests : pc'[q] = "remove" =>
             pc[q] = "remove" /\ call'[q] = call[q] /\ call[q] \in Calls
      BY <2>2 DEF Bound, TypeOK
    <3>. QED
      BY <1>8, <3>1 DEF LastOut
  <2>. QED
    BY <1>1, <1>4, <1>7, <2>2, <2>4, <2>5
<1>. QED
  BY <1>9, <1>10

\* os.Remove by the last holder: nobody is left to miss the file.
LEMMA RemoveKeeps ==
  ASSUME IInv, NEW r \in Requests, Remove(r)
  PROVE  IInv'
<1>. USE DEF IInv
<1>1. TypeOK'
  BY TypeOfActions
<1>. PICK c \in Calls : c = call[r]
  BY DEF Remove, Bound, TypeOK
<1>2. /\ pc[r] = "remove" /\ files' = files \ {c} /\ Return(r)
      /\ UNCHANGED <<fetched, removing, inflight, refs>>
  BY DEF Remove
<1>3. /\ Bound' /\ Leaders' /\ Published' /\ Collected' /\ Locals'
      /\ OnlyOwnCancellation' /\ (\A d \in Calls : err'[d] # "cancelled")
      /\ \A q \in Requests \ {r} : pc'[q] = pc[q] /\ call'[q] = call[q]
      /\ pc'[r] = "idle" /\ call'[r] = NoCall
      /\ \A d \in Calls \ {c} : path'[d] = path[d]
      /\ \A q \in Requests \ {r} : pc[q] # "idle" => path'[call[q]] = path[call[q]]
  BY <1>2, ReturnKeeps
<1>4. \A d : Holders(d)' = Holders(d)
  BY <1>2, <1>3 DEF Holders, Holding
<1>5. RefsExact'
  BY <1>2, <1>4 DEF RefsExact
<1>6. \A q \in Requests : pc[q] \in Holding => call[q] # c
  BY <1>2 DEF LastOut, Holders
<1>7. FileStates'
  <2>1. \A q \in Requests : pc'[q] \in Holding =>
           q # r /\ pc[q] \in Holding /\ call'[q] = call[q] /\ call[q] # c
           /\ path'[call[q]] = path[call[q]]
    BY <1>3, <1>6 DEF Holding
  <2>2. \A q \in Requests : pc[q] \in {"copy", "finish"} => pc'[q] = pc[q] /\ call'[q] = call[q]
    BY <1>2, <1>3
  <2>3. \A d \in files' : d \in files /\ path'[d] = path[d]
    BY <1>2, <1>3 DEF TypeOK
  <2>4. \A q \in Requests : pc'[q] \in Holding =>
           (call'[q] \in files' <=> call[q] \in files)
    BY <1>2, <2>1
  <2>5. \A q \in Requests : /\ pc'[q] = "copy" => call'[q] \in files'
                            /\ pc'[q] = "finish" /\ fetched'[q] = "none" => call'[q] \in files'
                            /\ pc'[q] \in Holding /\ path'[call'[q]] => call'[q] \in files'
    BY <1>2, <1>3, <2>1, <2>4 DEF FileStates, Holding
  <2>6. \A d \in files' : path'[d] \/ \E q \in Requests : /\ call'[q] = d
                                                          /\ pc'[q] \in {"copy", "finish"}
                                                          /\ fetched'[q] = "none"
    BY <1>2, <2>2, <2>3 DEF FileStates
  <2>. QED
    BY <2>5, <2>6 DEF FileStates
<1>8. LastOut'
  BY <1>3, <1>4 DEF LastOut
<1>. QED
  BY <1>1, <1>2, <1>3, <1>5, <1>7, <1>8

\* Every step of the specification, a stutter included, preserves the invariant.
LEMMA NextKeeps == IInv /\ [Next]_vars => IInv'
<1>. SUFFICES ASSUME IInv, [Next]_vars PROVE IInv'
  OBVIOUS
<1>1. CASE UNCHANGED vars
  BY <1>1 DEF IInv, vars, procVars, callVars, TypeOK, RefsExact, Holders, Bound, Leaders,
     Published, Collected, FileStates, Locals, LastOut, OnlyOwnCancellation
<1>2. CASE Next
  BY <1>2, LeadKeeps, JoinKeeps, OpenUpstreamKeeps, FetchFailsKeeps, SpooledKeeps,
     FinishKeeps, CloseDoneKeeps, WakeKeeps, WaiterGivesUpKeeps, DisconnectKeeps,
     OpenResultKeeps, ResultFailsKeeps, ReleaseKeeps, RemoveKeeps
  DEF Next
<1>. QED
  BY <1>1, <1>2

---------------------------------------------------------------------------
\* The inductive invariant holds in every reachable state: local_url.go keeps
\* call.refs exact, and through it everything below.
THEOREM Invariance == Spec => []IInv
  BY InitIInv, NextKeeps, PTL DEF Spec

\* The variables of local_url.go's fetch protocol keep their types: call.refs never
\* goes negative, whatever the number of requests and keys.
THEOREM TypeCorrect == Spec => []TypeOK
  BY Invariance, PTL DEF IInv

\* No goroutine of coalescedAuthFallbackOpen opens or serves a spooled file that
\* releaseAuthFallbackOpen has already removed.
THEOREM FilesOutliveReaders == Spec => []HeldFileExists
<1>1. IInv => HeldFileExists
  BY DEF IInv, HeldFileExists, FileStates, Published, Bound, TypeOK, Holding
<1>. QED
  BY <1>1, Invariance, PTL

\* releaseAuthFallbackOpen leaves no temporary file behind: one that exists is
\* still referred to by a request on its way to the removal.
THEOREM FilesAreOwned == Spec => []NoOrphanFile
<1>1. IInv => NoOrphanFile
  BY DEF IInv, NoOrphanFile, FileStates, Published, Collected, TypeOK
<1>. QED
  BY <1>1, Invariance, PTL

\* coalescedAuthFallbackOpen hands a request only bytes fetched under its own key.
THEOREM CredentialsIsolated == Spec => []ServedUnderOwnKey
<1>1. IInv => ServedUnderOwnKey
  BY DEF IInv, ServedUnderOwnKey, Bound
<1>. QED
  BY <1>1, Invariance, PTL

\* beginAuthFallbackOpen lets at most one leader fetch a key upstream.
THEOREM OneFetchPerKey == Spec => []SingleFlight
<1>1. IInv => SingleFlight
  BY DEF IInv, SingleFlight, Leaders, Fetching
<1>. QED
  BY <1>1, Invariance, PTL

\* The leader's context never cancels the requests that joined its fetch
\* (context.WithoutCancel in fetchAuthFallbackSource).
THEOREM CancellationIsOwn == Spec => []OnlyOwnCancellation
<1>1. IInv => OnlyOwnCancellation
  BY DEF IInv
<1>. QED
  BY <1>1, Invariance, PTL

\* The removal in finishAuthFallbackOpen is dead code: the leader's own reference
\* keeps call.refs above zero until it has published the result.
THEOREM FinishNeverRemoves == Spec => [](\A r \in Requests : ~removing[r])
<1>1. IInv => \A r \in Requests : ~removing[r]
  BY DEF IInv, Locals
<1>. QED
  BY <1>1, Invariance, PTL
===========================================================================
