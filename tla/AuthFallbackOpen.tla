------------------------- MODULE AuthFallbackOpen -------------------------
(***************************************************************************)
(* The coalesced authenticated source fetch of LocalURLFallback            *)
(* (internal/storage/local_url.go).  Concurrent requests for the same      *)
(* source under the same credentials share one upstream fetch: the leader  *)
(* spools the bytes into a temporary file, every request of the call opens *)
(* that file by name, and whoever releases the last reference removes it.  *)
(*                                                                         *)
(* A goroutine's step ends where it takes or leaves authMu, blocks, or     *)
(* calls the operating system, so a decision made under authMu and the     *)
(* os.Remove it leads to are separate steps.                               *)
(***************************************************************************)
EXTENDS Naturals, FiniteSets

CONSTANTS
  Requests,   \* the request goroutines
  Keys,       \* authFallbackKey values: operation, mapping, source, credentials
  KeysOf,     \* the keys each request may arrive with
  Calls,      \* the authFallbackOpenCall objects the heap may hold at once
  NoCall,     \* the nil *authFallbackOpenCall
  NoKey       \* the key of a request that is not in the protocol

ASSUME RequestsFinite == IsFiniteSet(Requests)
ASSUME KeysOfType == KeysOf \in [Requests -> SUBSET Keys]
ASSUME NilsAreNew == NoCall \notin Calls /\ NoKey \notin Keys

VARIABLES
  \* the request goroutines
  pc, key, call, fetched, removing, gone, cancelled,
  \* LocalURLFallback.authFallbackOpenInflight
  inflight,
  \* the fields of authFallbackOpenCall, and the key its leader fetched with
  refs, doneClosed, done, path, err, origin,
  \* calls whose temporary file exists on disk (a name is never reused)
  files

procVars == <<pc, key, call, fetched, removing, gone, cancelled>>
callVars == <<refs, doneClosed, done, path, err, origin>>
vars == <<procVars, inflight, callVars, files>>

Errors == {"none", "upstream", "cancelled"}

\* A request counts in call.refs from begin until release, in these states.
Holding == {"fetch", "copy", "finish", "closing", "wait", "open", "serving", "release"}
Steps == Holding \cup {"idle", "remove"}

Goto(r, step) == pc' = [pc EXCEPT ![r] = step]

Init ==
  /\ pc = [r \in Requests |-> "idle"]
  /\ key = [r \in Requests |-> NoKey]
  /\ call = [r \in Requests |-> NoCall]
  /\ fetched = [r \in Requests |-> "none"]
  /\ removing = [r \in Requests |-> FALSE]
  /\ gone = [r \in Requests |-> FALSE]
  /\ cancelled = [r \in Requests |-> FALSE]
  /\ inflight = [k \in Keys |-> NoCall]
  /\ refs = [c \in Calls |-> 0]
  /\ doneClosed = [c \in Calls |-> FALSE]
  /\ done = [c \in Calls |-> FALSE]
  /\ path = [c \in Calls |-> FALSE]
  /\ err = [c \in Calls |-> "none"]
  /\ origin = [c \in Calls |-> NoKey]
  /\ files = {}

---------------------------------------------------------------------------
\* beginAuthFallbackOpen: one critical section, leading or joining.

\* A call object no goroutine, map entry or temporary file refers to.
Fresh(c) ==
  /\ \A q \in Requests : call[q] # c
  /\ \A k \in Keys : inflight[k] # c
  /\ c \notin files

\* Which fresh object the heap hands out makes no difference: any one will do.
Allocated == CHOOSE c \in Calls : Fresh(c)

\* Mutant: the in-flight map is not consulted before leading.
LeadAlways(r, k) ==
  /\ pc[r] = "idle"
  /\ \E c \in Calls : Fresh(c)
  /\ call' = [call EXCEPT ![r] = Allocated]
  /\ inflight' = [inflight EXCEPT ![k] = Allocated]
  /\ refs' = [refs EXCEPT ![Allocated] = 1]
  /\ origin' = [origin EXCEPT ![Allocated] = k]
  /\ key' = [key EXCEPT ![r] = k]
  /\ Goto(r, "fetch")
  /\ UNCHANGED <<fetched, removing, gone, cancelled, doneClosed, done, path, err, files>>

Lead(r, k) ==
  /\ pc[r] = "idle"
  /\ inflight[k] = NoCall
  /\ \E c \in Calls : Fresh(c)
  /\ call' = [call EXCEPT ![r] = Allocated]
  /\ inflight' = [inflight EXCEPT ![k] = Allocated]
  /\ refs' = [refs EXCEPT ![Allocated] = 1]
  /\ origin' = [origin EXCEPT ![Allocated] = k]
  /\ key' = [key EXCEPT ![r] = k]
  /\ Goto(r, "fetch")
  /\ UNCHANGED <<fetched, removing, gone, cancelled, doneClosed, done, path, err, files>>

\* Mutant: a joiner does not count itself.
JoinUncounted(r, k) ==
  /\ pc[r] = "idle"
  /\ inflight[k] # NoCall
  /\ call' = [call EXCEPT ![r] = inflight[k]]
  /\ key' = [key EXCEPT ![r] = k]
  /\ Goto(r, "wait")
  /\ UNCHANGED <<fetched, removing, gone, cancelled, inflight, callVars, files>>

\* Mutant: the key leaves out the credentials, so any fetch in flight will do.
JoinAnyKey(r, k) ==
  \E j \in Keys :
    /\ pc[r] = "idle"
    /\ inflight[j] # NoCall
    /\ call' = [call EXCEPT ![r] = inflight[j]]
    /\ refs' = [refs EXCEPT ![inflight[j]] = @ + 1]
    /\ key' = [key EXCEPT ![r] = k]
    /\ Goto(r, "wait")
    /\ UNCHANGED <<fetched, removing, gone, cancelled, inflight,
                   doneClosed, done, path, err, origin, files>>

Join(r, k) ==
  /\ pc[r] = "idle"
  /\ inflight[k] # NoCall
  /\ call' = [call EXCEPT ![r] = inflight[k]]
  /\ refs' = [refs EXCEPT ![inflight[k]] = @ + 1]
  /\ key' = [key EXCEPT ![r] = k]
  /\ Goto(r, "wait")
  /\ UNCHANGED <<fetched, removing, gone, cancelled, inflight,
                 doneClosed, done, path, err, origin, files>>

---------------------------------------------------------------------------
\* fetchAuthFallbackSource, run by the leader under context.WithoutCancel.

\* AuthFallback.Open and os.CreateTemp succeed.
OpenUpstream(r) ==
  /\ pc[r] = "fetch"
  /\ files' = files \cup {call[r]}
  /\ Goto(r, "copy")
  /\ UNCHANGED <<key, call, fetched, removing, gone, cancelled, inflight, callVars>>

\* Mutant: the leader fetches under its own context.
FetchFailsOwnContext(r) ==
  /\ pc[r] \in {"fetch", "copy"}
  /\ fetched' = [fetched EXCEPT ![r] = IF gone[r] THEN "cancelled" ELSE "upstream"]
  /\ files' = files \ {call[r]}
  /\ Goto(r, "finish")
  /\ UNCHANGED <<key, call, removing, gone, cancelled, inflight, callVars>>

\* Mutant: a failed copy leaves the temporary file behind.
FetchFailsNoCleanup(r) ==
  /\ pc[r] \in {"fetch", "copy"}
  /\ fetched' = [fetched EXCEPT ![r] = "upstream"]
  /\ Goto(r, "finish")
  /\ UNCHANGED <<key, call, removing, gone, cancelled, inflight, callVars, files>>

\* The upstream request, CreateTemp, the copy or the close fails; what was
\* spooled so far is removed.
FetchFails(r) ==
  /\ pc[r] \in {"fetch", "copy"}
  /\ fetched' = [fetched EXCEPT ![r] = "upstream"]
  /\ files' = files \ {call[r]}
  /\ Goto(r, "finish")
  /\ UNCHANGED <<key, call, removing, gone, cancelled, inflight, callVars>>

Spooled(r) ==
  /\ pc[r] = "copy"
  /\ Goto(r, "finish")
  /\ UNCHANGED <<key, call, fetched, removing, gone, cancelled, inflight, callVars, files>>

---------------------------------------------------------------------------
\* finishAuthFallbackOpen: publish under authMu, then close(call.done).

Finish(r) ==
  LET c == call[r] IN
  /\ pc[r] = "finish"
  /\ err' = [err EXCEPT ![c] = fetched[r]]
  /\ path' = [path EXCEPT ![c] = (fetched[r] = "none")]
  /\ doneClosed' = [doneClosed EXCEPT ![c] = TRUE]
  /\ inflight' = [inflight EXCEPT ![key[r]] = NoCall]
  /\ removing' = [removing EXCEPT ![r] = refs[c] = 0 /\ fetched[r] = "none"]
  /\ fetched' = [fetched EXCEPT ![r] = "none"]
  /\ Goto(r, "closing")
  /\ UNCHANGED <<key, call, gone, cancelled, refs, done, origin, files>>

\* Mutant: the waiters of a failed fetch are not woken.
CloseDoneOnSuccess(r) ==
  /\ pc[r] = "closing"
  /\ done' = [done EXCEPT ![call[r]] = (err[call[r]] = "none")]
  /\ files' = IF removing[r] THEN files \ {call[r]} ELSE files
  /\ removing' = [removing EXCEPT ![r] = FALSE]
  /\ Goto(r, "open")
  /\ UNCHANGED <<key, call, fetched, gone, cancelled, inflight,
                 refs, doneClosed, path, err, origin>>

CloseDone(r) ==
  /\ pc[r] = "closing"
  /\ done' = [done EXCEPT ![call[r]] = TRUE]
  /\ files' = IF removing[r] THEN files \ {call[r]} ELSE files
  /\ removing' = [removing EXCEPT ![r] = FALSE]
  /\ Goto(r, "open")
  /\ UNCHANGED <<key, call, fetched, gone, cancelled, inflight,
                 refs, doneClosed, path, err, origin>>

---------------------------------------------------------------------------
\* The select of coalescedAuthFallbackOpen.

Wake(r) ==
  /\ pc[r] = "wait"
  /\ done[call[r]]
  /\ Goto(r, "open")
  /\ UNCHANGED <<key, call, fetched, removing, gone, cancelled, inflight, callVars, files>>

WaiterGivesUp(r) ==
  /\ pc[r] = "wait"
  /\ gone[r]
  /\ cancelled' = [cancelled EXCEPT ![r] = TRUE]
  /\ Goto(r, "release")
  /\ UNCHANGED <<key, call, fetched, removing, gone, inflight, callVars, files>>

\* The client of a request goes away: its context is cancelled.  Once the
\* request has its result nothing in the protocol looks at the context again.
Disconnect(r) ==
  /\ pc[r] \in {"fetch", "copy", "wait"}
  /\ gone' = [gone EXCEPT ![r] = TRUE]
  /\ UNCHANGED <<pc, key, call, fetched, removing, cancelled, inflight, callVars, files>>

---------------------------------------------------------------------------
\* openAuthFallbackResult.

OpenResult(r) ==
  /\ pc[r] = "open"
  /\ err[call[r]] = "none"
  /\ call[r] \in files
  /\ Goto(r, "serving")
  /\ UNCHANGED <<key, call, fetched, removing, gone, cancelled, inflight, callVars, files>>

\* The call failed, or os.Open did: the file is missing or no descriptor is left.
ResultFails(r) ==
  /\ pc[r] = "open"
  /\ cancelled' = [cancelled EXCEPT ![r] = (err[call[r]] = "cancelled")]
  /\ Goto(r, "release")
  /\ UNCHANGED <<key, call, fetched, removing, gone, inflight, callVars, files>>

---------------------------------------------------------------------------
\* releaseAuthFallbackOpen: the decision under authMu, the removal after it.  A
\* request that serves the file gets here by closing it, and only once (releaseOnce).

\* The request forgets its call; an object nobody refers to is collected.
Return(r) ==
  /\ Goto(r, "idle")
  /\ key' = [key EXCEPT ![r] = NoKey]
  /\ call' = [call EXCEPT ![r] = NoCall]
  /\ gone' = [gone EXCEPT ![r] = FALSE]
  /\ cancelled' = [cancelled EXCEPT ![r] = FALSE]
  /\ IF \A q \in Requests \ {r} : call[q] # call[r]
       THEN /\ doneClosed' = [doneClosed EXCEPT ![call[r]] = FALSE]
            /\ done' = [done EXCEPT ![call[r]] = FALSE]
            /\ path' = [path EXCEPT ![call[r]] = FALSE]
            /\ err' = [err EXCEPT ![call[r]] = "none"]
            /\ origin' = [origin EXCEPT ![call[r]] = NoKey]
       ELSE UNCHANGED <<doneClosed, done, path, err, origin>>

\* Mutant: one request releases its reference twice.
ReleaseTwice(r) ==
  LET c == call[r]
      left == refs[c] - 2
  IN
  /\ pc[r] \in {"serving", "release"}
  /\ refs' = [refs EXCEPT ![c] = left]
  /\ IF doneClosed[c] /\ left = 0 /\ path[c]
       THEN /\ Goto(r, "remove")
            /\ UNCHANGED <<key, call, gone, cancelled,
                           doneClosed, done, path, err, origin>>
       ELSE Return(r)
  /\ UNCHANGED <<fetched, removing, inflight, files>>

Release(r) ==
  LET c == call[r]
      left == IF refs[c] > 0 THEN refs[c] - 1 ELSE refs[c]
  IN
  /\ pc[r] \in {"serving", "release"}
  /\ refs' = [refs EXCEPT ![c] = left]
  /\ IF doneClosed[c] /\ left = 0 /\ path[c]
       THEN /\ Goto(r, "remove")
            /\ UNCHANGED <<key, call, gone, cancelled,
                           doneClosed, done, path, err, origin>>
       ELSE Return(r)
  /\ UNCHANGED <<fetched, removing, inflight, files>>

Remove(r) ==
  /\ pc[r] = "remove"
  /\ files' = files \ {call[r]}
  /\ Return(r)
  /\ UNCHANGED <<fetched, removing, inflight, refs>>

---------------------------------------------------------------------------
Next ==
  \E r \in Requests :
    \/ \E k \in KeysOf[r] : Lead(r, k) \/ Join(r, k)
    \/ OpenUpstream(r) \/ FetchFails(r) \/ Spooled(r)
    \/ Finish(r) \/ CloseDone(r)
    \/ Wake(r) \/ WaiterGivesUp(r) \/ Disconnect(r)
    \/ OpenResult(r) \/ ResultFails(r)
    \/ Release(r) \/ Remove(r)

\* The steps a request takes by itself once begun.  The upstream client has a
\* request timeout and handlers return, so each one is eventually taken.
Progress(r) ==
  \/ OpenUpstream(r) \/ FetchFails(r) \/ Spooled(r)
  \/ Finish(r) \/ CloseDone(r) \/ Wake(r)
  \/ OpenResult(r) \/ ResultFails(r)
  \/ Release(r) \/ Remove(r)

Spec == Init /\ [][Next]_vars

FairSpec == Spec /\ \A r \in Requests : WF_vars(Progress(r))

---------------------------------------------------------------------------
TypeOK ==
  /\ pc \in [Requests -> Steps]
  /\ key \in [Requests -> Keys \cup {NoKey}]
  /\ call \in [Requests -> Calls \cup {NoCall}]
  /\ fetched \in [Requests -> Errors]
  /\ removing \in [Requests -> BOOLEAN]
  /\ gone \in [Requests -> BOOLEAN]
  /\ cancelled \in [Requests -> BOOLEAN]
  /\ inflight \in [Keys -> Calls \cup {NoCall}]
  /\ refs \in [Calls -> Nat]
  /\ doneClosed \in [Calls -> BOOLEAN]
  /\ done \in [Calls -> BOOLEAN]
  /\ path \in [Calls -> BOOLEAN]
  /\ err \in [Calls -> Errors]
  /\ origin \in [Calls -> Keys \cup {NoKey}]
  /\ files \in SUBSET Calls

\* A request about to open a successful result, or still serving it, finds the
\* temporary file on disk.  libvips reopens the source by name while the
\* request serves it, so the file must outlive the first os.Open too.
HeldFileExists ==
  \A r \in Requests :
    (pc[r] \in {"open", "serving"} /\ err[call[r]] = "none") => call[r] \in files

\* No temporary file is orphaned: as long as one exists, a request that will
\* reach the removal still refers to it.
NoOrphanFile ==
  \A c \in files : \E r \in Requests : call[r] = c

\* Bytes are handed only to requests with the key they were fetched under, so
\* two sessions never share a credentialed fetch.
ServedUnderOwnKey ==
  \A r \in Requests : pc[r] = "serving" => origin[call[r]] = key[r]

\* At most one upstream fetch runs for a key at any time.
SingleFlight ==
  \A q, r \in Requests :
    (/\ pc[q] \in {"fetch", "copy", "finish"}
     /\ pc[r] \in {"fetch", "copy", "finish"}
     /\ key[q] = key[r]) => q = r

\* A request is answered with a cancellation only when its own client left:
\* the leader's disconnect never reaches the requests that joined it.
OnlyOwnCancellation ==
  \A r \in Requests : cancelled[r] => gone[r]

\* Every request that entered the protocol leaves it, without relying on
\* clients giving up.
RequestsReturn ==
  \A r \in Requests : pc[r] # "idle" ~> pc[r] = "idle"
===========================================================================
