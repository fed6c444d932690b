----------------------------- MODULE LocalAuth -----------------------------
(***************************************************************************)
(* The authorization of local sources by LocalURLFallback                  *)
(* (internal/storage/local_url.go): before a local file is served, the     *)
(* original URL is probed, first without and then with the credentials of  *)
(* the request.  Allowing decisions are cached for TTL, one scope of keys  *)
(* per tier, and concurrent probes of a key are coalesced.                 *)
(*                                                                         *)
(* A step ends where a goroutine takes authMu or waits, for the network or *)
(* on a channel.  The network may take any time; a goroutine that is not   *)
(* waiting runs within one tick of the clock.  Expiry times are kept as    *)
(* the number of ticks left, so that time need not be bounded.             *)
(*                                                                         *)
(* A decision carries, as history, what the upstream was asked, how many   *)
(* ticks ago it answered, and whether InvalidateAuth has run since.        *)
(***************************************************************************)
EXTENDS Integers, FiniteSets

CONSTANTS
  Requests,    \* the request goroutines
  Idents,      \* source identifiers under one mapping with auth_probe
  Creds,       \* Cookie and Authorization header values
  NoCred,      \* a request without such headers
  None,        \* no entry, decision, identifier or key
  TTL,         \* LocalURLMapping.AuthCacheTTL
  MaxEntries   \* LocalURLMapping.AuthCacheMaxEntries

ASSUME RequestsFinite == IsFiniteSet(Requests)
ASSUME KeysFinite == IsFiniteSet(Idents) /\ IsFiniteSet(Creds)
ASSUME Limits == TTL \in Nat /\ MaxEntries \in Nat \ {0}
ASSUME NoCredIsNew == NoCred \notin Creds

\* authCacheKey: the tier, the identifier and the headers of that tier.
AnonKey(i) == <<"anonymous", i, NoCred>>
\* Mutant of CredKey: the headers are left out.
CredKeyShared(i, c) == <<"authenticated", i, NoCred>>
CredKey(i, c) == <<"authenticated", i, c>>
Keys == {AnonKey(i) : i \in Idents} \cup {CredKey(i, c) : i \in Idents, c \in Creds}

\* authCacheScope: the entries of one tier of one mapping are limited together.
Scope(k) == k[1]
IdentOf(k) == k[2]

VARIABLES
  \* the request goroutines: where they are, what they ask for, the key they are
  \* at, the probe result in hand, what a waiter's channel holds, the outcome
  pc, ident, cred, key, result, chan, answer,
  \* LocalURLFallback.auth and LocalURLFallback.inflight
  auth, probing, waiters,
  \* history: requests begun since the last InvalidateAuth of their identifier
  since

requestVars == <<pc, ident, cred, key, result, chan, answer>>
vars == <<requestVars, auth, probing, waiters, since>>

\* 401, 403 and 404 deny; any other failure, a cancelled probe too, is an error.
Outcomes == {"ok", "denied", "error"}

\* A result, an entry of the cache (with the ticks it has left), or an answer.
Decision(err, i, c) == [err |-> err, ident |-> i, cred |-> c, age |-> 0, era |-> "new"]
\* Mutant of Entry: one tick too long.
EntryLonger(d) == [decision |-> d, left |-> TTL + 1]
Entry(d) == [decision |-> d, left |-> TTL]

Goto(r, step) == pc' = [pc EXCEPT ![r] = step]

Init ==
  /\ pc = [r \in Requests |-> "idle"]
  /\ ident = [r \in Requests |-> None]
  /\ cred = [r \in Requests |-> NoCred]
  /\ key = [r \in Requests |-> None]
  /\ result = [r \in Requests |-> None]
  /\ chan = [r \in Requests |-> None]
  /\ answer = [r \in Requests |-> None]
  /\ auth = [k \in Keys |-> None]
  /\ probing = {}
  /\ waiters = [k \in Keys |-> {}]
  /\ since = {}

---------------------------------------------------------------------------
\* authorize

Begin(r, i, c) ==
  /\ pc[r] = "idle"
  /\ ident' = [ident EXCEPT ![r] = i]
  /\ cred' = [cred EXCEPT ![r] = c]
  /\ key' = [key EXCEPT ![r] = AnonKey(i)]
  /\ since' = since \cup {r}
  /\ Goto(r, "lookup")
  /\ UNCHANGED <<result, chan, answer, auth, probing, waiters>>

Answer(r, d) ==
  /\ answer' = [answer EXCEPT ![r] = d]
  /\ Goto(r, "answered")
  /\ UNCHANGED key

\* authorizeAuthenticated starts over with the key of the credentials.
TryCredentials(r) ==
  /\ key' = [key EXCEPT ![r] = CredKey(ident[r], cred[r])]
  /\ Goto(r, "lookup")
  /\ UNCHANGED answer

Anonymous(r) == Scope(key[r]) = "anonymous"

\* What follows a probe: an anonymous denial is not the last word for a request
\* that has credentials.
Conclude(r, d) ==
  IF Anonymous(r) /\ d.err = "denied" /\ cred[r] # NoCred
    THEN TryCredentials(r)
    ELSE Answer(r, d)

\* cachedAuth
Expired(e) == e.left < 0

Hit(r) ==
  LET e == auth[key[r]] IN
  /\ pc[r] = "lookup"
  /\ e # None
  /\ ~Expired(e)
  /\ IF Anonymous(r) /\ e.decision.err # "ok" /\ cred[r] # NoCred
       THEN TryCredentials(r)
       ELSE Answer(r, e.decision)
  /\ UNCHANGED <<ident, cred, result, chan, auth, probing, waiters, since>>

Miss(r) ==
  LET e == auth[key[r]] IN
  /\ pc[r] = "lookup"
  /\ e # None => Expired(e)
  /\ auth' = [auth EXCEPT ![key[r]] = None]
  /\ Goto(r, "begin")
  /\ UNCHANGED <<ident, cred, key, result, chan, answer, probing, waiters, since>>

---------------------------------------------------------------------------
\* probeCached

\* Mutant of LeadProbe: the in-flight map is not consulted.
LeadProbeAlways(r) ==
  /\ pc[r] = "begin"
  /\ probing' = probing \cup {key[r]}
  /\ Goto(r, "probe")
  /\ UNCHANGED <<ident, cred, key, result, chan, answer, auth, waiters, since>>

\* beginAuthProbe
LeadProbe(r) ==
  /\ pc[r] = "begin"
  /\ key[r] \notin probing
  /\ probing' = probing \cup {key[r]}
  /\ Goto(r, "probe")
  /\ UNCHANGED <<ident, cred, key, result, chan, answer, auth, waiters, since>>

JoinProbe(r) ==
  /\ pc[r] = "begin"
  /\ key[r] \in probing
  /\ waiters' = [waiters EXCEPT ![key[r]] = @ \cup {r}]
  /\ Goto(r, "wait")
  /\ UNCHANGED <<ident, cred, key, result, chan, answer, auth, probing, since>>

\* The upstream answers the HEAD, or the ranged GET after it, in one of the ways
\* probeRequest tells apart; or the leader's own context ends the probe.  The
\* request carries the leader's credentials in the authenticated tier only.
ProbeReturns(r, err) ==
  /\ pc[r] = "probe"
  /\ result' = [result EXCEPT ![r] =
       Decision(err, ident[r], IF Anonymous(r) THEN NoCred ELSE cred[r])]
  /\ Goto(r, "store")
  /\ UNCHANGED <<ident, cred, key, chan, answer, auth, probing, waiters, since>>

\* Mutant of Cacheable: denials are remembered too.
CacheableDecided(err) == err \in {"ok", "denied"}

\* cacheableAuthProbeResult
Cacheable(err) == err = "ok"

\* evictAuthLocked: the expired entries of the scope go, then as many of those
\* that expire first as it takes to have room for one more.  Entries that expire
\* together go in any order.
Entries(s) == {k \in Keys : auth[k] # None /\ Scope(k) = s}

\* Mutant of Evictions: room is made only by expiry.
EvictionsOfStale(s) == {{k \in Entries(s) : Expired(auth[k])}}

Evictions(s) ==
  LET stale == {k \in Entries(s) : Expired(auth[k])}
      live == Entries(s) \ stale
      excess == IF Cardinality(live) < MaxEntries THEN 0 ELSE Cardinality(live) - MaxEntries + 1
      Oldest(old) == \A k \in old, l \in live \ old : auth[k].left <= auth[l].left
  IN {stale \cup old : old \in {o \in SUBSET live : Cardinality(o) = excess /\ Oldest(o)}}

\* storeAuth, which only an allowing result gets to, and only with a TTL.
Store(r) ==
  /\ pc[r] = "store"
  /\ IF TTL > 0 /\ Cacheable(result[r].err)
       THEN \E gone \in Evictions(Scope(key[r])) :
              auth' = [k \in Keys |-> IF k = key[r] THEN Entry(result[r])
                                      ELSE IF k \in gone THEN None ELSE auth[k]]
       ELSE auth' = auth
  /\ Goto(r, "finish")
  /\ UNCHANGED <<ident, cred, key, result, chan, answer, probing, waiters, since>>

\* Mutant of FinishProbe: only an allowing result is sent to the waiters.
FinishProbeOnSuccess(r) ==
  LET k == key[r] IN
  /\ pc[r] = "finish"
  /\ probing' = probing \ {k}
  /\ waiters' = [waiters EXCEPT ![k] = {}]
  /\ chan' = [q \in Requests |->
                IF q \in waiters[k] /\ result[r].err = "ok" THEN result[r] ELSE chan[q]]
  /\ result' = [result EXCEPT ![r] = None]
  /\ Conclude(r, result[r])
  /\ UNCHANGED <<ident, cred, auth, since>>

\* finishAuthProbe, and what the leader does next.
FinishProbe(r) ==
  LET k == key[r] IN
  /\ pc[r] = "finish"
  /\ probing' = probing \ {k}
  /\ waiters' = [waiters EXCEPT ![k] = {}]
  /\ chan' = [q \in Requests |-> IF q \in waiters[k] THEN result[r] ELSE chan[q]]
  /\ result' = [result EXCEPT ![r] = None]
  /\ Conclude(r, result[r])
  /\ UNCHANGED <<ident, cred, auth, since>>

\* The select of a waiter.
Wake(r) ==
  /\ pc[r] = "wait"
  /\ chan[r] # None
  /\ chan' = [chan EXCEPT ![r] = None]
  /\ Conclude(r, chan[r])
  /\ UNCHANGED <<ident, cred, result, auth, probing, waiters, since>>

\* The client of a waiter goes away.  Its channel stays registered, but what is
\* sent there is never read.
GiveUp(r) ==
  /\ pc[r] = "wait"
  /\ waiters' = [k \in Keys |-> waiters[k] \ {r}]
  /\ chan' = [chan EXCEPT ![r] = None]
  /\ Answer(r, Decision("error", ident[r], NoCred))
  /\ UNCHANGED <<ident, cred, result, auth, probing, since>>

---------------------------------------------------------------------------
\* The request is over; its goroutine may serve another one.
Leave(r) ==
  /\ pc[r] = "answered"
  /\ ident' = [ident EXCEPT ![r] = None]
  /\ cred' = [cred EXCEPT ![r] = NoCred]
  /\ key' = [key EXCEPT ![r] = None]
  /\ answer' = [answer EXCEPT ![r] = None]
  /\ since' = since \ {r}
  /\ Goto(r, "idle")
  /\ UNCHANGED <<result, chan, auth, probing, waiters>>

\* Mutant of Cleared: the credentialed decisions stay.
ClearedAnonymous(k, i) == k = AnonKey(i)

\* InvalidateAuth removes the entries of the identifier.  What is left of them,
\* and what is on its way to the cache or to a waiter, becomes history.
Cleared(k, i) == IdentOf(k) = i

Aged(d, i, era) == IF d # None /\ d.ident = i THEN [d EXCEPT !.era = era] ELSE d

InvalidateAuth(i) ==
  /\ auth' = [k \in Keys |->
                IF auth[k] = None \/ Cleared(k, i) THEN None
                ELSE [auth[k] EXCEPT !.decision = Aged(@, i, "old")]]
  /\ result' = [r \in Requests |-> Aged(result[r], i, "raced")]
  /\ chan' = [r \in Requests |-> Aged(chan[r], i, "raced")]
  /\ since' = {r \in since : ident[r] # i}
  /\ UNCHANGED <<pc, ident, cred, key, answer, probing, waiters>>

\* Time passes while every request is idle, answered, or waiting.
Older(e) ==
  [decision |-> [e.decision EXCEPT !.age = IF @ > TTL THEN @ ELSE @ + 1],
   left |-> IF Expired(e) THEN e.left ELSE e.left - 1]

Tick ==
  /\ \A r \in Requests : \/ pc[r] \in {"idle", "probe", "answered"}
                         \/ pc[r] = "wait" /\ chan[r] = None
  /\ auth' = [k \in Keys |-> IF auth[k] = None THEN None ELSE Older(auth[k])]
  /\ UNCHANGED <<requestVars, probing, waiters, since>>

Step(r) ==
  \/ Hit(r) \/ Miss(r) \/ LeadProbe(r) \/ JoinProbe(r)
  \/ \E err \in Outcomes : ProbeReturns(r, err)
  \/ Store(r) \/ FinishProbe(r) \/ Wake(r)

Next ==
  \/ \E r \in Requests :
       \/ \E i \in Idents, c \in Creds \cup {NoCred} : Begin(r, i, c)
       \/ Step(r) \/ GiveUp(r) \/ Leave(r)
  \/ \E i \in Idents : InvalidateAuth(i)
  \/ Tick

Spec == Init /\ [][Next]_vars

\* The upstream client has a timeout, so every probe returns.
FairSpec == Spec /\ \A r \in Requests : WF_vars(Step(r))

---------------------------------------------------------------------------
Decisions == [err : Outcomes, ident : Idents, cred : Creds \cup {NoCred},
              age : 0..TTL+1, era : {"new", "raced", "old"}]

ASSUME NoneIsNothing == None \notin Decisions

TypeOK ==
  /\ pc \in [Requests -> {"idle", "lookup", "begin", "probe", "store", "finish", "wait", "answered"}]
  /\ ident \in [Requests -> Idents \cup {None}]
  /\ cred \in [Requests -> Creds \cup {NoCred}]
  /\ key \in [Requests -> Keys \cup {None}]
  /\ result \in [Requests -> Decisions \cup {None}]
  /\ chan \in [Requests -> Decisions \cup {None}]
  /\ answer \in [Requests -> Decisions \cup {None}]
  /\ auth \in [Keys -> [decision : Decisions, left : -1..TTL] \cup {None}]
  /\ probing \in SUBSET Keys
  /\ waiters \in [Keys -> SUBSET Requests]
  /\ since \in SUBSET Requests

Is(r, err) == pc[r] = "answered" /\ answer[r].err = err

\* A request is allowed only by a decision about its identifier, for everybody or
\* for its own credentials, that the upstream took no longer than the TTL ago:
\* sessions never share a decision, and none outlives its TTL.
AllowsAreGrounded ==
  \A r \in Requests : Is(r, "ok") =>
    /\ answer[r].ident = ident[r]
    /\ answer[r].cred \in {NoCred, cred[r]}
    /\ answer[r].age <= TTL

\* A denial is never remembered: the upstream has just taken it, and for the
\* credentials of the request if it has any.  So says docs/authorization.md:161-163, and so
\* does cacheableAuthProbeResult; the flowchart of the same file (lines 96-117) caches
\* denials and answers from them, which would violate this.
DenialsAreCurrent ==
  \A r \in Requests : Is(r, "denied") =>
    /\ answer[r].ident = ident[r]
    /\ answer[r].cred = cred[r]
    /\ answer[r].age = 0

\* A request that begins after InvalidateAuth is allowed by an earlier decision
\* only if that was still on its way through the in-flight map at the time.
InvalidationClears ==
  \A r \in since : Is(r, "ok") => answer[r].era \in {"new", "raced"}

\* Requests that begin after InvalidateAuth are allowed only by decisions taken
\* after it.
NoDecisionSurvivesInvalidation ==
  \A r \in since : Is(r, "ok") => answer[r].era = "new"

\* The cache never holds more decisions of a scope than its limit.
ScopesAreBounded ==
  \A k \in Keys : Cardinality(Entries(Scope(k))) <= MaxEntries

\* The in-flight map and the goroutines agree: a key is in it while exactly one
\* leader probes it, and a waiter without a result is registered with its key.
ProbesHaveOneLeader ==
  /\ \A k \in Keys :
       Cardinality({r \in Requests : key[r] = k /\ pc[r] \in {"probe", "store", "finish"}})
         = IF k \in probing THEN 1 ELSE 0
  /\ \A r \in Requests : pc[r] = "wait" /\ chan[r] = None =>
       key[r] \in probing /\ r \in waiters[key[r]]

\* Every request is answered, without relying on clients giving up.
RequestsAnswered ==
  \A r \in Requests : pc[r] = "lookup" ~> pc[r] = "answered"
===========================================================================
