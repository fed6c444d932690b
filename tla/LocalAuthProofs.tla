-------------------------- MODULE LocalAuthProofs --------------------------
(***************************************************************************)
(* Proofs about LocalAuth, for any finite set of requests, any identifiers *)
(* and credentials, any TTL and any limit of the decision cache.           *)
(***************************************************************************)
EXTENDS LocalAuth, FiniteSetTheorems, TLAPS

\* The credentials a probe of the key sends, and the steps of its leader.
CredOf(k) == k[3]
Leading == {"probe", "store", "finish"}
Active == {"lookup", "begin", "wait", "answered"} \cup Leading

\* A decision about a key that no InvalidateAuth should have removed, and one that the
\* upstream has just taken.
About(d, k) == d \in Decisions /\ d.ident = IdentOf(k) /\ d.cred = CredOf(k) /\ d.era # "old"
Fresh(d, k) == About(d, k) /\ d.age = 0

\* An entry allows, and the time it has left and its age make up the TTL.
GoodEntry(e, k) ==
  e # None =>
    /\ e \in [decision : Decisions, left : -1..TTL]
    /\ About(e.decision, k)
    /\ e.decision.err = "ok"
    /\ e.left >= 0 => e.decision.age + e.left = TTL

GoodKey(k, i, c) == k = AnonKey(i) \/ (c \in Creds /\ k = CredKey(i, c))

GoodAnswer(d, i, c) ==
  /\ d \in Decisions /\ d.ident = i /\ d.era # "old"
  /\ d.err = "ok" => d.cred \in {NoCred, c} /\ d.age <= TTL
  /\ d.err = "denied" => d.cred = c /\ d.age = 0

\* The in-flight map: one leader for each key in it.
Leaders ==
  /\ \A r \in Requests : pc[r] \in Leading => key[r] \in probing
  /\ \A r, q \in Requests : pc[r] \in Leading /\ pc[q] \in Leading /\ key[r] = key[q] => r = q
  /\ \A k \in probing : \E r \in Requests : pc[r] \in Leading /\ key[r] = k

GoodRequest(r) ==
  /\ pc[r] \in Active => ident[r] \in Idents /\ GoodKey(key[r], ident[r], cred[r])
  /\ pc[r] \in {"store", "finish"} => Fresh(result[r], key[r])
  /\ chan[r] # None => pc[r] = "wait" /\ Fresh(chan[r], key[r])
  /\ pc[r] = "wait" /\ chan[r] = None => key[r] \in probing /\ r \in waiters[key[r]]
  /\ \A k \in Keys : r \in waiters[k] => pc[r] = "wait" /\ key[r] = k /\ chan[r] = None
  /\ pc[r] = "answered" => GoodAnswer(answer[r], ident[r], cred[r])

Limited(s) == IsFiniteSet(Entries(s)) /\ Cardinality(Entries(s)) <= MaxEntries

IInv ==
  /\ TypeOK
  /\ Leaders
  /\ \A k \in Keys : GoodEntry(auth[k], k)
  /\ \A r \in Requests : GoodRequest(r)
  /\ \A s : Limited(s)
---------------------------------------------------------------------------
\* Keys tell tiers, identifiers and credentials apart.
LEMMA KeysDiffer ==
  ASSUME NEW i \in Idents
  PROVE  /\ AnonKey(i) \in Keys /\ Scope(AnonKey(i)) = "anonymous"
         /\ IdentOf(AnonKey(i)) = i /\ CredOf(AnonKey(i)) = NoCred
         /\ \A c \in Creds : /\ CredKey(i, c) \in Keys /\ Scope(CredKey(i, c)) # "anonymous"
                             /\ IdentOf(CredKey(i, c)) = i /\ CredOf(CredKey(i, c)) = c
BY DEF Keys, AnonKey, CredKey, Scope, IdentOf, CredOf

LEMMA GoodKeys ==
  ASSUME NEW i \in Idents, NEW c, NEW k, GoodKey(k, i, c)
  PROVE  /\ k \in Keys /\ IdentOf(k) = i /\ CredOf(k) \in {NoCred, c}
         /\ Scope(k) # "anonymous" => CredOf(k) = c
         /\ Scope(k) = "anonymous" => CredOf(k) = NoCred
BY KeysDiffer DEF GoodKey

\* Whatever a step of another request leaves alone.
Untouched(s) ==
  /\ pc'[s] = pc[s] /\ ident'[s] = ident[s] /\ cred'[s] = cred[s] /\ key'[s] = key[s]
  /\ result'[s] = result[s] /\ chan'[s] = chan[s] /\ answer'[s] = answer[s]
  /\ \A k \in Keys : s \in waiters'[k] <=> s \in waiters[k]

\* A request that goes on alone, and neither begins nor ends a probe, keeps the
\* invariant if it does so for itself.
LEMMA OneMoves ==
  ASSUME IInv, TypeOK', probing' = probing,
         NEW r \in Requests, \A s \in Requests \ {r} : Untouched(s),
         pc[r] \in Leading <=> pc'[r] \in Leading, pc[r] \in Leading => key'[r] = key[r],
         GoodRequest(r)', \A k \in Keys : GoodEntry(auth'[k], k), \A s : Limited(s)'
  PROVE  IInv'
<1>1. Leaders'
  <2>1. \A s \in Requests : pc'[s] \in Leading <=> pc[s] \in Leading
    BY DEF Untouched
  <2>2. \A s \in Requests : pc[s] \in Leading => key'[s] = key[s]
    BY DEF Untouched
  <2> QED BY <2>1, <2>2 DEF IInv, Leaders
<1>2. ASSUME NEW s \in Requests PROVE GoodRequest(s)'
  <2>1. CASE s = r
    BY <2>1
  <2>2. CASE s # r
    <3>1. probing \subseteq Keys /\ GoodRequest(s) /\ Untouched(s)
      BY <2>2 DEF IInv, TypeOK
    <3>2. \A k \in Keys : s \in waiters'[k] => pc'[s] = "wait" /\ key'[s] = k /\ chan'[s] = None
      BY <3>1 DEF Untouched, GoodRequest
    <3>3. pc'[s] = "wait" /\ chan'[s] = None => key'[s] \in probing' /\ s \in waiters'[key'[s]]
      BY <3>1 DEF Untouched, GoodRequest
    <3> QED BY <3>1, <3>2, <3>3 DEF Untouched, GoodRequest
  <2> QED BY <2>1, <2>2
<1>3. \A k \in Keys : GoodEntry(auth[k], k)'
  BY DEF GoodEntry
<1> QED BY <1>1, <1>2, <1>3 DEF IInv

LEMMA FewerEntries ==
  ASSUME IInv, \A k \in Keys : auth'[k] # None => auth[k] # None
  PROVE  \A s : Limited(s)'
<1>1. ASSUME NEW s PROVE Limited(s)'
  <2>1. Entries(s)' \in SUBSET Entries(s)
    BY DEF Entries, Scope
  <2>2. Limited(s)
    BY DEF IInv
  <2>3. IsFiniteSet(Entries(s)') /\ Cardinality(Entries(s)') <= Cardinality(Entries(s))
    BY <2>1, <2>2, FS_Subset DEF Limited
  <2>4. Cardinality(Entries(s)') \in Nat /\ Cardinality(Entries(s)) \in Nat
    BY <2>2, <2>3, FS_CardinalityType DEF Limited
  <2> QED BY <2>2, <2>3, <2>4, Limits DEF Limited
<1> QED BY <1>1

\* What follows a probe, or the answer of somebody else's.
LEMMA Concludes ==
  ASSUME IInv, NEW r \in Requests, NEW d, pc[r] \in Active, Fresh(d, key[r]), Conclude(r, d)
  PROVE  /\ pc' \in [Requests -> {"idle", "lookup", "begin", "probe", "store", "finish", "wait", "answered"}]
         /\ key' \in [Requests -> Keys \cup {None}]
         /\ answer' \in [Requests -> Decisions \cup {None}]
         /\ \A s \in Requests \ {r} : pc'[s] = pc[s] /\ key'[s] = key[s] /\ answer'[s] = answer[s]
         /\ GoodKey(key'[r], ident[r], cred[r])
         /\ pc'[r] = "lookup" \/ (pc'[r] = "answered" /\ GoodAnswer(answer'[r], ident[r], cred[r]))
<1>1. /\ ident[r] \in Idents /\ GoodKey(key[r], ident[r], cred[r]) /\ cred[r] \in Creds \cup {NoCred}
      /\ d \in Decisions
  BY DEF IInv, TypeOK, GoodRequest, Fresh, About
<1>2. CASE Anonymous(r) /\ d.err = "denied" /\ cred[r] # NoCred /\ TryCredentials(r)
  <2>1. CredKey(ident[r], cred[r]) \in Keys
    BY <1>1, <1>2, KeysDiffer
  <2>2. GoodKey(CredKey(ident[r], cred[r]), ident[r], cred[r])
    BY <1>1, <1>2 DEF GoodKey
  <2> QED BY <1>2, <2>1, <2>2 DEF TryCredentials, Goto, IInv, TypeOK
<1>3. CASE ~(Anonymous(r) /\ d.err = "denied" /\ cred[r] # NoCred) /\ Answer(r, d)
  <2>1. IdentOf(key[r]) = ident[r] /\ CredOf(key[r]) \in {NoCred, cred[r]}
        /\ (~Anonymous(r) => CredOf(key[r]) = cred[r]) /\ (Anonymous(r) => CredOf(key[r]) = NoCred)
    BY <1>1, GoodKeys DEF Anonymous
  <2>2. 0 <= TTL
    BY Limits
  <2>3. GoodAnswer(d, ident[r], cred[r])
    BY <1>3, <2>1, <2>2 DEF GoodAnswer, Fresh, About
  <2> QED BY <1>1, <1>3, <2>3 DEF Answer, Goto, IInv, TypeOK
<1> QED BY <1>2, <1>3 DEF Conclude
---------------------------------------------------------------------------
\* One lemma for each action.
LEMMA SameEntries ==
  ASSUME IInv, UNCHANGED auth
  PROVE  /\ \A k \in Keys : GoodEntry(auth'[k], k)
         /\ \A s : Limited(s)'
BY FewerEntries DEF IInv

LEMMA BeginKeeps ==
  ASSUME IInv, NEW r \in Requests, NEW i \in Idents, NEW c \in Creds \cup {NoCred}, Begin(r, i, c)
  PROVE  IInv'
<1>1. AnonKey(i) \in Keys /\ GoodKey(AnonKey(i), i, c)
  BY KeysDiffer DEF GoodKey
<1>2. TypeOK'
  BY <1>1 DEF Begin, Goto, IInv, TypeOK
<1>3. /\ pc[r] = "idle" /\ pc'[r] = "lookup" /\ ident'[r] = i /\ cred'[r] = c /\ key'[r] = AnonKey(i)
      /\ UNCHANGED <<result, chan, answer, auth, probing, waiters>>
      /\ \A s \in Requests \ {r} : Untouched(s)
  BY DEF Begin, Goto, Untouched, IInv, TypeOK
<1>4. GoodRequest(r)'
  BY <1>1, <1>3 DEF IInv, GoodRequest
<1>5. pc[r] \notin Leading /\ pc'[r] \notin Leading
  BY <1>3 DEF Leading
<1> QED BY <1>2, <1>3, <1>4, <1>5, SameEntries, OneMoves

LEMMA LeaveKeeps ==
  ASSUME IInv, NEW r \in Requests, Leave(r)
  PROVE  IInv'
<1>1. TypeOK'
  BY DEF Leave, Goto, IInv, TypeOK
<1>2. /\ pc[r] = "answered" /\ pc'[r] = "idle"
      /\ UNCHANGED <<result, chan, auth, probing, waiters>>
      /\ \A s \in Requests \ {r} : Untouched(s)
  BY DEF Leave, Goto, Untouched, IInv, TypeOK
<1>3. GoodRequest(r)'
  BY <1>2 DEF IInv, GoodRequest, Active, Leading
<1>4. pc[r] \notin Leading /\ pc'[r] \notin Leading
  BY <1>2 DEF Leading
<1> QED BY <1>1, <1>2, <1>3, <1>4, SameEntries, OneMoves

\* A remembered decision allows, and is no older than the TTL while it has not expired.
LEMMA HitKeeps ==
  ASSUME IInv, NEW r \in Requests, Hit(r)
  PROVE  IInv'
<1> DEFINE e == auth[key[r]]
<1>1. /\ pc[r] = "lookup" /\ e # None /\ ~Expired(e)
      /\ UNCHANGED <<ident, cred, result, chan, auth, probing, waiters, since>>
  BY DEF Hit
<1>2. /\ ident[r] \in Idents /\ GoodKey(key[r], ident[r], cred[r])
  BY <1>1 DEF IInv, GoodRequest, Active
<1>3. /\ key[r] \in Keys /\ IdentOf(key[r]) = ident[r] /\ CredOf(key[r]) \in {NoCred, cred[r]}
  BY <1>2, GoodKeys
<1>4. GoodEntry(e, key[r])
  BY <1>3 DEF IInv
<1>5. e.left \in Int /\ e.left >= 0 /\ e.decision \in Decisions /\ e.decision.age \in Int
  <2>1. e.left \in -1..TTL /\ e.decision \in Decisions
    BY <1>1, <1>4 DEF GoodEntry
  <2> QED BY <1>1, <2>1, Limits DEF Expired, Decisions
<1>6. e.decision.age <= TTL
  BY <1>1, <1>4, <1>5, Limits DEF GoodEntry
<1>7. GoodAnswer(e.decision, ident[r], cred[r])
  BY <1>1, <1>3, <1>4, <1>6 DEF GoodEntry, About, GoodAnswer
<1>8. Answer(r, e.decision)
  BY <1>1, <1>4 DEF Hit, GoodEntry
<1> HIDE DEF e
<1>9. TypeOK'
  BY <1>1, <1>5, <1>8 DEF Answer, Goto, IInv, TypeOK
<1>10. /\ pc'[r] = "answered" /\ answer'[r] = e.decision /\ key'[r] = key[r]
       /\ \A s \in Requests \ {r} : Untouched(s)
  BY <1>1, <1>8 DEF Answer, Goto, Untouched, IInv, TypeOK
<1>11. GoodRequest(r)'
  BY <1>1, <1>2, <1>7, <1>10 DEF IInv, GoodRequest
<1>12. pc[r] \notin Leading /\ pc'[r] \notin Leading
  BY <1>1, <1>10 DEF Leading
<1> QED BY <1>1, <1>9, <1>10, <1>11, <1>12, SameEntries, OneMoves

LEMMA MissKeeps ==
  ASSUME IInv, NEW r \in Requests, Miss(r)
  PROVE  IInv'
<1>1. TypeOK'
  BY DEF Miss, Goto, IInv, TypeOK
<1>2. /\ pc[r] = "lookup" /\ pc'[r] = "begin"
      /\ UNCHANGED <<ident, cred, key, result, chan, answer, probing, waiters>>
      /\ \A k \in Keys : auth'[k] \in {None, auth[k]}
      /\ \A s \in Requests \ {r} : Untouched(s)
  BY DEF Miss, Goto, Untouched, IInv, TypeOK
<1>3. GoodRequest(r)'
  BY <1>2 DEF IInv, GoodRequest, Active
<1>4. pc[r] \notin Leading /\ pc'[r] \notin Leading
  BY <1>2 DEF Leading
<1>5. \A k \in Keys : GoodEntry(auth'[k], k)
  BY <1>2 DEF IInv, GoodEntry
<1>6. \A s : Limited(s)'
  BY <1>2, FewerEntries
<1> QED BY <1>1, <1>2, <1>3, <1>4, <1>5, <1>6, OneMoves

LEMMA ProbeReturnsKeeps ==
  ASSUME IInv, NEW r \in Requests, NEW err \in Outcomes, ProbeReturns(r, err)
  PROVE  IInv'
<1> DEFINE d == Decision(err, ident[r], IF Anonymous(r) THEN NoCred ELSE cred[r])
<1>1. /\ pc[r] = "probe" /\ result' = [result EXCEPT ![r] = d] /\ pc' = [pc EXCEPT ![r] = "store"]
      /\ UNCHANGED <<ident, cred, key, chan, answer, auth, probing, waiters, since>>
  BY DEF ProbeReturns, Goto
<1>2. ident[r] \in Idents /\ GoodKey(key[r], ident[r], cred[r]) /\ cred[r] \in Creds \cup {NoCred}
  BY <1>1 DEF IInv, TypeOK, GoodRequest, Active, Leading
<1>3. Fresh(d, key[r])
  <2>1. 0 \in 0..TTL+1
    BY Limits
  <2>2. d \in Decisions
    BY <1>2, <2>1 DEF Decision, Decisions
  <2> QED BY <1>2, <2>2, GoodKeys DEF Fresh, About, Decision, Anonymous
<1> HIDE DEF d
<1>4. TypeOK'
  BY <1>1, <1>3 DEF Fresh, About, IInv, TypeOK
<1>5. pc'[r] = "store" /\ result'[r] = d /\ \A s \in Requests \ {r} : Untouched(s)
  BY <1>1 DEF Untouched, IInv, TypeOK
<1>6. GoodRequest(r)'
  BY <1>1, <1>3, <1>5 DEF IInv, GoodRequest, Active, Leading
<1>7. pc[r] \in Leading /\ pc'[r] \in Leading
  BY <1>1, <1>5 DEF Leading
<1> QED BY <1>1, <1>4, <1>5, <1>6, <1>7, SameEntries, OneMoves

LEMMA WakeKeeps ==
  ASSUME IInv, NEW r \in Requests, Wake(r)
  PROVE  IInv'
<1>1. /\ pc[r] = "wait" /\ chan[r] # None /\ chan' = [chan EXCEPT ![r] = None]
      /\ Conclude(r, chan[r]) /\ UNCHANGED <<ident, cred, result, auth, probing, waiters, since>>
  BY DEF Wake
<1>2. Fresh(chan[r], key[r]) /\ pc[r] \in Active
  BY <1>1 DEF IInv, GoodRequest, Active
<1>3. /\ pc' \in [Requests -> {"idle", "lookup", "begin", "probe", "store", "finish", "wait", "answered"}]
      /\ key' \in [Requests -> Keys \cup {None}]
      /\ answer' \in [Requests -> Decisions \cup {None}]
      /\ \A s \in Requests \ {r} : pc'[s] = pc[s] /\ key'[s] = key[s] /\ answer'[s] = answer[s]
      /\ GoodKey(key'[r], ident[r], cred[r])
      /\ pc'[r] = "lookup" \/ (pc'[r] = "answered" /\ GoodAnswer(answer'[r], ident[r], cred[r]))
  BY <1>1, <1>2, Concludes
<1>4. TypeOK'
  BY <1>1, <1>3 DEF IInv, TypeOK
<1>5. chan'[r] = None /\ \A s \in Requests \ {r} : Untouched(s)
  BY <1>1, <1>3 DEF Untouched, IInv, TypeOK
<1>6. GoodRequest(r)'
  <2>1. ident[r] \in Idents /\ \A k \in Keys : r \notin waiters[k]
    BY <1>1, <1>2 DEF IInv, GoodRequest
  <2> QED BY <1>1, <1>3, <1>5, <2>1 DEF GoodRequest
<1>7. pc[r] \notin Leading /\ pc'[r] \notin Leading
  BY <1>1, <1>3 DEF Leading
<1> QED BY <1>1, <1>4, <1>5, <1>6, <1>7, SameEntries, OneMoves

LEMMA GiveUpKeeps ==
  ASSUME IInv, NEW r \in Requests, GiveUp(r)
  PROVE  IInv'
<1> DEFINE d == Decision("error", ident[r], NoCred)
<1>1. /\ pc[r] = "wait" /\ waiters' = [k \in Keys |-> waiters[k] \ {r}]
      /\ chan' = [chan EXCEPT ![r] = None]
      /\ answer' = [answer EXCEPT ![r] = d] /\ pc' = [pc EXCEPT ![r] = "answered"]
      /\ UNCHANGED <<ident, cred, key, result, auth, probing, since>>
  BY DEF GiveUp, Answer, Goto
<1>2. ident[r] \in Idents /\ GoodKey(key[r], ident[r], cred[r])
  BY <1>1 DEF IInv, GoodRequest, Active
<1>3. d \in Decisions /\ GoodAnswer(d, ident[r], cred[r])
  <2>1. 0 \in 0..TTL+1
    BY Limits
  <2>2. d \in Decisions
    BY <1>2, <2>1 DEF Decision, Decisions, Outcomes
  <2> QED BY <2>2 DEF Decision, GoodAnswer
<1> HIDE DEF d
<1>4. TypeOK'
  BY <1>1, <1>3 DEF IInv, TypeOK
<1>5. /\ pc'[r] = "answered" /\ chan'[r] = None /\ answer'[r] = d
      /\ \A k \in Keys : r \notin waiters'[k]
      /\ \A s \in Requests \ {r} : Untouched(s)
  BY <1>1 DEF Untouched, IInv, TypeOK
<1>6. GoodRequest(r)'
  BY <1>1, <1>2, <1>3, <1>5 DEF GoodRequest
<1>7. pc[r] \notin Leading /\ pc'[r] \notin Leading
  BY <1>1, <1>5 DEF Leading
<1> QED BY <1>1, <1>4, <1>5, <1>6, <1>7, SameEntries, OneMoves

LEMMA JoinProbeKeeps ==
  ASSUME IInv, NEW r \in Requests, JoinProbe(r)
  PROVE  IInv'
<1>1. /\ pc[r] = "begin" /\ key[r] \in probing /\ pc' = [pc EXCEPT ![r] = "wait"]
      /\ waiters' = [waiters EXCEPT ![key[r]] = @ \cup {r}]
      /\ UNCHANGED <<ident, cred, key, result, chan, answer, auth, probing, since>>
  BY DEF JoinProbe, Goto
<1>2. key[r] \in Keys
  BY <1>1 DEF IInv, TypeOK
<1>3. TypeOK'
  BY <1>1, <1>2 DEF IInv, TypeOK
<1>4. /\ pc'[r] = "wait" /\ r \in waiters'[key[r]] /\ \A k \in Keys \ {key[r]} : waiters'[k] = waiters[k]
      /\ \A s \in Requests \ {r} : Untouched(s)
  BY <1>1, <1>2 DEF Untouched, IInv, TypeOK
<1>5. GoodRequest(r)'
  BY <1>1, <1>2, <1>4 DEF IInv, GoodRequest, Active, Leading
<1>6. pc[r] \notin Leading /\ pc'[r] \notin Leading
  BY <1>1, <1>4 DEF Leading
<1> QED BY <1>1, <1>3, <1>4, <1>5, <1>6, SameEntries, OneMoves

LEMMA LeadProbeKeeps ==
  ASSUME IInv, NEW r \in Requests, LeadProbe(r)
  PROVE  IInv'
<1>1. /\ pc[r] = "begin" /\ key[r] \notin probing /\ pc' = [pc EXCEPT ![r] = "probe"]
      /\ probing' = probing \cup {key[r]}
      /\ UNCHANGED <<ident, cred, key, result, chan, answer, auth, waiters, since>>
  BY DEF LeadProbe, Goto
<1>2. key[r] \in Keys /\ GoodKey(key[r], ident[r], cred[r]) /\ ident[r] \in Idents
  <2>1. GoodKey(key[r], ident[r], cred[r]) /\ ident[r] \in Idents
    BY <1>1 DEF IInv, GoodRequest, Active
  <2> QED BY <2>1, GoodKeys
<1>3. TypeOK'
  BY <1>1, <1>2 DEF IInv, TypeOK
<1>4. pc'[r] = "probe" /\ \A s \in Requests \ {r} : pc'[s] = pc[s] /\ Untouched(s)
  BY <1>1 DEF Untouched, IInv, TypeOK
<1>5. Leaders'
  BY <1>1, <1>4 DEF IInv, Leaders, Leading
<1>6. ASSUME NEW s \in Requests PROVE GoodRequest(s)'
  <2>1. CASE s = r
    BY <1>1, <1>2, <1>4, <2>1 DEF IInv, GoodRequest
  <2>2. CASE s # r
    BY <1>1, <1>4, <2>2 DEF IInv, GoodRequest
  <2> QED BY <2>1, <2>2
<1> QED BY <1>1, <1>3, <1>5, <1>6, SameEntries DEF IInv

\* The leader passes its result to those that are registered, and to nobody else.
LEMMA FinishProbeKeeps ==
  ASSUME IInv, NEW r \in Requests, FinishProbe(r)
  PROVE  IInv'
<1> DEFINE k == key[r]
           d == result[r]
<1>1. /\ pc[r] = "finish" /\ probing' = probing \ {k} /\ waiters' = [waiters EXCEPT ![k] = {}]
      /\ chan' = [q \in Requests |-> IF q \in waiters[k] THEN d ELSE chan[q]]
      /\ result' = [result EXCEPT ![r] = None] /\ Conclude(r, d)
      /\ UNCHANGED <<ident, cred, auth, since>>
  BY DEF FinishProbe
<1>2. Fresh(d, k) /\ pc[r] \in Active /\ pc[r] \in Leading /\ ident[r] \in Idents
      /\ GoodKey(k, ident[r], cred[r])
  BY <1>1 DEF IInv, GoodRequest, Active, Leading
<1>3. k \in Keys /\ d \in Decisions /\ d # None
  <2>1. k \in Keys
    BY <1>2, GoodKeys
  <2>2. d \in Decisions
    BY <1>2 DEF Fresh, About
  <2> QED BY <2>1, <2>2, NoneIsNothing
<1>4. /\ pc' \in [Requests -> {"idle", "lookup", "begin", "probe", "store", "finish", "wait", "answered"}]
      /\ key' \in [Requests -> Keys \cup {None}]
      /\ answer' \in [Requests -> Decisions \cup {None}]
      /\ \A s \in Requests \ {r} : pc'[s] = pc[s] /\ key'[s] = key[s] /\ answer'[s] = answer[s]
      /\ GoodKey(key'[r], ident[r], cred[r])
      /\ pc'[r] = "lookup" \/ (pc'[r] = "answered" /\ GoodAnswer(answer'[r], ident[r], cred[r]))
  BY <1>1, <1>2, Concludes
<1>5. TypeOK'
  BY <1>1, <1>3, <1>4 DEF IInv, TypeOK
<1>6. waiters'[k] = {} /\ \A j \in Keys \ {k} : waiters'[j] = waiters[j]
  BY <1>1, <1>3 DEF IInv, TypeOK
<1>7. \A s \in Requests \ {r} : pc[s] \in Leading => key[s] # k
  BY <1>2 DEF IInv, Leaders
<1>8. Leaders'
  <2>1. pc'[r] \notin Leading
    BY <1>4 DEF Leading
  <2> QED BY <1>1, <1>4, <1>7, <2>1 DEF IInv, Leaders
<1>9. ASSUME NEW s \in Requests PROVE GoodRequest(s)'
  <2>1. CASE s = r
    <3>1. chan[r] = None /\ \A j \in Keys : r \notin waiters[j]
      BY <1>1 DEF IInv, GoodRequest
    <3>2. chan'[r] = None /\ \A j \in Keys : r \notin waiters'[j]
      BY <1>1, <1>3, <1>6, <3>1
    <3> QED BY <1>1, <1>2, <1>4, <2>1, <3>2 DEF GoodRequest
  <2>2. CASE s # r /\ s \in waiters[k]
    <3>1. pc[s] = "wait" /\ key[s] = k
      BY <1>3, <2>2 DEF IInv, GoodRequest
    <3>2. pc'[s] = "wait" /\ key'[s] = k /\ chan'[s] = d /\ \A j \in Keys : s \notin waiters'[j]
      BY <1>1, <1>3, <1>4, <1>6, <2>2, <3>1 DEF IInv, GoodRequest
    <3>3. ident'[s] \in Idents /\ GoodKey(k, ident'[s], cred'[s])
      BY <1>1, <3>1 DEF IInv, GoodRequest, Active
    <3> QED BY <1>2, <1>3, <3>2, <3>3 DEF GoodRequest
  <2>3. CASE s # r /\ s \notin waiters[k]
    <3>1. /\ pc'[s] = pc[s] /\ key'[s] = key[s] /\ answer'[s] = answer[s] /\ chan'[s] = chan[s]
          /\ ident'[s] = ident[s] /\ cred'[s] = cred[s] /\ result'[s] = result[s]
      BY <1>1, <1>4, <2>3 DEF IInv, TypeOK
    <3>2. GoodRequest(s) /\ probing \subseteq Keys
      BY DEF IInv, TypeOK
    <3>3. \A j \in Keys : s \in waiters'[j] <=> s \in waiters[j]
      BY <1>6, <2>3
    <3>4. pc'[s] = "wait" /\ chan'[s] = None => key'[s] \in probing' /\ s \in waiters'[key'[s]]
      BY <1>1, <2>3, <3>1, <3>2, <3>3 DEF GoodRequest
    <3> QED BY <3>1, <3>2, <3>3, <3>4 DEF GoodRequest
  <2> QED BY <2>1, <2>2, <2>3
<1> QED BY <1>1, <1>5, <1>8, <1>9, SameEntries DEF IInv

LEMMA OneMore ==
  ASSUME NEW S, NEW x, IsFiniteSet(S)
  PROVE  IsFiniteSet(S \cup {x}) /\ Cardinality(S \cup {x}) <= Cardinality(S) + 1
<1>1. IsFiniteSet(S \cup {x})
  BY FS_AddElement
<1>2. Cardinality(S \cup {x}) = IF x \in S THEN Cardinality(S) ELSE Cardinality(S) + 1
  BY FS_AddElement
<1>3. Cardinality(S) \in Nat
  BY FS_CardinalityType
<1> QED BY <1>1, <1>2, <1>3

\* The eviction makes room for one more.
LEMMA RoomForOne ==
  ASSUME NEW s, Limited(s), NEW gone \in Evictions(s)
  PROVE  /\ IsFiniteSet(Entries(s) \ gone)
         /\ Cardinality(Entries(s) \ gone) + 1 <= MaxEntries
<1> DEFINE stale == {k \in Entries(s) : Expired(auth[k])}
           live == Entries(s) \ stale
           excess == IF Cardinality(live) < MaxEntries THEN 0 ELSE Cardinality(live) - MaxEntries + 1
<1>1. PICK old \in SUBSET live : Cardinality(old) = excess /\ gone = stale \cup old
  BY DEF Evictions
<1>2. IsFiniteSet(live) /\ Cardinality(live) \in Nat
  BY FS_Difference, FS_CardinalityType DEF Limited
<1>3. Cardinality(live \ old) = Cardinality(live) - excess /\ IsFiniteSet(live \ old)
  <2>1. live \cap old = old /\ IsFiniteSet(old)
    BY <1>1, <1>2, FS_Subset
  <2> HIDE DEF live, excess
  <2>2. IsFiniteSet(live \ old) /\ Cardinality(live \ old) = Cardinality(live) - Cardinality(live \cap old)
    BY <1>2, FS_Difference
  <2> QED BY <1>1, <2>1, <2>2
<1>4. Entries(s) \ gone = live \ old
  BY <1>1
<1>5. Cardinality(live) - excess + 1 <= MaxEntries
  BY <1>2, Limits
<1> QED BY <1>3, <1>4, <1>5

LEMMA StoreKeeps ==
  ASSUME IInv, NEW r \in Requests, Store(r)
  PROVE  IInv'
<1> DEFINE k == key[r]
           e == Entry(result[r])
<1>1. /\ pc[r] = "store" /\ pc' = [pc EXCEPT ![r] = "finish"]
      /\ UNCHANGED <<ident, cred, key, result, chan, answer, probing, waiters, since>>
  BY DEF Store, Goto
<1>2. Fresh(result[r], k) /\ ident[r] \in Idents /\ GoodKey(k, ident[r], cred[r])
  BY <1>1 DEF IInv, GoodRequest, Active, Leading
<1>3. k \in Keys /\ result[r] \in Decisions
  BY <1>2, GoodKeys DEF Fresh, About
<1>4. /\ auth' \in [Keys -> [decision : Decisions, left : -1..TTL] \cup {None}]
      /\ \A j \in Keys : GoodEntry(auth'[j], j)
      /\ \A s : Limited(s)'
  <2>1. CASE UNCHANGED auth
    BY <2>1, SameEntries DEF IInv, TypeOK
  <2>2. ASSUME result[r].err = "ok", NEW gone \in Evictions(Scope(k)),
               auth' = [j \in Keys |-> IF j = k THEN e ELSE IF j \in gone THEN None ELSE auth[j]]
        PROVE  /\ auth' \in [Keys -> [decision : Decisions, left : -1..TTL] \cup {None}]
               /\ \A j \in Keys : GoodEntry(auth'[j], j)
               /\ \A s : Limited(s)'
    <3>1. e \in [decision : Decisions, left : -1..TTL] /\ e.decision = result[r] /\ e.left = TTL
      BY <1>3, Limits DEF Entry
    <3>2. GoodEntry(e, k)
      BY <1>2, <2>2, <3>1, Limits DEF Fresh, GoodEntry
    <3> HIDE DEF e
    <3>3. auth' \in [Keys -> [decision : Decisions, left : -1..TTL] \cup {None}]
      BY <2>2, <3>1 DEF IInv, TypeOK
    <3>4. \A j \in Keys : GoodEntry(auth'[j], j)
      BY <2>2, <3>2 DEF IInv, GoodEntry
    <3>5. ASSUME NEW s PROVE Limited(s)'
      <4>1. CASE s = Scope(k)
        <5> DEFINE rest == Entries(s) \ gone
        <5>1. IsFiniteSet(rest) /\ Cardinality(rest) + 1 <= MaxEntries
          BY <2>2, <4>1, RoomForOne DEF IInv
        <5>2. Cardinality(rest) \in Nat
          BY <5>1, FS_CardinalityType
        <5>3. IsFiniteSet(rest \cup {k}) /\ Cardinality(rest \cup {k}) <= Cardinality(rest) + 1
          BY <5>1, OneMore
        <5>4. Entries(s)' \in SUBSET (rest \cup {k})
          BY <2>2 DEF Entries, Scope
        <5>5. IsFiniteSet(Entries(s)') /\ Cardinality(Entries(s)') <= Cardinality(rest \cup {k})
          BY <5>3, <5>4, FS_Subset
        <5>6. Cardinality(Entries(s)') \in Nat /\ Cardinality(rest \cup {k}) \in Nat
          BY <5>3, <5>5, FS_CardinalityType
        <5> HIDE DEF rest
        <5> QED BY <5>1, <5>2, <5>3, <5>5, <5>6, Limits DEF Limited
      <4>2. CASE s # Scope(k)
        <5>1. Entries(s)' \in SUBSET Entries(s)
          BY <2>2, <4>2 DEF Entries, Scope
        <5>2. Limited(s)
          BY DEF IInv
        <5>3. IsFiniteSet(Entries(s)') /\ Cardinality(Entries(s)') <= Cardinality(Entries(s))
          BY <5>1, <5>2, FS_Subset DEF Limited
        <5>4. Cardinality(Entries(s)') \in Nat /\ Cardinality(Entries(s)) \in Nat
          BY <5>2, <5>3, FS_CardinalityType DEF Limited
        <5> QED BY <5>2, <5>3, <5>4, Limits DEF Limited
      <4> QED BY <4>1, <4>2
    <3> QED BY <3>3, <3>4, <3>5
  <2> QED BY <2>1, <2>2 DEF Store, Cacheable
<1>5. TypeOK'
  BY <1>1, <1>4 DEF IInv, TypeOK
<1>6. pc'[r] = "finish" /\ \A s \in Requests \ {r} : Untouched(s)
  BY <1>1 DEF Untouched, IInv, TypeOK
<1>7. GoodRequest(r)'
  BY <1>1, <1>2, <1>6 DEF IInv, GoodRequest
<1>8. pc[r] \in Leading /\ pc'[r] \in Leading
  BY <1>1, <1>6 DEF Leading
<1> QED BY <1>1, <1>4, <1>5, <1>6, <1>7, <1>8, OneMoves

\* What InvalidateAuth removes is just what its history would call old.
LEMMA InvalidateAuthKeeps ==
  ASSUME IInv, NEW i \in Idents, InvalidateAuth(i)
  PROVE  IInv'
<1>1. UNCHANGED <<pc, ident, cred, key, answer, probing, waiters>>
  BY DEF InvalidateAuth
<1>2. \A k \in Keys : auth'[k] \in {None, auth[k]}
  <2>1. ASSUME NEW k \in Keys, auth[k] # None, ~Cleared(k, i)
        PROVE  [auth[k] EXCEPT !.decision = Aged(@, i, "old")] = auth[k]
    <3>1. auth[k] \in [decision : Decisions, left : -1..TTL] /\ auth[k].decision.ident = IdentOf(k)
      BY <2>1 DEF IInv, GoodEntry, About
    <3>2. Aged(auth[k].decision, i, "old") = auth[k].decision
      BY <2>1, <3>1 DEF Aged, Cleared
    <3> QED BY <3>1, <3>2
  <2> QED BY <2>1 DEF InvalidateAuth
<1>3. ASSUME NEW d \in Decisions \cup {None}
      PROVE  /\ Aged(d, i, "raced") \in Decisions \cup {None}
             /\ Aged(d, i, "raced") = None <=> d = None
             /\ \A k : Fresh(d, k) => Fresh(Aged(d, i, "raced"), k)
  <2>1. CASE d = None
    BY <2>1, NoneIsNothing DEF Aged, Fresh, About
  <2>2. CASE d \in Decisions
    <3>1. [d EXCEPT !.era = "raced"] \in Decisions
      BY <2>2 DEF Decisions
    <3>2. /\ [d EXCEPT !.era = "raced"].ident = d.ident /\ [d EXCEPT !.era = "raced"].cred = d.cred
          /\ [d EXCEPT !.era = "raced"].age = d.age /\ [d EXCEPT !.era = "raced"].era = "raced"
      BY <2>2 DEF Decisions
    <3> QED BY <2>2, <3>1, <3>2, NoneIsNothing DEF Aged, Fresh, About
  <2> QED BY <2>1, <2>2
<1>4. /\ result' = [r \in Requests |-> Aged(result[r], i, "raced")]
      /\ chan' = [r \in Requests |-> Aged(chan[r], i, "raced")]
      /\ since' = {r \in since : ident[r] # i}
  BY DEF InvalidateAuth
<1>5. TypeOK'
  <2>1. auth' \in [Keys -> [decision : Decisions, left : -1..TTL] \cup {None}]
    <3>1. auth' = [k \in Keys |-> auth'[k]]
      BY DEF InvalidateAuth
    <3>2. \A k \in Keys : auth'[k] \in [decision : Decisions, left : -1..TTL] \cup {None}
      BY <1>2 DEF IInv, TypeOK
    <3> QED BY <3>1, <3>2
  <2> QED BY <1>1, <1>3, <1>4, <2>1 DEF IInv, TypeOK
<1>6. Leaders'
  BY <1>1 DEF IInv, Leaders
<1>7. \A k \in Keys : GoodEntry(auth'[k], k)
  BY <1>2 DEF IInv, GoodEntry
<1>8. \A s : Limited(s)'
  BY <1>2, FewerEntries
<1>9. ASSUME NEW r \in Requests PROVE GoodRequest(r)'
  <2>1. /\ result'[r] = Aged(result[r], i, "raced") /\ chan'[r] = Aged(chan[r], i, "raced")
        /\ result[r] \in Decisions \cup {None} /\ chan[r] \in Decisions \cup {None}
    BY <1>4 DEF IInv, TypeOK
  <2>2. /\ Fresh(result[r], key[r]) => Fresh(result'[r], key[r])
        /\ Fresh(chan[r], key[r]) => Fresh(chan'[r], key[r])
        /\ chan'[r] = None <=> chan[r] = None
    BY <1>3, <2>1
  <2> QED BY <1>1, <2>2 DEF IInv, GoodRequest
<1> QED BY <1>5, <1>6, <1>7, <1>8, <1>9 DEF IInv

LEMMA TickKeeps ==
  ASSUME IInv, Tick
  PROVE  IInv'
<1>1. /\ UNCHANGED <<pc, ident, cred, key, result, chan, answer, probing, waiters, since>>
      /\ auth' = [k \in Keys |-> IF auth[k] = None THEN None ELSE Older(auth[k])]
  BY DEF Tick, requestVars
<1>2. ASSUME NEW k \in Keys, NEW e, e # None, GoodEntry(e, k)
      PROVE  Older(e) \in [decision : Decisions, left : -1..TTL] /\ GoodEntry(Older(e), k)
  <2> DEFINE d == e.decision
             a == IF d.age > TTL THEN d.age ELSE d.age + 1
             l == IF e.left < 0 THEN e.left ELSE e.left - 1
             f == [d EXCEPT !.age = a]
  <2>1. /\ d \in Decisions /\ e.left \in -1..TTL /\ About(d, k) /\ d.err = "ok"
        /\ e.left >= 0 => d.age + e.left = TTL
    BY <1>2 DEF GoodEntry
  <2>2. d.age \in 0..TTL+1
    BY <2>1 DEF Decisions
  <2>3. a \in 0..TTL+1 /\ l \in -1..TTL /\ (l >= 0 => a + l = TTL)
    BY <2>1, <2>2, Limits
  <2>4. Older(e) = [decision |-> f, left |-> l]
    BY DEF Older, Expired
  <2> HIDE DEF a, l
  <2>5. f \in Decisions /\ f.age = a /\ f.err = d.err /\ f.ident = d.ident /\ f.cred = d.cred /\ f.era = d.era
    BY <2>1, <2>3 DEF Decisions
  <2> HIDE DEF f
  <2> QED BY <2>1, <2>3, <2>4, <2>5 DEF GoodEntry, About
<1>3. /\ auth' \in [Keys -> [decision : Decisions, left : -1..TTL] \cup {None}]
      /\ \A k \in Keys : GoodEntry(auth'[k], k) /\ (auth'[k] # None => auth[k] # None)
  <2>1. ASSUME NEW k \in Keys
        PROVE  /\ auth'[k] \in [decision : Decisions, left : -1..TTL] \cup {None}
               /\ GoodEntry(auth'[k], k) /\ (auth'[k] # None => auth[k] # None)
    <3>1. CASE auth[k] = None
      BY <1>1, <3>1 DEF GoodEntry
    <3>2. CASE auth[k] # None
      BY <1>1, <1>2, <3>2 DEF IInv
    <3> QED BY <3>1, <3>2
  <2> QED BY <1>1, <2>1
<1>4. TypeOK'
  BY <1>1, <1>3 DEF IInv, TypeOK
<1>5. Leaders'
  BY <1>1 DEF IInv, Leaders
<1>6. \A r \in Requests : GoodRequest(r)'
  BY <1>1 DEF IInv, GoodRequest
<1> QED BY <1>3, <1>4, <1>5, <1>6, FewerEntries DEF IInv

LEMMA InitHolds == Init => IInv
<1>1. SUFFICES ASSUME Init PROVE IInv
  OBVIOUS
<1>2. TypeOK
  BY <1>1 DEF Init, TypeOK
<1>3. Leaders
  BY <1>1 DEF Init, Leaders, Leading
<1>4. \A k \in Keys : GoodEntry(auth[k], k)
  BY <1>1 DEF Init, GoodEntry
<1>5. \A r \in Requests : GoodRequest(r)
  BY <1>1 DEF Init, GoodRequest, Active, Leading
<1>6. ASSUME NEW s PROVE Limited(s)
  <2>1. Entries(s) = {}
    BY <1>1 DEF Init, Entries
  <2>2. IsFiniteSet(Entries(s)) /\ Cardinality(Entries(s)) = 0
    BY <2>1, FS_EmptySet
  <2> QED BY <2>2, Limits DEF Limited
<1> QED BY <1>2, <1>3, <1>4, <1>5, <1>6 DEF IInv

LEMMA NextKeeps == IInv /\ [Next]_vars => IInv'
<1>1. SUFFICES ASSUME IInv, [Next]_vars PROVE IInv'
  OBVIOUS
<1>2. ASSUME NEW r \in Requests, NEW i \in Idents, NEW c \in Creds \cup {NoCred}, Begin(r, i, c)
      PROVE  IInv'
  BY <1>1, <1>2, BeginKeeps
<1>3. ASSUME NEW r \in Requests, Step(r) \/ GiveUp(r) \/ Leave(r) PROVE IInv'
  BY <1>1, <1>3, HitKeeps, MissKeeps, LeadProbeKeeps, JoinProbeKeeps, ProbeReturnsKeeps, StoreKeeps,
     FinishProbeKeeps, WakeKeeps, GiveUpKeeps, LeaveKeeps DEF Step
<1>4. ASSUME NEW i \in Idents, InvalidateAuth(i) PROVE IInv'
  BY <1>1, <1>4, InvalidateAuthKeeps
<1>5. CASE Tick
  BY <1>1, <1>5, TickKeeps
<1>6. CASE UNCHANGED vars
  <2>1. UNCHANGED <<pc, ident, cred, key, result, chan, answer, auth, probing, waiters, since>>
    BY <1>6 DEF vars, requestVars
  <2>2. TypeOK' /\ Leaders'
    BY <1>1, <2>1 DEF IInv, TypeOK, Leaders
  <2>3. \A r \in Requests : GoodRequest(r)'
    BY <1>1, <2>1 DEF IInv, GoodRequest
  <2> QED BY <1>1, <2>1, <2>2, <2>3, SameEntries DEF IInv
<1> QED BY <1>1, <1>2, <1>3, <1>4, <1>5, <1>6 DEF Next
---------------------------------------------------------------------------
\* Every behaviour keeps the invariant: what an entry of the decision cache, a result on
\* its way and an answer say, who leads a probe, and who is registered for its result.
THEOREM Invariance == Spec => []IInv
BY InitHolds, NextKeeps, PTL DEF Spec

\* Every variable of the authorization keeps its type.
THEOREM TypeCorrect == Spec => []TypeOK
<1>1. IInv => TypeOK
  BY DEF IInv
<1> QED BY <1>1, Invariance, PTL

\* No session is allowed by a decision about another one or about another source, and
\* none by a decision that the upstream took longer than the TTL ago.
THEOREM Grounded == Spec => []AllowsAreGrounded
<1>1. IInv => AllowsAreGrounded
  BY DEF IInv, GoodRequest, GoodAnswer, AllowsAreGrounded, Is
<1> QED BY <1>1, Invariance, PTL

\* Whoever is denied has just been denied by the upstream, for the credentials of the
\* request: no denial is remembered.
THEOREM DenialsCurrent == Spec => []DenialsAreCurrent
<1>1. IInv => DenialsAreCurrent
  BY DEF IInv, GoodRequest, GoodAnswer, DenialsAreCurrent, Is
<1> QED BY <1>1, Invariance, PTL

\* InvalidateAuth leaves no decision of the identifier in the cache.
THEOREM InvalidationCleared == Spec => []InvalidationClears
<1>1. ASSUME IInv PROVE InvalidationClears
  <2>1. SUFFICES ASSUME NEW r \in since, Is(r, "ok") PROVE answer[r].era \in {"new", "raced"}
    BY DEF InvalidationClears
  <2>2. r \in Requests
    BY <1>1, <2>1 DEF IInv, TypeOK
  <2>3. answer[r] \in Decisions /\ answer[r].era # "old"
    BY <1>1, <2>1, <2>2 DEF IInv, GoodRequest, GoodAnswer, Is
  <2> QED BY <2>3 DEF Decisions
<1> QED BY <1>1, Invariance, PTL

\* The decisions of a scope never exceed its limit, whichever entries are evicted.
THEOREM ScopesBounded == Spec => []ScopesAreBounded
<1>1. IInv => ScopesAreBounded
  BY DEF IInv, Limited, ScopesAreBounded
<1> QED BY <1>1, Invariance, PTL

\* A key is in the in-flight map while exactly one request probes it, and every waiter
\* without a result is registered with a key that is being probed.
THEOREM OneLeader == Spec => []ProbesHaveOneLeader
<1>1. ASSUME IInv PROVE ProbesHaveOneLeader
  <2>1. ASSUME NEW k \in Keys
        PROVE  Cardinality({r \in Requests : key[r] = k /\ pc[r] \in {"probe", "store", "finish"}})
                 = IF k \in probing THEN 1 ELSE 0
    <3> DEFINE leaders == {r \in Requests : key[r] = k /\ pc[r] \in {"probe", "store", "finish"}}
    <3>1. CASE k \in probing
      <4>1. PICK r \in Requests : pc[r] \in Leading /\ key[r] = k
        BY <1>1, <3>1 DEF IInv, Leaders
      <4>2. leaders = {r}
        BY <1>1, <4>1 DEF IInv, Leaders, Leading
      <4> QED BY <3>1, <4>2, FS_Singleton
    <3>2. CASE k \notin probing
      <4>1. leaders = {}
        BY <1>1, <3>2 DEF IInv, Leaders, Leading
      <4> QED BY <3>2, <4>1, FS_EmptySet
    <3> QED BY <3>1, <3>2
  <2>2. \A r \in Requests : pc[r] = "wait" /\ chan[r] = None =>
          key[r] \in probing /\ r \in waiters[key[r]]
    BY <1>1 DEF IInv, GoodRequest
  <2> QED BY <2>1, <2>2 DEF ProbesHaveOneLeader
<1> QED BY <1>1, Invariance, PTL
---------------------------------------------------------------------------
\* InvalidateAuth meets no decision about its identifier on the way from the upstream
\* to the cache or to a waiter.
Unraced ==
  \A i \in Idents : InvalidateAuth(i) =>
    \A r \in Requests : /\ result[r] # None => result[r].ident # i
                        /\ chan[r] # None => chan[r].ident # i

IsNew(d) == d # None => d.era = "new"

AllNew ==
  /\ \A k \in Keys : auth[k] # None => IsNew(auth[k].decision)
  /\ \A r \in Requests : IsNew(result[r]) /\ IsNew(chan[r]) /\ IsNew(answer[r])

LEMMA ConcludesNew ==
  ASSUME IInv, AllNew, NEW r \in Requests, NEW d, IsNew(d), Conclude(r, d)
  PROVE  \A s \in Requests : IsNew(answer'[s])
BY DEF Conclude, TryCredentials, Answer, IInv, TypeOK, AllNew

\* A request that goes on alone remembers, passes on and answers only new decisions.
LEMMA StepsAreNew ==
  ASSUME IInv, AllNew, NEW r \in Requests, Step(r) \/ GiveUp(r) \/ Leave(r)
  PROVE  AllNew'
<1> USE DEF AllNew
<1>1. CASE Hit(r)
  <2>1. pc[r] = "lookup" /\ auth[key[r]] # None /\ UNCHANGED <<result, chan, auth>>
    BY <1>1 DEF Hit
  <2>2. key[r] \in Keys
    BY <2>1, GoodKeys DEF IInv, GoodRequest, Active
  <2>3. answer' = answer \/ answer' = [answer EXCEPT ![r] = auth[key[r]].decision]
    BY <1>1 DEF Hit, TryCredentials, Answer
  <2> QED BY <2>1, <2>2, <2>3 DEF IInv, TypeOK
<1>2. CASE Miss(r)
  BY <1>2 DEF Miss, IInv, TypeOK
<1>3. CASE LeadProbe(r) \/ JoinProbe(r)
  BY <1>3 DEF LeadProbe, JoinProbe
<1>4. ASSUME NEW err \in Outcomes, ProbeReturns(r, err) PROVE AllNew'
  <2> DEFINE d == Decision(err, ident[r], IF Anonymous(r) THEN NoCred ELSE cred[r])
  <2>1. IsNew(d)
    BY DEF IsNew, Decision
  <2>2. result' = [result EXCEPT ![r] = d] /\ UNCHANGED <<chan, answer, auth>>
    BY <1>4 DEF ProbeReturns
  <2> HIDE DEF d
  <2> QED BY <2>1, <2>2 DEF IInv, TypeOK
<1>5. CASE Store(r)
  <2> DEFINE e == Entry(result[r])
  <2>1. pc[r] = "store" /\ UNCHANGED <<result, chan, answer>>
    BY <1>5 DEF Store
  <2>2. e.decision = result[r]
    BY DEF Entry
  <2>3. \A k \in Keys : auth'[k] \in {None, auth[k], e}
    BY <1>5 DEF Store
  <2> HIDE DEF e
  <2> QED BY <2>1, <2>2, <2>3
<1>6. CASE FinishProbe(r)
  <2>1. /\ UNCHANGED auth /\ result' = [result EXCEPT ![r] = None] /\ Conclude(r, result[r])
        /\ \A q \in Requests : chan'[q] \in {result[r], chan[q]}
    BY <1>6 DEF FinishProbe
  <2>2. \A q \in Requests : IsNew(answer'[q])
    BY <2>1, ConcludesNew
  <2>3. \A q \in Requests : IsNew(result'[q])
    BY <2>1 DEF IsNew, IInv, TypeOK
  <2> QED BY <2>1, <2>2, <2>3
<1>7. CASE Wake(r)
  <2>1. /\ UNCHANGED <<auth, result>> /\ chan' = [chan EXCEPT ![r] = None] /\ Conclude(r, chan[r])
    BY <1>7 DEF Wake
  <2>2. \A q \in Requests : IsNew(answer'[q])
    BY <2>1, ConcludesNew
  <2>3. \A q \in Requests : IsNew(chan'[q])
    BY <2>1 DEF IsNew, IInv, TypeOK
  <2> QED BY <2>1, <2>2, <2>3
<1>8. CASE GiveUp(r)
  <2> DEFINE d == Decision("error", ident[r], NoCred)
  <2>1. IsNew(d)
    BY DEF IsNew, Decision
  <2>2. /\ UNCHANGED <<auth, result>> /\ chan' = [chan EXCEPT ![r] = None]
        /\ answer' = [answer EXCEPT ![r] = d]
    BY <1>8 DEF GiveUp, Answer
  <2> HIDE DEF d
  <2>3. \A q \in Requests : IsNew(chan'[q])
    BY <2>2 DEF IsNew, IInv, TypeOK
  <2> QED BY <2>1, <2>2, <2>3 DEF IInv, TypeOK
<1>9. CASE Leave(r)
  <2>1. \A q \in Requests : IsNew(answer'[q])
    BY <1>9 DEF Leave, IsNew, IInv, TypeOK
  <2> QED BY <1>9, <2>1 DEF Leave
<1> QED BY <1>1, <1>2, <1>3, <1>4, <1>5, <1>6, <1>7, <1>8, <1>9 DEF Step

\* What InvalidateAuth leaves in the cache is about other identifiers.
LEMMA InvalidatesUnraced ==
  ASSUME IInv, AllNew, NEW i \in Idents, InvalidateAuth(i), Unraced
  PROVE  AllNew'
<1>1. \A r \in Requests : result'[r] = result[r] /\ chan'[r] = chan[r]
  BY DEF Unraced, InvalidateAuth, Aged
<1>2. \A k \in Keys : auth'[k] \in {None, auth[k]}
  <2>1. ASSUME NEW k \in Keys, auth[k] # None, ~Cleared(k, i)
        PROVE  [auth[k] EXCEPT !.decision = Aged(@, i, "old")] = auth[k]
    <3>1. auth[k] \in [decision : Decisions, left : -1..TTL] /\ auth[k].decision.ident = IdentOf(k)
      BY <2>1 DEF IInv, GoodEntry, About
    <3>2. Aged(auth[k].decision, i, "old") = auth[k].decision
      BY <2>1, <3>1 DEF Aged, Cleared
    <3> QED BY <3>1, <3>2
  <2> QED BY <2>1 DEF InvalidateAuth
<1>3. UNCHANGED answer
  BY DEF InvalidateAuth
<1> QED BY <1>1, <1>2, <1>3 DEF AllNew

LEMMA TicksAreNew ==
  ASSUME IInv, AllNew, Tick
  PROVE  AllNew'
<1>1. UNCHANGED <<result, chan, answer>> /\ auth' = [k \in Keys |-> IF auth[k] = None THEN None ELSE Older(auth[k])]
  BY DEF Tick, requestVars
<1>2. ASSUME NEW k \in Keys, auth[k] # None PROVE IsNew(Older(auth[k]).decision)
  <2>1. auth[k].decision \in Decisions /\ auth[k].decision.era = "new"
    BY <1>2, NoneIsNothing DEF AllNew, IsNew, IInv, GoodEntry
  <2>2. Older(auth[k]).decision.era = "new"
    BY <2>1 DEF Older, Decisions
  <2> QED BY <2>2 DEF IsNew
<1> QED BY <1>1, <1>2 DEF AllNew

\* Unless InvalidateAuth runs while a decision is between the upstream and the cache or
\* a waiter, nobody who begins after it is allowed by a decision from before it: that
\* race is the only way an old decision gets past it.
THEOREM OnlyTheRace == Spec /\ [][Unraced]_vars => []NoDecisionSurvivesInvalidation
<1>1. Init => AllNew
  BY DEF Init, AllNew, IsNew
<1>2. ASSUME IInv, AllNew, [Next]_vars, [Unraced]_vars PROVE AllNew'
  <2>1. ASSUME NEW r \in Requests, NEW i \in Idents, NEW c \in Creds \cup {NoCred}, Begin(r, i, c)
        PROVE  AllNew'
    BY <1>2, <2>1 DEF Begin, AllNew
  <2>2. ASSUME NEW r \in Requests, Step(r) \/ GiveUp(r) \/ Leave(r) PROVE AllNew'
    BY <1>2, <2>2, StepsAreNew
  <2>3. CASE UNCHANGED vars
    BY <1>2, <2>3 DEF AllNew, vars, requestVars
  <2>4. ASSUME NEW i \in Idents, InvalidateAuth(i) PROVE AllNew'
    BY <1>2, <2>3, <2>4, InvalidatesUnraced
  <2>5. CASE Tick
    BY <1>2, <2>5, TicksAreNew
  <2> QED BY <1>2, <2>1, <2>2, <2>3, <2>4, <2>5 DEF Next
<1>3. ASSUME IInv, AllNew PROVE NoDecisionSurvivesInvalidation
  <2>1. SUFFICES ASSUME NEW r \in since, Is(r, "ok") PROVE answer[r].era = "new"
    BY DEF NoDecisionSurvivesInvalidation
  <2>2. r \in Requests /\ answer[r] \in Decisions
    BY <1>3, <2>1 DEF IInv, TypeOK, GoodRequest, GoodAnswer, Is
  <2> QED BY <1>3, <2>2, NoneIsNothing DEF AllNew, IsNew
<1> QED BY <1>1, <1>2, <1>3, Invariance, PTL DEF Spec
============================================================================
