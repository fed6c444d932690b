------------------------- MODULE LocalSourceProofs -------------------------
(***************************************************************************)
(* Proofs about LocalSource, for any calls, sessions, mappings and files:  *)
(* no call gets past an authenticated mapping without permission, on none  *)
(* of the ways through the mappings, and no version is reported with older *)
(* bytes.                                                                  *)
(***************************************************************************)
EXTENDS LocalSource, TLAPS

\* The steps of a call that leads a HEAD request, those at which it has found a file
\* and those at which it is allowed to read it.
Leading == {"head", "publish"}
Seeing == {"stat", "authorize", "found", "reresolve", "restat", "open"}
Allowed == {"found", "reresolve", "restat", "open"}
Steps == {"idle", "resolve", "authfallback", "waiting", "fallback", "replied"} \cup Leading \cup Seeing

Files == [Roots -> [there : BOOLEAN, version : Versions]]
Snapshots == [disk : Files, upstream : Versions]

Typed ==
  /\ identifier \in Identifiers
  /\ disk \in Files
  /\ upstream \in Versions
  /\ pc \in [Requests -> Steps]
  /\ kind \in [Requests -> {"meta", "open", None}]
  /\ session \in [Requests -> Sessions \cup {None}]
  /\ at \in [Requests -> Roots]
  /\ seen \in [Requests -> Versions \cup {None}]
  /\ reply \in [Requests -> Answers \cup {None}]
  /\ leader \in [Keys -> Requests \cup {None}]
  /\ since \in [Requests -> Snapshots \cup {None}]

\* The map of HEAD requests in flight, and what the calls that wait for one share.
Coalesced ==
  /\ \A k \in Keys, r \in Requests : leader[k] = r <=> pc[r] \in Leading /\ Key(r) = k
  /\ \A r \in Requests : pc[r] = "waiting" =>
       /\ leader[Key(r)] \in Requests
       /\ since[r].upstream = since[leader[Key(r)]].upstream

\* A session is permitted if a mapping up to number i, or before it, probes.
Cleared(who, i) == \A j \in Matching : Mappings[j].probe /\ j <= i => who \in Permitted
ClearedBefore(who, i) == \A j \in Matching : Mappings[j].probe /\ j < i => who \in Permitted

\* A call that began with the snapshot b is at a step, at root i, has seen version v and
\* got the answer a, now that the files and the upstream have the versions d and u.
Sound(who, i, a, b) ==
  a # Failed =>
    /\ a.by = who
    /\ Cleared(who, i)
    /\ a.from = "shared" => Cleared(who, Len(Mappings))
    /\ a.from \in {"private", "public"} => b.disk[i].version <= a.meta
    /\ a.from = "auth" => b.upstream <= a.meta
    /\ a.meta <= a.bytes

Good(step, who, i, v, a, b, d, u) ==
  /\ step = "idle" => i = 0
  /\ step # "idle" =>
       /\ who \in Sessions
       /\ b \in Snapshots
       /\ b.upstream <= u
       /\ \A j \in Roots : b.disk[j].version <= d[j].version
  /\ step \in {"resolve", "stat", "authorize", "authfallback", "head", "waiting", "publish"} =>
       ClearedBefore(who, i)
  /\ step \in Allowed => Cleared(who, i)
  /\ step = "fallback" => Cleared(who, Len(Mappings))
  /\ step \in Seeing => v \in Versions /\ b.disk[i].version <= v /\ v <= d[i].version
  /\ step = "publish" /\ v # None => who \in Permitted /\ b.upstream <= v /\ v <= u
  /\ a # None <=> step = "replied"
  /\ step = "replied" => Sound(who, i, a, b)

GoodRequest(r) ==
  Good(pc[r], session[r], at[r], seen[r], reply[r], since[r], disk, upstream)

IInv == Typed /\ Coalesced /\ \A r \in Requests : GoodRequest(r)
---------------------------------------------------------------------------
\* Constants and derived sets.
LEMMA RootsAreNumbers ==
  /\ Roots \subseteq Nat /\ 0 \in Roots /\ Len(Mappings) \in Roots
  /\ Matching \subseteq Roots /\ \A j \in Matching : 1 <= j /\ j <= Len(Mappings)
BY MappingsType, SMT DEF Roots, Matching

LEMMA VersionsAreNumbers == Versions \subseteq Nat /\ 1 \in Versions
BY MaxVersionType, SMT DEF Versions

LEMMA NotOlderThanItself ==
  ASSUME NEW v \in Versions
  PROVE  v <= v
<1>1. v \in Nat
  BY VersionsAreNumbers
<1> QED BY <1>1

LEMMA FailedIsAnswer == Failed \in Answers /\ None \notin Answers
BY NoneIsNothing DEF Answers

\* Whatever a step of another call leaves alone.
Untouched(s) ==
  /\ pc'[s] = pc[s] /\ kind'[s] = kind[s] /\ session'[s] = session[s] /\ at'[s] = at[s]
  /\ seen'[s] = seen[s] /\ reply'[s] = reply[s] /\ since'[s] = since[s]

\* A call that leads nothing, and goes on alone, keeps the invariant if it does so for
\* itself.
LEMMA OneMoves ==
  ASSUME IInv, Typed', UNCHANGED <<identifier, disk, upstream, leader>>,
         NEW r \in Requests, \A s \in Requests \ {r} : Untouched(s),
         pc[r] \notin Leading, pc'[r] \notin Leading \cup {"waiting"}, GoodRequest(r)'
  PROVE  IInv'
<1>1. Coalesced'
  <2>1. \A s \in Requests \ {r} : Key(s)' = Key(s)
    BY DEF Untouched, Key
  <2>2. ASSUME NEW k \in Keys, NEW s \in Requests
        PROVE  leader'[k] = s <=> pc'[s] \in Leading /\ Key(s)' = k
    BY <2>1 DEF IInv, Coalesced, Untouched
  <2>3. ASSUME NEW s \in Requests, pc'[s] = "waiting"
        PROVE  leader'[Key(s)'] \in Requests /\ since'[s].upstream = since'[leader'[Key(s)']].upstream
    <3>1. s # r /\ pc[s] = "waiting" /\ Key(s)' = Key(s)
      BY <2>1, <2>3 DEF Untouched
    <3>2. leader[Key(s)] \in Requests /\ since[s].upstream = since[leader[Key(s)]].upstream
      BY <3>1 DEF IInv, Coalesced
    <3>3. Key(s) \in Keys
      BY <3>1 DEF Key, Keys, IInv, Typed, GoodRequest, Good
    <3>4. leader[Key(s)] # r
      BY <3>2, <3>3 DEF IInv, Coalesced
    <3> QED BY <3>1, <3>2, <3>4 DEF Untouched
  <2> QED BY <2>2, <2>3 DEF Coalesced
<1>2. ASSUME NEW s \in Requests PROVE GoodRequest(s)'
  <2>1. CASE s = r
    BY <2>1
  <2>2. CASE s # r
    BY <2>2 DEF IInv, Untouched, GoodRequest, Good, Sound, Cleared, ClearedBefore, Matching
  <2> QED BY <2>1, <2>2
<1> QED BY <1>1, <1>2 DEF IInv
---------------------------------------------------------------------------
\* The next mapping is the first that matches behind this one: none is skipped.
LEMMA NoneIsSkipped ==
  ASSUME IInv, NEW r \in Requests, NEW i \in Roots, Continue(r, i), NEW who, Cleared(who, i)
  PROVE  /\ pc' \in [Requests -> Steps] /\ at' \in [Requests -> Roots]
         /\ \A s \in Requests \ {r} : pc'[s] = pc[s] /\ at'[s] = at[s]
         /\ \/ pc'[r] = "resolve" /\ ClearedBefore(who, at'[r])
            \/ pc'[r] = "fallback" /\ at'[r] = at[r] /\ Cleared(who, Len(Mappings))
<1> DEFINE later == {j \in Matching : j > i}
<1>0. pc \in [Requests -> Steps] /\ at \in [Requests -> Roots]
  BY DEF IInv, Typed
<1>1. CASE later = {} /\ pc' = [pc EXCEPT ![r] = "fallback"] /\ UNCHANGED at
  <2>1. \A j \in Matching : j <= i
    <3>1. \A j \in Matching : ~(j > i)
      BY <1>1
    <3> QED BY <3>1, RootsAreNumbers, SMT
  <2>2. Cleared(who, Len(Mappings))
    BY <2>1 DEF Cleared
  <2> QED BY <1>0, <1>1, <2>2 DEF Steps
<1>2. ASSUME NEW j \in later, \A k \in later : j <= k, at' = [at EXCEPT ![r] = j],
             pc' = [pc EXCEPT ![r] = "resolve"]
      PROVE  /\ pc' \in [Requests -> Steps] /\ at' \in [Requests -> Roots]
             /\ \A s \in Requests \ {r} : pc'[s] = pc[s] /\ at'[s] = at[s]
             /\ pc'[r] = "resolve" /\ ClearedBefore(who, at'[r])
  <2>1. j \in Roots
    BY RootsAreNumbers
  <2>2. \A k \in Matching : k < j => k <= i
    <3>1. SUFFICES ASSUME NEW k \in Matching, k < j, k > i PROVE FALSE
      BY RootsAreNumbers, SMT
    <3>2. j <= k
      BY <1>2, <3>1
    <3> QED BY <2>1, <3>1, <3>2, RootsAreNumbers, SMT
  <2>3. ClearedBefore(who, j)
    BY <2>2 DEF Cleared, ClearedBefore
  <2> QED BY <1>0, <1>2, <2>1, <2>3 DEF Steps
<1> HIDE DEF later
<1> QED BY <1>1, <1>2 DEF Continue, later

\* Nothing is asked for under the root of the file opener.
LEMMA NothingBeforeTheFirst == \A who : Cleared(who, 0)
<1>1. \A j \in Matching : ~(j <= 0)
  BY RootsAreNumbers, SMT
<1> QED BY <1>1 DEF Cleared

\* A mapping that does not probe, or whose probe allowed the session, is passed.
LEMMA PassedIsCleared ==
  ASSUME NEW who, NEW i \in Roots, ClearedBefore(who, i),
         i # 0 /\ Mappings[i].probe => who \in Permitted
  PROVE  Cleared(who, i)
<1>1. SUFFICES ASSUME NEW j \in Matching, Mappings[j].probe, j <= i PROVE who \in Permitted
  BY DEF Cleared
<1>2. CASE j < i
  BY <1>1, <1>2 DEF ClearedBefore
<1>3. CASE j = i
  <2>1. i # 0
    BY <1>3, RootsAreNumbers, SMT
  <2> QED BY <1>1, <1>3, <2>1
<1> QED BY <1>1, <1>2, <1>3, RootsAreNumbers, SMT

LEMMA ClearedIsClearedBefore ==
  ASSUME NEW who, NEW i \in Roots, Cleared(who, i)
  PROVE  ClearedBefore(who, i)
<1>1. \A j \in Matching : j < i => j <= i
  BY RootsAreNumbers, SMT
<1> QED BY <1>1 DEF Cleared, ClearedBefore

\* What a snapshot and the present versions are.
LEMMA PresentIsTyped ==
  ASSUME Typed
  PROVE  /\ Now \in Snapshots
         /\ upstream \in Nat /\ \A i \in Roots : disk[i].version \in Versions /\ disk[i].version \in Nat
BY VersionsAreNumbers DEF Typed, Now, Snapshots, Files

\* The answer of a mapping or of the file opener.
LEMMA AnswersAreTyped ==
  ASSUME NEW from \in {"private", "public", "auth", "shared"}, NEW meta \in Versions,
         NEW bytes \in Versions, NEW by \in Sessions
  PROVE  /\ Answer(from, meta, bytes, by) \in Answers
         /\ Answer(from, meta, bytes, by) # None
BY NoneIsNothing DEF Answer, Answers
---------------------------------------------------------------------------
\* One lemma for each action.
LEMMA BeginKeeps ==
  ASSUME IInv, NEW r \in Requests, Begin(r)
  PROVE  IInv'
<1>1. PICK k \in {"meta", "open"}, who \in Sessions :
        kind' = [kind EXCEPT ![r] = k] /\ session' = [session EXCEPT ![r] = who]
  BY DEF Begin
<1>2. /\ pc[r] = "idle"
      /\ \/ pc' = [pc EXCEPT ![r] = "resolve"] /\ at' = at
         \/ Continue(r, 0)
      /\ since' = [since EXCEPT ![r] = Now]
      /\ UNCHANGED <<identifier, disk, upstream, seen, reply, leader>>
  BY DEF Begin, Goto
<1>3. at[r] = 0 /\ reply[r] = None
  BY <1>2 DEF IInv, GoodRequest, Good
<1>4. /\ pc' \in [Requests -> Steps] /\ at' \in [Requests -> Roots]
      /\ \A s \in Requests \ {r} : pc'[s] = pc[s] /\ at'[s] = at[s]
      /\ \/ pc'[r] = "resolve" /\ ClearedBefore(who, at'[r])
         \/ pc'[r] = "fallback" /\ Cleared(who, Len(Mappings))
  <2>1. CASE pc' = [pc EXCEPT ![r] = "resolve"] /\ at' = at
    BY <1>3, <2>1, NothingBeforeTheFirst, ClearedIsClearedBefore, RootsAreNumbers DEF IInv, Typed, Steps
  <2>2. CASE Continue(r, 0)
    BY <2>2, NothingBeforeTheFirst, NoneIsSkipped, RootsAreNumbers
  <2> QED BY <1>2, <2>1, <2>2
<1>5. Typed'
  BY <1>1, <1>2, <1>4, PresentIsTyped DEF IInv, Typed
<1>6. \A s \in Requests \ {r} : Untouched(s)
  BY <1>1, <1>2, <1>4 DEF IInv, Typed, Untouched
<1>7. GoodRequest(r)'
  <2>1. /\ session'[r] = who /\ since'[r] = Now /\ reply'[r] = None
        /\ Now \in Snapshots /\ Now.upstream <= upstream
        /\ \A j \in Roots : Now.disk[j].version <= disk[j].version
    BY <1>1, <1>2, <1>3, PresentIsTyped, SMT DEF IInv, Typed, Now
  <2> QED BY <1>2, <1>4, <2>1 DEF GoodRequest, Good, Cleared, ClearedBefore, Matching, Allowed, Seeing
<1>8. pc[r] \notin Leading /\ pc'[r] \notin Leading \cup {"waiting"}
  BY <1>2, <1>4 DEF Leading
<1> QED BY <1>2, <1>5, <1>6, <1>7, <1>8, OneMoves
---------------------------------------------------------------------------
\* The three ways a call goes on.

\* To another step, with what its last stat saw.
LEMMA GoesOn ==
  ASSUME IInv, NEW r \in Requests, pc[r] \notin Leading \cup {"idle", "replied"},
         NEW step \in {"stat", "authorize", "authfallback"} \cup Allowed,
         NEW v \in Versions \cup {None},
         Goto(r, step), seen' = [seen EXCEPT ![r] = v],
         UNCHANGED <<identifier, disk, upstream, kind, session, at, reply, leader, since>>,
         step \in {"stat", "authorize", "authfallback"} => ClearedBefore(session[r], at[r]),
         step \in Allowed => Cleared(session[r], at[r]),
         step \in Seeing =>
           v \in Versions /\ since[r].disk[at[r]].version <= v /\ v <= disk[at[r]].version
  PROVE  IInv'
<1>1. Typed'
  BY DEF IInv, Typed, Goto, Steps, Allowed, Seeing
<1>2. pc'[r] = step /\ seen'[r] = v /\ \A s \in Requests \ {r} : Untouched(s)
  BY DEF IInv, Typed, Goto, Untouched
<1>3. GoodRequest(r)'
  BY <1>2 DEF IInv, GoodRequest, Good, Cleared, ClearedBefore, Matching, Allowed
<1>4. step \notin Leading \cup {"waiting"}
  BY DEF Leading, Allowed
<1> QED BY <1>1, <1>2, <1>3, <1>4, OneMoves

\* To the next mapping.
LEMMA MovesOn ==
  ASSUME IInv, NEW r \in Requests, pc[r] \notin Leading \cup {"idle", "replied"},
         Continue(r, at[r]), Cleared(session[r], at[r]),
         UNCHANGED <<identifier, disk, upstream, kind, session, seen, reply, leader, since>>
  PROVE  IInv'
<1>1. at[r] \in Roots
  BY DEF IInv, Typed
<1>2. /\ pc' \in [Requests -> Steps] /\ at' \in [Requests -> Roots]
      /\ \A s \in Requests \ {r} : pc'[s] = pc[s] /\ at'[s] = at[s]
      /\ \/ pc'[r] = "resolve" /\ ClearedBefore(session[r], at'[r])
         \/ pc'[r] = "fallback" /\ at'[r] = at[r] /\ Cleared(session[r], Len(Mappings))
  BY <1>1, NoneIsSkipped
<1>3. Typed'
  BY <1>2 DEF IInv, Typed
<1>4. \A s \in Requests \ {r} : Untouched(s)
  BY <1>2 DEF Untouched
<1>5. GoodRequest(r)'
  BY <1>2 DEF IInv, GoodRequest, Good, Cleared, ClearedBefore, Matching, Allowed, Seeing
<1>6. pc'[r] \notin Leading \cup {"waiting"}
  BY <1>2 DEF Leading
<1> QED BY <1>3, <1>4, <1>5, <1>6, OneMoves

\* To its answer.
LEMMA Replies ==
  ASSUME IInv, NEW r \in Requests, pc[r] \notin Leading \cup {"idle", "replied"},
         NEW a \in Answers, Reply(r, a),
         NEW b \in Snapshots, since' = [since EXCEPT ![r] = b],
         b.upstream <= upstream, b.disk = since[r].disk,
         Sound(session[r], at[r], a, b),
         UNCHANGED <<identifier, disk, upstream, kind, session, at, seen, leader>>
  PROVE  IInv'
<1>1. Typed'
  BY DEF IInv, Typed, Goto, Reply, Steps
<1>2. /\ pc'[r] = "replied" /\ reply'[r] = a /\ since'[r] = b
      /\ \A s \in Requests \ {r} : Untouched(s)
  BY DEF IInv, Typed, Goto, Reply, Untouched
<1>3. a # None
  BY FailedIsAnswer
<1>4. Sound(session[r], at[r], a, b)'
  BY DEF Sound, Cleared, Matching
<1>5. GoodRequest(r)'
  BY <1>2, <1>3, <1>4 DEF IInv, GoodRequest, Good, Allowed, Seeing
<1>6. pc'[r] \notin Leading \cup {"waiting"}
  BY <1>2 DEF Leading
<1> QED BY <1>1, <1>2, <1>5, <1>6, OneMoves
---------------------------------------------------------------------------
\* One lemma for each action of a call.
LEMMA FailKeeps ==
  ASSUME IInv, NEW r \in Requests, Fail(r)
  PROVE  IInv'
<1>1. since[r] \in Snapshots /\ since[r].upstream <= upstream /\ since' = [since EXCEPT ![r] = since[r]]
  BY DEF Fail, IInv, Typed, GoodRequest, Good
<1>2. Sound(session[r], at[r], Failed, since[r])
  BY DEF Sound
<1>3. pc[r] \notin Leading \cup {"idle", "replied"}
  BY DEF Fail, Leading
<1> QED BY <1>1, <1>2, <1>3, FailedIsAnswer, Replies DEF Fail

LEMMA ResolveKeeps ==
  ASSUME IInv, NEW r \in Requests, Resolve(r)
  PROVE  IInv'
<1>1. /\ disk[at[r]].version \in Versions
      /\ disk[at[r]].version <= disk[at[r]].version
      /\ since[r].disk[at[r]].version <= disk[at[r]].version
      /\ ClearedBefore(session[r], at[r])
      /\ pc[r] = "resolve"
  BY PresentIsTyped, SMT DEF Resolve, IInv, Typed, GoodRequest, Good
<1> QED BY <1>1, GoesOn DEF Resolve, OnDisk, Leading, Seeing, Allowed

LEMMA MissingKeeps ==
  ASSUME IInv, NEW r \in Requests, Missing(r)
  PROVE  IInv'
<1>1. /\ pc[r] \in {"resolve", "stat"} /\ at[r] \in Roots
      /\ NotFound(r) /\ UNCHANGED <<identifier, disk, upstream, kind, session, seen, leader, since>>
      /\ ClearedBefore(session[r], at[r])
  BY DEF Missing, IInv, Typed, GoodRequest, Good
<1>2. pc[r] \notin Leading \cup {"idle", "replied"}
  BY <1>1 DEF Leading
<1>3. CASE Reply(r, Failed) /\ UNCHANGED at
  <2>1. since[r] \in Snapshots /\ since[r].upstream <= upstream /\ since' = [since EXCEPT ![r] = since[r]]
    BY <1>1 DEF IInv, Typed, GoodRequest, Good
  <2>2. Sound(session[r], at[r], Failed, since[r])
    BY DEF Sound
  <2> QED BY <1>1, <1>2, <1>3, <2>1, <2>2, FailedIsAnswer, Replies
<1>4. CASE Goto(r, "authfallback") /\ UNCHANGED <<at, reply>>
  <2>1. seen[r] \in Versions \cup {None} /\ seen' = [seen EXCEPT ![r] = seen[r]]
    BY <1>1 DEF IInv, Typed
  <2> QED BY <1>1, <1>2, <1>4, <2>1, GoesOn DEF Allowed, Seeing
<1>5. CASE at[r] # 0 /\ ~Probes(r) /\ Continue(r, at[r]) /\ UNCHANGED reply
  <2>1. Cleared(session[r], at[r])
    BY <1>1, <1>5, PassedIsCleared DEF Probes
  <2> QED BY <1>1, <1>2, <1>5, <2>1, MovesOn
<1> QED BY <1>1, <1>3, <1>4, <1>5 DEF NotFound

LEMMA StatKeeps ==
  ASSUME IInv, NEW r \in Requests, Stat(r)
  PROVE  IInv'
<1> DEFINE v == IF Ocfl(r) THEN seen[r] ELSE disk[at[r]].version
           step == IF at[r] = 0 THEN "found" ELSE "authorize"
<1>1. pc[r] = "stat" /\ pc[r] \notin Leading \cup {"idle", "replied"} /\ at[r] \in Roots
  BY DEF Stat, IInv, Typed, Leading
<1>2. seen' = [seen EXCEPT ![r] = v] /\ Goto(r, step)
  BY DEF Stat, OnDisk
<1>3. disk[at[r]].version \in Versions /\ since[r].disk[at[r]].version <= disk[at[r]].version
  BY <1>1, PresentIsTyped DEF IInv, GoodRequest, Good
<1>4. seen[r] \in Versions /\ since[r].disk[at[r]].version <= seen[r] /\ seen[r] <= disk[at[r]].version
  BY <1>1 DEF IInv, GoodRequest, Good, Seeing
<1>5. v \in Versions /\ since[r].disk[at[r]].version <= v /\ v <= disk[at[r]].version
  BY <1>1, <1>3, <1>4, PresentIsTyped, SMT DEF IInv
<1>6. ClearedBefore(session[r], at[r])
  BY <1>1 DEF IInv, GoodRequest, Good
<1>7. step = "found" => Cleared(session[r], at[r])
  BY NothingBeforeTheFirst
<1>8. step \in {"authorize", "found"}
  OBVIOUS
<1>9. UNCHANGED <<identifier, disk, upstream, kind, session, at, reply, leader, since>>
  BY DEF Stat
<1> HIDE DEF v, step
<1>10. step \in {"stat", "authorize", "authfallback"} \cup Allowed
  BY <1>8 DEF Allowed
<1>11. step \in Allowed => Cleared(session[r], at[r])
  BY <1>7, <1>8 DEF Allowed
<1> QED BY <1>1, <1>2, <1>5, <1>6, <1>9, <1>10, <1>11, GoesOn

LEMMA AuthorizeKeeps ==
  ASSUME IInv, NEW r \in Requests, Authorize(r)
  PROVE  IInv'
<1>1. pc[r] = "authorize" /\ pc[r] \notin Leading \cup {"idle", "replied"} /\ at[r] \in Roots
  BY DEF Authorize, IInv, Typed, Leading
<1>2. /\ seen[r] \in Versions /\ since[r].disk[at[r]].version <= seen[r] /\ seen[r] <= disk[at[r]].version
      /\ ClearedBefore(session[r], at[r]) /\ seen' = [seen EXCEPT ![r] = seen[r]]
  BY <1>1 DEF Authorize, IInv, Typed, GoodRequest, Good, Seeing
<1>3. Cleared(session[r], at[r])
  BY <1>1, <1>2, PassedIsCleared DEF Authorize, Probes
<1> QED BY <1>1, <1>2, <1>3, GoesOn DEF Authorize, Allowed

LEMMA ReopenKeeps ==
  ASSUME IInv, NEW r \in Requests, Reopen(r) \/ Reresolve(r)
  PROVE  IInv'
<1>1. pc[r] \in {"found", "reresolve"} /\ pc[r] \notin Leading \cup {"idle", "replied"}
  BY DEF Reopen, Reresolve, Leading
<1>2. /\ seen[r] \in Versions /\ since[r].disk[at[r]].version <= seen[r] /\ seen[r] <= disk[at[r]].version
      /\ Cleared(session[r], at[r]) /\ seen' = [seen EXCEPT ![r] = seen[r]]
  BY <1>1 DEF Reopen, Reresolve, IInv, Typed, GoodRequest, Good, Seeing, Allowed
<1>3. \E step \in {"reresolve", "restat", "open"} : Goto(r, step)
  BY DEF Reopen, Reresolve
<1>4. UNCHANGED <<identifier, disk, upstream, kind, session, at, reply, leader, since>>
  BY DEF Reopen, Reresolve
<1> QED BY <1>1, <1>2, <1>3, <1>4, GoesOn DEF Allowed

LEMMA RestatKeeps ==
  ASSUME IInv, NEW r \in Requests, Restat(r)
  PROVE  IInv'
<1>1. /\ disk[at[r]].version \in Versions
      /\ disk[at[r]].version <= disk[at[r]].version
      /\ since[r].disk[at[r]].version <= disk[at[r]].version
      /\ Cleared(session[r], at[r])
      /\ pc[r] = "restat"
  BY PresentIsTyped, SMT DEF Restat, IInv, Typed, GoodRequest, Good, Allowed
<1> QED BY <1>1, GoesOn DEF Restat, OnDisk, Leading, Seeing, Allowed

\* The answer of a mapping: the version that the stat saw, and bytes no older than it.
LEMMA LocalKeeps ==
  ASSUME IInv, NEW r \in Requests, pc[r] \in {"found", "open"},
         NEW bytes \in Versions, seen[r] <= bytes, Local(r, seen[r], bytes),
         UNCHANGED <<identifier, disk, upstream, kind, session, at, seen, leader, since>>
  PROVE  IInv'
<1>1. /\ seen[r] \in Versions /\ since[r].disk[at[r]].version <= seen[r]
      /\ Cleared(session[r], at[r]) /\ session[r] \in Sessions
      /\ since[r] \in Snapshots /\ since[r].upstream <= upstream /\ since' = [since EXCEPT ![r] = since[r]]
  BY DEF IInv, Typed, GoodRequest, Good, Seeing, Allowed
<1>2. PICK from \in {"private", "public"} : Reply(r, Answer(from, seen[r], bytes, session[r]))
  BY DEF Local
<1> DEFINE a == Answer(from, seen[r], bytes, session[r])
<1>3. a \in Answers
  BY <1>1, AnswersAreTyped
<1>4. a.from = from /\ a.meta = seen[r] /\ a.bytes = bytes /\ a.by = session[r]
  BY DEF Answer
<1> HIDE DEF a
<1>5. Sound(session[r], at[r], a, since[r])
  BY <1>1, <1>4 DEF Sound
<1>6. pc[r] \notin Leading \cup {"idle", "replied"}
  BY DEF Leading
<1>7. Reply(r, a)
  BY <1>2 DEF a
<1> QED BY <1>1, <1>3, <1>5, <1>6, <1>7, Replies

LEMMA ReplyMetaKeeps ==
  ASSUME IInv, NEW r \in Requests, ReplyMeta(r)
  PROVE  IInv'
<1>1. pc[r] = "found" /\ seen[r] \in Versions
  BY DEF ReplyMeta, IInv, GoodRequest, Good, Seeing
<1>2. seen[r] <= seen[r]
  BY <1>1, NotOlderThanItself
<1> QED BY <1>1, <1>2, LocalKeeps DEF ReplyMeta

LEMMA OpenKeeps ==
  ASSUME IInv, NEW r \in Requests, Open(r)
  PROVE  IInv'
<1>1. pc[r] = "open" /\ at[r] \in Roots
  BY DEF Open, IInv, Typed
<1>2. seen[r] \in Versions /\ seen[r] <= disk[at[r]].version
  BY <1>1 DEF IInv, GoodRequest, Good, Seeing
<1>3. disk[at[r]].version \in Versions
  BY <1>1, PresentIsTyped DEF IInv
<1>4. seen[r] <= seen[r]
  BY <1>2, NotOlderThanItself
<1>5. PICK bytes \in {seen[r], disk[at[r]].version} : Local(r, seen[r], bytes)
  BY DEF Open, OnDisk
<1> QED BY <1>1, <1>2, <1>3, <1>4, <1>5, LocalKeeps DEF Open

LEMMA DisappearedKeeps ==
  ASSUME IInv, NEW r \in Requests, Disappeared(r)
  PROVE  IInv'
<1>1. /\ pc[r] \in {"reresolve", "open"} /\ pc[r] \notin Leading \cup {"idle", "replied"}
      /\ UNCHANGED <<identifier, disk, upstream, kind, session, seen, leader, since>>
  BY DEF Disappeared, Leading
<1>2. /\ since[r] \in Snapshots /\ since[r].upstream <= upstream /\ since' = [since EXCEPT ![r] = since[r]]
      /\ Cleared(session[r], at[r])
  BY <1>1 DEF IInv, Typed, GoodRequest, Good, Allowed
<1>3. CASE Reply(r, Failed) /\ UNCHANGED at
  <2>1. Sound(session[r], at[r], Failed, since[r])
    BY DEF Sound
  <2> QED BY <1>1, <1>2, <1>3, <2>1, FailedIsAnswer, Replies
<1>4. CASE Continue(r, at[r]) /\ UNCHANGED reply
  BY <1>1, <1>2, <1>4, MovesOn
<1> QED BY <1>3, <1>4 DEF Disappeared

\* An answer of the upstream is that of a version it has had, whoever asked first.
LEMMA UpToIsVersion ==
  ASSUME Typed, NEW v \in 1..upstream
  PROVE  v \in Versions /\ v \in Nat /\ v <= upstream /\ v <= v
BY MaxVersionType, SMT DEF Typed, Versions

LEMMA FetchOpenKeeps ==
  ASSUME IInv, NEW r \in Requests, FetchOpen(r)
  PROVE  IInv'
<1>1. PICK v \in 1..upstream :
        /\ Reply(r, Answer("auth", v, v, session[r]))
        /\ since' = [since EXCEPT ![r].upstream = IF v < @ THEN v ELSE @]
  BY DEF FetchOpen
<1>2. /\ pc[r] = "authfallback" /\ pc[r] \notin Leading \cup {"idle", "replied"}
      /\ session[r] \in Permitted
      /\ UNCHANGED <<identifier, disk, upstream, kind, session, at, seen, leader>>
  BY DEF FetchOpen, Leading
<1>3. /\ since[r] \in Snapshots /\ since[r].upstream <= upstream /\ session[r] \in Sessions
      /\ since[r].upstream \in Nat /\ since[r].upstream \in Versions
  BY <1>2, VersionsAreNumbers DEF IInv, GoodRequest, Good, Snapshots
<1>4. v \in Versions /\ v \in Nat /\ v <= upstream /\ v <= v
  BY UpToIsVersion DEF IInv
<1> DEFINE u == IF v < since[r].upstream THEN v ELSE since[r].upstream
           b == [since[r] EXCEPT !.upstream = u]
           a == Answer("auth", v, v, session[r])
<1>5. u \in Versions /\ u <= v /\ u <= upstream
  BY <1>3, <1>4, SMT
<1>6. b \in Snapshots /\ b.disk = since[r].disk /\ b.upstream = u
  BY <1>3, <1>5 DEF Snapshots
<1>7. since' = [since EXCEPT ![r] = b]
  BY <1>1
<1>8. a.from = "auth" /\ a.meta = v /\ a.bytes = v /\ a.by = session[r]
  BY DEF Answer
<1>9. a \in Answers
  BY <1>3, <1>4, AnswersAreTyped
<1>10. Reply(r, a)
  BY <1>1
<1> HIDE DEF a, b, u
<1>11. Sound(session[r], at[r], a, b)
  BY <1>2, <1>4, <1>5, <1>6, <1>8 DEF Sound, Cleared
<1>12. b.upstream <= upstream
  BY <1>5, <1>6
<1> QED BY <1>2, <1>6, <1>7, <1>9, <1>10, <1>11, <1>12, Replies

LEMMA FallbackKeeps ==
  ASSUME IInv, NEW r \in Requests, Fallback(r)
  PROVE  IInv'
<1>1. PICK v \in 1..upstream : Reply(r, Answer("shared", v, v, session[r]))
  BY DEF Fallback
<1>2. /\ pc[r] = "fallback" /\ pc[r] \notin Leading \cup {"idle", "replied"} /\ at[r] \in Roots
      /\ UNCHANGED <<identifier, disk, upstream, kind, session, at, seen, leader, since>>
  BY DEF Fallback, Leading, IInv, Typed
<1>3. /\ since[r] \in Snapshots /\ since[r].upstream <= upstream /\ since' = [since EXCEPT ![r] = since[r]]
      /\ session[r] \in Sessions /\ Cleared(session[r], Len(Mappings))
  BY <1>2 DEF IInv, Typed, GoodRequest, Good
<1>4. v \in Versions /\ v <= v
  BY UpToIsVersion DEF IInv
<1>5. Cleared(session[r], at[r])
  BY <1>3, RootsAreNumbers DEF Cleared
<1> DEFINE a == Answer("shared", v, v, session[r])
<1>6. a.from = "shared" /\ a.meta = v /\ a.bytes = v /\ a.by = session[r]
  BY DEF Answer
<1>7. a \in Answers
  BY <1>3, <1>4, AnswersAreTyped
<1>8. Reply(r, a)
  BY <1>1
<1> HIDE DEF a
<1>9. Sound(session[r], at[r], a, since[r])
  BY <1>3, <1>4, <1>5, <1>6 DEF Sound
<1> QED BY <1>2, <1>3, <1>7, <1>8, <1>9, Replies

LEMMA ReturnKeeps ==
  ASSUME IInv, NEW r \in Requests, Return(r)
  PROVE  IInv'
<1>1. Typed'
  BY RootsAreNumbers DEF Return, Goto, IInv, Typed, Steps
<1>2. /\ pc'[r] = "idle" /\ at'[r] = 0 /\ reply'[r] = None
      /\ \A s \in Requests \ {r} : Untouched(s)
  BY DEF Return, Goto, IInv, Typed, Untouched
<1>3. GoodRequest(r)'
  BY <1>2 DEF GoodRequest, Good, Allowed, Seeing
<1>4. pc[r] \notin Leading /\ pc'[r] \notin Leading \cup {"waiting"}
  BY <1>2 DEF Return, Leading
<1> QED BY <1>1, <1>2, <1>3, <1>4, OneMoves DEF Return
---------------------------------------------------------------------------
\* The calls that share a HEAD request.
LEMMA KeysAreKeys ==
  ASSUME IInv, NEW r \in Requests, pc[r] # "idle"
  PROVE  Key(r) \in Keys
BY DEF IInv, Typed, GoodRequest, Good, Key, Keys

LEMMA LeadMetaKeeps ==
  ASSUME IInv, NEW r \in Requests, LeadMeta(r)
  PROVE  IInv'
<1>1. /\ pc[r] = "authfallback" /\ leader[Key(r)] = None
      /\ leader' = [leader EXCEPT ![Key(r)] = r] /\ pc' = [pc EXCEPT ![r] = "head"]
      /\ UNCHANGED <<identifier, disk, upstream, kind, session, at, seen, reply, since>>
  BY DEF LeadMeta, Goto
<1>2. Key(r) \in Keys /\ None \notin Requests
  BY <1>1, KeysAreKeys, NoneIsNothing
<1>3. Typed'
  BY <1>1, <1>2 DEF IInv, Typed, Steps, Leading
<1>4. /\ pc'[r] = "head" /\ \A s \in Requests \ {r} : pc'[s] = pc[s]
      /\ leader'[Key(r)] = r /\ \A k \in Keys \ {Key(r)} : leader'[k] = leader[k]
      /\ \A s \in Requests : Key(s)' = Key(s)
  BY <1>1, <1>2 DEF IInv, Typed, Key
<1>5. ASSUME NEW k \in Keys, NEW s \in Requests
      PROVE  leader'[k] = s <=> pc'[s] \in Leading /\ Key(s)' = k
  BY <1>1, <1>2, <1>4 DEF IInv, Coalesced, Leading
<1>6. ASSUME NEW s \in Requests, pc'[s] = "waiting"
      PROVE  leader'[Key(s)'] \in Requests /\ since'[s].upstream = since'[leader'[Key(s)']].upstream
  <2>1. s # r /\ pc[s] = "waiting" /\ Key(s)' = Key(s)
    BY <1>4, <1>6
  <2>2. leader[Key(s)] \in Requests /\ since[s].upstream = since[leader[Key(s)]].upstream
    BY <2>1 DEF IInv, Coalesced
  <2>3. Key(s) \in Keys /\ Key(s) # Key(r)
    BY <1>1, <1>2, <2>1, <2>2, KeysAreKeys
  <2> QED BY <1>1, <1>4, <2>1, <2>2, <2>3
<1>7. Coalesced'
  BY <1>5, <1>6 DEF Coalesced
<1>8. ASSUME NEW s \in Requests PROVE GoodRequest(s)'
  <2>1. CASE s = r
    BY <1>1, <1>4, <2>1 DEF IInv, GoodRequest, Good, Cleared, ClearedBefore, Matching, Allowed, Seeing
  <2>2. CASE s # r
    BY <1>1, <1>4, <2>2 DEF IInv, GoodRequest, Good, Sound, Cleared, ClearedBefore, Matching
  <2> QED BY <2>1, <2>2
<1> QED BY <1>3, <1>7, <1>8 DEF IInv

LEMMA JoinMetaKeeps ==
  ASSUME IInv, NEW r \in Requests, JoinMeta(r)
  PROVE  IInv'
<1> DEFINE q == leader[Key(r)]
           b == [since[r] EXCEPT !.upstream = since[q].upstream]
<1>1. /\ pc[r] = "authfallback" /\ q # None /\ pc' = [pc EXCEPT ![r] = "waiting"]
      /\ since' = [since EXCEPT ![r] = b]
      /\ UNCHANGED <<identifier, disk, upstream, kind, session, at, seen, reply, leader>>
  BY DEF JoinMeta, Goto
<1>2. Key(r) \in Keys
  BY <1>1, KeysAreKeys
<1>3. q \in Requests /\ q # r /\ pc[q] \in Leading
  <2>1. q \in Requests
    BY <1>1, <1>2 DEF IInv, Typed
  <2> QED BY <1>1, <1>2, <2>1 DEF IInv, Coalesced, Leading
<1>4. since[q] \in Snapshots /\ since[q].upstream <= upstream
  BY <1>3 DEF IInv, GoodRequest, Good, Leading
<1>5. since[r] \in Snapshots /\ session[r] \in Sessions /\ ClearedBefore(session[r], at[r])
  BY <1>1 DEF IInv, GoodRequest, Good
<1>6. b \in Snapshots /\ b.upstream = since[q].upstream /\ b.disk = since[r].disk
  BY <1>4, <1>5 DEF Snapshots
<1> HIDE DEF b
<1>7. Typed'
  BY <1>1, <1>6 DEF IInv, Typed, Steps
<1>8. /\ pc'[r] = "waiting" /\ since'[r] = b
      /\ \A s \in Requests \ {r} : Untouched(s)
      /\ \A s \in Requests : Key(s)' = Key(s)
  BY <1>1 DEF IInv, Typed, Key, Untouched
<1>9. ASSUME NEW k \in Keys, NEW s \in Requests
      PROVE  leader'[k] = s <=> pc'[s] \in Leading /\ Key(s)' = k
  BY <1>1, <1>8 DEF IInv, Coalesced, Leading, Untouched
<1>10. ASSUME NEW s \in Requests, pc'[s] = "waiting"
       PROVE  leader'[Key(s)'] \in Requests /\ since'[s].upstream = since'[leader'[Key(s)']].upstream
  <2>1. CASE s = r
    BY <1>1, <1>3, <1>6, <1>8, <2>1 DEF Untouched
  <2>2. CASE s # r
    <3>1. pc[s] = "waiting" /\ Key(s)' = Key(s) /\ since'[s] = since[s]
      BY <1>8, <1>10, <2>2 DEF Untouched
    <3>2. leader[Key(s)] \in Requests /\ since[s].upstream = since[leader[Key(s)]].upstream
      BY <3>1 DEF IInv, Coalesced
    <3>3. leader[Key(s)] # r
      BY <1>1, <3>1, <3>2, KeysAreKeys DEF IInv, Coalesced, Leading
    <3> QED BY <1>1, <1>8, <3>1, <3>2, <3>3 DEF Untouched
  <2> QED BY <2>1, <2>2
<1>11. Coalesced'
  BY <1>9, <1>10 DEF Coalesced
<1>12. ASSUME NEW s \in Requests PROVE GoodRequest(s)'
  <2>1. CASE s = r
    <3>1. /\ pc'[r] = "waiting" /\ since'[r] = b /\ session'[r] = session[r] /\ at'[r] = at[r]
          /\ reply'[r] = reply[r] /\ seen'[r] = seen[r] /\ upstream' = upstream /\ disk' = disk
          /\ reply[r] = None /\ \A j \in Roots : since[r].disk[j].version <= disk[j].version
      BY <1>1, <1>8 DEF IInv, GoodRequest, Good
    <3>2. ClearedBefore(session[r], at[r])'
      BY <1>1, <1>5 DEF ClearedBefore, Matching
    <3> QED BY <1>1, <1>4, <1>5, <1>6, <2>1, <3>1, <3>2 DEF GoodRequest, Good, Allowed, Seeing
  <2>2. CASE s # r
    BY <1>1, <1>8, <2>2 DEF IInv, Untouched, GoodRequest, Good, Sound, Cleared, ClearedBefore, Matching
  <2> QED BY <2>1, <2>2
<1> QED BY <1>7, <1>11, <1>12 DEF IInv

LEMMA AskMetaKeeps ==
  ASSUME IInv, NEW r \in Requests, AskMeta(r)
  PROVE  IInv'
<1>1. /\ pc[r] = "head" /\ pc' = [pc EXCEPT ![r] = "publish"]
      /\ UNCHANGED <<identifier, disk, upstream, kind, session, at, reply, leader, since>>
  BY DEF AskMeta, Goto
<1>2. PICK v \in {None} \cup (IF session[r] \in Permitted THEN {upstream} ELSE {}) :
        seen' = [seen EXCEPT ![r] = v]
  BY DEF AskMeta
<1>3. Typed'
  BY <1>1, <1>2 DEF IInv, Typed, Steps, Leading
<1>4. /\ pc'[r] = "publish" /\ seen'[r] = v
      /\ \A s \in Requests \ {r} : Untouched(s)
      /\ \A s \in Requests : Key(s)' = Key(s)
  BY <1>1, <1>2 DEF IInv, Typed, Key, Untouched
<1>5. ASSUME NEW k \in Keys, NEW s \in Requests
      PROVE  leader'[k] = s <=> pc'[s] \in Leading /\ Key(s)' = k
  BY <1>1, <1>4 DEF IInv, Coalesced, Leading, Untouched
<1>6. ASSUME NEW s \in Requests, pc'[s] = "waiting"
      PROVE  leader'[Key(s)'] \in Requests /\ since'[s].upstream = since'[leader'[Key(s)']].upstream
  BY <1>1, <1>4, <1>6 DEF IInv, Coalesced, Untouched
<1>7. Coalesced'
  BY <1>5, <1>6 DEF Coalesced
<1>8. ASSUME NEW s \in Requests PROVE GoodRequest(s)'
  <2>1. CASE s = r
    <3>1. v # None => session[r] \in Permitted /\ since[r].upstream <= v /\ v <= upstream
      BY <1>1, <1>2, VersionsAreNumbers DEF IInv, Typed, GoodRequest, Good
    <3> QED BY <1>1, <1>4, <2>1, <3>1
      DEF IInv, GoodRequest, Good, Cleared, ClearedBefore, Matching, Allowed, Seeing
  <2>2. CASE s # r
    BY <1>1, <1>4, <2>2 DEF IInv, Untouched, GoodRequest, Good, Sound, Cleared, ClearedBefore, Matching
  <2> QED BY <2>1, <2>2
<1> QED BY <1>3, <1>7, <1>8 DEF IInv

\* The leader and those that wait for it have one key, and began with one version.
LEMMA PublishKeeps ==
  ASSUME IInv, NEW r \in Requests, Publish(r)
  PROVE  IInv'
<1> DEFINE v == seen[r]
           a == Shared(r)
<1>1. /\ pc[r] = "publish" /\ leader' = [leader EXCEPT ![Key(r)] = None]
      /\ reply' = [q \in Requests |-> IF q \in Sharing(r) THEN a ELSE reply[q]]
      /\ pc' = [q \in Requests |-> IF q \in Sharing(r) THEN "replied" ELSE pc[q]]
      /\ UNCHANGED <<identifier, disk, upstream, kind, session, at, seen, since>>
  BY DEF Publish
<1>2. Key(r) \in Keys /\ leader[Key(r)] = r /\ None \notin Requests
  <2>1. Key(r) \in Keys /\ None \notin Requests
    BY <1>1, KeysAreKeys, NoneIsNothing
  <2> QED BY <1>1, <2>1 DEF IInv, Coalesced, Leading
<1>3. /\ session[r] \in Sessions /\ v \in Versions \cup {None}
      /\ v # None => session[r] \in Permitted /\ since[r].upstream <= v
  BY <1>1 DEF IInv, Typed, GoodRequest, Good
<1>4. a \in Answers /\ a # None
  <2>1. CASE v = None
    BY <2>1, FailedIsAnswer DEF Shared
  <2>2. CASE v # None
    <3>1. v \in Versions
      BY <1>3, <2>2
    <3> QED BY <1>3, <2>2, <3>1, AnswersAreTyped DEF Shared
  <2> QED BY <2>1, <2>2
<1>5. a = Failed \/ /\ a.from = "auth" /\ a.meta = v /\ a.bytes = v /\ a.by = session[r]
                    /\ v \in Versions /\ session[r] \in Permitted /\ since[r].upstream <= v
  BY <1>3 DEF Shared, Answer
<1>6. Typed'
  BY <1>1, <1>2, <1>4 DEF IInv, Typed, Steps
<1>7. ASSUME NEW q \in Sharing(r)
      PROVE  session[q] = session[r] /\ since[q].upstream = since[r].upstream /\ pc'[q] = "replied"
             /\ reply'[q] = a /\ pc[q] # "idle" /\ q \in Requests
  <2>1. q \in Requests /\ Key(q) = Key(r)
    BY <1>1 DEF Sharing
  <2>2. session[q] = session[r]
    BY <2>1 DEF Key
  <2>3. since[q].upstream = since[r].upstream
    BY <1>2, <2>1 DEF Sharing, IInv, Coalesced
  <2>4. pc'[q] = "replied" /\ reply'[q] = a
    BY <1>1, <2>1
  <2>5. pc[q] # "idle"
    BY <1>1 DEF Sharing
  <2> QED BY <2>1, <2>2, <2>3, <2>4, <2>5
<1>8. \A s \in Requests \ Sharing(r) : Untouched(s)
  BY <1>1 DEF Untouched
<1>9. \A s \in Requests : Key(s)' = Key(s)
  BY <1>1 DEF Key
<1>10. leader'[Key(r)] = None /\ \A k \in Keys \ {Key(r)} : leader'[k] = leader[k]
  BY <1>1, <1>2 DEF IInv, Typed
<1>11. r \in Sharing(r) /\ \A s \in Sharing(r) : s # r => pc[s] = "waiting"
  BY DEF Sharing
<1>12. ASSUME NEW k \in Keys, NEW s \in Requests
       PROVE  leader'[k] = s <=> pc'[s] \in Leading /\ Key(s)' = k
  <2>1. CASE s = r
    BY <1>2, <1>7, <1>9, <1>10, <1>11, <2>1 DEF IInv, Coalesced, Leading
  <2>2. CASE s # r /\ s \in Sharing(r)
    BY <1>2, <1>7, <1>10, <1>11, <2>2 DEF IInv, Coalesced, Leading
  <2>3. CASE s \notin Sharing(r)
    BY <1>2, <1>8, <1>9, <1>10, <1>11, <2>3 DEF IInv, Coalesced, Untouched
  <2> QED BY <2>1, <2>2, <2>3
<1>13. ASSUME NEW s \in Requests, pc'[s] = "waiting"
       PROVE  leader'[Key(s)'] \in Requests /\ since'[s].upstream = since'[leader'[Key(s)']].upstream
  <2>1. s \notin Sharing(r)
    BY <1>7, <1>13
  <2>2. pc[s] = "waiting" /\ Key(s) # Key(r)
    BY <1>8, <1>13, <2>1 DEF Untouched, Sharing
  <2>3. Key(s) \in Keys
    BY <2>2, KeysAreKeys
  <2> QED BY <1>1, <1>9, <1>10, <2>2, <2>3 DEF IInv, Coalesced
<1>14. Coalesced'
  BY <1>12, <1>13 DEF Coalesced
<1>15. ASSUME NEW s \in Requests PROVE GoodRequest(s)'
  <2>1. CASE s \in Sharing(r)
    <3>1. /\ pc'[s] = "replied" /\ reply'[s] = a /\ session'[s] = session[r] /\ at'[s] = at[s]
          /\ since'[s] = since[s] /\ disk' = disk /\ upstream' = upstream
          /\ since[s].upstream = since[r].upstream
      BY <1>1, <1>7, <2>1
    <3>2. Sound(session[r], at[s], a, since[s])
      <4>1. CASE a = Failed
        BY <4>1 DEF Sound
      <4>2. CASE a # Failed
        <5> HIDE DEF a
        <5> QED BY <1>5, <3>1, <4>2, NotOlderThanItself DEF Sound, Cleared
      <4> QED BY <4>1, <4>2
    <3>3. /\ session[r] \in Sessions /\ since[s] \in Snapshots /\ since[s].upstream <= upstream
          /\ \A j \in Roots : since[s].disk[j].version <= disk[j].version
      BY <1>3, <1>7, <2>1 DEF IInv, GoodRequest, Good
    <3>4. Matching' = Matching
      BY <1>1 DEF Matching
    <3> HIDE DEF a
    <3>5. Sound(session[s], at[s], reply[s], since[s])'
      BY <3>1, <3>2, <3>4 DEF Sound, Cleared
    <3> QED BY <1>4, <3>1, <3>3, <3>5 DEF GoodRequest, Good, Allowed, Seeing
  <2>2. CASE s \notin Sharing(r)
    BY <1>1, <1>8, <2>2 DEF IInv, Untouched, GoodRequest, Good, Sound, Cleared, ClearedBefore, Matching
  <2> QED BY <2>1, <2>2
<1> QED BY <1>6, <1>14, <1>15 DEF IInv
---------------------------------------------------------------------------
\* Files and the upstream only change to later versions.
LEMMA ChangesKeep ==
  ASSUME IInv, Typed', UNCHANGED <<identifier, callVars, leader>>,
         upstream <= upstream', \A i \in Roots : disk[i].version <= disk'[i].version
  PROVE  IInv'
<1>0. UNCHANGED <<identifier, pc, kind, session, at, seen, reply, leader, since>>
  BY DEF callVars
<1>1. Coalesced'
  BY <1>0 DEF IInv, Coalesced, Key
<1>2. ASSUME NEW r \in Requests PROVE GoodRequest(r)'
  <2> DEFINE b == since[r]
  <2>1. /\ upstream \in Nat /\ upstream' \in Nat /\ at[r] \in Roots
        /\ \A i \in Roots : disk[i].version \in Nat /\ disk'[i].version \in Nat
    <3>1. at[r] \in Roots /\ upstream \in Versions /\ upstream' \in Versions
      BY DEF IInv, Typed
    <3>2. \A i \in Roots : disk[i].version \in Versions
      BY DEF IInv, Typed, Files
    <3>3. \A i \in Roots : disk'[i].version \in Versions
      BY DEF Typed, Files
    <3> QED BY <3>1, <3>2, <3>3, VersionsAreNumbers
  <2>2. pc[r] # "idle" =>
          /\ b \in Snapshots /\ session[r] \in Sessions
          /\ b.upstream \in Nat /\ b.upstream <= upstream
          /\ \A i \in Roots : b.disk[i].version \in Nat /\ b.disk[i].version <= disk[i].version
    BY VersionsAreNumbers DEF IInv, GoodRequest, Good, Snapshots, Files
  <2>3. pc[r] # "idle" => b.upstream <= upstream' /\ \A i \in Roots : b.disk[i].version <= disk'[i].version
    BY <2>1, <2>2
  <2>4. ASSUME seen[r] \in Versions, NEW x \in Nat, NEW y \in Nat, x <= y
        PROVE  seen[r] <= x => seen[r] <= y
    <3>1. seen[r] \in Nat
      BY <2>4, VersionsAreNumbers
    <3> QED BY <2>4, <3>1
  <2>5. seen[r] \in Versions =>
          /\ seen[r] <= disk[at[r]].version => seen[r] <= disk'[at[r]].version
          /\ seen[r] <= upstream => seen[r] <= upstream'
    BY <2>1, <2>4
  <2>6. pc[r] = "publish" /\ seen[r] # None => seen[r] \in Versions
    BY DEF IInv, Typed
  <2> QED BY <1>0, <2>2, <2>3, <2>5, <2>6
    DEF IInv, GoodRequest, Good, Sound, Cleared, ClearedBefore, Matching
<1> QED BY <1>1, <1>2 DEF IInv

LEMMA EnvironmentKeeps ==
  ASSUME IInv, (\E i \in Reachable : Write(i) \/ Unlink(i)) \/ UpstreamChanges
  PROVE  IInv'
<1>1. CASE UpstreamChanges
  <2>1. upstream' \in Versions /\ upstream <= upstream'
    BY <1>1, MaxVersionType, SMT DEF UpstreamChanges, IInv, Typed, Versions
  <2>2. \A i \in Roots : disk[i].version <= disk'[i].version
    BY <1>1, PresentIsTyped, NotOlderThanItself DEF UpstreamChanges, IInv
  <2>3. Typed'
    BY <1>1, <2>1 DEF UpstreamChanges, callVars, IInv, Typed
  <2> QED BY <1>1, <2>1, <2>2, <2>3, ChangesKeep DEF UpstreamChanges
<1>2. ASSUME NEW i \in Reachable, Write(i) \/ Unlink(i)
      PROVE  IInv'
  <2>1. i \in Roots
    BY RootsAreNumbers DEF Reachable
  <2>2. PICK f \in [there : BOOLEAN, version : Versions] :
          disk' = [disk EXCEPT ![i] = f] /\ disk[i].version <= f.version
    <3>1. CASE Write(i)
      <4>1. disk[i].version \in Versions /\ disk[i].version < MaxVersion
        BY <2>1, <3>1, PresentIsTyped DEF Write, IInv
      <4>2. disk[i].version + 1 \in Versions /\ disk[i].version <= disk[i].version + 1
        BY <4>1, MaxVersionType, SMT DEF Versions
      <4> DEFINE f == [there |-> TRUE, version |-> disk[i].version + 1]
      <4>3. f \in [there : BOOLEAN, version : Versions] /\ disk[i].version <= f.version
        BY <4>2
      <4>4. disk' = [disk EXCEPT ![i] = f]
        BY <3>1 DEF Write
      <4> QED BY <4>3, <4>4
    <3>2. CASE Unlink(i)
      <4>1. disk[i] \in [there : BOOLEAN, version : Versions] /\ disk[i].version <= disk[i].version
        BY <2>1, PresentIsTyped, NotOlderThanItself DEF IInv, Typed, Files
      <4>2. [disk[i] EXCEPT !.there = FALSE] \in [there : BOOLEAN, version : Versions]
        BY <4>1
      <4> QED BY <2>1, <3>2, <4>1, <4>2 DEF Unlink, IInv, Typed, Files
    <3> QED BY <1>2, <3>1, <3>2
  <2>3. UNCHANGED <<identifier, upstream, callVars, leader>>
    BY <1>2 DEF Write, Unlink
  <2>4. Typed'
    BY <2>1, <2>2, <2>3 DEF callVars, IInv, Typed, Files
  <2>5. \A j \in Roots : disk[j].version <= disk'[j].version
    BY <2>1, <2>2, PresentIsTyped, NotOlderThanItself DEF IInv, Typed, Files
  <2>6. upstream <= upstream'
    BY <2>3, NotOlderThanItself DEF IInv, Typed
  <2> QED BY <2>3, <2>4, <2>5, <2>6, ChangesKeep
<1> QED BY <1>1, <1>2

LEMMA InitHolds == Init => IInv
<1>1. SUFFICES ASSUME Init PROVE IInv
  OBVIOUS
<1>2. Typed
  BY <1>1, RootsAreNumbers, VersionsAreNumbers DEF Init, Typed, Steps, Files
<1>3. Coalesced
  BY <1>1, NoneIsNothing DEF Init, Coalesced, Leading
<1>4. \A r \in Requests : GoodRequest(r)
  BY <1>1 DEF Init, GoodRequest, Good, Allowed, Seeing
<1> QED BY <1>2, <1>3, <1>4 DEF IInv

LEMMA NextKeeps == IInv /\ [Next]_vars => IInv'
<1>1. SUFFICES ASSUME IInv, [Next]_vars PROVE IInv'
  OBVIOUS
<1>2. ASSUME NEW r \in Requests, Step(r) PROVE IInv'
  BY <1>1, <1>2, BeginKeeps, ResolveKeeps, MissingKeeps, StatKeeps, AuthorizeKeeps, ReplyMetaKeeps,
     ReopenKeeps, RestatKeeps, OpenKeeps, DisappearedKeeps, FetchOpenKeeps, LeadMetaKeeps,
     JoinMetaKeeps, AskMetaKeeps, PublishKeeps, FallbackKeeps, FailKeeps, ReturnKeeps DEF Step
<1>3. CASE (\E i \in Reachable : Write(i) \/ Unlink(i)) \/ UpstreamChanges
  BY <1>1, <1>3, EnvironmentKeeps
<1>4. CASE UNCHANGED vars
  BY <1>1, <1>4 DEF vars, callVars, IInv, Typed, Coalesced, Key, GoodRequest, Good, Sound, Cleared,
                    ClearedBefore, Matching
<1> QED BY <1>1, <1>2, <1>3, <1>4 DEF Next
---------------------------------------------------------------------------
\* Every reachable state of the calls and of the map of HEAD requests satisfies IInv:
\* where a call is tells which mappings have allowed its session and how old what it
\* has seen may be.
THEOREM Invariance == Spec => []IInv
BY InitHolds, NextKeeps, PTL DEF Spec

\* Every variable of the model of the source openers has its type, and a call leads the
\* HEAD request of a key just while it asks the upstream for it.
THEOREM TypeCorrect == Spec => []TypeOK
<1>1. ASSUME IInv PROVE TypeOK
  <2>1. /\ identifier \in Identifiers
        /\ disk \in [Roots -> [there : BOOLEAN, version : Versions]]
        /\ upstream \in Versions
        /\ pc \in [Requests -> {"idle", "resolve", "stat", "authorize", "found", "reresolve",
                                "restat", "open", "authfallback", "head", "waiting", "publish",
                                "fallback", "replied"}]
        /\ kind \in [Requests -> {"meta", "open", None}]
        /\ session \in [Requests -> Sessions \cup {None}]
        /\ at \in [Requests -> Roots]
        /\ seen \in [Requests -> Versions \cup {None}]
        /\ reply \in [Requests -> Answers \cup {None}]
        /\ leader \in [Keys -> Requests \cup {None}]
    BY <1>1 DEF IInv, Typed, Steps, Leading, Seeing, Files
  <2>2. \A r \in Requests : reply[r] # None <=> pc[r] = "replied"
    BY <1>1 DEF IInv, GoodRequest, Good
  <2>3. \A k \in Keys, r \in Requests : leader[k] = r <=> pc[r] \in {"head", "publish"} /\ Key(r) = k
    BY <1>1 DEF IInv, Coalesced, Leading
  <2>4. \A r \in Requests : pc[r] = "waiting" => leader[Key(r)] # None
    BY <1>1, NoneIsNothing DEF IInv, Coalesced
  <2> QED BY <2>1, <2>2, <2>3, <2>4 DEF TypeOK
<1> QED BY <1>1, Invariance, PTL

\* On every way through the mappings, a file that has disappeared on the way included,
\* a call that gets an answer was allowed by each probing mapping it went past.
THEOREM Permission == Spec => []ServedIsPermitted
<1>1. ASSUME IInv PROVE ServedIsPermitted
  <2>1. SUFFICES ASSUME NEW r \in Requests, pc[r] = "replied", reply[r] # Failed
                 PROVE  /\ reply[r].by = session[r]
                        /\ \A i \in Matching :
                             Mappings[i].probe /\ (i <= at[r] \/ reply[r].from = "shared") =>
                               session[r] \in Permitted
    BY DEF ServedIsPermitted
  <2>2. Sound(session[r], at[r], reply[r], since[r])
    BY <1>1, <2>1 DEF IInv, GoodRequest, Good
  <2>3. /\ reply[r].by = session[r] /\ Cleared(session[r], at[r])
        /\ reply[r].from = "shared" => Cleared(session[r], Len(Mappings))
    BY <2>1, <2>2 DEF Sound
  <2> QED BY <2>3, RootsAreNumbers DEF Cleared
<1> QED BY <1>1, Invariance, PTL

\* The bytes of an answer are no older than the version reported with them, and that is
\* no older than the file, or the upstream, was when the call began.
THEOREM Freshness == Spec => []AnswersAreCurrent
<1>1. ASSUME IInv PROVE AnswersAreCurrent
  <2>1. SUFFICES ASSUME NEW r \in Requests, pc[r] = "replied",
                        reply[r].from \in {"private", "public", "auth"}
                 PROVE  /\ (IF reply[r].from = "auth" THEN since[r].upstream
                              ELSE since[r].disk[at[r]].version) <= reply[r].meta
                        /\ reply[r].meta <= reply[r].bytes
    BY DEF AnswersAreCurrent
  <2>2. reply[r] # Failed
    BY <2>1 DEF Failed, Answer
  <2>3. Sound(session[r], at[r], reply[r], since[r])
    BY <1>1, <2>1 DEF IInv, GoodRequest, Good
  <2> QED BY <2>1, <2>2, <2>3 DEF Sound
<1> QED BY <1>1, Invariance, PTL
============================================================================
