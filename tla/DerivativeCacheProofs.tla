----------------------- MODULE DerivativeCacheProofs -----------------------
(***************************************************************************)
(* Proofs about DerivativeCache, for any requests, versions, invalidations *)
(* and times: what is served is as new as the request; it is whole while   *)
(* the disk keeps bytes; and an acknowledged invalidation hides what was   *)
(* written before it, under the conditions of Scheduled.                   *)
(***************************************************************************)
EXTENDS DerivativeCache, TLAPS

Steps == {"idle", "marker", "lookup", "transform", "write", "copy", "rename", "answered"}

\* The disk keeps the bytes of a file whose name it keeps.
Kept == "bytes" \notin PowerLoss

\* A request: its step, the version in its key, the version it has made, its temporary
\* file, its answer, what it began with, and the present version of the source.
Good(step, v, m, w, a, b, now) ==
  /\ step = "idle" => v = None
  /\ step # "idle" => b \in [source : Versions, acked : Epochs] /\ b.source <= now
  /\ step \in {"marker", "lookup", "write", "copy", "rename"} => v # None
  /\ step # "idle" /\ v # None => b.source <= v /\ v <= now
  /\ step \in {"write", "copy", "rename"} => v <= m
  /\ step = "rename" => w.whole
  /\ step = "answered" => (Kept => a.whole) /\ b.source <= a.bytes /\ (v # None => v <= a.bytes)

GoodRequest(r) == Good(pc[r], version[r], made[r], written[r], got[r], began[r], source)

\* No file, and no copy of a client, is older than the version in its key.
GoodFile(f, k) == f # None => (Kept => f.whole) /\ k.version <= f.bytes
GoodCopy(c) == c # None => (Kept => c.whole) /\ c.etag.version <= c.bytes

\* An invalidation on its way to the marker has its version and its time.
Pending == ipc = "rename" => iversion \in 1..MaxInvalidations /\ iwritten \in Times

IInv ==
  /\ TypeOK
  /\ \A r \in Requests : GoodRequest(r)
  /\ \A k \in Keys : GoodFile(files[k], k)
  /\ GoodCopy(copy)
  /\ Pending
---------------------------------------------------------------------------
LEMMA Numbers ==
  /\ Versions \subseteq Nat /\ Epochs \subseteq Nat /\ Times \subseteq Nat
  /\ 1 \in Versions /\ 0 \in Epochs /\ 0 \in Times
  /\ MaxAge \in Nat /\ MaxVersion \in Nat /\ MaxInvalidations \in Nat /\ MaxTime \in Nat
BY Bounds DEF Versions, Epochs, Times

LEMMA KeysOfRequests ==
  ASSUME TypeOK, NEW r \in Requests, version[r] # None
  PROVE  Key(r) \in Keys /\ Key(r).version = version[r] /\ Key(r).ns = ns[r]
BY DEF TypeOK, Key, Keys

LEMMA AnswersAreTyped ==
  ASSUME NEW bytes \in Versions, NEW whole \in BOOLEAN, NEW epoch \in Epochs \cup {None}
  PROVE  /\ Response(bytes, whole, epoch) \in Responses /\ Response(bytes, whole, epoch) # None
         /\ Response(bytes, whole, epoch).bytes = bytes /\ Response(bytes, whole, epoch).whole = whole
         /\ Response(bytes, whole, epoch).epoch = epoch
BY NoneIsNothing DEF Response, Responses

\* What a step of another request leaves alone.
Untouched(s) ==
  /\ pc'[s] = pc[s] /\ version'[s] = version[s] /\ ns'[s] = ns[s] /\ made'[s] = made[s]
  /\ written'[s] = written[s] /\ got'[s] = got[s] /\ began'[s] = began[s]

LEMMA OneServes ==
  ASSUME IInv, TypeOK', UNCHANGED <<source, invVars>>, NEW r \in Requests, \A s \in Requests \ {r} : Untouched(s),
         GoodRequest(r)', \A k \in Keys : GoodFile(files'[k], k), GoodCopy(copy')
  PROVE  IInv'
<1>1. ASSUME NEW s \in Requests PROVE GoodRequest(s)'
  <2>1. CASE s = r
    BY <2>1
  <2>2. CASE s # r
    BY <2>2 DEF IInv, Untouched, GoodRequest
  <2> QED BY <2>1, <2>2
<1>2. (\A k \in Keys : GoodFile(files[k], k))' /\ GoodCopy(copy)'
  BY DEF GoodFile, GoodCopy
<1>3. Pending'
  BY DEF IInv, Pending, invVars
<1> QED BY <1>1, <1>2, <1>3 DEF IInv

\* The answer to a request ends what it holds.
LEMMA Answers ==
  ASSUME IInv, NEW r \in Requests, pc[r] # "idle", NEW a \in Responses, Answer(r, a),
         Kept => a.whole, began[r].source <= a.bytes, version[r] # None => version[r] <= a.bytes,
         UNCHANGED <<version, ns, began, source, clock, marker, invVars, cleanVars, copy>>,
         files' \in [Keys -> Files \cup {None}], \A k \in Keys : GoodFile(files'[k], k)
  PROVE  IInv'
<1>1. a # None
  BY NoneIsNothing
<1>2. /\ pc' = [pc EXCEPT ![r] = "answered"] /\ got' = [got EXCEPT ![r] = a]
      /\ made' = [made EXCEPT ![r] = None] /\ written' = [written EXCEPT ![r] = None]
  BY DEF Answer, Goto
<1>3. /\ pc' \in [Requests -> Steps] /\ got' \in [Requests -> Responses \cup {None}]
      /\ made' \in [Requests -> Versions \cup {None}] /\ written' \in [Requests -> Temps \cup {None}]
      /\ pc'[r] = "answered" /\ got'[r] = a /\ made'[r] = None /\ written'[r] = None
      /\ \A s \in Requests \ {r} : Untouched(s)
  BY <1>2 DEF IInv, TypeOK, Steps, Untouched
<1>4. /\ \A s \in Requests : made'[s] # None <=> pc'[s] \in {"write", "copy", "rename"}
      /\ \A s \in Requests : written'[s] # None <=> pc'[s] \in {"copy", "rename"}
      /\ \A s \in Requests : got'[s] # None <=> pc'[s] = "answered"
  BY <1>1, <1>3 DEF IInv, TypeOK, Untouched
<1>5. TypeOK'
  BY <1>3, <1>4 DEF IInv, TypeOK, Steps, invVars, cleanVars
<1>6. GoodRequest(r)'
  BY <1>3 DEF IInv, GoodRequest, Good
<1> QED BY <1>3, <1>5, <1>6, OneServes DEF IInv
---------------------------------------------------------------------------
\* One lemma for each action of a request.
LEMMA ReadMetaKeeps ==
  ASSUME IInv, NEW r \in Requests, ReadMeta(r)
  PROVE  IInv'
<1>1. TypeOK'
  BY DEF ReadMeta, Goto, IInv, TypeOK, invVars, cleanVars
<1>2. /\ \A s \in Requests \ {r} : Untouched(s)
      /\ UNCHANGED <<source, files, copy, invVars>>
      /\ began'[r] = [source |-> source, acked |-> acked] /\ source \in Versions /\ acked \in Epochs
      /\ version[r] = None
      /\ \/ version'[r] = source /\ pc'[r] = "marker"
         \/ version'[r] = None /\ pc'[r] = "transform"
  BY DEF ReadMeta, Goto, IInv, TypeOK, Untouched, GoodRequest, Good
<1>3. source <= source /\ source # None
  BY <1>2, Numbers, NoneIsNothing
<1>4. GoodRequest(r)'
  BY <1>2, <1>3 DEF GoodRequest, Good
<1> QED BY <1>1, <1>2, <1>4, OneServes DEF IInv

LEMMA ReadMarkerKeeps ==
  ASSUME IInv, NEW r \in Requests, ReadMarker(r)
  PROVE  IInv'
<1>1. PICK n \in Namespaces : ns' = [ns EXCEPT ![r] = n]
  <2>1. CASE \E n \in Readings(marker) : ns' = [ns EXCEPT ![r] = n]
    BY <2>1 DEF Readings
  <2>2. CASE UNCHANGED ns
    BY <2>2 DEF IInv, TypeOK
  <2> QED BY <2>1, <2>2 DEF ReadMarker
<1>2. TypeOK'
  BY <1>1 DEF ReadMarker, Goto, IInv, TypeOK, invVars, cleanVars
<1>3. /\ \A s \in Requests \ {r} : Untouched(s)
      /\ UNCHANGED <<version, made, got, began, source, files, copy, invVars>>
      /\ pc[r] = "marker" /\ pc'[r] = "lookup"
  BY <1>1 DEF ReadMarker, Goto, IInv, TypeOK, Untouched
<1>4. GoodRequest(r)'
  BY <1>3 DEF IInv, GoodRequest, Good
<1> QED BY <1>2, <1>3, <1>4, OneServes DEF IInv

LEMMA MissKeeps ==
  ASSUME IInv, NEW r \in Requests, Miss(r)
  PROVE  IInv'
<1>1. TypeOK'
  BY DEF Miss, Goto, IInv, TypeOK, invVars, cleanVars
<1>2. /\ \A s \in Requests \ {r} : Untouched(s)
      /\ UNCHANGED <<version, made, got, began, source, files, copy, invVars>>
      /\ pc[r] = "lookup" /\ pc'[r] = "transform"
  BY DEF Miss, Goto, IInv, TypeOK, Untouched
<1>3. GoodRequest(r)'
  BY <1>2 DEF IInv, GoodRequest, Good
<1> QED BY <1>1, <1>2, <1>3, OneServes DEF IInv

\* A copy, and a file of the cache, is not older than the version it is found under.
LEMMA NotModifiedKeeps ==
  ASSUME IInv, NEW r \in Requests, NotModified(r)
  PROVE  IInv'
<1> DEFINE a == Response(copy.bytes, copy.whole, None)
<1>1. /\ pc[r] = "lookup" /\ copy # None /\ copy.etag = Key(r) /\ Answer(r, a)
      /\ UNCHANGED <<version, ns, began, source, clock, files, marker, invVars, cleanVars, copy>>
  BY DEF NotModified
<1>2. version[r] # None /\ began[r].source <= version[r] /\ began[r] \in [source : Versions, acked : Epochs]
  BY <1>1 DEF IInv, GoodRequest, Good
<1>3. Key(r).version = version[r] /\ version[r] \in Versions
  BY <1>2, KeysOfRequests DEF IInv, TypeOK
<1>4. copy.bytes \in Versions /\ copy.whole \in BOOLEAN /\ (Kept => copy.whole) /\ version[r] <= copy.bytes
  BY <1>1, <1>3 DEF IInv, TypeOK, Copies, GoodCopy
<1>5. a \in Responses /\ a.whole = copy.whole /\ a.bytes = copy.bytes
  BY <1>4, AnswersAreTyped
<1> HIDE DEF a
<1>6. began[r].source <= a.bytes
  <2>1. began[r].source \in Nat /\ version[r] \in Nat /\ copy.bytes \in Nat
    BY <1>2, <1>3, <1>4, Numbers
  <2> QED BY <1>2, <1>4, <1>5, <2>1
<1>7. files' \in [Keys -> Files \cup {None}] /\ \A k \in Keys : GoodFile(files'[k], k)
  BY <1>1 DEF IInv, TypeOK
<1> QED BY <1>1, <1>4, <1>5, <1>6, <1>7, Answers

LEMMA HitKeeps ==
  ASSUME IInv, NEW r \in Requests, Hit(r)
  PROVE  IInv'
<1> DEFINE f == files[Key(r)]
           a == Response(f.bytes, f.whole, f.epoch)
<1>1. /\ pc[r] = "lookup" /\ f # None /\ Answer(r, a)
      /\ UNCHANGED <<version, ns, began, source, clock, files, marker, invVars, cleanVars, copy>>
  BY DEF Hit, Live
<1>2. version[r] # None /\ began[r].source <= version[r] /\ began[r] \in [source : Versions, acked : Epochs]
  BY <1>1 DEF IInv, GoodRequest, Good
<1>3. Key(r) \in Keys /\ Key(r).version = version[r] /\ version[r] \in Versions
  BY <1>2, KeysOfRequests DEF IInv, TypeOK
<1>4. f \in Files /\ (Kept => f.whole) /\ version[r] <= f.bytes
  BY <1>1, <1>3 DEF IInv, TypeOK, GoodFile
<1>5. f.bytes \in Versions /\ f.whole \in BOOLEAN /\ f.epoch \in Epochs
  BY <1>4 DEF Files
<1>6. a \in Responses /\ a.whole = f.whole /\ a.bytes = f.bytes
  BY <1>5, AnswersAreTyped
<1>7. began[r].source <= f.bytes
  <2> HIDE DEF f
  <2>1. began[r].source \in Nat /\ version[r] \in Nat /\ f.bytes \in Nat
    BY <1>2, <1>3, <1>5, Numbers
  <2> QED BY <1>2, <1>4, <2>1
<1>8. files' \in [Keys -> Files \cup {None}] /\ \A k \in Keys : GoodFile(files'[k], k)
  BY <1>1 DEF IInv, TypeOK
<1> HIDE DEF f, a
<1> QED BY <1>1, <1>4, <1>6, <1>7, <1>8, Answers

\* The source only gets newer, so what is made of it is as new as the version read before.
LEMMA TransformKeeps ==
  ASSUME IInv, NEW r \in Requests, Transform(r)
  PROVE  IInv'
<1>1. /\ pc[r] = "transform"
      /\ UNCHANGED <<version, ns, began, source, clock, files, marker, invVars, cleanVars, copy>>
  BY DEF Transform
<1>2. /\ source \in Versions /\ began[r].source <= source
      /\ version[r] # None => began[r].source <= version[r] /\ version[r] <= source
  BY <1>1 DEF IInv, TypeOK, GoodRequest, Good
<1>3. CASE version[r] = None /\ Answer(r, Response(source, TRUE, None))
  <2> DEFINE a == Response(source, TRUE, None)
  <2>1. a \in Responses /\ a.whole /\ a.bytes = source
    BY <1>2, AnswersAreTyped
  <2>2. files' \in [Keys -> Files \cup {None}] /\ \A k \in Keys : GoodFile(files'[k], k)
    BY <1>1 DEF IInv, TypeOK
  <2>3. Answer(r, a)
    BY <1>3
  <2> HIDE DEF a
  <2> QED BY <1>1, <1>2, <1>3, <2>1, <2>2, <2>3, Answers
<1>4. CASE version[r] # None /\ made' = [made EXCEPT ![r] = source] /\ Goto(r, "write") /\ UNCHANGED <<written, got>>
  <2>1. source # None
    BY <1>2, NoneIsNothing
  <2>2. TypeOK'
    BY <1>1, <1>2, <1>4, <2>1 DEF Goto, IInv, TypeOK, invVars, cleanVars
  <2>3. pc'[r] = "write" /\ made'[r] = source /\ \A s \in Requests \ {r} : Untouched(s)
    BY <1>1, <1>4 DEF Goto, IInv, TypeOK, Untouched
  <2>4. GoodRequest(r)'
    BY <1>1, <1>2, <1>4, <2>3 DEF IInv, GoodRequest, Good
  <2> QED BY <1>1, <2>2, <2>3, <2>4, OneServes DEF IInv
<1> QED BY <1>3, <1>4 DEF Transform

\* Put goes on to its next step with a temporary file.
LEMMA TempKeeps ==
  ASSUME IInv, NEW r \in Requests, NEW w \in Temps, NEW next,
         (pc[r] = "write" /\ next = "copy") \/ (pc[r] = "copy" /\ next = "rename" /\ w.whole),
         written' = [written EXCEPT ![r] = w], pc' = [pc EXCEPT ![r] = next],
         UNCHANGED <<version, ns, made, got, began, source, clock, files, marker, invVars, cleanVars, copy>>
  PROVE  IInv'
<1>1. w # None
  BY NoneIsNothing
<1>2. TypeOK'
  BY <1>1 DEF IInv, TypeOK, invVars, cleanVars
<1>3. pc'[r] = next /\ written'[r] = w /\ \A s \in Requests \ {r} : Untouched(s)
  BY DEF IInv, TypeOK, Untouched
<1>4. GoodRequest(r)'
  BY <1>3 DEF IInv, GoodRequest, Good
<1> QED BY <1>2, <1>3, <1>4, OneServes DEF IInv

LEMMA WriteTempKeeps ==
  ASSUME IInv, NEW r \in Requests, WriteTemp(r)
  PROVE  IInv'
<1>1. Partial \in Temps
  BY Numbers DEF Partial, Temps
<1> QED BY <1>1, TempKeeps DEF WriteTemp, Goto

LEMMA CopyRestKeeps ==
  ASSUME IInv, NEW r \in Requests, CopyRest(r)
  PROVE  IInv'
<1> DEFINE w == [whole |-> TRUE, mtime |-> clock, epoch |-> begun]
<1>1. w \in Temps /\ w.whole
  BY DEF IInv, TypeOK, Temps
<1>2. /\ pc[r] = "copy" /\ written' = [written EXCEPT ![r] = w] /\ pc' = [pc EXCEPT ![r] = "rename"]
      /\ UNCHANGED <<version, ns, made, got, began, source, clock, files, marker, invVars, cleanVars, copy>>
  BY DEF CopyRest, Goto
<1> HIDE DEF w
<1> QED BY <1>1, <1>2, TempKeeps

\* What a request serves that has made a derivative of its own.
LEMMA OwnDerivative ==
  ASSUME IInv, NEW r \in Requests, pc[r] \in {"write", "copy", "rename"}
  PROVE  /\ Response(made[r], TRUE, None) \in Responses
         /\ Response(made[r], TRUE, None).whole
         /\ Response(made[r], TRUE, None).bytes = made[r]
         /\ made[r] \in Versions /\ version[r] # None /\ version[r] <= made[r]
         /\ began[r].source <= made[r]
<1>1. made[r] \in Versions /\ version[r] \in Versions /\ version[r] # None
  BY DEF IInv, TypeOK, GoodRequest, Good
<1>2. /\ version[r] <= made[r] /\ began[r].source <= version[r]
      /\ began[r] \in [source : Versions, acked : Epochs]
  BY DEF IInv, GoodRequest, Good
<1>3. began[r].source <= made[r]
  <2>1. began[r].source \in Nat /\ version[r] \in Nat /\ made[r] \in Nat
    BY <1>1, <1>2, Numbers
  <2> QED BY <1>2, <2>1
<1> QED BY <1>1, <1>2, <1>3, AnswersAreTyped

LEMMA PutFailsKeeps ==
  ASSUME IInv, NEW r \in Requests, PutFails(r)
  PROVE  IInv'
<1> DEFINE a == Response(made[r], TRUE, None)
<1>1. /\ pc[r] \in {"write", "copy", "rename"} /\ Answer(r, a)
      /\ UNCHANGED <<version, ns, began, source, clock, files, marker, invVars, cleanVars, copy>>
  BY DEF PutFails
<1>2. /\ a \in Responses /\ a.whole /\ a.bytes = made[r]
      /\ version[r] <= made[r] /\ began[r].source <= made[r]
  BY <1>1, OwnDerivative
<1>3. files' \in [Keys -> Files \cup {None}] /\ \A k \in Keys : GoodFile(files'[k], k)
  BY <1>1 DEF IInv, TypeOK
<1> HIDE DEF a
<1> QED BY <1>1, <1>2, <1>3, Answers

LEMMA RenameKeeps ==
  ASSUME IInv, NEW r \in Requests, Rename(r)
  PROVE  IInv'
<1> DEFINE a == Response(made[r], TRUE, None)
           f == [bytes |-> made[r], whole |-> written[r].whole, mtime |-> written[r].mtime, epoch |-> written[r].epoch]
<1>1. /\ pc[r] = "rename" /\ files' = [files EXCEPT ![Key(r)] = f] /\ Answer(r, a)
      /\ UNCHANGED <<version, ns, began, source, clock, marker, invVars, cleanVars, copy>>
  BY DEF Rename
<1>2. /\ a \in Responses /\ a.whole /\ a.bytes = made[r] /\ made[r] \in Versions /\ version[r] # None
      /\ version[r] <= made[r] /\ began[r].source <= made[r]
  BY <1>1, OwnDerivative
<1>3. Key(r) \in Keys /\ Key(r).version = version[r]
  BY <1>2, KeysOfRequests DEF IInv
<1>4. written[r] \in Temps /\ written[r].whole
  BY <1>1 DEF IInv, TypeOK, GoodRequest, Good
<1>5. f \in Files /\ f.whole /\ f.bytes = made[r]
  BY <1>2, <1>4 DEF Files, Temps
<1> HIDE DEF a, f
<1>6. files' \in [Keys -> Files \cup {None}]
  BY <1>1, <1>5 DEF IInv, TypeOK
<1>7. \A k \in Keys : GoodFile(files'[k], k)
  BY <1>1, <1>2, <1>3, <1>5 DEF IInv, TypeOK, GoodFile
<1> QED BY <1>1, <1>2, <1>6, <1>7, Answers

\* A request that is over holds nothing.
LEMMA Forgets ==
  ASSUME IInv, NEW r \in Requests, Forget(r),
         UNCHANGED <<source, clock, files, marker, invVars, cleanVars>>,
         copy' \in Copies \cup {None}, GoodCopy(copy')
  PROVE  IInv'
<1>1. /\ pc'[r] = "idle" /\ version'[r] = None /\ made'[r] = None /\ written'[r] = None /\ got'[r] = None
      /\ \A s \in Requests \ {r} : Untouched(s)
  BY DEF Forget, Goto, IInv, TypeOK, Untouched
<1>2. TypeOK'
  BY DEF Forget, Goto, IInv, TypeOK, Namespaces, invVars, cleanVars
<1>3. GoodRequest(r)'
  BY <1>1 DEF GoodRequest, Good
<1> QED BY <1>1, <1>2, <1>3, OneServes DEF IInv

LEMMA FailKeeps ==
  ASSUME IInv, NEW r \in Requests, Fail(r)
  PROVE  IInv'
BY Forgets DEF Fail, IInv, TypeOK

LEMMA DoneKeeps ==
  ASSUME IInv, NEW r \in Requests, Done(r)
  PROVE  IInv'
<1>1. copy' \in Copies \cup {None} /\ GoodCopy(copy')
  <2>1. CASE copy' = copy
    BY <2>1 DEF IInv, TypeOK
  <2>2. CASE version[r] # None /\ copy' = [etag |-> Key(r), bytes |-> got[r].bytes, whole |-> got[r].whole]
    <3>1. pc[r] = "answered"
      BY DEF Done
    <3>2. got[r] \in Responses /\ version[r] <= got[r].bytes /\ (Kept => got[r].whole)
      BY <2>2, <3>1 DEF IInv, TypeOK, GoodRequest, Good
    <3>3. Key(r) \in Keys /\ Key(r).version = version[r] /\ got[r].bytes \in Versions /\ got[r].whole \in BOOLEAN
      BY <2>2, <3>2, KeysOfRequests DEF IInv, Responses
    <3> QED BY <2>2, <3>2, <3>3 DEF Copies, GoodCopy
  <2> QED BY <2>1, <2>2 DEF Done
<1> QED BY <1>1, Forgets DEF Done
---------------------------------------------------------------------------
\* Invalidations, the cleanup, and what happens to the source and to the server.

\* Whoever leaves the requests alone, and makes no file.
LEMMA OthersKeep ==
  ASSUME IInv, TypeOK', UNCHANGED reqVars, UNCHANGED copy, source <= source', Pending',
         \A k \in Keys : files'[k] \in {None, files[k]}
  PROVE  IInv'
<1>0. UNCHANGED <<pc, version, ns, made, written, got, began>>
  BY DEF reqVars
<1>1. ASSUME NEW r \in Requests PROVE GoodRequest(r)'
  <2>1. source \in Nat /\ source' \in Nat
    <3>1. source \in Versions /\ source' \in Versions
      BY DEF IInv, TypeOK
    <3> QED BY <3>1, Numbers
  <2>2. pc[r] # "idle" => began[r] \in [source : Versions, acked : Epochs] /\ began[r].source <= source
    BY DEF IInv, GoodRequest, Good
  <2>3. pc[r] # "idle" => began[r].source <= source'
    <3>1. pc[r] # "idle" => began[r].source \in Nat
      BY <2>2, Numbers
    <3> QED BY <2>1, <2>2, <3>1
  <2>4. version[r] # None /\ version[r] <= source => version[r] <= source'
    <3>1. version[r] # None => version[r] \in Nat
      BY Numbers DEF IInv, TypeOK
    <3> QED BY <2>1, <3>1
  <2> QED BY <1>0, <2>2, <2>3, <2>4 DEF IInv, GoodRequest, Good
<1>2. (\A k \in Keys : GoodFile(files[k], k))'
  BY DEF IInv, GoodFile
<1>3. GoodCopy(copy)'
  BY DEF IInv, GoodCopy
<1> QED BY <1>1, <1>2, <1>3 DEF IInv

LEMMA SameSource == IInv => source <= source
<1>1. IInv => source \in Nat
  BY Numbers DEF IInv, TypeOK
<1> QED BY <1>1

LEMMA InvalidationKeeps ==
  ASSUME IInv, InvalidateBegin \/ InvalidateInstall \/ InvalidateFails
  PROVE  IInv'
<1>1. CASE InvalidateBegin
  <2>1. begun + 1 \in Epochs /\ begun + 1 \in 1..MaxInvalidations /\ clock \in Times
    BY <1>1, Numbers, SMT DEF InvalidateBegin, IInv, TypeOK, Epochs
  <2>2. TypeOK'
    BY <1>1, <2>1 DEF InvalidateBegin, IInv, TypeOK, reqVars, cleanVars
  <2>3. Pending'
    BY <1>1, <2>1 DEF InvalidateBegin, Pending
  <2> QED BY <1>1, <2>2, <2>3, SameSource, OthersKeep DEF InvalidateBegin
<1>2. CASE InvalidateInstall
  <2>1. iversion \in 1..MaxInvalidations /\ iversion \in Epochs /\ iwritten \in Times
    BY <1>2, Numbers, SMT DEF InvalidateInstall, IInv, Pending, Epochs
  <2>2. TypeOK'
    BY <1>2, <2>1 DEF InvalidateInstall, IInv, TypeOK, Markers, reqVars, cleanVars
  <2>3. Pending'
    BY <1>2 DEF InvalidateInstall, Pending
  <2> QED BY <1>2, <2>2, <2>3, SameSource, OthersKeep DEF InvalidateInstall
<1>3. CASE InvalidateFails
  <2>1. TypeOK'
    BY <1>3 DEF InvalidateFails, IInv, TypeOK, reqVars, cleanVars
  <2>2. Pending'
    BY <1>3 DEF InvalidateFails, Pending
  <2> QED BY <1>3, <2>1, <2>2, SameSource, OthersKeep DEF InvalidateFails
<1> QED BY <1>1, <1>2, <1>3

LEMMA CleanupKeeps ==
  ASSUME IInv, CleanupBegin \/ CleanupStat \/ CleanupRemove \/ CleanupEnd
  PROVE  IInv'
<1>0. Pending'
  BY DEF CleanupBegin, CleanupStat, CleanupRemove, CleanupEnd, invVars, IInv, Pending
<1>1. CASE CleanupBegin
  <2>1. TypeOK'
    BY <1>1 DEF CleanupBegin, IInv, TypeOK, reqVars, invVars
  <2> QED BY <1>0, <1>1, <2>1, SameSource, OthersKeep DEF CleanupBegin
<1>2. CASE CleanupStat
  <2>1. TypeOK'
    BY <1>2 DEF CleanupStat, IInv, TypeOK, reqVars, invVars
  <2> QED BY <1>0, <1>2, <2>1, SameSource, OthersKeep DEF CleanupStat
<1>3. CASE CleanupRemove
  <2>1. \A k \in Keys : files'[k] \in {None, files[k]}
    BY <1>3 DEF CleanupRemove, Remove, IInv, TypeOK
  <2>2. files' \in [Keys -> Files \cup {None}] /\ marker' \in Markers \cup {None}
    BY <1>3 DEF CleanupRemove, Remove, IInv, TypeOK
  <2>3. TypeOK'
    BY <1>3, <2>2 DEF CleanupRemove, Remove, IInv, TypeOK, reqVars, invVars
  <2> QED BY <1>0, <1>3, <2>1, <2>3, SameSource, OthersKeep DEF CleanupRemove
<1>4. CASE CleanupEnd
  <2>1. TypeOK'
    BY <1>4, Numbers DEF CleanupEnd, IInv, TypeOK, reqVars, invVars
  <2> QED BY <1>0, <1>4, <2>1, SameSource, OthersKeep DEF CleanupEnd
<1> QED BY <1>1, <1>2, <1>3, <1>4

LEMMA WorldKeeps ==
  ASSUME IInv, SourceChanges \/ Tick
  PROVE  IInv'
<1>0. Pending'
  BY DEF SourceChanges, Tick, invVars, IInv, Pending
<1>1. CASE SourceChanges
  <2>1. source + 1 \in Versions /\ source <= source + 1
    BY <1>1, Numbers, SMT DEF SourceChanges, IInv, TypeOK, Versions
  <2>2. TypeOK'
    BY <1>1, <2>1 DEF SourceChanges, IInv, TypeOK, reqVars, invVars, cleanVars
  <2> QED BY <1>0, <1>1, <2>1, <2>2, OthersKeep DEF SourceChanges
<1>2. CASE Tick
  <2>1. clock + 1 \in Times
    BY <1>2, Numbers, SMT DEF Tick, IInv, TypeOK, Times
  <2>2. TypeOK'
    BY <1>2, <2>1 DEF Tick, IInv, TypeOK, reqVars, invVars, cleanVars
  <2> QED BY <1>0, <1>2, <2>2, SameSource, OthersKeep DEF Tick
<1> QED BY <1>1, <1>2

\* The server knows nothing when it is started again, and whatever became of the files
\* is good.
LEMMA StopKeeps ==
  ASSUME IInv, ServerStops, UNCHANGED <<source, clock, begun, acked, copy>>,
         files' \in [Keys -> Files \cup {None}], \A k \in Keys : GoodFile(files'[k], k),
         marker' \in Markers \cup {None},
         cpc' \in {"idle", "walk", "remove"}, cnow' \in Times, victim' \in Keys \cup {Marker, None}
  PROVE  IInv'
<1>1. TypeOK'
  BY DEF ServerStops, IInv, TypeOK, Namespaces
<1>2. \A r \in Requests : GoodRequest(r)'
  BY DEF ServerStops, GoodRequest, Good
<1>3. (\A k \in Keys : GoodFile(files[k], k))' /\ GoodCopy(copy)'
  BY DEF IInv, GoodFile, GoodCopy
<1>4. Pending'
  BY DEF ServerStops, Pending
<1> QED BY <1>1, <1>2, <1>3, <1>4 DEF IInv

LEMMA CrashKeeps ==
  ASSUME IInv, Crash
  PROVE  IInv'
BY StopKeeps DEF Crash, cleanVars, IInv, TypeOK

\* A file that a power failure leaves is as new as it was.
LEMMA PowerFailsKeeps ==
  ASSUME IInv, PowerFails
  PROVE  IInv'
<1>1. /\ files' \in [Keys -> Files \cup {None}] /\ \A k \in Keys : GoodFile(files'[k], k)
      /\ marker' \in Markers \cup {None}
  <2>1. CASE LoseName
    <3>1. \A k \in Keys : files'[k] \in {None, files[k]}
      BY <2>1 DEF LoseName, Remove, IInv, TypeOK
    <3>2. files' \in [Keys -> Files \cup {None}] /\ marker' \in Markers \cup {None}
      BY <2>1 DEF LoseName, Remove, IInv, TypeOK
    <3> QED BY <3>1, <3>2 DEF IInv, GoodFile
  <2>2. CASE LoseBytes
    <3>1. ~Kept
      BY <2>2 DEF LoseBytes, Kept
    <3>2. CASE \E k \in Keys : files[k] # None /\ files' = [files EXCEPT ![k].whole = FALSE] /\ UNCHANGED marker
      <4>1. PICK k \in Keys : files[k] # None /\ files' = [files EXCEPT ![k].whole = FALSE] /\ UNCHANGED marker
        BY <3>2
      <4> DEFINE f == [files[k] EXCEPT !.whole = FALSE]
      <4>2. files[k] \in Files /\ k.version <= files[k].bytes
        BY <4>1 DEF IInv, TypeOK, GoodFile
      <4>3. f \in Files /\ f.bytes = files[k].bytes
        BY <4>2 DEF Files
      <4>4. files' = [files EXCEPT ![k] = f]
        BY <4>1
      <4> HIDE DEF f
      <4>5. files' \in [Keys -> Files \cup {None}] /\ marker' \in Markers \cup {None}
        <5>1. files \in [Keys -> Files \cup {None}] /\ marker \in Markers \cup {None}
          BY DEF IInv, TypeOK
        <5>2. files' \in [Keys -> Files \cup {None}]
          BY <4>3, <4>4, <5>1
        <5> QED BY <4>1, <5>1, <5>2
      <4>6. \A j \in Keys : GoodFile(files'[j], j)
        BY <3>1, <4>2, <4>3, <4>4 DEF IInv, TypeOK, GoodFile
      <4> QED BY <4>5, <4>6
    <3>3. CASE marker # None /\ marker' = [marker EXCEPT !.whole = FALSE] /\ UNCHANGED files
      <4>1. marker' \in Markers
        BY <3>3 DEF IInv, TypeOK, Markers
      <4> QED BY <3>3, <4>1 DEF IInv, TypeOK
    <3> QED BY <2>2, <3>2, <3>3 DEF LoseBytes
  <2> QED BY <2>1, <2>2 DEF PowerFails
<1>2. /\ ServerStops /\ UNCHANGED <<source, clock, begun, acked, copy>>
      /\ cpc' = "idle" /\ cnow' \in Times /\ victim' = None
  BY Numbers DEF PowerFails
<1> QED BY <1>1, <1>2, StopKeeps

LEMMA InitHolds == Init => IInv
<1>1. SUFFICES ASSUME Init PROVE IInv
  OBVIOUS
<1>2. TypeOK
  <2>1. None \in Namespaces
    BY DEF Namespaces
  <2>2. files \in [Keys -> Files \cup {None}] /\ ns \in [Requests -> Namespaces]
    BY <1>1, <2>1 DEF Init
  <2>3. /\ \A r \in Requests : pc[r] = "idle" /\ made[r] = None /\ written[r] = None /\ got[r] = None
        /\ pc \in [Requests -> Steps]
    BY <1>1 DEF Init, Steps
  <2>4. /\ version \in [Requests -> Versions \cup {None}] /\ made \in [Requests -> Versions \cup {None}]
        /\ written \in [Requests -> Temps \cup {None}] /\ got \in [Requests -> Responses \cup {None}]
        /\ began \in [Requests -> [source : Versions, acked : Epochs] \cup {None}]
    BY <1>1 DEF Init
  <2>5. /\ source = 1 /\ clock = 0 /\ marker = None /\ ipc = "idle" /\ iversion = None /\ iwritten = None
        /\ cpc = "idle" /\ cnow = 0 /\ victim = None /\ copy = None /\ begun = 0 /\ acked = 0
    BY <1>1 DEF Init
  <2> QED BY <2>2, <2>3, <2>4, <2>5, Numbers DEF TypeOK, Steps
<1>3. \A r \in Requests : GoodRequest(r)
  <2>1. \A r \in Requests : pc[r] = "idle" /\ version[r] = None
    BY <1>1, Zenon DEF Init
  <2> QED BY <2>1, Zenon DEF GoodRequest, Good
<1>4. (\A k \in Keys : GoodFile(files[k], k)) /\ GoodCopy(copy) /\ Pending
  <2>1. files = [k \in Keys |-> None] /\ copy = None /\ ipc = "idle"
    BY <1>1 DEF Init
  <2> QED BY <2>1 DEF GoodFile, GoodCopy, Pending
<1> QED BY <1>2, <1>3, <1>4 DEF IInv

LEMMA NextKeeps == IInv /\ [Next]_vars => IInv'
<1>1. SUFFICES ASSUME IInv, [Next]_vars PROVE IInv'
  OBVIOUS
<1>2. ASSUME NEW r \in Requests, Serve(r) PROVE IInv'
  BY <1>1, <1>2, ReadMetaKeeps, ReadMarkerKeeps, NotModifiedKeeps, HitKeeps, MissKeeps, TransformKeeps,
     WriteTempKeeps, CopyRestKeeps, RenameKeeps, PutFailsKeeps, FailKeeps, DoneKeeps DEF Serve
<1>3. CASE UNCHANGED vars
  BY <1>1, <1>3 DEF vars, reqVars, invVars, cleanVars, IInv, TypeOK, GoodRequest, Pending
<1> QED BY <1>1, <1>2, <1>3, InvalidationKeeps, CleanupKeeps, WorldKeeps, CrashKeeps, PowerFailsKeeps DEF Next
---------------------------------------------------------------------------
\* What an invalidation hides.  It has to be assumed that a marker can be opened, that the
\* disk keeps its name, that the cleanup does not meet a second marker, and that no two
\* markers read as zeros: otherwise a request may use an old namespace, or the cleanup may
\* remove the new marker.
Scheduled ==
  /\ "open" \notin ReadErrors /\ "name" \notin PowerLoss
  /\ MaxInvalidations <= 1 \/ (~CleanupRuns /\ Kept)

\* When the derivatives in the cache, and those that are to be renamed, were written.
Stamps == [mtime : Times, epoch : Epochs]
Stamp(f) == [mtime |-> f.mtime, epoch |-> f.epoch]
OnDisk == {Stamp(files[k]) : k \in {j \in Keys : files[j] # None}}
Coming == {Stamp(written[r]) : r \in {q \in Requests : pc[q] = "rename"}}
Derivatives == OnDisk \cup Coming

\* The invalidation that everything in a namespace comes after: that of its marker; zeros
\* are read after the first one.
Behind(n) == IF n = Zeros THEN 1 ELSE n.marker

\* What was written before an acknowledged invalidation expires no later than its marker.
Outdated(e) == IF marker # None THEN e.mtime <= marker.mtime ELSE Expired(e.mtime, clock)

GoodStamp(e) ==
  /\ e.epoch <= begun /\ e.mtime <= clock
  /\ e.epoch < acked => Outdated(e)
  /\ ipc = "rename" /\ e.epoch < begun => e.mtime <= iwritten

GoodMarker ==
  /\ acked <= begun
  /\ marker # None => marker.bytes = acked /\ (Kept => marker.whole)
  /\ ipc = "rename" => iversion = begun /\ acked < begun

GoodCleanup ==
  /\ cpc # "idle" => CleanupRuns /\ cnow <= clock
  /\ victim = Marker => /\ cpc = "remove" /\ ipc = "idle" /\ begun = MaxInvalidations
                        /\ marker # None => Expired(marker.mtime, clock)

GoodNamespace(r) ==
  /\ pc[r] \in {"idle", "marker"} => ns[r] = None
  /\ pc[r] # "idle" => began[r].acked <= acked
  /\ ns[r] # None => began[r].acked <= Behind(ns[r]) /\ Behind(ns[r]) <= begun
  /\ pc[r] = "lookup" /\ ns[r] = None =>
       \A e \in Derivatives : e.epoch < began[r].acked => Expired(e.mtime, clock)
  /\ pc[r] = "rename" /\ ns[r] # None => Behind(ns[r]) <= written[r].epoch
  /\ pc[r] = "answered" /\ got[r].epoch # None => began[r].acked <= got[r].epoch

Hidden ==
  /\ \A e \in Derivatives : GoodStamp(e)
  /\ \A k \in Keys : files[k] # None /\ k.ns # None => Behind(k.ns) <= files[k].epoch
  /\ GoodMarker
  /\ GoodCleanup
  /\ \A r \in Requests : GoodNamespace(r)
---------------------------------------------------------------------------
LEMMA DerivativesAreStamps ==
  ASSUME TypeOK
  PROVE  /\ Derivatives \subseteq Stamps
         /\ \A e \in Stamps : e.mtime \in Nat /\ e.epoch \in Nat
<1>1. OnDisk \subseteq Stamps
  BY DEF TypeOK, OnDisk, Files, Stamp, Stamps
<1>2. Coming \subseteq Stamps
  <2>1. \A r \in Requests : pc[r] = "rename" => written[r] \in Temps
    BY DEF TypeOK
  <2> QED BY <2>1 DEF Coming, Temps, Stamp, Stamps
<1>3. \A e \in Stamps : e.mtime \in Nat /\ e.epoch \in Nat
  BY Numbers DEF Stamps
<1> QED BY <1>1, <1>2, <1>3 DEF Derivatives

LEMMA CountersAreNumbers ==
  ASSUME TypeOK
  PROVE  /\ begun \in Nat /\ acked \in Nat /\ clock \in Nat /\ cnow \in Nat
         /\ marker # None => marker.mtime \in Nat /\ marker.bytes \in Nat /\ marker.bytes >= 1
<1>1. begun \in Nat /\ acked \in Nat /\ clock \in Nat /\ cnow \in Nat
  BY Numbers DEF TypeOK
<1>2. marker # None => marker.mtime \in Nat
  BY Numbers DEF TypeOK, Markers
<1>3. marker # None => marker.bytes \in Nat /\ marker.bytes >= 1
  BY Numbers, SMT DEF TypeOK, Markers
<1> QED BY <1>1, <1>2, <1>3

LEMMA NamespacesAreAfter ==
  ASSUME NEW n \in Namespaces, n # None
  PROVE  Behind(n) \in Nat
<1>1. n = Zeros \/ n.marker \in 1..MaxInvalidations
  BY DEF Namespaces
<1> QED BY <1>1, Numbers DEF Behind

LEMMA ExpiredStays ==
  ASSUME NEW m \in Nat, NEW n \in Nat, NEW s \in Nat, NEW t \in Nat, m <= n, s <= t, Expired(n, s)
  PROVE  Expired(m, t)
BY Numbers DEF Expired

\* A request that goes on writes nothing older than the present.
LEMMA OneHides ==
  ASSUME IInv, Hidden, IInv', UNCHANGED <<clock, marker, invVars, cleanVars>>,
         NEW r \in Requests, \A s \in Requests \ {r} : Untouched(s),
         \A e \in Derivatives' : e \in Derivatives \/ e = [mtime |-> clock, epoch |-> begun],
         \A k \in Keys : files'[k] # None /\ k.ns # None => Behind(k.ns) <= files'[k].epoch,
         GoodNamespace(r)'
  PROVE  Hidden'
<1>0. /\ UNCHANGED <<clock, marker, ipc, iversion, iwritten, begun, acked, cpc, cnow, victim>>
      /\ begun \in Nat /\ acked \in Nat /\ clock \in Nat /\ acked <= begun
  BY CountersAreNumbers DEF IInv, Hidden, GoodMarker, invVars, cleanVars
<1>1. ASSUME NEW e \in Derivatives' PROVE GoodStamp(e)'
  <2>1. CASE e \in Derivatives
    BY <1>0, <2>1 DEF Hidden, GoodStamp, Outdated
  <2>2. CASE e = [mtime |-> clock, epoch |-> begun]
    <3>1. e.mtime = clock /\ e.epoch = begun
      BY <2>2
    <3> QED BY <1>0, <3>1 DEF GoodStamp
  <2> QED BY <1>1, <2>1, <2>2
<1>2. GoodMarker' /\ GoodCleanup'
  BY <1>0 DEF Hidden, GoodMarker, GoodCleanup
<1>3. ASSUME NEW s \in Requests PROVE GoodNamespace(s)'
  <2>1. CASE s = r
    BY <2>1
  <2>2. CASE s # r
    <3>1. GoodNamespace(s) /\ Untouched(s)
      BY <2>2 DEF Hidden
    <3>2. ASSUME pc[s] = "lookup", ns[s] = None, NEW e \in Derivatives', e.epoch < began[s].acked
          PROVE  Expired(e.mtime, clock)
      <4>1. began[s].acked \in Nat /\ began[s].acked <= acked
        BY <3>1, <3>2, Numbers DEF GoodNamespace, IInv, GoodRequest, Good
      <4>2. CASE e \in Derivatives
        BY <3>1, <3>2, <4>2 DEF GoodNamespace
      <4>3. CASE e = [mtime |-> clock, epoch |-> begun]
        <5>1. e.epoch = begun
          BY <4>3
        <5> QED BY <1>0, <3>2, <4>1, <5>1
      <4> QED BY <3>2, <4>2, <4>3
    <3> QED BY <1>0, <3>1, <3>2 DEF Untouched, GoodNamespace
  <2> QED BY <2>1, <2>2
<1>4. (\A k \in Keys : files[k] # None /\ k.ns # None => Behind(k.ns) <= files[k].epoch)'
  OBVIOUS
<1> QED BY <1>1, <1>2, <1>3, <1>4 DEF Hidden

LEMMA FewerDerivatives ==
  ASSUME \A k \in Keys : files'[k] # None => files[k] # None /\ Stamp(files'[k]) = Stamp(files[k]),
         \A r \in Requests : pc'[r] = "rename" => pc[r] = "rename" /\ written'[r] = written[r]
  PROVE  Derivatives' \subseteq Derivatives
<1>1. OnDisk' \subseteq OnDisk
  <2>1. ASSUME NEW k \in Keys, files'[k] # None PROVE Stamp(files'[k]) \in OnDisk
    BY <2>1 DEF OnDisk
  <2> QED BY <2>1 DEF OnDisk
<1>2. Coming' \subseteq Coming
  BY DEF Coming
<1> QED BY <1>1, <1>2 DEF Derivatives

\* A request that leaves the cache as it is, and takes no new stamp.
LEMMA OneReads ==
  ASSUME IInv, Hidden, IInv', UNCHANGED <<clock, files, marker, invVars, cleanVars>>,
         NEW r \in Requests, \A s \in Requests \ {r} : Untouched(s), pc'[r] # "rename",
         GoodNamespace(r)'
  PROVE  Hidden'
<1>1. \A s \in Requests : pc'[s] = "rename" => pc[s] = "rename" /\ written'[s] = written[s]
  BY DEF Untouched
<1>2. Derivatives' \subseteq Derivatives
  BY <1>1, FewerDerivatives
<1>3. \A k \in Keys : files'[k] # None /\ k.ns # None => Behind(k.ns) <= files'[k].epoch
  BY DEF Hidden
<1> QED BY <1>2, <1>3, OneHides

LEMMA ReadMetaHides ==
  ASSUME IInv, Hidden, IInv', NEW r \in Requests, ReadMeta(r)
  PROVE  Hidden'
<1>1. /\ \A s \in Requests \ {r} : Untouched(s)
      /\ UNCHANGED <<clock, files, marker, invVars, cleanVars>>
      /\ ns'[r] = ns[r] /\ began'[r].acked = acked
      /\ pc[r] = "idle" /\ pc'[r] \in {"marker", "transform"} /\ acked' = acked
  BY DEF ReadMeta, Goto, IInv, TypeOK, Untouched, invVars
<1>2. acked <= acked
  BY CountersAreNumbers DEF IInv
<1>3. GoodNamespace(r)'
  BY <1>1, <1>2 DEF Hidden, GoodNamespace
<1> QED BY <1>1, <1>3, OneReads

\* Who reads no live marker finds no live derivative that it would have hidden.
LEMMA ReadMarkerHides ==
  ASSUME IInv, Hidden, IInv', Scheduled, NEW r \in Requests, ReadMarker(r)
  PROVE  Hidden'
<1> DEFINE b == began[r].acked
<1>1. /\ \A s \in Requests \ {r} : Untouched(s)
      /\ UNCHANGED <<clock, files, marker, invVars, cleanVars>>
      /\ written' = written /\ began' = began /\ acked' = acked /\ begun' = begun
      /\ pc[r] = "marker" /\ pc'[r] = "lookup"
  BY DEF ReadMarker, Goto, IInv, TypeOK, Untouched, invVars
<1>2. b \in Nat /\ b <= acked /\ acked \in Nat /\ begun \in Nat /\ acked <= begun /\ clock \in Nat
  BY <1>1, Numbers, CountersAreNumbers DEF IInv, GoodRequest, Good, Hidden, GoodNamespace, GoodMarker
<1>3. ASSUME Live(marker), NEW n \in Readings(marker), ns' = [ns EXCEPT ![r] = n]
      PROVE  ns'[r] # None /\ b <= Behind(ns'[r]) /\ Behind(ns'[r]) <= begun
  <2>1. ns'[r] = n /\ n # None
    BY <1>3 DEF IInv, TypeOK, Readings
  <2>2. marker # None /\ marker.bytes = acked /\ (Kept => marker.whole) /\ marker.bytes >= 1
    BY <1>3, CountersAreNumbers DEF Live, Hidden, GoodMarker, IInv
  <2>3. CASE n = Zeros /\ ~marker.whole
    <3>1. Behind(n) = 1
      BY <2>3 DEF Behind
    <3>2. MaxInvalidations <= 1
      BY <2>2, <2>3 DEF Scheduled
    <3>3. acked <= MaxInvalidations /\ MaxInvalidations \in Nat
      BY Numbers, SMT DEF IInv, TypeOK, Epochs
    <3>4. acked <= 1 /\ 1 <= acked
      BY <1>2, <2>2, <3>2, <3>3
    <3> QED BY <1>2, <2>1, <3>1, <3>4
  <2>4. CASE n \in {[of |-> "contents", marker |-> marker.bytes], [of |-> "mtime", marker |-> marker.bytes]}
    <3>1. n # Zeros /\ n.marker = marker.bytes
      BY <2>4 DEF Zeros
    <3>2. Behind(n) = acked
      BY <2>2, <3>1 DEF Behind
    <3> QED BY <1>2, <2>1, <3>2
  <2> QED BY <1>3, <2>3, <2>4 DEF Readings
<1>4. ASSUME ~Live(marker), NEW e \in Derivatives, e.epoch < b
      PROVE  Expired(e.mtime, clock)
  <2>1. e.epoch \in Nat /\ e.mtime \in Nat
    BY DerivativesAreStamps DEF IInv
  <2>2. Outdated(e)
    BY <1>2, <1>4, <2>1 DEF Hidden, GoodStamp
  <2>3. CASE marker = None
    BY <2>2, <2>3 DEF Outdated
  <2>4. CASE marker # None /\ Expired(marker.mtime, clock)
    <3>1. marker.mtime \in Nat /\ e.mtime <= marker.mtime /\ clock <= clock
      BY <1>2, <2>2, <2>4, CountersAreNumbers DEF IInv, Outdated
    <3> QED BY <1>2, <2>1, <2>4, <3>1, ExpiredStays
  <2> QED BY <1>4, <2>3, <2>4 DEF Live
<1>5. Derivatives' = Derivatives
  <2>1. \A s \in Requests : pc'[s] = "rename" <=> pc[s] = "rename"
    BY <1>1 DEF Untouched
  <2> QED BY <1>1, <2>1 DEF Derivatives, OnDisk, Coming
<1>6. CASE Live(marker) /\ \E n \in Readings(marker) : ns' = [ns EXCEPT ![r] = n]
  <2>1. ns'[r] # None /\ b <= Behind(ns'[r]) /\ Behind(ns'[r]) <= begun
    BY <1>3, <1>6
  <2>2. GoodNamespace(r)'
    BY <1>1, <1>2, <2>1 DEF GoodNamespace
  <2> QED BY <1>1, <2>2, OneReads
<1>7. CASE ~Live(marker) /\ UNCHANGED ns
  <2>1. ns'[r] = None
    BY <1>1, <1>7 DEF Hidden, GoodNamespace
  <2>2. GoodNamespace(r)'
    BY <1>1, <1>2, <1>4, <1>5, <1>7, <2>1 DEF GoodNamespace
  <2> QED BY <1>1, <2>2, OneReads
<1> QED BY <1>6, <1>7 DEF ReadMarker, Scheduled

LEMMA MissHides ==
  ASSUME IInv, Hidden, IInv', NEW r \in Requests, Miss(r)
  PROVE  Hidden'
<1>1. /\ \A s \in Requests \ {r} : Untouched(s)
      /\ UNCHANGED <<ns, began, written, clock, files, marker, invVars, cleanVars, acked, begun>>
      /\ pc[r] = "lookup" /\ pc'[r] = "transform"
  BY DEF Miss, Goto, IInv, TypeOK, Untouched, invVars
<1>2. GoodNamespace(r)'
  BY <1>1 DEF Hidden, GoodNamespace
<1> QED BY <1>1, <1>2, OneReads

\* An answer tells of a cached derivative only that no invalidation hides it.
LEMMA AnswerHides ==
  ASSUME IInv, Hidden, IInv', NEW r \in Requests, pc[r] # "idle", NEW a, Answer(r, a),
         a.epoch = None \/ began[r].acked <= a.epoch,
         UNCHANGED <<ns, began, version, clock, marker, invVars, cleanVars>>
  PROVE  /\ \A s \in Requests \ {r} : Untouched(s)
         /\ written'[r] = None /\ pc'[r] # "rename"
         /\ GoodNamespace(r)'
<1>1. /\ \A s \in Requests \ {r} : Untouched(s)
      /\ pc'[r] = "answered" /\ got'[r] = a /\ written'[r] = None /\ acked' = acked /\ begun' = begun
  BY DEF Answer, Goto, IInv, TypeOK, Untouched, invVars
<1>2. GoodNamespace(r)'
  BY <1>1 DEF Hidden, GoodNamespace
<1> QED BY <1>1, <1>2

LEMMA NotModifiedHides ==
  ASSUME IInv, Hidden, IInv', NEW r \in Requests, NotModified(r)
  PROVE  Hidden'
<1> DEFINE a == Response(copy.bytes, copy.whole, None)
<1>1. /\ pc[r] # "idle" /\ Answer(r, a) /\ a.epoch = None
      /\ UNCHANGED <<version, ns, began, clock, files, marker, invVars, cleanVars>>
  BY DEF NotModified, Response
<1> HIDE DEF a
<1> QED BY <1>1, AnswerHides, OneReads

LEMMA PutFailsHides ==
  ASSUME IInv, Hidden, IInv', NEW r \in Requests, PutFails(r)
  PROVE  Hidden'
<1> DEFINE a == Response(made[r], TRUE, None)
<1>1. /\ pc[r] # "idle" /\ Answer(r, a) /\ a.epoch = None
      /\ UNCHANGED <<version, ns, began, clock, files, marker, invVars, cleanVars>>
  BY DEF PutFails, Response
<1> HIDE DEF a
<1> QED BY <1>1, AnswerHides, OneReads

\* What is found in the namespace of a marker was written after the invalidation, and what
\* is found without one and has not expired was too.
LEMMA HitHides ==
  ASSUME IInv, Hidden, IInv', NEW r \in Requests, Hit(r)
  PROVE  Hidden'
<1> DEFINE k == Key(r)
           f == files[k]
           a == Response(f.bytes, f.whole, f.epoch)
           b == began[r].acked
<1>1. /\ pc[r] = "lookup" /\ f # None /\ ~Expired(f.mtime, clock) /\ Answer(r, a) /\ a.epoch = f.epoch
      /\ UNCHANGED <<version, ns, began, clock, files, marker, invVars, cleanVars>>
  BY DEF Hit, Live, Response
<1>2. k \in Keys /\ k.ns = ns[r]
  BY <1>1, KeysOfRequests DEF IInv, GoodRequest, Good
<1>3. f \in Files /\ f.epoch \in Nat /\ b \in Nat
  <2>1. f \in Files /\ b \in Epochs
    BY <1>1, <1>2 DEF IInv, TypeOK, GoodRequest, Good
  <2> QED BY <2>1, Numbers DEF Files
<1>4. ASSUME ns[r] = None PROVE b <= f.epoch
  <2> DEFINE e == Stamp(f)
  <2>1. e \in Derivatives
    BY <1>1, <1>2 DEF Derivatives, OnDisk
  <2>2. e.mtime = f.mtime /\ e.epoch = f.epoch
    BY DEF Stamp
  <2> HIDE DEF e, f, k, b
  <2>3. ~(e.epoch < b)
    BY <1>1, <1>4, <2>1, <2>2 DEF Hidden, GoodNamespace, b
  <2> QED BY <1>3, <2>2, <2>3
<1>5. ASSUME ns[r] # None PROVE b <= f.epoch
  <2>1. b <= Behind(ns[r]) /\ Behind(ns[r]) <= f.epoch
    BY <1>1, <1>2, <1>5 DEF Hidden, GoodNamespace
  <2>2. Behind(ns[r]) \in Nat
    BY <1>5, NamespacesAreAfter DEF IInv, TypeOK
  <2> HIDE DEF f, b
  <2> QED BY <1>3, <2>1, <2>2
<1>6. b <= f.epoch
  <2> HIDE DEF f, b
  <2> QED BY <1>3, <1>4, <1>5
<1> HIDE DEF a, f, k
<1>7. a.epoch = None \/ began[r].acked <= a.epoch
  BY <1>1, <1>6
<1>8. /\ \A s \in Requests \ {r} : Untouched(s)
      /\ pc'[r] # "rename"
      /\ GoodNamespace(r)'
  BY <1>1, <1>7, AnswerHides
<1> QED BY <1>1, <1>8, OneReads

LEMMA TransformHides ==
  ASSUME IInv, Hidden, IInv', NEW r \in Requests, Transform(r)
  PROVE  Hidden'
<1>1. /\ pc[r] = "transform"
      /\ UNCHANGED <<version, ns, began, clock, files, marker, invVars, cleanVars>>
  BY DEF Transform
<1>2. CASE Answer(r, Response(source, TRUE, None))
  <2> DEFINE a == Response(source, TRUE, None)
  <2>1. pc[r] # "idle" /\ Answer(r, a) /\ a.epoch = None
    BY <1>1, <1>2 DEF Response
  <2> HIDE DEF a
  <2> QED BY <1>1, <2>1, AnswerHides, OneReads
<1>3. CASE made' = [made EXCEPT ![r] = source] /\ Goto(r, "write") /\ UNCHANGED <<written, got>>
  <2>1. /\ \A s \in Requests \ {r} : Untouched(s)
        /\ acked' = acked /\ begun' = begun /\ pc'[r] = "write"
    BY <1>1, <1>3 DEF Goto, IInv, TypeOK, Untouched, invVars
  <2>2. GoodNamespace(r)'
    BY <1>1, <2>1 DEF Hidden, GoodNamespace
  <2> QED BY <1>1, <2>1, <2>2, OneReads
<1> QED BY <1>2, <1>3 DEF Transform

LEMMA WriteTempHides ==
  ASSUME IInv, Hidden, IInv', NEW r \in Requests, WriteTemp(r)
  PROVE  Hidden'
<1>1. /\ \A s \in Requests \ {r} : Untouched(s)
      /\ UNCHANGED <<ns, began, got, clock, files, marker, invVars, cleanVars, acked, begun>>
      /\ pc[r] = "write" /\ pc'[r] = "copy"
  BY DEF WriteTemp, Goto, IInv, TypeOK, Untouched, invVars
<1>2. GoodNamespace(r)'
  BY <1>1 DEF Hidden, GoodNamespace
<1> QED BY <1>1, <1>2, OneReads

\* A derivative is written in the present, which is after what made its namespace.
LEMMA CopyRestHides ==
  ASSUME IInv, Hidden, IInv', NEW r \in Requests, CopyRest(r)
  PROVE  Hidden'
<1> DEFINE w == [whole |-> TRUE, mtime |-> clock, epoch |-> begun]
<1>1. /\ pc[r] = "copy" /\ written' = [written EXCEPT ![r] = w] /\ pc' = [pc EXCEPT ![r] = "rename"]
      /\ UNCHANGED <<version, ns, made, got, began, clock, files, marker, invVars, cleanVars>>
      /\ w.epoch = begun /\ Stamp(w) = [mtime |-> clock, epoch |-> begun]
  BY DEF CopyRest, Goto, Stamp
<1> HIDE DEF w
<1>2. /\ \A s \in Requests \ {r} : Untouched(s)
      /\ pc'[r] = "rename" /\ written'[r] = w /\ acked' = acked /\ begun' = begun
  BY <1>1 DEF IInv, TypeOK, Untouched, invVars
<1>3. GoodNamespace(r)'
  BY <1>1, <1>2 DEF Hidden, GoodNamespace
<1>4. ASSUME NEW e \in Derivatives' PROVE e \in Derivatives \/ e = Stamp(w)
  <2>1. OnDisk' = OnDisk
    BY <1>1 DEF OnDisk
  <2>2. Coming' \subseteq Coming \cup {Stamp(w)}
    BY <1>2 DEF Coming, Untouched
  <2> QED BY <1>4, <2>1, <2>2 DEF Derivatives
<1>5. \A k \in Keys : files'[k] # None /\ k.ns # None => Behind(k.ns) <= files'[k].epoch
  BY <1>1 DEF Hidden
<1> QED BY <1>1, <1>2, <1>3, <1>4, <1>5, OneHides

\* A derivative gets its name in the namespace that the request found.
LEMMA RenameHides ==
  ASSUME IInv, Hidden, IInv', NEW r \in Requests, Rename(r)
  PROVE  Hidden'
<1> DEFINE a == Response(made[r], TRUE, None)
           f == [bytes |-> made[r], whole |-> written[r].whole, mtime |-> written[r].mtime, epoch |-> written[r].epoch]
           w == written[r]
           x == Key(r)
<1>1. /\ pc[r] = "rename" /\ files' = [files EXCEPT ![x] = f] /\ Answer(r, a) /\ a.epoch = None
      /\ UNCHANGED <<version, ns, began, clock, marker, invVars, cleanVars>>
      /\ f.epoch = w.epoch /\ Stamp(f) = Stamp(w)
  BY DEF Rename, Response, Stamp
<1>2. x \in Keys /\ x.ns = ns[r]
  BY <1>1, KeysOfRequests DEF IInv, GoodRequest, Good
<1>3. Stamp(w) \in Coming
  BY <1>1 DEF Coming
<1>4. ns[r] # None => Behind(ns[r]) <= w.epoch
  BY <1>1 DEF Hidden, GoodNamespace
<1> HIDE DEF a, f, w, x
<1>5. /\ \A s \in Requests \ {r} : Untouched(s)
      /\ pc'[r] # "rename"
      /\ GoodNamespace(r)'
  BY <1>1, AnswerHides
<1>6. \A k \in Keys : files'[k] # None /\ k.ns # None => Behind(k.ns) <= files'[k].epoch
  BY <1>1, <1>2, <1>4 DEF Hidden, IInv, TypeOK
<1>7. Coming' \subseteq Coming
  BY <1>5 DEF Coming, Untouched
<1>8. ASSUME NEW k \in Keys, files'[k] # None
      PROVE  Stamp(files'[k]) \in Derivatives
  <2>1. CASE k = x
    <3>1. files'[k] = f
      BY <1>1, <1>2, <2>1 DEF IInv, TypeOK
    <3> QED BY <1>1, <1>3, <3>1 DEF Derivatives
  <2>2. CASE k # x
    <3>1. files'[k] = files[k]
      BY <1>1, <2>2 DEF IInv, TypeOK
    <3> QED BY <1>8, <3>1 DEF Derivatives, OnDisk
  <2> QED BY <2>1, <2>2
<1>9. OnDisk' \subseteq Derivatives
  BY <1>8 DEF OnDisk
<1>10. \A e \in Derivatives' : e \in Derivatives
  BY <1>7, <1>9 DEF Derivatives
<1> QED BY <1>1, <1>5, <1>6, <1>10, OneHides

LEMMA ForgetHides ==
  ASSUME IInv, Hidden, IInv', NEW r \in Requests, Forget(r), UNCHANGED <<clock, files, marker, invVars, cleanVars>>
  PROVE  Hidden'
<1>1. /\ \A s \in Requests \ {r} : Untouched(s)
      /\ pc'[r] = "idle" /\ ns'[r] = None
  BY DEF Forget, Goto, IInv, TypeOK, Untouched
<1>2. GoodNamespace(r)'
  BY <1>1 DEF GoodNamespace
<1> QED BY <1>1, <1>2, OneReads

LEMMA ServeHides ==
  ASSUME IInv, Hidden, IInv', Scheduled, NEW r \in Requests, Serve(r)
  PROVE  Hidden'
<1>1. CASE Fail(r) \/ Done(r)
  BY <1>1, ForgetHides DEF Fail, Done
<1> QED BY <1>1, ReadMetaHides, ReadMarkerHides, NotModifiedHides, HitHides, MissHides, TransformHides,
           WriteTempHides, CopyRestHides, RenameHides, PutFailsHides DEF Serve
---------------------------------------------------------------------------
\* A step of the other processes, which leaves the requests where they are and
\* writes no derivative.
LEMMA OthersHide ==
  ASSUME IInv, Hidden, IInv', UNCHANGED reqVars, clock <= clock', begun <= begun', acked <= acked',
         \A k \in Keys : files'[k] \in {None, files[k]},
         \A e \in Derivatives : GoodStamp(e) => GoodStamp(e)',
         GoodMarker', GoodCleanup'
  PROVE  Hidden'
<1>0. /\ UNCHANGED <<pc, version, ns, made, written, got, began>>
      /\ clock \in Nat /\ clock' \in Nat /\ begun \in Nat /\ begun' \in Nat /\ acked \in Nat /\ acked' \in Nat
  <2>1. begun \in Nat /\ acked \in Nat /\ clock \in Nat
    BY CountersAreNumbers DEF IInv
  <2>2. begun' \in Epochs /\ acked' \in Epochs /\ clock' \in Times
    BY DEF IInv, TypeOK
  <2> QED BY <2>1, <2>2, Numbers DEF reqVars
<1>1. Derivatives' \subseteq Derivatives
  BY <1>0, FewerDerivatives
<1>2. \A e \in Derivatives' : GoodStamp(e)'
  BY <1>1 DEF Hidden
<1>3. (\A k \in Keys : files[k] # None /\ k.ns # None => Behind(k.ns) <= files[k].epoch)'
  BY DEF Hidden
<1>4. ASSUME NEW r \in Requests PROVE GoodNamespace(r)'
  <2>1. pc[r] # "idle" => began[r].acked \in Nat /\ began[r].acked <= acked
    BY Numbers DEF IInv, GoodRequest, Good, Hidden, GoodNamespace
  <2>2. ns[r] # None => Behind(ns[r]) \in Nat /\ began[r].acked <= Behind(ns[r]) /\ Behind(ns[r]) <= begun
    BY NamespacesAreAfter DEF IInv, TypeOK, Hidden, GoodNamespace
  <2>3. pc[r] # "idle" => began[r].acked <= acked'
    BY <1>0, <2>1
  <2>4. ns[r] # None => Behind(ns[r]) <= begun'
    BY <1>0, <2>2
  <2>5. ASSUME pc[r] = "lookup", ns[r] = None, NEW e \in Derivatives', e.epoch < began[r].acked
        PROVE  Expired(e.mtime, clock')
    <3>1. e \in Derivatives /\ Expired(e.mtime, clock)
      BY <1>1, <2>5 DEF Hidden, GoodNamespace
    <3>2. e.mtime \in Nat /\ e.mtime <= e.mtime
      BY <3>1, DerivativesAreStamps DEF IInv
    <3> QED BY <1>0, <3>1, <3>2, ExpiredStays
  <2> QED BY <1>0, <2>2, <2>3, <2>4, <2>5 DEF Hidden, GoodNamespace
<1> QED BY <1>2, <1>3, <1>4 DEF Hidden

LEMMA InvalidateBeginHides ==
  ASSUME IInv, Hidden, IInv', InvalidateBegin
  PROVE  Hidden'
<1>1. /\ ipc = "idle" /\ begun < MaxInvalidations /\ begun' = begun + 1 /\ iversion' = begun + 1
      /\ iwritten' = clock /\ ipc' = "rename" /\ UNCHANGED reqVars
      /\ UNCHANGED <<acked, clock, files, marker, cpc, cnow, victim>>
  BY DEF InvalidateBegin, cleanVars
<1>2. begun \in Nat /\ acked \in Nat /\ clock \in Nat /\ MaxInvalidations \in Nat
  BY CountersAreNumbers, Numbers DEF IInv
<1>3. acked <= begun
  BY DEF Hidden, GoodMarker
<1>4. begun <= begun + 1 /\ acked <= begun + 1 /\ acked < begun + 1 /\ acked <= acked /\ clock <= clock
  BY <1>2, <1>3
<1>5. ASSUME NEW e \in Derivatives, GoodStamp(e) PROVE GoodStamp(e)'
  <2>1. e.epoch \in Nat /\ e.mtime <= clock
    BY <1>5, DerivativesAreStamps DEF IInv, GoodStamp
  <2>2. e.epoch <= begun + 1
    BY <1>2, <1>5, <2>1 DEF GoodStamp
  <2> QED BY <1>1, <1>5, <2>1, <2>2 DEF GoodStamp, Outdated
<1>6. GoodMarker'
  BY <1>1, <1>4 DEF Hidden, GoodMarker
<1>7. victim # Marker
  BY <1>1, <1>2 DEF Hidden, GoodCleanup
<1>8. GoodCleanup'
  BY <1>1, <1>7 DEF Hidden, GoodCleanup
<1> QED BY <1>1, <1>4, <1>5, <1>6, <1>8, OthersHide

\* The new marker was written after everything it is to hide.
LEMMA InvalidateInstallHides ==
  ASSUME IInv, Hidden, IInv', InvalidateInstall
  PROVE  Hidden'
<1> DEFINE m == [bytes |-> iversion, whole |-> TRUE, mtime |-> iwritten]
<1>1. /\ ipc = "rename" /\ marker' = m /\ acked' = iversion /\ ipc' = "idle" /\ UNCHANGED reqVars
      /\ UNCHANGED <<begun, clock, files, cpc, cnow, victim>> /\ m.bytes = iversion /\ m.mtime = iwritten /\ m.whole
  BY DEF InvalidateInstall, cleanVars
<1>2. begun \in Nat /\ acked \in Nat /\ clock \in Nat
  BY CountersAreNumbers DEF IInv
<1>3. iversion = begun /\ acked < begun
  BY <1>1 DEF Hidden, GoodMarker
<1>4. begun <= begun /\ acked <= begun /\ clock <= clock
  BY <1>2, <1>3
<1>5. m # None
  <2>1. m \in Markers
    BY <1>1 DEF IInv, Pending, Markers
  <2> QED BY <2>1, NoneIsNothing
<1> HIDE DEF m
<1>6. ASSUME NEW e \in Derivatives, GoodStamp(e) PROVE GoodStamp(e)'
  <2>1. e.epoch < begun => e.mtime <= iwritten
    BY <1>1, <1>6 DEF GoodStamp
  <2> QED BY <1>1, <1>3, <1>5, <1>6, <2>1 DEF GoodStamp, Outdated
<1>7. GoodMarker'
  BY <1>1, <1>3, <1>4 DEF GoodMarker
<1>8. victim # Marker
  BY <1>1 DEF Hidden, GoodCleanup
<1>9. GoodCleanup'
  BY <1>1, <1>8 DEF Hidden, GoodCleanup
<1> QED BY <1>1, <1>3, <1>4, <1>6, <1>7, <1>9, OthersHide

LEMMA InvalidateFailsHides ==
  ASSUME IInv, Hidden, IInv', InvalidateFails
  PROVE  Hidden'
<1>1. /\ ipc = "rename" /\ ipc' = "idle" /\ UNCHANGED reqVars
      /\ UNCHANGED <<begun, acked, clock, files, marker, cpc, cnow, victim>>
  BY DEF InvalidateFails, cleanVars
<1>2. begun <= begun /\ acked <= acked /\ clock <= clock
  BY CountersAreNumbers DEF IInv
<1>3. \A e \in Derivatives : GoodStamp(e) => GoodStamp(e)'
  BY <1>1 DEF GoodStamp, Outdated
<1>4. GoodMarker' /\ GoodCleanup'
  BY <1>1 DEF Hidden, GoodMarker, GoodCleanup
<1> QED BY <1>1, <1>2, <1>3, <1>4, OthersHide

\* The cleanup meets the marker when every invalidation there may be is over, and what
\* the marker hides has expired with it.
LEMMA CleanupStatHides ==
  ASSUME IInv, Hidden, IInv', Scheduled, CleanupStat
  PROVE  Hidden'
<1>1. /\ cpc = "walk" /\ cpc' = "remove" /\ UNCHANGED reqVars
      /\ UNCHANGED <<cnow, clock, files, marker, ipc, iversion, iwritten, begun, acked>>
  BY DEF CleanupStat, invVars
<1>2. begun <= begun /\ acked <= acked /\ clock <= clock
  BY CountersAreNumbers DEF IInv
<1>3. \A e \in Derivatives : GoodStamp(e) => GoodStamp(e)'
  BY <1>1 DEF GoodStamp, Outdated
<1>4. GoodMarker'
  BY <1>1 DEF Hidden, GoodMarker
<1>5. CleanupRuns /\ cnow <= clock
  BY <1>1 DEF Hidden, GoodCleanup
<1>6. CASE marker # None /\ Expired(marker.mtime, cnow) /\ victim' = Marker
  <2>1. marker.bytes = acked /\ marker.mtime \in Nat /\ marker.bytes >= 1 /\ marker.mtime <= marker.mtime
    BY <1>6, CountersAreNumbers DEF IInv, Hidden, GoodMarker
  <2>2. /\ begun \in Nat /\ acked \in Nat /\ cnow \in Nat /\ clock \in Nat /\ MaxInvalidations \in Nat
        /\ begun <= MaxInvalidations
    BY CountersAreNumbers, Numbers DEF IInv, TypeOK, Epochs
  <2>3. MaxInvalidations <= 1 /\ acked <= begun
    BY <1>5 DEF Scheduled, Hidden, GoodMarker
  <2>4. begun = MaxInvalidations /\ ~(acked < begun)
    BY <2>1, <2>2, <2>3
  <2>5. ipc = "idle"
    BY <2>4 DEF IInv, TypeOK, Hidden, GoodMarker
  <2>6. Expired(marker.mtime, clock)
    BY <1>5, <1>6, <2>1, <2>2, ExpiredStays
  <2>7. GoodCleanup'
    BY <1>1, <1>5, <2>4, <2>5, <2>6 DEF GoodCleanup
  <2> QED BY <1>1, <1>2, <1>3, <1>4, <2>7, OthersHide
<1>7. CASE \E k \in Keys : victim' = k
  <2>1. victim' # Marker
    BY <1>7, NoneIsNothing
  <2>2. GoodCleanup'
    BY <1>1, <1>5, <2>1 DEF GoodCleanup
  <2> QED BY <1>1, <1>2, <1>3, <1>4, <2>2, OthersHide
<1> QED BY <1>6, <1>7 DEF CleanupStat

LEMMA CleanupRemoveHides ==
  ASSUME IInv, Hidden, IInv', CleanupRemove
  PROVE  Hidden'
<1>1. /\ cpc = "remove" /\ cpc' = "walk" /\ victim' = None /\ UNCHANGED reqVars
      /\ UNCHANGED <<cnow, clock, ipc, iversion, iwritten, begun, acked>>
  BY DEF CleanupRemove, invVars
<1>2. begun <= begun /\ acked <= acked /\ clock <= clock /\ clock \in Nat
  BY CountersAreNumbers DEF IInv
<1>3. GoodCleanup'
  BY <1>1, NoneIsNothing DEF Hidden, GoodCleanup
<1>4. CASE victim = Marker /\ marker' = None /\ UNCHANGED files
  <2>1. marker # None => Expired(marker.mtime, clock)
    BY <1>4 DEF Hidden, GoodCleanup
  <2>2. ASSUME NEW e \in Derivatives, Outdated(e) PROVE Expired(e.mtime, clock)
    <3>1. CASE marker = None
      BY <2>2, <3>1 DEF Outdated
    <3>2. CASE marker # None
      <4>1. e.mtime \in Nat /\ marker.mtime \in Nat /\ e.mtime <= marker.mtime
        BY <2>2, <3>2, DerivativesAreStamps, CountersAreNumbers DEF IInv, Outdated
      <4> QED BY <1>2, <2>1, <3>2, <4>1, ExpiredStays
    <3> QED BY <3>1, <3>2
  <2>3. \A e \in Derivatives : GoodStamp(e) => GoodStamp(e)'
    BY <1>1, <1>4, <2>2 DEF GoodStamp, Outdated
  <2>4. GoodMarker'
    BY <1>1, <1>4 DEF Hidden, GoodMarker
  <2> QED BY <1>1, <1>2, <1>3, <1>4, <2>3, <2>4, OthersHide
<1>5. CASE files' = [files EXCEPT ![victim] = None] /\ UNCHANGED marker
  <2>1. \A k \in Keys : files'[k] \in {None, files[k]}
    BY <1>5 DEF IInv, TypeOK
  <2>2. \A e \in Derivatives : GoodStamp(e) => GoodStamp(e)'
    BY <1>1, <1>5 DEF GoodStamp, Outdated
  <2>3. GoodMarker'
    BY <1>1, <1>5 DEF Hidden, GoodMarker
  <2> QED BY <1>1, <1>2, <1>3, <2>1, <2>2, <2>3, OthersHide
<1> QED BY <1>4, <1>5 DEF CleanupRemove, Remove

LEMMA CleanupBeginHides ==
  ASSUME IInv, Hidden, IInv', CleanupBegin
  PROVE  Hidden'
<1>1. /\ CleanupRuns /\ cpc = "idle" /\ cnow' = clock /\ cpc' = "walk" /\ UNCHANGED reqVars
      /\ UNCHANGED <<victim, clock, files, marker, ipc, iversion, iwritten, begun, acked>>
  BY DEF CleanupBegin, invVars
<1>2. begun <= begun /\ acked <= acked /\ clock <= clock
  BY CountersAreNumbers DEF IInv
<1>3. \A e \in Derivatives : GoodStamp(e) => GoodStamp(e)'
  BY <1>1 DEF GoodStamp, Outdated
<1>4. GoodMarker' /\ GoodCleanup'
  BY <1>1, <1>2 DEF Hidden, GoodMarker, GoodCleanup
<1> QED BY <1>1, <1>2, <1>3, <1>4, OthersHide

LEMMA CleanupEndHides ==
  ASSUME IInv, Hidden, IInv', CleanupEnd
  PROVE  Hidden'
<1>1. /\ cpc = "walk" /\ cpc' = "idle" /\ UNCHANGED reqVars
      /\ UNCHANGED <<victim, clock, files, marker, ipc, iversion, iwritten, begun, acked>>
  BY DEF CleanupEnd, invVars
<1>2. begun <= begun /\ acked <= acked /\ clock <= clock
  BY CountersAreNumbers DEF IInv
<1>3. \A e \in Derivatives : GoodStamp(e) => GoodStamp(e)'
  BY <1>1 DEF GoodStamp, Outdated
<1>4. victim # Marker
  BY <1>1 DEF Hidden, GoodCleanup
<1>5. GoodMarker' /\ GoodCleanup'
  BY <1>1, <1>4 DEF Hidden, GoodMarker, GoodCleanup
<1> QED BY <1>1, <1>2, <1>3, <1>5, OthersHide

LEMMA SourceChangesHides ==
  ASSUME IInv, Hidden, IInv', SourceChanges
  PROVE  Hidden'
<1>1. /\ UNCHANGED reqVars
      /\ UNCHANGED <<clock, files, marker, ipc, iversion, iwritten, begun, acked, cpc, cnow, victim>>
  BY DEF SourceChanges, invVars, cleanVars
<1>2. begun <= begun /\ acked <= acked /\ clock <= clock
  BY CountersAreNumbers DEF IInv
<1>3. \A e \in Derivatives : GoodStamp(e) => GoodStamp(e)'
  BY <1>1 DEF GoodStamp, Outdated
<1>4. GoodMarker' /\ GoodCleanup'
  BY <1>1 DEF Hidden, GoodMarker, GoodCleanup
<1> QED BY <1>1, <1>2, <1>3, <1>4, OthersHide

LEMMA TickHides ==
  ASSUME IInv, Hidden, IInv', Tick
  PROVE  Hidden'
<1>1. /\ clock' = clock + 1 /\ UNCHANGED reqVars
      /\ UNCHANGED <<files, marker, ipc, iversion, iwritten, begun, acked, cpc, cnow, victim>>
  BY DEF Tick, invVars, cleanVars
<1>2. clock \in Nat /\ cnow \in Nat /\ clock + 1 \in Nat /\ clock <= clock + 1 /\ begun <= begun /\ acked <= acked
  BY CountersAreNumbers DEF IInv
<1>3. ASSUME NEW m \in Nat, Expired(m, clock) PROVE Expired(m, clock + 1)
  <2>1. m <= m
    OBVIOUS
  <2> QED BY <1>2, <1>3, <2>1, ExpiredStays
<1>4. ASSUME NEW e \in Derivatives, GoodStamp(e) PROVE GoodStamp(e)'
  <2>1. e.mtime \in Nat /\ e.mtime <= clock
    BY <1>4, DerivativesAreStamps DEF IInv, GoodStamp
  <2>2. e.mtime <= clock + 1
    BY <1>2, <2>1
  <2>3. Outdated(e) => Outdated(e)'
    BY <1>1, <1>3, <2>1 DEF Outdated
  <2> QED BY <1>1, <1>4, <2>2, <2>3 DEF GoodStamp
<1>5. GoodMarker'
  BY <1>1 DEF Hidden, GoodMarker
<1>6. cnow <= clock => cnow <= clock + 1
  BY <1>2
<1>7. marker # None /\ Expired(marker.mtime, clock) => Expired(marker.mtime, clock + 1)
  BY <1>3, CountersAreNumbers DEF IInv
<1>8. GoodCleanup'
  BY <1>1, <1>6, <1>7 DEF Hidden, GoodCleanup
<1> QED BY <1>1, <1>2, <1>4, <1>5, <1>8, OthersHide

\* What was on its way to the cache is gone, and so are the requests.
LEMMA StopHides ==
  ASSUME IInv, Hidden, IInv', ServerStops, UNCHANGED <<clock, begun, acked>>,
         \A k \in Keys : files'[k] # None =>
           files[k] # None /\ Stamp(files'[k]) = Stamp(files[k]) /\ files'[k].epoch = files[k].epoch,
         marker' = None <=> marker = None, marker # None => marker'.mtime = marker.mtime,
         GoodMarker', GoodCleanup'
  PROVE  Hidden'
<1>1. ipc' = "idle" /\ \A r \in Requests : pc'[r] = "idle" /\ ns'[r] = None
  BY DEF ServerStops
<1>2. Derivatives' \subseteq Derivatives
  BY <1>1, FewerDerivatives
<1>3. \A e \in Derivatives' : GoodStamp(e)'
  BY <1>1, <1>2 DEF Hidden, GoodStamp, Outdated
<1>4. (\A k \in Keys : files[k] # None /\ k.ns # None => Behind(k.ns) <= files[k].epoch)'
  BY DEF Hidden
<1>5. \A r \in Requests : GoodNamespace(r)'
  BY <1>1 DEF GoodNamespace
<1> QED BY <1>3, <1>4, <1>5 DEF Hidden

LEMMA CrashHides ==
  ASSUME IInv, Hidden, IInv', Crash
  PROVE  Hidden'
<1>1. /\ ServerStops /\ ipc' = "idle"
      /\ UNCHANGED <<clock, files, marker, begun, acked, cpc, cnow, victim>>
  BY DEF Crash, ServerStops, cleanVars
<1>2. GoodMarker' /\ GoodCleanup'
  BY <1>1 DEF Hidden, GoodMarker, GoodCleanup
<1> QED BY <1>1, <1>2, StopHides

\* A file without its bytes is as old as it was, and so is a marker without contents.
LEMMA PowerFailsHides ==
  ASSUME IInv, Hidden, IInv', Scheduled, PowerFails
  PROVE  Hidden'
<1>1. /\ LoseBytes /\ ServerStops /\ ipc' = "idle" /\ cpc' = "idle" /\ victim' = None
      /\ UNCHANGED <<clock, begun, acked>>
  BY DEF PowerFails, Scheduled, LoseName, ServerStops
<1>2. ~Kept
  BY <1>1 DEF LoseBytes, Kept
<1>3. ASSUME NEW k \in Keys, files'[k] # None
      PROVE  files[k] # None /\ files'[k].mtime = files[k].mtime /\ files'[k].epoch = files[k].epoch
  <2>1. CASE UNCHANGED files
    BY <1>3, <2>1
  <2>2. CASE \E j \in Keys : files[j] # None /\ files' = [files EXCEPT ![j].whole = FALSE]
    <3>1. PICK j \in Keys : files[j] # None /\ files' = [files EXCEPT ![j].whole = FALSE]
      BY <2>2
    <3>2. files[j] \in Files
      BY <3>1 DEF IInv, TypeOK
    <3>3. CASE k = j
      BY <3>1, <3>2, <3>3 DEF IInv, TypeOK, Files
    <3>4. CASE k # j
      BY <1>3, <3>1, <3>4 DEF IInv, TypeOK
    <3> QED BY <3>3, <3>4
  <2> QED BY <1>1, <2>1, <2>2 DEF LoseBytes
<1>4. /\ marker' = None <=> marker = None
      /\ marker # None => marker'.mtime = marker.mtime /\ marker'.bytes = marker.bytes
  <2>1. CASE UNCHANGED marker
    BY <2>1
  <2>2. CASE marker # None /\ marker' = [marker EXCEPT !.whole = FALSE]
    <3>1. marker' \in Markers /\ marker'.mtime = marker.mtime /\ marker'.bytes = marker.bytes
      BY <2>2 DEF IInv, TypeOK, Markers
    <3> QED BY <2>2, <3>1, NoneIsNothing
  <2> QED BY <1>1, <2>1, <2>2 DEF LoseBytes
<1>5. GoodMarker'
  BY <1>1, <1>2, <1>4 DEF Hidden, GoodMarker, Kept
<1>6. GoodCleanup'
  BY <1>1, NoneIsNothing DEF GoodCleanup
<1> QED BY <1>1, <1>3, <1>4, <1>5, <1>6, StopHides DEF Stamp

LEMMA InitHidden == Init => Hidden
<1> SUFFICES ASSUME Init PROVE Hidden
  OBVIOUS
<1>1. OnDisk = {} /\ Coming = {}
  <2>1. files = [k \in Keys |-> None] /\ pc = [r \in Requests |-> "idle"]
    BY DEF Init
  <2>2. (\A k \in Keys : files[k] = None) /\ \A r \in Requests : pc[r] = "idle"
    BY <2>1
  <2> QED BY <2>2 DEF OnDisk, Coming
<1>2. GoodMarker
  BY DEF Init, GoodMarker
<1>3. GoodCleanup
  BY NoneIsNothing DEF Init, GoodCleanup
<1>4. \A r \in Requests : GoodNamespace(r)
  <2>1. \A r \in Requests : pc[r] = "idle" /\ ns[r] = None
    BY Zenon DEF Init
  <2> QED BY <2>1, Zenon DEF GoodNamespace
<1>5. \A k \in Keys : files[k] # None /\ k.ns # None => Behind(k.ns) <= files[k].epoch
  <2>1. files = [k \in Keys |-> None]
    BY DEF Init
  <2> QED BY <2>1
<1> QED BY <1>1, <1>2, <1>3, <1>4, <1>5 DEF Hidden, Derivatives

LEMMA NextHides == IInv /\ Hidden /\ Scheduled /\ [Next]_vars => Hidden'
<1> SUFFICES ASSUME IInv, Hidden, Scheduled, [Next]_vars PROVE Hidden'
  OBVIOUS
<1>1. IInv'
  BY NextKeeps
<1>2. CASE UNCHANGED vars
  BY <1>2 DEF vars, reqVars, invVars, cleanVars, Hidden, Derivatives, OnDisk, Coming, GoodStamp, Outdated,
              GoodMarker, GoodCleanup, GoodNamespace
<1>3. ASSUME NEW r \in Requests, Serve(r) PROVE Hidden'
  BY <1>1, <1>3, ServeHides
<1> QED BY <1>1, <1>2, <1>3, InvalidateBeginHides, InvalidateInstallHides, InvalidateFailsHides, CleanupBeginHides,
           CleanupStatHides, CleanupRemoveHides, CleanupEndHides, SourceChangesHides, TickHides, CrashHides, PowerFailsHides
        DEF Next
---------------------------------------------------------------------------
\* Every reachable state has the properties of IInv, whatever the cache, the source, the
\* invalidation route, the cleanup and a crash of the server do.
THEOREM Invariance == Spec => []IInv
<1>1. IInv /\ [Next]_vars => IInv'
  BY NextKeeps
<1> QED BY <1>1, InitHolds, PTL DEF Spec

\* Every variable has its type, and a request holds derivative, temporary file and answer
\* exactly at the steps that use them.
THEOREM TypeCorrect == Spec => []TypeOK
<1>1. IInv => TypeOK
  BY DEF IInv
<1> QED BY <1>1, Invariance, PTL

\* What serveImage answers with, from the source, the cache or by confirming the client's
\* copy, is no older than the source was when the request began.
THEOREM Current == Spec => []ServedIsCurrent
<1>1. IInv => ServedIsCurrent
  <2> SUFFICES ASSUME IInv, NEW r \in Requests, pc[r] = "answered" PROVE got[r].bytes >= began[r].source
    BY DEF ServedIsCurrent
  <2>1. began[r].source <= got[r].bytes
    BY DEF IInv, GoodRequest, Good
  <2>2. began[r].source \in Versions /\ got[r] \in Responses
    BY DEF IInv, TypeOK, GoodRequest, Good
  <2>3. began[r].source \in Nat /\ got[r].bytes \in Nat
    BY <2>2, Numbers DEF Responses
  <2> QED BY <2>1, <2>3
<1> QED BY <1>1, Invariance, PTL

\* While the disk keeps the bytes of the files whose names it keeps, a derivative is never
\* served in part: Put renames it into its name when it is complete, whichever call of it
\* fails and wherever the server dies.  A partly written temporary file never gets a name.
THEOREM Whole == ASSUME Kept PROVE Spec => []ServedIsWhole
<1>1. IInv => ServedIsWhole
  BY DEF IInv, GoodRequest, Good, ServedIsWhole
<1> QED BY <1>1, Invariance, PTL

\* Under the conditions of Scheduled, whatever can be read of a marker, a request that
\* begins after an acknowledged invalidation gets no derivative that was written before it.
THEOREM Ignored == ASSUME Scheduled PROVE Spec => []InvalidatedIsIgnored
<1>1. Init => IInv /\ Hidden
  BY InitHolds, InitHidden
<1>2. IInv /\ Hidden /\ [Next]_vars => (IInv /\ Hidden)'
  BY NextKeeps, NextHides
<1>3. IInv /\ Hidden => InvalidatedIsIgnored
  <2> SUFFICES ASSUME IInv, Hidden, NEW r \in Requests, pc[r] = "answered", got[r].epoch # None
               PROVE  got[r].epoch >= began[r].acked
    BY DEF InvalidatedIsIgnored
  <2>1. began[r].acked <= got[r].epoch
    BY DEF Hidden, GoodNamespace
  <2>2. began[r].acked \in Epochs /\ got[r] \in Responses
    BY DEF IInv, TypeOK, GoodRequest, Good
  <2>3. began[r].acked \in Nat /\ got[r].epoch \in Nat
    BY <2>2, Numbers DEF Responses
  <2> QED BY <2>1, <2>3
<1> QED BY <1>1, <1>2, <1>3, PTL DEF Spec
============================================================================
