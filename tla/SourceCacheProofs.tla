------------------------- MODULE SourceCacheProofs -------------------------
(***************************************************************************)
(* Proofs about SourceCache, for any requests and refreshes, any versions  *)
(* of a source and any number of blocks in each.                           *)
(***************************************************************************)
EXTENDS SourceCache, FiniteSetTheorems, TLAPS

\* What a goroutine reads from, and the steps of a fill.
Sources == [version : Versions, ranged : BOOLEAN]
Copying == {"copy", "stream"}
Locked == {"type", "typed"}
RefresherSteps == {"idle", "fetch", "copy", "install", "release"} \cup Locked
ReaderSteps == {"idle", "head", "open", "fetch", "copy", "install", "reget", "stream", "derive"} \cup Locked
EmptyHanded == {"idle", "head", "open", "fetch", "reget", "release"}
HasSource == {"install", "reget"} \cup Copying \cup Locked

\* A goroutine: its step, its reader and the blocks it has.
GoodFill(step, src, bytes) ==
  /\ step \in EmptyHanded => bytes = <<>>
  /\ step \in HasSource => src \in Sources
  /\ step \in {"install"} \cup Copying => OfOneSize(bytes, src.version)
  /\ step \in Copying /\ src.ranged => Len(bytes) < Blocks[src.version]
  /\ step = "derive" => \E v \in Versions : OfOneSize(bytes, v)

\* Whoever has the mutex has renamed the payload, whose content type it will write.
GoodInstall(step, src) ==
  /\ step \in Locked => data \in Entries /\ data.type = src.version
  /\ step = "typed" => meta = Torn

GoodProc(p) ==
  /\ p \in Readers => pc[p] \in ReaderSteps
  /\ p \in Refreshers => pc[p] \in RefresherSteps
  /\ GoodFill(pc[p], source[p], copied[p])
  /\ GoodInstall(pc[p], source[p])

\* The refreshing map tells whether a goroutine refreshes, and there is one at most.
Refreshing ==
  /\ \A g, h \in Refreshers : pc[g] # "idle" /\ pc[h] # "idle" => g = h
  /\ refreshing <=> \E g \in Refreshers : pc[g] # "idle"

EntrySizes == data # None => OfOneSize(data.bytes, data.type)

Agreed == RemoveFails \/ EntryAgrees

IInv ==
  /\ TypeOK
  /\ Agreed
  /\ EntrySizes
  /\ Refreshing
  /\ \A p \in Procs : GoodProc(p)

\* The upstream serves no ranges, or no response ends early and the versions of a source
\* can be told by their sizes.
Faithful ==
  \/ ~Ranges
  \/ ~Cuts /\ \A v, w \in Versions : Blocks[v] = Blocks[w] => v = w

Original(bytes) == \E v \in Versions : bytes = Whole(v)

GoodBytes(p) ==
  /\ pc[p] \in HasSource /\ source[p].ranged => Ranges
  /\ pc[p] \in Copying => \A i \in DOMAIN copied[p] : copied[p][i] = source[p].version
  /\ pc[p] \in {"install", "derive"} => Original(copied[p])

Originals == EntryIsOriginal /\ \A p \in Procs : GoodBytes(p)
---------------------------------------------------------------------------
LEMMA Numbers ==
  /\ Versions \subseteq Nat /\ 1 \in Versions
  /\ \A v \in Versions : Blocks[v] \in Nat /\ Blocks[v] > 0
BY Bound, BlocksType DEF Versions

LEMMA SourcesAreTyped ==
  ASSUME NEW x \in Sources
  PROVE  x.version \in Versions /\ x.ranged \in BOOLEAN /\ Blocks[x.version] \in Nat /\ Blocks[x.version] > 0
BY Numbers DEF Sources

LEMMA NothingIsOfOneSize ==
  ASSUME NEW v \in Versions
  PROVE  OfOneSize(<<>>, v) /\ Len(<<>>) < Blocks[v] /\ <<>> \in Seq(Versions)
BY Numbers DEF OfOneSize

LEMMA WholeIsOfOneSize ==
  ASSUME NEW v \in Versions
  PROVE  Whole(v) \in Seq(Versions) /\ OfOneSize(Whole(v), v)
<1>1. Blocks[v] \in Nat
  BY Numbers
<1>2. Whole(v) \in [1..Blocks[v] -> Versions] /\ Whole(v) \in Seq(Versions) /\ Len(Whole(v)) = Blocks[v]
  BY <1>1 DEF Whole
<1>3. \A i \in DOMAIN Whole(v) : Whole(v)[i] = v
  BY DEF Whole
<1> QED BY <1>1, <1>2, <1>3 DEF OfOneSize

\* What a step of another goroutine leaves alone.
Untouched(q) == pc'[q] = pc[q] /\ source'[q] = source[q] /\ copied'[q] = copied[q]

LEMMA Same ==
  ASSUME TypeOK, NEW p \in Procs
  PROVE  /\ source = [source EXCEPT ![p] = source[p]] /\ copied = [copied EXCEPT ![p] = copied[p]]
         /\ source[p] \in Sources \cup {None} /\ copied[p] \in Seq(Versions)
BY DEF TypeOK, Sources

\* Nobody but the holder of the mutex relies on the files of the entry.
LEMMA OneSteps ==
  ASSUME IInv, TypeOK', NEW p \in Procs, \A q \in Procs \ {p} : Untouched(q),
         \A q \in Procs \ {p} : pc[q] \in Locked => data' = data /\ meta' = meta,
         refreshing' = refreshing, p \in Refreshers => pc[p] # "idle" /\ pc'[p] # "idle",
         Agreed', EntrySizes', GoodProc(p)'
  PROVE  IInv'
<1>1. ASSUME NEW q \in Procs PROVE GoodProc(q)'
  <2>1. CASE q = p
    BY <2>1
  <2>2. CASE q # p
    <3>1. GoodProc(q) /\ Untouched(q) /\ (pc[q] \in Locked => data' = data /\ meta' = meta)
      BY <2>2 DEF IInv
    <3>2. "typed" \in Locked
      BY DEF Locked
    <3> QED BY <3>1, <3>2 DEF GoodProc, GoodFill, GoodInstall, Untouched
  <2> QED BY <2>1, <2>2
<1>2. \A g \in Refreshers : pc'[g] # "idle" <=> pc[g] # "idle"
  BY DEF Untouched, Procs
<1>3. Refreshing'
  BY <1>2 DEF IInv, Refreshing
<1> QED BY <1>1, <1>3 DEF IInv

\* A goroutine goes on to a step with a reader and some blocks, outside the mutex.
LEMMA Moves ==
  ASSUME IInv, NEW p \in Procs, NEW step, NEW x \in Sources \cup {None}, NEW b \in Seq(Versions),
         Goto(p, step), source' = [source EXCEPT ![p] = x], copied' = [copied EXCEPT ![p] = b],
         UNCHANGED <<upstream, storeVars, refreshing>>, pc[p] \notin Locked,
         p \in Readers => step \in ReaderSteps \ Locked,
         p \in Refreshers => pc[p] # "idle" /\ step \in RefresherSteps \ (Locked \cup {"idle"}),
         GoodFill(step, x, b)
  PROVE  IInv'
<1>1. /\ pc'[p] = step /\ source'[p] = x /\ copied'[p] = b
      /\ \A q \in Procs \ {p} : Untouched(q)
      /\ UNCHANGED <<data, meta, mu, upstream, refreshing>> /\ step \notin Locked
  BY Goroutines DEF Goto, IInv, TypeOK, Untouched, storeVars, Procs
<1>2. pc' \in [Procs -> ReaderSteps \cup RefresherSteps]
  BY DEF Goto, IInv, TypeOK, ReaderSteps, RefresherSteps, Locked, Procs
<1>3. \A q \in Procs : mu' = q <=> pc'[q] \in Locked
  BY <1>1 DEF IInv, TypeOK, Untouched, Locked
<1>4. TypeOK'
  BY <1>1, <1>2, <1>3 DEF IInv, TypeOK, Sources, ReaderSteps, RefresherSteps, Locked
<1>5. GoodProc(p)'
  BY <1>1 DEF GoodProc, GoodInstall, Locked
<1>6. Agreed' /\ EntrySizes'
  BY <1>1 DEF IInv, Agreed, EntryAgrees, EntrySizes, Cached
<1>7. p \in Refreshers => pc'[p] # "idle"
  BY <1>1
<1> QED BY <1>1, <1>4, <1>5, <1>6, <1>7, OneSteps

LEMMA StepsAreNamed ==
  /\ "type" \in Locked /\ "typed" \in Locked
  /\ {"idle", "head", "open", "fetch", "copy", "install", "reget", "stream", "derive"} = ReaderSteps \ Locked
  /\ {"fetch", "copy", "install", "release"} = RefresherSteps \ (Locked \cup {"idle"})
BY DEF Locked, ReaderSteps, RefresherSteps

\* A goroutine is a request or a refresh, not both.
LEMMA Kinds ==
  ASSUME IInv, NEW p \in Procs
  PROVE  /\ p \in Readers => p \notin Refreshers /\ pc[p] \in ReaderSteps
         /\ p \in Refreshers => p \notin Readers /\ pc[p] \in RefresherSteps
         /\ p \in Readers \/ p \in Refreshers
BY Goroutines DEF IInv, GoodProc, Procs

\* The end of a request.
LEMMA ForgetKeeps ==
  ASSUME IInv, NEW r \in Readers, pc[r] \notin Locked, Forget(r), UNCHANGED <<upstream, storeVars, refreshing>>
  PROVE  IInv'
<1>1. r \in Procs /\ r \notin Refreshers /\ "idle" \in ReaderSteps \ Locked
  BY Goroutines, StepsAreNamed DEF Procs
<1>2. GoodFill("idle", None, <<>>)
  BY DEF GoodFill, HasSource, Copying, Locked
<1>3. Goto(r, "idle") /\ source' = [source EXCEPT ![r] = None] /\ copied' = [copied EXCEPT ![r] = <<>>]
  BY DEF Forget, Copy
<1>4. <<>> \in Seq(Versions) /\ None \in Sources \cup {None}
  OBVIOUS
<1> QED BY <1>1, <1>2, <1>3, <1>4, Moves

\* A request goes on with nothing.
LEMMA GoesOn ==
  ASSUME IInv, NEW r \in Readers, pc[r] \in EmptyHanded, NEW step \in {"head", "open", "fetch"}, Goto(r, step),
         UNCHANGED <<upstream, storeVars, refreshing, fillVars>>
  PROVE  IInv'
<1>1. r \in Procs /\ r \notin Refreshers /\ step \in ReaderSteps \ Locked /\ pc[r] \notin Locked
  BY Goroutines, StepsAreNamed DEF Procs, EmptyHanded, Locked
<1>2. GoodFill(step, source[r], copied[r])
  BY <1>1 DEF IInv, GoodProc, GoodFill, EmptyHanded, HasSource, Copying, Locked
<1>3. UNCHANGED <<source, copied>>
  BY DEF fillVars
<1> QED BY <1>1, <1>2, <1>3, Same, Moves DEF IInv

\* A stale hit starts a refresh where none runs: a goroutine that was idle is the one.
LEMMA HitKeeps ==
  ASSUME IInv, NEW r \in Readers, pc[r] \notin Locked, NEW step \in ReaderSteps \ Locked, NEW b \in Seq(Versions),
         HitGoes(r, step), copied' = [copied EXCEPT ![r] = b], UNCHANGED <<upstream, storeVars, source>>,
         GoodFill(step, source[r], b)
  PROVE  IInv'
<1>0. r \in Procs /\ r \notin Refreshers
  BY Goroutines DEF Procs
<1>1. CASE Goto(r, step) /\ UNCHANGED refreshing
  BY <1>0, <1>1, Same, Moves DEF IInv
<1>2. CASE ~refreshing /\ refreshing' = TRUE /\ pc' = [pc EXCEPT ![r] = step, ![IdleRefresher] = "fetch"]
  <2> DEFINE g == IdleRefresher
  <2>1. \A h \in Refreshers : pc[h] = "idle"
    BY <1>2 DEF IInv, Refreshing
  <2>2. g \in Refreshers
    BY <2>1, Goroutines DEF IdleRefresher
  <2> HIDE DEF g
  <2>3. g \in Procs /\ g # r /\ pc[g] = "idle"
    BY <1>0, <2>1, <2>2 DEF Procs
  <2>4. /\ pc'[r] = step /\ pc'[g] = "fetch" /\ copied'[r] = b /\ copied'[g] = copied[g] /\ source' = source
        /\ \A q \in Procs \ {r, g} : Untouched(q)
        /\ UNCHANGED <<data, meta, mu, upstream>>
    BY <1>0, <1>2, <2>3 DEF g, IInv, TypeOK, Untouched, storeVars
  <2>5. pc' \in [Procs -> ReaderSteps \cup RefresherSteps]
    BY <1>2 DEF IInv, TypeOK, ReaderSteps, RefresherSteps, Locked
  <2>6. \A q \in Procs : mu' = q <=> pc'[q] \in Locked
    BY <2>3, <2>4 DEF IInv, TypeOK, Untouched, Locked
  <2>7. TypeOK'
    BY <1>2, <2>4, <2>5, <2>6 DEF IInv, TypeOK, ReaderSteps, RefresherSteps, Locked
  <2>8. ASSUME NEW q \in Procs PROVE GoodProc(q)'
    <3>1. CASE q = r
      BY <1>0, <2>4, <3>1 DEF GoodProc, GoodInstall, Locked
    <3>2. CASE q = g
      <4>1. copied[g] = <<>>
        BY <2>3 DEF IInv, GoodProc, GoodFill, EmptyHanded
      <4> QED BY <2>2, <2>4, <3>2, <4>1, Goroutines
              DEF GoodProc, GoodFill, GoodInstall, EmptyHanded, HasSource, Copying, Locked, RefresherSteps
    <3>3. CASE q \notin {r, g}
      BY <2>4, <3>3 DEF IInv, GoodProc, GoodFill, GoodInstall, Untouched
    <3> QED BY <3>1, <3>2, <3>3
  <2>9. \A h \in Refreshers : pc'[h] # "idle" => h = g
    BY <1>0, <2>1, <2>4 DEF Untouched, Procs
  <2>10. Refreshing'
    BY <1>2, <2>2, <2>4, <2>9 DEF Refreshing
  <2>11. Agreed' /\ EntrySizes'
    BY <2>4 DEF IInv, Agreed, EntryAgrees, EntrySizes, Cached
  <2> QED BY <2>7, <2>8, <2>10, <2>11 DEF IInv
<1> QED BY <1>1, <1>2 DEF HitGoes

LEMMA MetaKeeps ==
  ASSUME IInv, NEW r \in Readers, MetaHit(r) \/ MetaMiss(r) \/ AskUpstream(r)
  PROVE  IInv'
<1>1. CASE MetaHit(r)
  <2>1. /\ pc[r] = "idle" /\ HitGoes(r, "open") /\ UNCHANGED <<upstream, storeVars, source, copied>>
    BY <1>1 DEF MetaHit, fillVars
  <2>2. r \in Procs /\ "open" \in ReaderSteps \ Locked /\ pc[r] \notin Locked
    BY <2>1, StepsAreNamed DEF Procs, Locked
  <2>3. GoodFill("open", source[r], copied[r])
    BY <2>1, <2>2 DEF IInv, GoodProc, GoodFill, EmptyHanded, HasSource, Copying, Locked
  <2>4. copied' = [copied EXCEPT ![r] = copied[r]] /\ copied[r] \in Seq(Versions)
    BY <2>1, <2>2, Same DEF IInv
  <2> QED BY <2>1, <2>2, <2>3, <2>4, HitKeeps
<1>2. CASE MetaMiss(r) \/ AskUpstream(r)
  BY <1>2, GoesOn DEF MetaMiss, AskUpstream, EmptyHanded
<1> QED BY <1>1, <1>2

LEMMA OpenKeeps ==
  ASSUME IInv, NEW r \in Readers, OpenHit(r) \/ OpenMiss(r)
  PROVE  IInv'
<1>1. CASE OpenHit(r)
  <2> DEFINE b == data.bytes
  <2>1. pc[r] = "open" /\ Cached /\ HitGoes(r, "derive") /\ UNCHANGED <<upstream, storeVars, source>>
        /\ copied' = [copied EXCEPT ![r] = b]
    BY <1>1 DEF OpenHit, Copy
  <2>2. "derive" \in ReaderSteps \ Locked /\ pc[r] \notin Locked
    BY <2>1, StepsAreNamed DEF Locked
  <2>3. b \in Seq(Versions) /\ data.type \in Versions /\ OfOneSize(b, data.type)
    BY <2>1 DEF IInv, TypeOK, Cached, Entries, EntrySizes
  <2>4. GoodFill("derive", source[r], b)
    BY <2>3 DEF GoodFill, EmptyHanded, HasSource, Copying, Locked
  <2> HIDE DEF b
  <2> QED BY <2>1, <2>2, <2>3, <2>4, HitKeeps
<1>2. CASE OpenMiss(r)
  BY <1>2, GoesOn DEF OpenMiss, EmptyHanded
<1> QED BY <1>1, <1>2

LEMMA EndsKeep ==
  ASSUME IInv, NEW r \in Readers, EndEarly(r) \/ Derive(r)
  PROVE  IInv'
<1>1. pc[r] \in {"head", "open", "derive"} /\ Forget(r) /\ UNCHANGED <<upstream, storeVars, refreshing>>
  BY DEF EndEarly, Derive
<1>2. pc[r] \notin Locked
  BY <1>1 DEF Locked
<1> QED BY <1>1, <1>2, ForgetKeeps

LEMMA RegetKeeps ==
  ASSUME IInv, NEW r \in Readers, Reget(r)
  PROVE  IInv'
<1>1. pc[r] = "reget" /\ UNCHANGED <<upstream, storeVars, refreshing, source>>
  BY DEF Reget
<1>2. r \in Procs /\ r \notin Refreshers /\ pc[r] \notin Locked /\ {"derive", "stream"} \subseteq ReaderSteps \ Locked
  BY <1>1, Goroutines, StepsAreNamed DEF Procs, Locked
<1>3. source' = [source EXCEPT ![r] = source[r]] /\ source[r] \in Sources
  BY <1>1, <1>2, Same DEF IInv, GoodProc, GoodFill, HasSource
<1>4. CASE Cached /\ Copy(r, data.bytes) /\ Goto(r, "derive")
  <2> DEFINE b == data.bytes
  <2>1. /\ b \in Seq(Versions) /\ copied' = [copied EXCEPT ![r] = b]
        /\ data.type \in Versions /\ OfOneSize(b, data.type)
    BY <1>4 DEF IInv, TypeOK, Cached, Entries, EntrySizes, Copy
  <2>2. GoodFill("derive", source[r], b)
    BY <2>1 DEF GoodFill, EmptyHanded, HasSource, Copying, Locked
  <2> HIDE DEF b
  <2> QED BY <1>1, <1>2, <1>3, <1>4, <2>1, <2>2, Moves
<1>5. CASE Goto(r, "stream") /\ UNCHANGED copied
  <2>1. copied[r] = <<>>
    BY <1>1, <1>2 DEF IInv, GoodProc, GoodFill, EmptyHanded
  <2>2. copied' = [copied EXCEPT ![r] = <<>>]
    BY <1>2, <1>5, <2>1, Same DEF IInv
  <2>3. GoodFill("stream", source[r], <<>>)
    BY <1>3, NothingIsOfOneSize, SourcesAreTyped DEF GoodFill, EmptyHanded
  <2> QED BY <1>1, <1>2, <1>3, <1>5, <2>2, <2>3, NothingIsOfOneSize, SourcesAreTyped, Moves
<1> QED BY <1>4, <1>5 DEF Reget
---------------------------------------------------------------------------
\* The steps of a fill, by a request or a refresh.
LEMMA FetchKeeps ==
  ASSUME IInv, NEW p \in Procs, Fetch(p)
  PROVE  IInv'
<1>1. /\ pc[p] = "fetch" /\ Goto(p, "copy") /\ UNCHANGED <<upstream, storeVars, refreshing, copied>>
      /\ upstream \in Versions
  BY DEF Fetch, IInv, TypeOK
<1>2. PICK ranged \in BOOLEAN : source' = [source EXCEPT ![p] = [version |-> upstream, ranged |-> ranged]]
  BY DEF Fetch
<1> DEFINE x == [version |-> upstream, ranged |-> ranged]
<1>3. x \in Sources /\ x.version = upstream
  BY <1>1 DEF Sources
<1>4. copied[p] = <<>>
  BY <1>1 DEF IInv, GoodProc, GoodFill, EmptyHanded
<1> HIDE DEF x
<1>5. copied' = [copied EXCEPT ![p] = <<>>]
  BY <1>1, <1>4, Same DEF IInv
<1>6. GoodFill("copy", x, <<>>)
  BY <1>1, <1>3, NothingIsOfOneSize DEF GoodFill, EmptyHanded
<1>7. pc[p] \notin Locked
  BY <1>1 DEF Locked
<1> QED BY <1>1, <1>2, <1>3, <1>5, <1>6, <1>7, NothingIsOfOneSize, StepsAreNamed, Moves DEF x

\* What holds of a reader and of the blocks read from it so far.
LEMMA CopyingIsGood ==
  ASSUME IInv, NEW p \in Procs, pc[p] \in Copying
  PROVE  /\ source[p] \in Sources /\ source[p].version \in Versions
         /\ copied[p] \in Seq(Versions) /\ upstream \in Versions
         /\ OfOneSize(copied[p], source[p].version)
         /\ source[p].ranged => Len(copied[p]) < Blocks[source[p].version]
         /\ pc[p] \notin Locked
         /\ p \in Refreshers => pc[p] = "copy"
<1>1. pc[p] \in HasSource /\ pc[p] \notin Locked
  BY DEF HasSource, Copying, Locked
<1>2. p \in Refreshers => pc[p] = "copy"
  BY DEF IInv, GoodProc, RefresherSteps, Copying, Locked
<1>3. source[p] \in Sources
  BY <1>1 DEF IInv, GoodProc, GoodFill
<1> QED BY <1>1, <1>2, <1>3, SourcesAreTyped DEF IInv, TypeOK, GoodProc, GoodFill

\* The end of a copy, of blocks of one size.
LEMMA FilledKeeps ==
  ASSUME IInv, NEW p \in Procs, pc[p] \in Copying, NEW b \in Seq(Versions), OfOneSize(b, source[p].version),
         Filled(p, b), UNCHANGED <<upstream, storeVars, refreshing, source>>
  PROVE  IInv'
<1> DEFINE step == IF pc[p] = "copy" THEN "install" ELSE "derive"
<1>1. /\ copied' = [copied EXCEPT ![p] = b] /\ Goto(p, step)
      /\ source' = [source EXCEPT ![p] = source[p]]
  BY Same DEF Filled, Copy, IInv
<1>2. /\ p \in Readers => step \in ReaderSteps \ Locked
      /\ p \in Refreshers => pc[p] # "idle" /\ step \in RefresherSteps \ (Locked \cup {"idle"})
  BY CopyingIsGood, StepsAreNamed DEF Copying
<1>3. GoodFill(step, source[p], b)
  BY CopyingIsGood DEF GoodFill, EmptyHanded, HasSource, Copying, Locked
<1> HIDE DEF step
<1> QED BY <1>1, <1>2, <1>3, CopyingIsGood, Moves

LEMMA AppendedIsOfOneSize ==
  ASSUME NEW b \in Seq(Versions), NEW v \in Versions, NEW u \in Versions,
         OfOneSize(b, v), Len(b) < Blocks[v], Blocks[u] = Blocks[v]
  PROVE  /\ Append(b, u) \in Seq(Versions) /\ OfOneSize(Append(b, u), v)
         /\ Len(Append(b, u)) # Blocks[u] => Len(Append(b, u)) < Blocks[v]
<1> DEFINE c == Append(b, u)
<1>1. /\ c \in Seq(Versions) /\ Len(c) = Len(b) + 1 /\ Len(b) \in Nat /\ DOMAIN c = 1..Len(c)
      /\ DOMAIN b = 1..Len(b)
      /\ \A i \in 1..Len(b) : c[i] = b[i]
      /\ c[Len(b) + 1] = u
  OBVIOUS
<1>2. Blocks[v] \in Nat
  BY Numbers
<1> HIDE DEF c
<1>3. Len(c) <= Blocks[v] /\ (Len(c) # Blocks[u] => Len(c) < Blocks[v])
  BY <1>1, <1>2
<1>4. ASSUME NEW i \in DOMAIN c PROVE Blocks[c[i]] = Blocks[v]
  <2>1. i \in 1..Len(b) \/ i = Len(b) + 1
    BY <1>1, <1>4
  <2> QED BY <1>1, <2>1 DEF OfOneSize
<1>5. OfOneSize(c, v)
  BY <1>3, <1>4 DEF OfOneSize
<1> QED BY <1>1, <1>3, <1>5 DEF c

LEMMA CopyWholeKeeps ==
  ASSUME IInv, NEW p \in Procs, CopyWhole(p)
  PROVE  IInv'
<1>1. /\ pc[p] \in Copying /\ Filled(p, Whole(source[p].version))
      /\ UNCHANGED <<upstream, storeVars, refreshing, source>>
  BY DEF CopyWhole, Copying
<1> QED BY <1>1, CopyingIsGood, WholeIsOfOneSize, FilledKeeps

LEMMA CopyBlockKeeps ==
  ASSUME IInv, NEW p \in Procs, CopyBlock(p)
  PROVE  IInv'
<1> DEFINE v == source[p].version
           b == Append(copied[p], upstream)
<1>1. /\ pc[p] \in Copying /\ source[p].ranged /\ Blocks[upstream] = Blocks[v]
      /\ UNCHANGED <<upstream, storeVars, refreshing, source>>
      /\ IF Len(b) = Blocks[upstream] THEN Filled(p, b) ELSE Copy(p, b) /\ UNCHANGED pc
  BY DEF CopyBlock, Copying
<1>2. /\ b \in Seq(Versions) /\ OfOneSize(b, v)
      /\ Len(b) # Blocks[upstream] => Len(b) < Blocks[v]
  BY <1>1, CopyingIsGood, AppendedIsOfOneSize
<1> HIDE DEF b
<1>3. CASE Len(b) = Blocks[upstream] /\ Filled(p, b)
  BY <1>1, <1>2, <1>3, FilledKeeps
<1>4. CASE Len(b) # Blocks[upstream] /\ Copy(p, b) /\ UNCHANGED pc
  <2>1. Goto(p, pc[p])
    BY <1>4 DEF Goto, IInv, TypeOK
  <2>2. source' = [source EXCEPT ![p] = source[p]] /\ copied' = [copied EXCEPT ![p] = b]
    BY <1>1, <1>4, Same DEF IInv, Copy
  <2>3. GoodFill(pc[p], source[p], b)
    BY <1>1, <1>2, <1>4, CopyingIsGood DEF GoodFill, EmptyHanded, Copying
  <2>4. /\ p \in Readers => pc[p] \in ReaderSteps \ Locked
        /\ p \in Refreshers => pc[p] # "idle" /\ pc[p] \in RefresherSteps \ (Locked \cup {"idle"})
    BY <1>1, CopyingIsGood, Kinds, StepsAreNamed DEF Copying
  <2> QED BY <1>1, <1>2, <2>1, <2>2, <2>3, <2>4, CopyingIsGood, Moves
<1> QED BY <1>1, <1>3, <1>4

LEMMA CutBlockKeeps ==
  ASSUME IInv, NEW p \in Procs, CutBlock(p)
  PROVE  IInv'
<1>1. /\ pc[p] \in Copying /\ Filled(p, copied[p])
      /\ UNCHANGED <<upstream, storeVars, refreshing, source>>
  BY DEF CutBlock, Copying
<1> QED BY <1>1, CopyingIsGood, FilledKeeps

\* Where a Put ends before it has taken the mutex.
LEMMA PutFailsKeeps ==
  ASSUME IInv, NEW p \in Procs, PutFails(p)
  PROVE  IInv'
<1>1. /\ pc[p] \in {"copy", "install"} /\ PutEnds(p, "stream") /\ UNCHANGED <<upstream, storeVars, refreshing>>
      /\ pc[p] \notin Locked
  BY DEF PutFails, Locked
<1>2. copied' = [copied EXCEPT ![p] = <<>>] /\ <<>> \in Seq(Versions)
  BY <1>1 DEF PutEnds, Copy
<1>3. CASE p \in Refreshers /\ Goto(p, "release") /\ source' = [source EXCEPT ![p] = None]
  <2>1. GoodFill("release", None, <<>>)
    BY DEF GoodFill, HasSource, Copying, Locked
  <2>2. p \notin Readers /\ pc[p] # "idle"
    BY <1>1, <1>3, Goroutines
  <2> QED BY <1>1, <1>2, <1>3, <2>1, <2>2, StepsAreNamed, Moves
<1>4. CASE p \notin Refreshers /\ Goto(p, "stream") /\ UNCHANGED source
  <2>1. source' = [source EXCEPT ![p] = source[p]]
    BY <1>4, Same DEF IInv
  <2>2. source[p] \in Sources
    BY <1>1 DEF IInv, GoodProc, GoodFill, HasSource, Copying
  <2>3. GoodFill("stream", source[p], <<>>)
    BY <2>2, NothingIsOfOneSize, SourcesAreTyped DEF GoodFill, EmptyHanded
  <2> QED BY <1>1, <1>2, <1>4, <2>1, <2>2, <2>3, StepsAreNamed, Moves
<1> QED BY <1>1, <1>3, <1>4 DEF PutEnds

LEMMA FetchFailsKeeps ==
  ASSUME IInv, NEW p \in Procs, FetchFails(p)
  PROVE  IInv'
<1>1. /\ pc[p] \in {"fetch", "stream"} /\ UNCHANGED <<upstream, storeVars, refreshing>> /\ pc[p] \notin Locked
  BY DEF FetchFails, Locked
<1>2. CASE p \in Refreshers /\ Goto(p, "release") /\ UNCHANGED fillVars
  <2>1. pc[p] = "fetch"
    BY <1>1, <1>2 DEF IInv, GoodProc, RefresherSteps, Locked
  <2>2. copied[p] = <<>>
    BY <2>1 DEF IInv, GoodProc, GoodFill, EmptyHanded
  <2>3. GoodFill("release", source[p], copied[p])
    BY <2>2 DEF GoodFill, HasSource, Copying, Locked
  <2>4. source' = [source EXCEPT ![p] = source[p]] /\ copied' = [copied EXCEPT ![p] = copied[p]]
    BY <1>2, Same DEF IInv, fillVars
  <2>5. p \notin Readers
    BY <1>2, Goroutines
  <2> QED BY <1>1, <1>2, <2>1, <2>3, <2>4, <2>5, Same, StepsAreNamed, Moves DEF IInv
<1>3. CASE p \notin Refreshers /\ Forget(p)
  BY <1>1, <1>3, Kinds, ForgetKeeps
<1> QED BY <1>2, <1>3 DEF FetchFails
---------------------------------------------------------------------------
\* The steps of installWithMeta, which the mutex keeps apart.
LEMMA HolderIsAlone ==
  ASSUME IInv, NEW p \in Procs, mu = p \/ mu = None
  PROVE  \A q \in Procs \ {p} : pc[q] \notin Locked
BY Goroutines DEF IInv, TypeOK, Locked, Procs

LEMMA InstallKeeps ==
  ASSUME IInv, NEW p \in Procs, Install(p)
  PROVE  IInv'
<1> DEFINE d == [bytes |-> copied[p], type |-> source[p].version, stale |-> FALSE]
<1>1. /\ pc[p] = "install" /\ mu = None /\ mu' = p /\ data' = d /\ pc' = [pc EXCEPT ![p] = "type"]
      /\ UNCHANGED <<upstream, meta, refreshing, source, copied>>
  BY DEF Install, Goto, fillVars
<1>2. /\ source[p] \in Sources /\ source[p].version \in Versions /\ copied[p] \in Seq(Versions)
      /\ OfOneSize(copied[p], source[p].version)
  BY <1>1, SourcesAreTyped DEF IInv, TypeOK, GoodProc, GoodFill, HasSource
<1>3. d \in Entries /\ d.bytes = copied[p] /\ d.type = source[p].version
  BY <1>2 DEF Entries
<1> HIDE DEF d
<1>4. pc'[p] = "type" /\ \A q \in Procs \ {p} : Untouched(q)
  BY <1>1 DEF IInv, TypeOK, Untouched
<1>5. \A q \in Procs : mu' = q <=> pc'[q] \in Locked
  BY <1>1, <1>4, HolderIsAlone DEF Untouched, Locked
<1>6. TypeOK'
  BY <1>1, <1>3, <1>5 DEF IInv, TypeOK, Locked
<1>7. Agreed'
  BY <1>1, Goroutines DEF Agreed, EntryAgrees, Procs
<1>8. EntrySizes'
  BY <1>1, <1>2, <1>3 DEF EntrySizes, OfOneSize
<1>9. GoodProc(p)'
  BY <1>1, <1>2, <1>3, <1>4
     DEF GoodProc, GoodFill, GoodInstall, EmptyHanded, Copying, Locked, ReaderSteps, RefresherSteps
<1> QED BY <1>1, <1>4, <1>6, <1>7, <1>8, <1>9, HolderIsAlone, OneSteps

LEMMA LockedIsGood ==
  ASSUME IInv, NEW p \in Procs, pc[p] \in Locked
  PROVE  /\ mu = p /\ data \in Entries /\ source[p] \in Sources /\ source[p].version \in Versions
         /\ data.type = source[p].version
         /\ pc[p] = "typed" => meta = Torn
BY SourcesAreTyped DEF IInv, TypeOK, GoodProc, GoodFill, GoodInstall, HasSource, Locked

LEMMA TruncateTypeKeeps ==
  ASSUME IInv, NEW p \in Procs, TruncateType(p)
  PROVE  IInv'
<1>1. /\ pc[p] = "type" /\ meta' = Torn /\ pc' = [pc EXCEPT ![p] = "typed"]
      /\ UNCHANGED <<upstream, data, mu, refreshing, source, copied>>
  BY DEF TruncateType, Goto, fillVars
<1>2. pc[p] \in Locked /\ mu = p
  BY <1>1, LockedIsGood DEF Locked
<1>3. pc'[p] = "typed" /\ \A q \in Procs \ {p} : Untouched(q)
  BY <1>1 DEF IInv, TypeOK, Untouched
<1>4. \A q \in Procs : mu' = q <=> pc'[q] \in Locked
  BY <1>1, <1>2, <1>3, HolderIsAlone DEF Untouched, Locked
<1>5. TypeOK'
  BY <1>1, <1>4 DEF IInv, TypeOK, Locked
<1>6. Agreed' /\ EntrySizes'
  BY <1>1 DEF IInv, Agreed, EntryAgrees, EntrySizes, Cached
<1>7. GoodProc(p)'
  BY <1>1, <1>3 DEF IInv, GoodProc, GoodFill, GoodInstall, EmptyHanded, HasSource, Copying, Locked,
                    ReaderSteps, RefresherSteps
<1> QED BY <1>1, <1>2, <1>3, <1>5, <1>6, <1>7, HolderIsAlone, OneSteps

\* The mutex is given back, over an entry whose content type came with its bytes, or over
\* none where the payload can be removed.
LEMMA PutEndsKeeps ==
  ASSUME IInv, NEW p \in Procs, pc[p] \in Locked, NEW step \in {"reget", "stream"}, PutEnds(p, step), mu' = None,
         UNCHANGED <<upstream, refreshing>>, data' \in {data, None}, meta' \in Versions \cup {None, Torn},
         RemoveFails \/ data' = None \/ meta' = source[p].version
  PROVE  IInv'
<1>1. /\ copied' = [copied EXCEPT ![p] = <<>>]
      /\ \/ p \in Refreshers /\ pc' = [pc EXCEPT ![p] = "release"] /\ source' = [source EXCEPT ![p] = None]
         \/ p \notin Refreshers /\ pc' = [pc EXCEPT ![p] = step] /\ source' = source
  BY DEF PutEnds, Copy, Goto
<1>2. \A q \in Procs \ {p} : Untouched(q)
  BY <1>1 DEF IInv, TypeOK, Untouched
<1>3. /\ pc'[p] = (IF p \in Refreshers THEN "release" ELSE step) /\ pc'[p] \notin Locked
      /\ copied'[p] = <<>> /\ (p \notin Refreshers => source'[p] = source[p])
  BY <1>1 DEF IInv, TypeOK, Locked
<1>4. \A q \in Procs : mu' = q <=> pc'[q] \in Locked
  BY <1>2, <1>3, LockedIsGood, HolderIsAlone, Goroutines DEF Untouched, Procs
<1>5. TypeOK'
  <2>1. pc' \in [Procs -> {"idle", "head", "open", "fetch", "copy", "install", "type", "typed", "reget", "stream",
                           "derive", "release"}]
    BY <1>1 DEF IInv, TypeOK
  <2>2. source' \in [Procs -> Sources \cup {None}]
    BY <1>1 DEF IInv, TypeOK, Sources
  <2>3. copied' \in [Procs -> Seq(Versions)]
    <3>1. <<>> \in Seq(Versions)
      BY LockedIsGood, NothingIsOfOneSize
    <3> QED BY <1>1, <3>1 DEF IInv, TypeOK
  <2>4. data' \in Entries \cup {None} /\ upstream' \in Versions /\ refreshing' \in BOOLEAN /\ mu' \in Procs \cup {None}
    BY DEF IInv, TypeOK
  <2> QED BY <1>4, <2>1, <2>2, <2>3, <2>4 DEF TypeOK, Locked, Sources
<1>6. Agreed'
  BY LockedIsGood DEF Agreed, EntryAgrees, Cached
<1>7. EntrySizes'
  BY DEF IInv, EntrySizes
<1>8. GoodFill(pc'[p], source'[p], copied'[p])
  <2>1. CASE p \in Refreshers
    BY <1>3, <2>1 DEF GoodFill, HasSource, Copying, Locked
  <2>2. CASE p \notin Refreshers
    <3>1. source[p] \in Sources /\ OfOneSize(<<>>, source[p].version) /\ Len(<<>>) < Blocks[source[p].version]
      BY LockedIsGood, NothingIsOfOneSize
    <3> QED BY <1>3, <2>2, <3>1 DEF GoodFill
  <2> QED BY <2>1, <2>2
<1>9. GoodProc(p)'
  BY <1>3, <1>8, Goroutines DEF GoodProc, GoodInstall, ReaderSteps, RefresherSteps, Locked
<1>10. p \in Refreshers => pc[p] # "idle" /\ pc'[p] # "idle"
  BY <1>3 DEF Locked
<1> QED BY <1>2, <1>5, <1>6, <1>7, <1>9, <1>10, LockedIsGood, HolderIsAlone, OneSteps

LEMMA TypeKeeps ==
  ASSUME IInv, NEW p \in Procs, WriteType(p) \/ TypeFails(p)
  PROVE  IInv'
<1>1. CASE WriteType(p)
  <2>1. /\ pc[p] \in Locked /\ meta' = source[p].version /\ mu' = None /\ PutEnds(p, "reget")
        /\ UNCHANGED <<upstream, data, refreshing>>
    BY <1>1 DEF WriteType, Locked
  <2> QED BY <2>1, LockedIsGood, PutEndsKeeps
<1>2. CASE TypeFails(p)
  <2>1. /\ pc[p] \in Locked /\ data' \in {data, None} /\ (RemoveFails \/ data' = None)
        /\ mu' = None /\ PutEnds(p, "stream") /\ UNCHANGED <<upstream, meta, refreshing>>
    BY <1>2 DEF TypeFails, RemovePayload, Locked
  <2>2. meta' \in Versions \cup {None, Torn}
    BY <2>1 DEF IInv, TypeOK
  <2> QED BY <2>1, <2>2, PutEndsKeeps
<1> QED BY <1>1, <1>2

LEMMA FillKeeps ==
  ASSUME IInv, NEW p \in Procs, Fill(p)
  PROVE  IInv'
BY FetchKeeps, FetchFailsKeeps, CopyWholeKeeps, CopyBlockKeeps, CutBlockKeeps, InstallKeeps, PutFailsKeeps,
   TruncateTypeKeeps, TypeKeeps DEF Fill
---------------------------------------------------------------------------
\* The one refresh is over.
LEMMA ReleaseKeeps ==
  ASSUME IInv, NEW g \in Refreshers, Release(g)
  PROVE  IInv'
<1>1. /\ pc[g] = "release" /\ refreshing' = FALSE /\ pc' = [pc EXCEPT ![g] = "idle"]
      /\ UNCHANGED <<upstream, data, meta, mu, source, copied>> /\ g \in Procs /\ g \notin Readers
  BY Goroutines DEF Release, Goto, storeVars, fillVars, Procs
<1>2. pc'[g] = "idle" /\ \A q \in Procs \ {g} : Untouched(q)
  BY <1>1 DEF IInv, TypeOK, Untouched
<1>3. \A q \in Procs : mu' = q <=> pc'[q] \in Locked
  BY <1>1, <1>2 DEF IInv, TypeOK, Untouched, Locked
<1>4. TypeOK'
  BY <1>1, <1>3 DEF IInv, TypeOK, Locked
<1>5. Agreed' /\ EntrySizes'
  BY <1>1 DEF IInv, Agreed, EntryAgrees, EntrySizes, Cached
<1>6. \A h \in Refreshers : pc'[h] = "idle"
  BY <1>1, <1>2 DEF IInv, Refreshing, Untouched, Procs
<1>7. Refreshing'
  BY <1>1, <1>6 DEF Refreshing
<1>8. ASSUME NEW q \in Procs PROVE GoodProc(q)'
  <2>1. CASE q = g
    BY <1>1, <1>2, <2>1 DEF IInv, GoodProc, GoodFill, GoodInstall, EmptyHanded, HasSource, Copying, Locked,
                            RefresherSteps
  <2>2. CASE q # g
    BY <1>1, <1>2, <2>2 DEF IInv, GoodProc, GoodFill, GoodInstall, Untouched
  <2> QED BY <2>1, <2>2
<1> QED BY <1>4, <1>5, <1>7, <1>8 DEF IInv

LEMMA WorldKeeps ==
  ASSUME IInv, UpstreamChanges \/ Age
  PROVE  IInv'
<1>1. UNCHANGED <<meta, mu, refreshing, pc, source, copied>>
  BY DEF UpstreamChanges, Age, storeVars, fillVars
<1>2. upstream' \in Versions
  BY Bound DEF UpstreamChanges, Age, IInv, TypeOK, Versions
<1>3. \/ data' = data
      \/ data \in Entries /\ data' \in Entries /\ data'.bytes = data.bytes /\ data'.type = data.type
  BY DEF UpstreamChanges, Age, storeVars, IInv, TypeOK, Entries
<1>4. TypeOK'
  BY <1>1, <1>2, <1>3 DEF IInv, TypeOK
<1>5. Agreed' /\ EntrySizes'
  <2>1. data' # None => data # None
    BY DEF UpstreamChanges, Age, storeVars
  <2> QED BY <1>1, <1>3, <2>1 DEF IInv, Agreed, EntryAgrees, EntrySizes, Cached
<1>6. \A p \in Procs : GoodProc(p)'
  BY <1>1, <1>3 DEF IInv, GoodProc, GoodInstall
<1>7. Refreshing'
  BY <1>1 DEF IInv, Refreshing
<1> QED BY <1>4, <1>5, <1>6, <1>7 DEF IInv

LEMMA InitHolds == Init => IInv
<1> SUFFICES ASSUME Init PROVE IInv
  OBVIOUS
<1>1. TypeOK
  <2>1. <<>> \in Seq(Versions) /\ 1 \in Versions
    BY Numbers, NothingIsOfOneSize
  <2>2. \A p \in Procs : mu = p <=> pc[p] \in Locked
    BY Goroutines DEF Init, Procs, Locked
  <2>3. copied \in [Procs -> Seq(Versions)]
    BY <2>1 DEF Init
  <2>4. /\ upstream \in Versions /\ data \in Entries \cup {None} /\ meta \in Versions \cup {None, Torn}
        /\ mu \in Procs \cup {None} /\ refreshing \in BOOLEAN
    BY <2>1 DEF Init
  <2>5. /\ pc \in [Procs -> {"idle", "head", "open", "fetch", "copy", "install", "type", "typed", "reget", "stream",
                           "derive", "release"}]
        /\ source \in [Procs -> Sources \cup {None}]
    BY DEF Init
  <2> QED BY <2>2, <2>3, <2>4, <2>5 DEF TypeOK, Locked, Sources
<1>2. Agreed /\ EntrySizes /\ Refreshing
  BY DEF Init, Agreed, EntryAgrees, EntrySizes, Cached, Refreshing, Procs
<1>3. \A p \in Procs : GoodProc(p)
  BY DEF Init, GoodProc, GoodFill, GoodInstall, HasSource, Copying, Locked, ReaderSteps, RefresherSteps
<1> QED BY <1>1, <1>2, <1>3 DEF IInv

LEMMA NextKeeps == IInv /\ [Next]_vars => IInv'
<1> SUFFICES ASSUME IInv, [Next]_vars PROVE IInv'
  OBVIOUS
<1>1. Readers \subseteq Procs /\ Refreshers \subseteq Procs
  BY DEF Procs
<1>2. CASE UNCHANGED vars
  BY <1>2 DEF vars, storeVars, fillVars, IInv, TypeOK, Agreed, EntryAgrees, EntrySizes, Cached, Refreshing, GoodProc, GoodInstall
<1>3. ASSUME NEW r \in Readers, MetaHit(r) \/ MetaMiss(r) \/ Serve(r) PROVE IInv'
  BY <1>1, <1>3, MetaKeeps, OpenKeeps, EndsKeep, RegetKeeps, FillKeeps DEF Serve
<1>4. ASSUME NEW g \in Refreshers, Refresh(g) PROVE IInv'
  BY <1>1, <1>4, FillKeeps, ReleaseKeeps DEF Refresh
<1> QED BY <1>2, <1>3, <1>4, WorldKeeps DEF Next
---------------------------------------------------------------------------
\* Where the upstream is faithful, every entry is one version of the source, whole.

\* A step without upstream bytes, or where they are not read yet.
Bare == {"idle", "head", "open", "fetch", "release"}

LEMMA BareIsGood ==
  /\ Bare \cap HasSource = {} /\ Bare \cap Copying = {} /\ Bare \cap {"install", "derive"} = {}
  /\ Copying \subseteq HasSource /\ Locked \subseteq HasSource /\ Locked \cap Copying = {}
  /\ "install" \in HasSource /\ "reget" \in HasSource
  /\ "install" \notin Copying /\ "reget" \notin Copying /\ "derive" \notin Copying \cup HasSource
  /\ Locked \cap {"install", "derive"} = {} /\ Copying \cap {"install", "derive"} = {}
BY DEF Bare, HasSource, Copying, Locked

LEMMA BytesMove ==
  ASSUME IInv, Originals, NEW p \in Procs, EntryIsOriginal', GoodBytes(p)',
         \A q \in Procs \ {p} : Untouched(q) \/ pc'[q] \in Bare
  PROVE  Originals'
<1>1. ASSUME NEW q \in Procs PROVE GoodBytes(q)'
  <2>1. CASE q = p
    BY <2>1
  <2>2. CASE q # p /\ pc'[q] \in Bare
    BY <2>2, BareIsGood DEF GoodBytes
  <2>3. CASE q # p /\ Untouched(q)
    BY <2>3 DEF Originals, GoodBytes, Untouched
  <2> QED BY <2>1, <2>2, <2>3
<1> QED BY <1>1 DEF Originals

\* A goroutine that moves on alone, over an entry that keeps its bytes or goes.
LEMMA OriginalMoves ==
  ASSUME IInv, Originals, NEW p \in Procs, NEW step, Goto(p, step),
         \A q \in Procs \ {p} : source'[q] = source[q] /\ copied'[q] = copied[q],
         data' = None \/ (data # None /\ data'.bytes = data.bytes), GoodBytes(p)'
  PROVE  Originals'
<1>1. EntryIsOriginal'
  BY DEF Originals, EntryIsOriginal
<1>2. \A q \in Procs \ {p} : Untouched(q)
  BY DEF Goto, IInv, TypeOK, Untouched
<1> QED BY <1>1, <1>2, BytesMove

\* A stale hit leaves the goroutine it starts with nothing in its hands.
LEMMA OriginalHit ==
  ASSUME IInv, Originals, NEW r \in Procs, NEW step, HitGoes(r, step), pc'[r] = step => GoodBytes(r)',
         r \in Readers, UNCHANGED data, \A q \in Procs \ {r} : source'[q] = source[q] /\ copied'[q] = copied[q]
  PROVE  Originals'
<1>1. EntryIsOriginal'
  BY DEF Originals, EntryIsOriginal
<1>2. CASE Goto(r, step)
  <2>1. pc'[r] = step /\ \A q \in Procs \ {r} : Untouched(q)
    BY <1>2 DEF Goto, IInv, TypeOK, Untouched
  <2> QED BY <1>1, <2>1, BytesMove
<1>3. CASE ~refreshing /\ pc' = [pc EXCEPT ![r] = step, ![IdleRefresher] = "fetch"]
  <2>1. IdleRefresher \in Refreshers
    BY <1>3, Goroutines DEF IInv, Refreshing, IdleRefresher
  <2>2. IdleRefresher # r /\ IdleRefresher \in Procs
    BY <2>1, Goroutines DEF Procs
  <2>3. /\ pc'[r] = step
        /\ \A q \in Procs \ {r} : Untouched(q) \/ pc'[q] \in Bare
    BY <1>3, <2>2 DEF IInv, TypeOK, Untouched, Bare
  <2> QED BY <1>1, <2>3, BytesMove
<1> QED BY <1>2, <1>3 DEF HitGoes

LEMMA HitsStayOriginal ==
  ASSUME IInv, Originals, NEW r \in Readers, MetaHit(r) \/ OpenHit(r)
  PROVE  Originals'
<1>1. r \in Procs /\ UNCHANGED data
  BY DEF Procs, MetaHit, OpenHit, storeVars
<1>2. CASE MetaHit(r)
  <2>1. HitGoes(r, "open") /\ UNCHANGED <<source, copied>>
    BY <1>2 DEF MetaHit, fillVars
  <2>2. pc'[r] = "open" => GoodBytes(r)'
    BY BareIsGood DEF GoodBytes, Bare
  <2> QED BY <1>1, <2>1, <2>2, OriginalHit
<1>3. CASE OpenHit(r)
  <2>1. HitGoes(r, "derive") /\ UNCHANGED source /\ copied' = [copied EXCEPT ![r] = data.bytes] /\ data # None
    BY <1>3 DEF OpenHit, Copy, Cached
  <2>2. copied'[r] = data.bytes /\ Original(data.bytes)
    BY <1>1, <2>1 DEF Originals, EntryIsOriginal, Original, IInv, TypeOK
  <2>3. pc'[r] = "derive" => GoodBytes(r)'
    BY <2>2, BareIsGood DEF GoodBytes
  <2>4. \A q \in Procs \ {r} : source'[q] = source[q] /\ copied'[q] = copied[q]
    BY <2>1 DEF IInv, TypeOK
  <2> QED BY <1>1, <2>1, <2>3, <2>4, OriginalHit
<1> QED BY <1>2, <1>3

LEMMA RequestsStayOriginal ==
  ASSUME IInv, Originals, NEW r \in Readers,
         MetaMiss(r) \/ AskUpstream(r) \/ OpenMiss(r) \/ EndEarly(r) \/ Derive(r)
  PROVE  Originals'
<1>1. r \in Procs /\ UNCHANGED data
  BY DEF Procs, MetaMiss, AskUpstream, OpenMiss, EndEarly, Derive, storeVars
<1>2. PICK step \in Bare : Goto(r, step)
  BY DEF MetaMiss, AskUpstream, OpenMiss, EndEarly, Derive, Forget, Bare
<1>3. \A q \in Procs \ {r} : source'[q] = source[q] /\ copied'[q] = copied[q]
  BY DEF MetaMiss, AskUpstream, OpenMiss, EndEarly, Derive, Forget, Copy, fillVars, IInv, TypeOK
<1>4. pc'[r] = step
  BY <1>1, <1>2 DEF Goto, IInv, TypeOK
<1>5. GoodBytes(r)'
  BY <1>4, BareIsGood DEF GoodBytes
<1>6. data' = None \/ (data # None /\ data'.bytes = data.bytes)
  BY <1>1
<1> QED BY <1>1, <1>2, <1>3, <1>5, <1>6, OriginalMoves

LEMMA RegetStaysOriginal ==
  ASSUME IInv, Originals, NEW r \in Readers, Reget(r)
  PROVE  Originals'
<1>1. r \in Procs /\ UNCHANGED <<data, source>> /\ pc[r] = "reget"
  BY DEF Procs, Reget, storeVars
<1>2. data' = None \/ (data # None /\ data'.bytes = data.bytes)
  BY <1>1
<1>3. CASE Cached /\ Copy(r, data.bytes) /\ Goto(r, "derive")
  <2>1. /\ copied'[r] = data.bytes /\ Original(data.bytes) /\ pc'[r] = "derive"
        /\ \A q \in Procs \ {r} : source'[q] = source[q] /\ copied'[q] = copied[q]
    BY <1>1, <1>3 DEF Cached, Copy, Goto, Originals, EntryIsOriginal, Original, IInv, TypeOK
  <2>2. GoodBytes(r)'
    BY <2>1, BareIsGood DEF GoodBytes
  <2> QED BY <1>1, <1>2, <1>3, <2>1, <2>2, OriginalMoves
<1>4. CASE Goto(r, "stream") /\ UNCHANGED copied
  <2>1. copied[r] = <<>>
    BY <1>1 DEF IInv, GoodProc, GoodFill, EmptyHanded
  <2>2. pc'[r] = "stream" /\ (source[r].ranged => Ranges)
    BY <1>1, <1>4, BareIsGood DEF Goto, Originals, GoodBytes, IInv, TypeOK
  <2>3. GoodBytes(r)'
    BY <1>1, <1>4, <2>1, <2>2, BareIsGood DEF GoodBytes
  <2> QED BY <1>1, <1>2, <1>4, <2>3, OriginalMoves
<1> QED BY <1>3, <1>4 DEF Reget
LEMMA FetchStaysOriginal ==
  ASSUME IInv, Originals, NEW p \in Procs, Fetch(p) \/ FetchFails(p)
  PROVE  Originals'
<1>1. UNCHANGED data /\ (data' = None \/ (data # None /\ data'.bytes = data.bytes))
  BY DEF Fetch, FetchFails, storeVars
<1>2. CASE Fetch(p)
  <2>1. pc[p] = "fetch" /\ Goto(p, "copy") /\ UNCHANGED copied /\ pc'[p] = "copy"
    BY <1>2 DEF Fetch, Goto, IInv, TypeOK
  <2>2. PICK ranged \in IF Ranges THEN BOOLEAN ELSE {FALSE} :
          source' = [source EXCEPT ![p] = [version |-> upstream, ranged |-> ranged]]
    BY <1>2 DEF Fetch
  <2>3. copied[p] = <<>>
    BY <2>1 DEF IInv, GoodProc, GoodFill, EmptyHanded
  <2>4. /\ source'[p].ranged => Ranges
        /\ \A q \in Procs \ {p} : source'[q] = source[q] /\ copied'[q] = copied[q]
    BY <2>1, <2>2, SwitchesType DEF IInv, TypeOK
  <2>5. GoodBytes(p)'
    BY <2>1, <2>3, <2>4 DEF GoodBytes
  <2> QED BY <1>1, <2>1, <2>4, <2>5, OriginalMoves
<1>3. CASE FetchFails(p)
  <2>1. PICK step \in Bare : Goto(p, step)
    BY <1>3 DEF FetchFails, Forget, Bare
  <2>2. \A q \in Procs \ {p} : source'[q] = source[q] /\ copied'[q] = copied[q]
    BY <1>3 DEF FetchFails, Forget, Copy, fillVars, IInv, TypeOK
  <2>3. pc'[p] = step
    BY <2>1 DEF Goto, IInv, TypeOK
  <2>4. GoodBytes(p)'
    BY <2>3, BareIsGood DEF GoodBytes
  <2> QED BY <1>1, <2>1, <2>2, <2>4, OriginalMoves
<1> QED BY <1>2, <1>3

\* A copy that ends holds one version, whole.
LEMMA FilledStaysOriginal ==
  ASSUME IInv, Originals, NEW p \in Procs, pc[p] \in Copying, NEW b \in Seq(Versions), Original(b),
         Filled(p, b), UNCHANGED <<storeVars, source>>
  PROVE  Originals'
<1> DEFINE step == IF pc[p] = "copy" THEN "install" ELSE "derive"
<1>1. Goto(p, step) /\ copied' = [copied EXCEPT ![p] = b] /\ step \in {"install", "derive"}
  BY DEF Filled, Copy
<1> HIDE DEF step
<1>2. /\ pc'[p] = step /\ copied'[p] = b
      /\ \A q \in Procs \ {p} : source'[q] = source[q] /\ copied'[q] = copied[q]
  BY <1>1 DEF Goto, IInv, TypeOK
<1>3. data' = None \/ (data # None /\ data'.bytes = data.bytes)
  BY DEF storeVars
<1>4. source[p].ranged => Ranges
  BY BareIsGood DEF Originals, GoodBytes
<1>5. GoodBytes(p)'
  BY <1>1, <1>2, <1>4, BareIsGood DEF GoodBytes
<1> QED BY <1>1, <1>2, <1>3, <1>5, OriginalMoves

LEMMA WholeStaysOriginal ==
  ASSUME IInv, Originals, NEW p \in Procs, CopyWhole(p)
  PROVE  Originals'
<1> DEFINE v == source[p].version
<1>1. pc[p] \in Copying /\ Filled(p, Whole(v)) /\ UNCHANGED <<storeVars, source>>
  BY DEF CopyWhole, Copying
<1>2. v \in Versions /\ Whole(v) \in Seq(Versions)
  BY <1>1, CopyingIsGood, WholeIsOfOneSize
<1>3. Original(Whole(v))
  BY <1>2 DEF Original
<1> QED BY <1>1, <1>2, <1>3, FilledStaysOriginal

\* The version that a block comes from is the one whose size the upstream tells with it.
LEMMA BlockStaysOriginal ==
  ASSUME Faithful, IInv, Originals, NEW p \in Procs, CopyBlock(p)
  PROVE  Originals'
<1> DEFINE v == source[p].version
           b == Append(copied[p], upstream)
<1>1. /\ pc[p] \in Copying /\ source[p].ranged /\ Blocks[upstream] = Blocks[v]
      /\ UNCHANGED <<storeVars, source>>
      /\ IF Len(b) = Blocks[upstream] THEN Filled(p, b) ELSE Copy(p, b) /\ UNCHANGED pc
  BY DEF CopyBlock, Copying
<1>2. v \in Versions /\ upstream \in Versions /\ copied[p] \in Seq(Versions)
  BY <1>1, CopyingIsGood
<1>3. Ranges
  BY <1>1, BareIsGood DEF Originals, GoodBytes
<1>4. upstream = v
  BY <1>1, <1>2, <1>3 DEF Faithful
<1>5. \A i \in DOMAIN copied[p] : copied[p][i] = v
  BY <1>1 DEF Originals, GoodBytes
<1>6. /\ b \in Seq(Versions) /\ DOMAIN b = 1..Len(b) /\ Len(b) \in Nat
      /\ \A i \in DOMAIN b : b[i] = v
  <2>1. /\ b \in Seq(Versions) /\ DOMAIN b = 1..Len(b) /\ Len(b) = Len(copied[p]) + 1 /\ Len(copied[p]) \in Nat
        /\ b[Len(copied[p]) + 1] = v /\ DOMAIN copied[p] = 1..Len(copied[p])
        /\ \A i \in 1..Len(copied[p]) : b[i] = copied[p][i]
    BY <1>2, <1>4
  <2> HIDE DEF b
  <2>2. ASSUME NEW i \in DOMAIN b PROVE b[i] = v
    <3>1. i \in 1..Len(copied[p]) \/ i = Len(copied[p]) + 1
      BY <2>1, <2>2
    <3> QED BY <1>5, <2>1, <3>1
  <2> QED BY <2>1, <2>2
<1> HIDE DEF b
<1>7. CASE Len(b) = Blocks[upstream] /\ Filled(p, b)
  <2>1. b = [i \in 1..Blocks[v] |-> v]
    BY <1>1, <1>6, <1>7
  <2>2. Original(b)
    BY <1>2, <2>1 DEF Original, Whole
  <2> QED BY <1>1, <1>6, <1>7, <2>2, FilledStaysOriginal
<1>8. CASE Copy(p, b) /\ UNCHANGED pc
  <2>1. /\ Goto(p, pc[p]) /\ copied'[p] = b /\ pc'[p] = pc[p]
        /\ \A q \in Procs \ {p} : source'[q] = source[q] /\ copied'[q] = copied[q]
    BY <1>1, <1>8 DEF Goto, Copy, IInv, TypeOK
  <2>2. data' = None \/ (data # None /\ data'.bytes = data.bytes)
    BY <1>1 DEF storeVars
  <2>3. GoodBytes(p)'
    BY <1>1, <1>3, <1>6, <2>1, BareIsGood DEF GoodBytes
  <2> QED BY <2>1, <2>2, <2>3, OriginalMoves
<1> QED BY <1>1, <1>7, <1>8

LEMMA CutIsUnfaithful ==
  ASSUME Faithful, IInv, Originals, NEW p \in Procs
  PROVE  ~CutBlock(p)
BY BareIsGood DEF CutBlock, Faithful, Originals, GoodBytes, Copying

LEMMA InstallStaysOriginal ==
  ASSUME IInv, Originals, NEW p \in Procs, Install(p)
  PROVE  Originals'
<1>1. /\ pc[p] = "install" /\ data'.bytes = copied[p] /\ pc' = [pc EXCEPT ![p] = "type"]
      /\ UNCHANGED <<source, copied>>
  BY DEF Install, Goto, fillVars
<1>2. Original(copied[p]) /\ (source[p].ranged => Ranges)
  BY <1>1, BareIsGood DEF Originals, GoodBytes
<1>3. EntryIsOriginal'
  BY <1>1, <1>2 DEF EntryIsOriginal, Original
<1>4. pc'[p] = "type" /\ \A q \in Procs \ {p} : Untouched(q)
  BY <1>1 DEF IInv, TypeOK, Untouched
<1>5. GoodBytes(p)'
  BY <1>1, <1>2, <1>4, BareIsGood DEF GoodBytes, Locked
<1> QED BY <1>3, <1>4, <1>5, BytesMove

\* What follows the rename, or a Put that fails, keeps the bytes or drops them.
LEMMA PutStaysOriginal ==
  ASSUME IInv, Originals, NEW p \in Procs, PutFails(p) \/ TruncateType(p) \/ WriteType(p) \/ TypeFails(p)
  PROVE  Originals'
<1>1. pc[p] \in HasSource /\ (source[p].ranged => Ranges)
  <2>1. pc[p] \in HasSource
    BY DEF PutFails, TruncateType, WriteType, TypeFails, HasSource, Copying, Locked
  <2> QED BY <2>1 DEF Originals, GoodBytes
<1>2. data' = None \/ (data # None /\ data'.bytes = data.bytes)
  <2>1. data' \in {None, data}
    BY DEF PutFails, TruncateType, WriteType, TypeFails, RemovePayload, storeVars
  <2> QED BY <2>1
<1>3. CASE TruncateType(p)
  <2>1. Goto(p, "typed") /\ UNCHANGED <<source, copied>> /\ pc'[p] = "typed"
    BY <1>3 DEF TruncateType, Goto, fillVars, IInv, TypeOK
  <2>2. GoodBytes(p)'
    BY <1>1, <2>1, BareIsGood DEF GoodBytes, Locked
  <2> QED BY <1>2, <2>1, <2>2, OriginalMoves
<1>4. CASE PutFails(p) \/ WriteType(p) \/ TypeFails(p)
  <2>1. PICK after \in {"reget", "stream"} : PutEnds(p, after)
    BY <1>4 DEF PutFails, WriteType, TypeFails
  <2>2. copied' = [copied EXCEPT ![p] = <<>>]
    BY <2>1 DEF PutEnds, Copy
  <2>3. CASE p \in Refreshers /\ Goto(p, "release") /\ source' = [source EXCEPT ![p] = None]
    <3>1. pc'[p] = "release" /\ \A q \in Procs \ {p} : source'[q] = source[q] /\ copied'[q] = copied[q]
      BY <2>2, <2>3 DEF Goto, IInv, TypeOK
    <3>2. GoodBytes(p)'
      BY <3>1, BareIsGood DEF GoodBytes, Bare
    <3> QED BY <1>2, <2>3, <3>1, <3>2, OriginalMoves
  <2>4. CASE Goto(p, after) /\ UNCHANGED source
    <3>1. /\ pc'[p] = after /\ copied'[p] = <<>>
          /\ \A q \in Procs \ {p} : source'[q] = source[q] /\ copied'[q] = copied[q]
      BY <2>2, <2>4 DEF Goto, IInv, TypeOK
    <3>2. GoodBytes(p)'
      BY <1>1, <2>4, <3>1 DEF GoodBytes
    <3> QED BY <1>2, <2>4, <3>1, <3>2, OriginalMoves
  <2> QED BY <2>1, <2>3, <2>4 DEF PutEnds
<1> QED BY <1>3, <1>4

LEMMA FillStaysOriginal ==
  ASSUME Faithful, IInv, Originals, NEW p \in Procs, Fill(p)
  PROVE  Originals'
BY FetchStaysOriginal, WholeStaysOriginal, BlockStaysOriginal, CutIsUnfaithful, InstallStaysOriginal,
   PutStaysOriginal DEF Fill

LEMMA ReleaseStaysOriginal ==
  ASSUME IInv, Originals, NEW g \in Refreshers, Release(g)
  PROVE  Originals'
<1>1. g \in Procs /\ Goto(g, "idle") /\ UNCHANGED <<data, source, copied>>
  BY DEF Release, Procs, storeVars, fillVars
<1>2. pc'[g] = "idle" /\ (data' = None \/ (data # None /\ data'.bytes = data.bytes))
  BY <1>1 DEF Goto, IInv, TypeOK
<1>3. GoodBytes(g)'
  BY <1>2, BareIsGood DEF GoodBytes, Bare
<1> QED BY <1>1, <1>2, <1>3, OriginalMoves

LEMMA WorldStaysOriginal ==
  ASSUME IInv, Originals, UpstreamChanges \/ Age
  PROVE  Originals'
<1>1. /\ UNCHANGED <<pc, source, copied>>
      /\ data' = data \/ (data # None /\ data'.bytes = data.bytes)
  BY DEF UpstreamChanges, Age, storeVars, fillVars, IInv, TypeOK, Entries
<1>2. EntryIsOriginal'
  BY <1>1 DEF Originals, EntryIsOriginal
<1>3. \A p \in Procs : GoodBytes(p)'
  BY <1>1 DEF Originals, GoodBytes
<1> QED BY <1>2, <1>3 DEF Originals

LEMMA NextStaysOriginal ==
  ASSUME Faithful
  PROVE  IInv /\ Originals /\ [Next]_vars => Originals'
<1> SUFFICES ASSUME IInv, Originals, [Next]_vars PROVE Originals'
  OBVIOUS
<1>1. Readers \subseteq Procs /\ Refreshers \subseteq Procs
  BY DEF Procs
<1>2. CASE UNCHANGED vars
  BY <1>2 DEF vars, storeVars, fillVars, Originals, EntryIsOriginal, GoodBytes
<1>3. ASSUME NEW r \in Readers, MetaHit(r) \/ MetaMiss(r) \/ Serve(r) PROVE Originals'
  BY <1>1, <1>3, HitsStayOriginal, RequestsStayOriginal, RegetStaysOriginal, FillStaysOriginal DEF Serve
<1>4. ASSUME NEW g \in Refreshers, Refresh(g) PROVE Originals'
  BY <1>1, <1>4, FillStaysOriginal, ReleaseStaysOriginal DEF Refresh
<1> QED BY <1>2, <1>3, <1>4, WorldStaysOriginal DEF Next
---------------------------------------------------------------------------
\* Every reachable state has the properties of IInv: wherever a fill fails, is overtaken
\* by another or fetches while the source changes.
THEOREM Invariance == Spec => []IInv
BY InitHolds, NextKeeps, PTL DEF Spec

\* Every variable has its type, and FileStore.mu is held by exactly the goroutine that is
\* between the rename of a payload and the end of installWithMeta.
THEOREM TypeCorrect == Spec => []TypeOK
<1>1. IInv => TypeOK
  BY DEF IInv
<1> QED BY <1>1, Invariance, PTL

\* Where a payload can always be removed whose .meta cannot be written, the content type
\* in .meta is, outside installWithMeta, the one that was fetched with the bytes of the
\* payload, however many requests and refreshes fill the entry at once.
THEOREM OneFill == ASSUME ~RemoveFails PROVE Spec => []EntryAgrees
<1>1. IInv => EntryAgrees
  BY DEF IInv, Agreed
<1> QED BY <1>1, Invariance, PTL

\* The total in Content-Range, which httpRangeReadSeekCloser compares, keeps blocks of
\* sources of different sizes apart: an entry is no longer than the version it began with
\* and has only blocks of versions of that size, and so is what a request makes its
\* derivative from, be it an entry or what the request fetched itself.
THEOREM OneSize == Spec => []SizesAgree
<1>1. IInv => SizesAgree
  BY DEF IInv, EntrySizes, GoodProc, GoodFill, SizesAgree, Procs
<1> QED BY <1>1, Invariance, PTL

\* startRefresh enters the URL into the refreshing map before it starts the goroutine that
\* removes it: one goroutine at most refreshes the URL, and it is there as long as one does.
THEOREM RefreshedOnce == Spec => []OneRefresh
<1>1. IInv => OneRefresh
  <2> SUFFICES ASSUME IInv PROVE OneRefresh
    OBVIOUS
  <2> DEFINE running == {g \in Refreshers : pc[g] # "idle"}
  <2>1. refreshing <=> running # {}
    BY DEF IInv, Refreshing
  <2>2. Cardinality(running) <= 1
    <3>1. CASE running = {}
      <4>1. Cardinality(running) = 0
        BY <3>1, FS_EmptySet
      <4> QED BY <4>1
    <3>2. CASE running # {}
      <4>1. PICK g \in running : TRUE
        BY <3>2
      <4>2. running = {g}
        BY <4>1 DEF IInv, Refreshing
      <4>3. Cardinality(running) = 1
        BY <4>2, FS_Singleton
      <4> QED BY <4>3
    <3> QED BY <3>1, <3>2
  <2> QED BY <2>1, <2>2 DEF OneRefresh
<1> QED BY <1>1, Invariance, PTL

\* Where the upstream serves no ranges, or no response ends early and no two versions have
\* the same size, an entry of the source cache is one version of the source, whole.  Neither
\* is sure of an upstream: without them a range reader mixes two versions, or stops short.
THEOREM OriginalWhere == ASSUME Faithful PROVE Spec => []EntryIsOriginal
<1>1. Init => IInv /\ Originals
  <2>1. Init => Originals
    BY DEF Init, Originals, EntryIsOriginal, GoodBytes, HasSource, Copying, Locked
  <2> QED BY <2>1, InitHolds
<1>2. IInv /\ Originals /\ [Next]_vars => (IInv /\ Originals)'
  BY NextKeeps, NextStaysOriginal
<1>3. IInv /\ Originals => EntryIsOriginal
  BY DEF Originals
<1> QED BY <1>1, <1>2, <1>3, PTL DEF Spec

\* A transform reads one version of the source, whole.
TransformsOriginal == \A p \in Procs : pc[p] = "derive" => Original(copied[p])

\* Under the same condition as the entry, so is what a transform reads, be it the entry
\* or, where it could not be written, what the request fetched itself.
THEOREM TransformedWhere == ASSUME Faithful PROVE Spec => []TransformsOriginal
<1>1. Init => IInv /\ Originals
  <2>1. Init => Originals
    BY DEF Init, Originals, EntryIsOriginal, GoodBytes, HasSource, Copying, Locked
  <2> QED BY <2>1, InitHolds
<1>2. IInv /\ Originals /\ [Next]_vars => (IInv /\ Originals)'
  BY NextKeeps, NextStaysOriginal
<1>3. IInv /\ Originals => TransformsOriginal
  BY DEF Originals, GoodBytes, TransformsOriginal
<1> QED BY <1>1, <1>2, <1>3, PTL DEF Spec
============================================================================
