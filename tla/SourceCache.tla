---------------------------- MODULE SourceCache ----------------------------
(***************************************************************************)
(* The source cache for one URL: storage.Caching with its background       *)
(* refresh, over the FileStore that keeps the content type of an entry in  *)
(* a second file (internal/cache/file.go), and over HTTPOpener, whose      *)
(* reader fetches one range at a time where the upstream serves ranges.    *)
(* Its user is serveImage, which reads the metadata and then the bytes.    *)
(*                                                                         *)
(* The bytes of a source are a sequence of blocks, each named by the       *)
(* version of the source that it is from.  An entry of the cache becomes   *)
(* stale when time passes.  Get reads .meta and opens the payload in one   *)
(* step: which content type a reader is told is not followed.              *)
(***************************************************************************)
EXTENDS Naturals, Sequences, FiniteSets

CONSTANTS
  Readers,     \* the image requests, each with one goroutine
  Refreshers,  \* the goroutines of startRefresh
  None,        \* no file, no reader, no version
  Torn,        \* a .meta file that was truncated and is not written yet
  Blocks,      \* the number of blocks of each version
  Ranges,      \* whether the upstream serves ranges
  Cuts,        \* whether a connection may end before its response does
  RemoveFails, \* whether a payload may stay whose .meta could not be written
  MaxVersion   \* bound on the changes of the source

Versions == 1..MaxVersion

ASSUME Bound == MaxVersion \in Nat \ {0}
ASSUME BlocksType == Blocks \in [Versions -> Nat \ {0}]
ASSUME SwitchesType == {Ranges, Cuts, RemoveFails} \subseteq BOOLEAN
ASSUME Goroutines ==
  /\ Readers \cap Refreshers = {} /\ Refreshers # {}
  /\ None \notin Readers \cup Refreshers

VARIABLES
  upstream,    \* the version that the upstream serves
  data, meta,  \* the payload file and the .meta file of the entry
  mu,          \* FileStore.mu
  refreshing,  \* whether the URL is in Caching.refreshing
  pc,
  source,      \* the upstream reader of a goroutine
  copied       \* the blocks in its temporary file, and then those it serves

fillVars == <<source, copied>>
storeVars == <<data, meta, mu>>
vars == <<upstream, storeVars, refreshing, pc, fillVars>>

Procs == Readers \cup Refreshers
Whole(v) == [i \in 1..Blocks[v] |-> v]

Init ==
  /\ upstream = 1
  /\ data = None /\ meta = None /\ mu = None
  /\ refreshing = FALSE
  /\ pc = [p \in Procs |-> "idle"]
  /\ source = [p \in Procs |-> None]
  /\ copied = [p \in Procs |-> <<>>]

Goto(p, step) == pc' = [pc EXCEPT ![p] = step]
Copy(p, bytes) == copied' = [copied EXCEPT ![p] = bytes]

\* FileStore.Get: an entry without .meta is a miss, one whose .meta does not parse
\* an error, and Caching takes either for a miss.
Cached == data # None /\ meta \notin {None, Torn}

IdleRefresher == CHOOSE g \in Refreshers : pc[g] = "idle"

\* Mutant: two stale hits look at the refreshing map before either enters it.
HitGoesUnchecked(r, step) ==
  IF data.stale
    THEN /\ refreshing' = TRUE
         /\ pc' = [pc EXCEPT ![r] = step, ![IdleRefresher] = "fetch"]
    ELSE Goto(r, step) /\ UNCHANGED refreshing

\* A hit goes on to a step of its request, and startRefresh to a goroutine.
HitGoes(r, step) ==
  IF data.stale /\ ~refreshing
    THEN /\ refreshing' = TRUE
         /\ pc' = [pc EXCEPT ![r] = step, ![IdleRefresher] = "fetch"]
    ELSE Goto(r, step) /\ UNCHANGED refreshing

---------------------------------------------------------------------------
\* serveImage: the version of the source, the derivative under it, the source.

\* Caching.Meta: the version of a cached entry is its own and names no upstream version.
MetaHit(r) ==
  /\ pc[r] = "idle"
  /\ Cached
  /\ HitGoes(r, "open")
  /\ UNCHANGED <<upstream, storeVars, fillVars>>

MetaMiss(r) ==
  /\ pc[r] = "idle"
  /\ ~Cached
  /\ Goto(r, "head")
  /\ UNCHANGED <<upstream, storeVars, refreshing, fillVars>>

\* HTTPOpener.Meta: a HEAD request; the version it tells is not followed.
AskUpstream(r) ==
  /\ pc[r] = "head"
  /\ Goto(r, "open")
  /\ UNCHANGED <<upstream, storeVars, refreshing, fillVars>>

\* The request is over.
Forget(r) ==
  /\ source' = [source EXCEPT ![r] = None]
  /\ Copy(r, <<>>)
  /\ Goto(r, "idle")

\* HEAD fails, or a derivative is found under the version.
EndEarly(r) ==
  /\ pc[r] \in {"head", "open"}
  /\ Forget(r)
  /\ UNCHANGED <<upstream, storeVars, refreshing>>

\* Caching.Open: a request keeps the file it has opened.
OpenHit(r) ==
  /\ pc[r] = "open"
  /\ Cached
  /\ Copy(r, data.bytes)
  /\ HitGoes(r, "derive")
  /\ UNCHANGED <<upstream, storeVars, source>>

OpenMiss(r) ==
  /\ pc[r] = "open"
  /\ ~Cached
  /\ Goto(r, "fetch")
  /\ UNCHANGED <<upstream, storeVars, refreshing, fillVars>>

\* The derivative is made.
Derive(r) ==
  /\ pc[r] = "derive"
  /\ Forget(r)
  /\ UNCHANGED <<upstream, storeVars, refreshing>>

---------------------------------------------------------------------------
\* HTTPOpener.Open, and the copy of what it returns into a temporary file: by Put,
\* and by the transform where Put failed.

\* A GET is spooled whole, and a range reader only probed with one byte.
Fetch(p) ==
  /\ pc[p] = "fetch"
  /\ \E ranged \in IF Ranges THEN BOOLEAN ELSE {FALSE} :
       source' = [source EXCEPT ![p] = [version |-> upstream, ranged |-> ranged]]
  /\ Goto(p, "copy")
  /\ UNCHANGED <<upstream, storeVars, refreshing, copied>>

\* The end of a copy.
Filled(p, bytes) ==
  /\ Copy(p, bytes)
  /\ Goto(p, IF pc[p] = "copy" THEN "install" ELSE "derive")

CopyWhole(p) ==
  /\ pc[p] \in {"copy", "stream"}
  /\ ~source[p].ranged
  /\ Filled(p, Whole(source[p].version))
  /\ UNCHANGED <<upstream, storeVars, refreshing, source>>

\* Mutant: the size in Content-Range is not compared.
CopyBlockAnySize(p) ==
  LET bytes == Append(copied[p], upstream) IN
  /\ pc[p] \in {"copy", "stream"}
  /\ source[p].ranged
  /\ IF Len(bytes) >= Blocks[source[p].version]
       THEN Filled(p, bytes)
       ELSE Copy(p, bytes) /\ UNCHANGED pc
  /\ UNCHANGED <<upstream, storeVars, refreshing, source>>

\* httpRangeReadSeekCloser.Read: one request, of the version that is there by now.
CopyBlock(p) ==
  LET bytes == Append(copied[p], upstream) IN
  /\ pc[p] \in {"copy", "stream"}
  /\ source[p].ranged
  /\ Blocks[upstream] = Blocks[source[p].version]
  /\ IF Len(bytes) = Blocks[upstream]
       THEN Filled(p, bytes)
       ELSE Copy(p, bytes) /\ UNCHANGED pc
  /\ UNCHANGED <<upstream, storeVars, refreshing, source>>

\* A response that ends early makes the reader report the end of the file.
CutBlock(p) ==
  /\ Cuts
  /\ pc[p] \in {"copy", "stream"}
  /\ source[p].ranged
  /\ Blocks[upstream] = Blocks[source[p].version]
  /\ Filled(p, copied[p])
  /\ UNCHANGED <<upstream, storeVars, refreshing, source>>

---------------------------------------------------------------------------
\* Put and installWithMeta

\* Mutant: payload and .meta are written without the mutex.
InstallUnlocked(p) ==
  /\ pc[p] = "install"
  /\ mu' = p
  /\ data' = [bytes |-> copied[p], type |-> source[p].version, stale |-> FALSE]
  /\ Goto(p, "type")
  /\ UNCHANGED <<upstream, meta, refreshing, fillVars>>

\* The mutex is taken and the payload renamed.
Install(p) ==
  /\ pc[p] = "install"
  /\ mu = None
  /\ mu' = p
  /\ data' = [bytes |-> copied[p], type |-> source[p].version, stale |-> FALSE]
  /\ Goto(p, "type")
  /\ UNCHANGED <<upstream, meta, refreshing, fillVars>>

\* Put is over, and with it a refresh.  A request serves the new entry, or else
\* what it has fetched.
PutEnds(p, step) ==
  /\ Copy(p, <<>>)
  /\ IF p \in Refreshers
       THEN Goto(p, "release") /\ source' = [source EXCEPT ![p] = None]
       ELSE Goto(p, step) /\ UNCHANGED source

\* os.WriteFile
TruncateType(p) ==
  /\ pc[p] = "type"
  /\ meta' = Torn
  /\ Goto(p, "typed")
  /\ UNCHANGED <<upstream, data, mu, refreshing, fillVars>>

WriteType(p) ==
  /\ pc[p] = "typed"
  /\ meta' = source[p].version
  /\ mu' = None
  /\ PutEnds(p, "reget")
  /\ UNCHANGED <<upstream, data, refreshing>>

\* os.Remove, whose error is ignored.
RemovePayload == data' \in IF RemoveFails THEN {None, data} ELSE {None}

\* Mutant: a failure to write .meta keeps the mutex.
TypeFailsLocked(p) ==
  /\ pc[p] \in {"type", "typed"}
  /\ RemovePayload
  /\ PutEnds(p, "stream")
  /\ UNCHANGED <<upstream, meta, mu, refreshing>>

\* Without .meta the payload is removed, the one it replaced is lost.
TypeFails(p) ==
  /\ pc[p] \in {"type", "typed"}
  /\ RemovePayload
  /\ mu' = None
  /\ PutEnds(p, "stream")
  /\ UNCHANGED <<upstream, meta, refreshing>>

\* The temporary file cannot be made, written or renamed, or the upstream fails.
PutFails(p) ==
  /\ pc[p] = "copy" \/ (pc[p] = "install" /\ mu = None)
  /\ PutEnds(p, "stream")
  /\ UNCHANGED <<upstream, storeVars, refreshing>>

\* A failed fetch ends the request, or the refresh.
FetchFails(p) ==
  /\ pc[p] \in {"fetch", "stream"}
  /\ IF p \in Refreshers
       THEN Goto(p, "release") /\ UNCHANGED fillVars
       ELSE Forget(p)
  /\ UNCHANGED <<upstream, storeVars, refreshing>>

\* The second Get of Caching.Open, which may find the entry of another fill.
Reget(r) ==
  /\ pc[r] = "reget"
  /\ IF Cached
       THEN Copy(r, data.bytes) /\ Goto(r, "derive")
       ELSE Goto(r, "stream") /\ UNCHANGED copied
  /\ UNCHANGED <<upstream, storeVars, refreshing, source>>

\* The deferred delete of startRefresh.
Release(g) ==
  /\ pc[g] = "release"
  /\ refreshing' = FALSE
  /\ Goto(g, "idle")
  /\ UNCHANGED <<upstream, storeVars, fillVars>>

---------------------------------------------------------------------------
UpstreamChanges ==
  /\ upstream < MaxVersion
  /\ upstream' = upstream + 1
  /\ UNCHANGED <<storeVars, refreshing, pc, fillVars>>

\* StaleAfter passes.
Age ==
  /\ data # None
  /\ ~data.stale
  /\ data' = [data EXCEPT !.stale = TRUE]
  /\ UNCHANGED <<upstream, meta, mu, refreshing, pc, fillVars>>

Fill(p) ==
  \/ Fetch(p) \/ FetchFails(p) \/ CopyWhole(p) \/ CopyBlock(p) \/ CutBlock(p)
  \/ Install(p) \/ PutFails(p) \/ TruncateType(p) \/ WriteType(p) \/ TypeFails(p)

Serve(r) ==
  \/ AskUpstream(r) \/ EndEarly(r) \/ OpenHit(r) \/ OpenMiss(r) \/ Reget(r) \/ Derive(r)
  \/ Fill(r)

Refresh(g) == Fill(g) \/ Release(g)

Next ==
  \/ \E r \in Readers : MetaHit(r) \/ MetaMiss(r) \/ Serve(r)
  \/ \E g \in Refreshers : Refresh(g)
  \/ UpstreamChanges \/ Age

Spec == Init /\ [][Next]_vars

---------------------------------------------------------------------------
Entries == [bytes : Seq(Versions), type : Versions, stale : BOOLEAN]

\* Every variable has its type, and the mutex is held by exactly the goroutine
\* between the rename and the end of installWithMeta.
TypeOK ==
  /\ upstream \in Versions
  /\ data \in Entries \cup {None}
  /\ meta \in Versions \cup {None, Torn}
  /\ mu \in Procs \cup {None}
  /\ refreshing \in BOOLEAN
  /\ pc \in [Procs -> {"idle", "head", "open", "fetch", "copy", "install", "type",
                       "typed", "reget", "stream", "derive", "release"}]
  /\ source \in [Procs -> [version : Versions, ranged : BOOLEAN] \cup {None}]
  /\ copied \in [Procs -> Seq(Versions)]
  /\ \A p \in Procs : mu = p <=> pc[p] \in {"type", "typed"}

\* Unless installWithMeta runs, the content type of an entry came with its bytes,
\* whatever fills overtook each other and wherever they failed, if only the payload
\* of a failed one can be removed.
EntryAgrees == mu = None /\ Cached => meta = data.type

\* No block is of a source of another size than the version that was fetched.
OfOneSize(bytes, v) ==
  /\ Len(bytes) <= Blocks[v]
  /\ \A i \in DOMAIN bytes : Blocks[bytes[i]] = Blocks[v]

\* A range reader never joins blocks of sources of different sizes, nor goes past the
\* size it began with: neither for an entry, nor for what a request makes its derivative
\* from, be that an entry or, where Put failed, what it has fetched itself.
SizesAgree ==
  /\ data # None => OfOneSize(data.bytes, data.type)
  /\ \A r \in Readers : pc[r] = "derive" => \E v \in Versions : OfOneSize(copied[r], v)

\* The URL is in the refreshing map exactly while one goroutine refreshes it, as
\* TestCachingOpenerDedupesConcurrentStaleRefresh expects.
OneRefresh ==
  LET running == {g \in Refreshers : pc[g] # "idle"} IN
  /\ Cardinality(running) <= 1
  /\ refreshing <=> running # {}

\* docs/caching.md on the source cache: "Original source bytes fetched through the
\* HTTP source backend".
EntryIsOriginal == data # None => \E v \in Versions : data.bytes = Whole(v)
===========================================================================
