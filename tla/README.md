# TLA+ models of triplet

triplet is an IIIF server in Go: it answers Image API requests by transforming
source images with libvips, and stores Presentation API documents. This
directory holds TLA+ models of its concurrent and stateful parts, the TLC
configurations that check them on small instances, and theorems proved with
TLAPS. `PROJECT.json` is the index: components, runs, mutants, the lines of code
each definition models, findings, hazards and theorems.

    tlc -workers 2 -config MCLocalAuth.cfg MCLocalAuth
    tlapm AuthFallbackOpenProofs.tla

## The system

| part | state it keeps | operations | what is hard about it |
| --- | --- | --- | --- |
| Image handler (`iiif/image/v3/handler`) | info cache (dimensions per identifier, bounded) | serve image, info.json, invalidation route | metadata, marker, cache and source are read one after the other; another process cleans the cache |
| File cache (`internal/cache`), `triplet-cache-cleanup` | payload files, `.meta` files | Get, Put, Delete, Cleanup | rename against open, check against remove, crash in a write, expiry |
| Local URL fallback (`storage/local_url.go`) | decision cache, in-flight probes, in-flight metadata and source fetches | Open, Meta, InvalidateAuth | coalescing, reference counts, cancellation, sessions kept apart |
| Source cache, metadata cache (`storage/caching.go`, `meta_cache.go`) | source files, metadata with TTL, refreshes in flight | Open, Meta, background refresh | fills that overtake each other, a version newer than the bytes |
| Source openers (`http.go`, `file.go`, `multiplex.go`) | none | Open, Meta | redirects, limits, versions from headers |
| Pipeline (`iiif/image/v3/pipeline`), parser, info | none | Transform | rounding, clipping, limits |
| libvips limiter (`internal/vips`) | slots | Acquire, release | a slot that is not given back |
| Presentation handler and stores (`iiif/presentation/v3`) | one document per resource, in files or MariaDB | GET, PUT, DELETE with conditions | lost updates, crash between write and sync |
| Server (`internal/server`, `cmd/triplet`) | the listener, shutdown functions | Build, Run | shutdown while requests are in flight |
| Configuration, CORS, metrics, logging, redaction, tools | none that others read | | |

The parts call each other. The image handler asks its source for metadata
(Multiplex, then LocalURLFallback, MetaCaching, Caching, HTTP), asks the
derivative cache for the result, and otherwise runs the pipeline, which opens the
same source. The invalidation route writes a marker into the derivative cache and
calls `InvalidateAuth` down the same chain. The cleanup command shares nothing
with the server but the cache directory. The Presentation handler shares nothing
with the image side.

What makes each part correct, in a sentence: a shared source fetch serves only
the sessions it was made for and neither loses nor leaks its file; a local file
is served only after a decision that is recent enough and one's own; a derivative
is never older than the request that gets it, never partial, and never one an
invalidation has hidden; a conditional write is never lost and survives a crash
once acknowledged.

## Modules

| module | models |
| --- | --- |
| `AuthFallbackOpen` | the coalesced authenticated source fetch: `coalescedAuthFallbackOpen`, `fetchAuthFallbackSource`, `beginAuthFallbackOpen`, `finishAuthFallbackOpen`, `releaseAuthFallbackOpen`, `openAuthFallbackResult` |
| `AuthFallbackOpenProofs` | its inductive invariant and theorems |
| `LocalAuth` | `authorize`: the decision cache, the coalesced probes, `InvalidateAuth` |
| `LocalAuthProofs` | its inductive invariant and theorems |
| `DerivativeCache` | `serveImage` and the invalidation route over the payload-only file cache, with `Cleanup` in another process |
| `DerivativeCacheProofs` | its inductive invariants and theorems |
| `SourceCache` | `Caching` with its background refresh, over the `FileStore` with `.meta` files and over `HTTPOpener` and its range reader |
| `SourceCacheProofs` | its inductive invariants and theorems |
| `LocalSource` | `Multiplex`, `FileOpener` and `LocalURLFallback.openLocal`/`openLocalMeta`: the mapping loop, path and OCFL lookup, `coalescedAuthFallbackMeta`, while files and the upstream change |
| `LocalSourceProofs` | its inductive invariant and theorems |
| `ImageGeometry` | `resolveRegion`, `resolveSize`, the pixel limits, `chooseJP2Page`, `scaleRegionToLoadedPage`, `pyramidScaleFactors` |
| `ImageRequests` | `parse.Parse`, the canonical URL and the derivative key, over segments of a path |
| `ImageServer` | an Image API request from the URL to the answer: parser, source, info cache, libvips limiter, `Transform` |
| `ImageServerProofs` | what holds of the geometry for images of any size and of the names for identifiers of any length; the inductive invariant and theorems of `ImageServer` |
| `PresentationRequests` | the conditional requests for a Presentation resource, and when a document meets a condition |
| `ConditionalRegister` | what a Presentation store promises: the abstract specification |
| `PresentationFile` | the file store, step by step, with crashes; implements `ConditionalRegister` |
| `PresentationFileProofs` | its inductive invariant and theorems, the refinement among them |
| `PresentationSQL` | the MariaDB store, statement by statement, with connections that break and servers that shut down; implements `ConditionalRegister` |
| `PresentationSQLProofs` | its inductive invariant and the refinement |
| `MCAuthFallbackOpen`, `MCLocalAuth`, `MCLocalSource`, `MCDerivativeCache`, `MCSourceCache`, `MCPresentationFile`, `MCPresentationSQL`, `MCImageServer` | instances for TLC |

How they fit together: `ImageServer` EXTENDS `ImageRequests`, which EXTENDS
`ImageGeometry`. `PresentationFile` and `PresentationSQL` share
`PresentationRequests` and both refine `ConditionalRegister`. `LocalSource` uses
the outcomes of `authorize` and of the shared download, which `LocalAuth` and
`AuthFallbackOpen` model step by step. `DerivativeCache` takes the place of the
cache that every image request of `ImageServer` misses.

Operators named `... Mutant:` in a comment are plausible bugs, each put in the
place of the definition it precedes to see that a property notices; no
specification uses them.

### AuthFallbackOpen

One step for each critical section of `authMu`, each wait and each call to the
operating system. `pc`, `call` and `key` are the locals of a request; `inflight`
is `authFallbackOpenInflight`; `refs`, `doneClosed`, `done`, `path` and `err` are
the fields of a call object; `files` is the temporary directory. `origin` is
history: the key a call was fetched under. Clients may leave at any step at which
the code looks at the context. A name of `os.CreateTemp` is not reused while its
file exists, and a call object is reused only when nothing refers to it, as the
garbage collector would.

Fairness: weak fairness for the steps a request takes once begun. They end
because the HTTP client has a timeout, handlers return and close what they opened,
and the Go scheduler is fair. A client's leaving is never assumed.

### LocalAuth

A step ends where a goroutine takes `authMu` or waits. Time is counted in ticks
and kept as the time an entry has left, so the clock is not bounded. The network
may take any number of ticks; a goroutine that does not wait runs within one tick.
This is the one timing assumption, and it is what lets a TTL mean something: an
answer that is delivered to a stopped goroutine can be arbitrarily old. A decision
carries what the upstream was asked, how long ago it answered, and whether
`InvalidateAuth` has run since: history that no step reads.

### DerivativeCache

A request is a sequence of reads and writes of files and of the source: metadata,
marker, entry, source, temporary file, rename. Opening a file fixes what is read
(`open`, then `rename` over it, still reads the old file), so `Get` is one step;
`Put` is three, because the temporary file is partial (`whole`) until the copy has
ended, the modification time is that of the last bytes, and the name comes with the
rename. Each of them may fail. Cleanup is two steps for each file. `epoch`, `began`,
`begun` and `acked` are history. A client may keep a response with its ETag and send
it back.

A crash drops the goroutines of the server and keeps the directory. A power failure
stops the cleanup too and may take what was never synced, and `Put` syncs nothing:
the name of a file (the rename is lost) or its bytes (the name stays). `PowerLoss`
says which. When a rename is lost that replaced a file, the older file of the same key
may be back; the model has it removed, because all that the properties say of the lost
file holds of that one, except for a marker, where `LoseName` is excluded anyway.

A marker that is live may fail to open (then it is none), or to be read, or have lost
its contents; then the handler names the namespace by the marker's modification time,
and if its bytes read as zeros, by those (`Readings`). The modification times of two
markers are taken to differ. A marker and its temporary file are one step of the route,
so a partial marker arises only from a power failure.

The source is one identifier whose metadata and bytes are read from the same
place and only get newer. That holds without a source cache; what becomes of it
with one is told under Findings. The cleanup process is allowed to look at a file
more than once in a walk, which the real walk does not do.

### SourceCache

One URL, the requests that read its bytes, and the goroutines that `startRefresh`
starts. Requests and refreshes
share the steps of a fill: fetch, copy block by block, rename the payload, truncate
and write `.meta`. A source is a sequence of blocks, each named by its version, so
that a shortened source and one joined of two versions can be told from a whole
one. When the content type cannot be written, `installWithMeta` removes the payload and
ignores whether that works; `RemoveFails` says whether it may not. Whether an upstream answers a range request or sends everything is its own
choice at each fetch. `Get` is one step, because which content type a reader is
told influences nothing that is followed. An entry becomes stale by a step of its
own; the times of entries are not compared. Not followed: `MetaCaching`, the
death of the process (which can leave new bytes with the old content type), other
processes on the same directory, and the size limit of the opener.

Two requests and a refresh may hold fills of one entry at the same time, which
overtake each other: nothing keeps an older one from replacing a newer one.
Liveness is not checked here: the only wait is for the mutex, and `TypeOK` and
`OneRefresh` say that neither the mutex nor the place in the refreshing map
outlives the goroutine that took it.

### LocalSource

One source that is asked for by one name, the files it leads to under the roots of
the mappings, and the calls of `Open` and `Meta` for it. One step for each call to
the file system or the upstream: a file may be replaced or removed between
`EvalSymlinks`, `Stat`, the probe and `open`. A path that escapes its root, or
leads to something that is no regular file, is reported like a missing one and is
not told apart from it. A file of an OCFL version never changes; the inventory
that names it does.

`authorize` is one step with the outcome of its contract, a session that the
upstream allows or not, because `LocalAuth` is about when a decision is recent
enough. An open that shares a download may be served a version that was current
when that download began; `since` is history and remembers it. `AuthFallback` is a
plain `HTTPOpener`, with no cache in front of it; `Fallback` may be a cache, so
its version is any up to the present one.

Two things the code does deserve a reader's attention, though every property
holds. A file that vanishes between the probe and `open` (`local_url.go:221-224`,
`249-251`) sends the request on to the later mappings and to the shared fallback,
while the comment on `AuthFallback` (lines 37-39) says that matched sources under
an authenticated mapping bypass the shared caches when the local lookup misses; the
session has been allowed by then. And a file that vanishes between `EvalSymlinks`
and `Stat` (`file.go:83-86`) is an error that ends the loop, not a miss.

### Images

`ImageGeometry` is the arithmetic. The code computes in `float64`; the model
computes with exact fractions, and where the code rounds something that was
already rounded the operator returns the set of results that a tie may have. So a
property holds whichever way the last bit falls. Numbers in a request are counts of
1/`Unit`.

`ImageRequests` is the parser and the two printers, `canonicalImageURL` and
`DerivativeKey`. A segment of a path is what the parser can tell of it: prefixes,
a word or a list of numbers, and how each number is spelled. Not followed: NaN,
infinities and numbers beyond the range of `int`, which `strconv.ParseFloat`
accepts although `parse.go:5-7` calls the parser strict, and the spelling `-0`.

`ImageServer` puts them to work. A step ends where a goroutine reads or changes
what others share: the source, the info cache, the channel of the limiter, the file
that libvips loads. `Opened` are the locals of `imageDimensions` and `Transform`.
A source that is a named file is loaded by path, once or, for a smaller JPEG 2000
page, twice; it may have been replaced each time. Every way out of the work gives
the slot back, because the release is deferred; `RecoverMiddleware` turns a panic
into such a way out. `WorkFails` stands for all that libvips may do wrong.

Sources only get newer. The info cache is keyed by what `Open` tells of a source, its size
and its modification time, and neither has to name a version (`MetaOf`): an upstream
that sends an ETag and no Last-Modified has no time (`http.go:379-388`) and is cached
by its size alone (`handler.go:324`), Last-Modified is told in seconds, and a file may
be restored with its old time. `InfoFollowsMeta` says what is left of being current
then. `docs/caching.md:84-86`, `155-158` promise that *updated metadata* misses, no more.
The info cache is enabled; `maxWidth` and `maxHeight` are advertised in info.json and not
enforced anywhere, so they do not appear; and rotation by other angles than a right one is left
out, because the size of its result is up to libvips.

Fairness: a goroutine that can go on does (weak), and a sender that waits for the
channel of the limiter is served eventually (strong): the Go runtime queues
senders. No client has to leave and no call has to fail, except the opening of a
source that does not exist.

### Presentation

`PresentationFile` takes one step for each call that changes the file system, and
any call may fail. A crash leaves one of the directory entries the resource has
had since its directory was last synced; bytes that were never synced may be torn.
`promised` is history: what a client may expect after a crash. `ConditionalRegister`
has neither mutex nor files: a write takes effect at one instant, if the document
meets its condition, and is acknowledged only when nothing can undo it. A write
that fails may have taken effect or not, or may yet take effect, once and under
its condition (`Lose`, `Settle`): that is what a client has to expect whose
connection to a database breaks. The refinement maps the document to the contents
of the file and the rename to that instant. An ETag stands for the body it is the
hash of: collisions are left out.

`PresentationSQL` takes one step for each statement. The row is locked from
`SELECT ... FOR UPDATE` to the end of the transaction; an absent row is not, and
`INSERT` relies on the primary key. A connection may break before and after every
statement: the client is told a failure at once, while the database rolls back
later, or executes what it has received. `RegisterOnShutdown` closes the pool as
soon as a shutdown begins (`server.go:154-155`, `223-240`), so requests in flight
may be answered 500 although the shutdown is called graceful; they do end, and
leave no half of a write. A crash of a server or of the database is the breaking
of its connections.

Fairness: every call returns (weak), and a goroutine that waits for the mutex gets
it eventually (strong), which `sync.Mutex` guarantees by handing itself to a
starved waiter. For the MariaDB store: every statement ends, a wait for a row lock
by `innodb_lock_wait_timeout` if need be, and a broken connection is noticed; a
shutdown that has begun goes on, but none has to begin.

## Runs

| run | instance | shows |
| --- | --- | --- |
| `auth_fallback` | 3 requests, 2 keys (one request may use either), 2 call objects | a leader, a joiner and a third request on the same or the next call: the file outlives its readers, is not orphaned, keys stay apart, every request returns |
| `local_auth` | 2 requests, 1 source, 2 sessions, TTL 1, 1 entry per scope | allowing decisions are one's own and recent, denials are never remembered, limits hold, waiters are answered |
| `local_auth_invalidation` | the same with 1 session | expected violation: a probe in flight during `InvalidateAuth` stores its answer afterwards |
| `local_source` | 2 calls, 2 sessions (one allowed), a name under 3 mappings (OCFL with probe, directory with probe, public), 2 versions of every file and of the upstream | nobody gets past an authenticated mapping without permission, no version is reported with older bytes, a shared HEAD has one leader |
| `derivative_cache` | 2 requests, 2 versions, expiry, cleanup, files that cannot be opened, copies that fail half-way, crashes, renames lost in a power failure | what is served is as new as the request and whole |
| `derivative_expiry` | 2 requests, 1 invalidation, cleanup, 3 instants for a maximum age of 1 tick, bytes lost in power failures | an acknowledged invalidation hides every derivative written before it began, also when its marker has lost its contents, expires and is removed |
| `derivative_cleanup` | 1 request, 2 invalidations, cleanup | expected violation: cleanup removes the fresh marker in place of the expired one |
| `source_cache` | 2 requests, 2 refreshers, a source of 2 blocks replaced by one of 1 block, ranges, cut connections | content types stay with their bytes, sources of different sizes are not joined, in an entry or for a transform, one refresh runs at a time, the mutex is given back |
| `source_cache_bytes` | 1 request, 1 refresher, 2 versions of 2 blocks | expected violation: a range response that ends early is cached as the whole source |
| `presentation_file` | 2 clients, 2 documents, every conditional request | the file store implements `ConditionalRegister`; nothing torn, nothing acknowledged is lost, the lock is given back |
| `presentation_sql` | 2 clients, 2 documents, 1 server, every conditional request, connections that break at each statement | the MariaDB store implements `ConditionalRegister`; requests are answered and a shutdown ends |
| `image_server` | 2 requests out of 18 paths, 4 sources (one replaced by a smaller image, and that by another of the same size and time; one without a time, cached by its size), 1 slot, 1 entry in the info cache | slots come back, info.json is never older than the metadata of the source, the tiles it offers are served, nothing is read outside an image, canonical URLs and keys name one request each, every request returns |

Bounds. Two requests suffice for each race of a leader and a follower; the fetch
has a third so that one can release while another joins, and two call objects so
that a second call of a key overlaps the end of the first. Two versions, two
documents and two sessions tell old from new and own from foreign. A limit of one
entry makes every second decision evict. With a maximum age of one tick, two ticks
expire an entry, and a third separates entries written before and after the marker:
`derivative_cache` has three. `derivative_expiry` has two, which expire a marker that was
written at once, together with what was written before it; with a third tick the same
holds for one request (1,039,551 states) and, without power failures, for two (632,378).
`derivative_expiry` and `derivative_cleanup` leave the source at one version, and
`derivative_cache` runs without invalidations, to keep each within minutes. `"open"` is
not in `ReadErrors` where `InvalidatedIsIgnored` is checked, because a marker that
cannot be opened is taken for none, by design; nor is `"name"` in `PowerLoss`, because an
acknowledged marker is not synced either: each of the two violates the property, and so
do two markers that have both lost their contents and read as zeros. `"bytes"` is not in
`PowerLoss` where `ServedIsWhole` is checked: see Findings. `RemoveFails` is off in
`source_cache`: if the payload of a failed install stays, it stays with the content type
of the fill before, and TLC finds `EntryAgrees` violated. In `image_server` the images have up
to 9 by 6 pixels, tiles 2 by 2: enough for three JPEG 2000 resolutions, tiles cut
by both borders at two factors, ties of rounding, and regions that the smaller
image no longer contains. What depends on larger numbers is proved. One slot makes
every second request wait; one entry makes every second info document evict. One
server suffices for `presentation_sql`, because another one is told apart only by
which of its clients a shutdown concerns; the proofs are for any number.

### Findings

Three runs end in a counterexample.

1. `local_auth_invalidation`: `InvalidateAuth` clears the decision cache and leaves
   the probes in flight. A probe that the upstream allowed before a permission
   changed stores its decision after the invalidation was answered, for up to the
   TTL. `docs/caching.md:54-60` promises that requests after it use new decisions.
   `OnlyTheRace` proves that this is the only way: without such a decision on its
   way, the promise holds.
2. `derivative_cleanup`: `triplet-cache-cleanup` removes by name what it found
   expired by age. When an expired marker is replaced in between, the new one is
   removed after the route has answered 204, and entries of the old namespace are
   served again.
3. `source_cache_bytes`: the range reader reports a response that ends early as the
   end of the source, and `Put` succeeds with a shortened file that is served until
   it is refreshed. Between two ranges it compares sizes and no validator, so a
   source replaced by one of the same size can be cached as a mixture. `OriginalWhere`
   proves that these two are the only ways: without ranges, or where no response is
   cut short and no two versions have one size, every entry is a whole original.

In a fourth place the docs contradict each other, and the code follows one of them.
The flowchart of `docs/authorization.md` caches denials ("Cache anon deny", line 105,
"Cache cred deny", line 115) and answers 403 or 404 from a cached one (lines 98-99,
110-112). The text below it says that neither 401 and 403 (lines 161-163) nor 404
(165-167) is cached, and so does the code: `cacheableAuthProbeResult`
(`local_url.go:507-509`) admits allowing results only, and
`TestLocalURLFallbackAuthProbeDoesNotCacheForbidden` and `...NotFound` agree.
`DenialsAreCurrent` states what the text and the code say, and holds; of the flowchart it
is the negation. The paths of the flowchart that lead from a cached denial do not exist.

Four more are not runs, because they say what follows from the code and a choice of
its environment.

- A derivative with the right name and lost bytes. `FileStore.Put` renames its
  temporary file without syncing it (`internal/cache/file.go:145-164`), unlike the
  Presentation file store. On a file system that may make the rename durable before the
  bytes, a power failure leaves a torn derivative under its key, which nothing that `Get`
  does can tell from a whole one; it is served until it expires. With `"bytes"` in
  `PowerLoss`, TLC finds `ServedIsWhole` violated; without it `Whole` proves the property.
- Dimensions of a replaced image. An image that is replaced by one of the same size in
  bytes and the same modification time, or none, keeps its old width and height in
  info.json for as long as the entry stays in the info cache (`handler.go:324-331`,
  `http.go:379-388`). In `image_server` the second version of a source is replaced by such
  a third one. `InfoFollows` proves what holds nevertheless, `InfoCurrentWhere` that this
  is the only way.

- A version newer than the bytes. `Caching.Meta` asks the upstream when the entry
  is missing (`caching.go:89-93`); another request, which fetched the source before
  it changed, fills the entry; `Open` hits that entry (`caching.go:37-42`). Then
  `serveImage` files a derivative of the old bytes under the version of the new
  ones, which `docs/caching.md:77-78` means to exclude.
- The entry of a shard directory. `Put` of the Presentation file store syncs the file
  and its shard directory (`file.go:171`, `182`) but not the parent of a shard
  directory that it has just made (`file.go:86`). Where a synced directory may
  itself be lost (`PresentationFile` with `ShardPersists = FALSE`), a power failure
  loses an acknowledged document, and TLC finds `AcknowledgedSurvives` violated.

## Proofs

`AuthFallbackOpenProofs` proves, for any finite set of requests and any keys and
call objects, the safety properties of `auth_fallback`: type correctness,
`HeldFileExists`, `NoOrphanFile`, `ServedUnderOwnKey`, `SingleFlight` and
`OnlyOwnCancellation`; and that the removal in `finishAuthFallbackOpen` never
happens, because the leader's own reference keeps the count above zero. The
assumptions are the named ones of the module: the set of requests is finite, and
the two nil values are not keys or calls.

None of these is inductive. The invariant that is, `IInv`, adds that the reference
count equals the number of requests that hold the call (`RefsExact`), that the
in-flight map points at exactly the calls being fetched and each has one leader
(`Leaders`), that a call in use either has a leader or its result (`Published`),
that an object nobody refers to is clean (`Collected`), and where each file stands
(`FileStates`). `RefsExact` is what makes the removal safe: the request that takes
the count to zero is the last holder. Each action has a lemma; the cardinality of
the holders changes by one at `Lead`, `Join` and `Release` and not otherwise.

`PresentationFileProofs` proves, for any clients and documents, type correctness,
`NeverTorn`, and, where `ShardPersists` holds, `AcknowledgedSurvives` and `Refines`:
the file store implements `ConditionalRegister`. The assumptions are that the two
nil values and the torn document are not clients or documents, and, for the last
two theorems, `ShardPersists`, without which the first of them is false. The inductive invariant adds to the types, among which the mutex
and the program counters agree (`TypeOK`), three parts. `Admitted`: a write on its
way to the rename or the removal still has its condition met by the document,
because only the holder of the mutex changes it. `Temporary`: what the rename
installs are the bytes of the request, synced. `Recoverable`: every directory entry
that a crash may leave was synced and is promised. The refinement has a lemma for
each action: `Rename` and `Remove` are `Apply`, `SyncDirectory` is `Acknowledge`, the
steps before the rename are stutters, a power failure is a `Crash` of all clients.

`PresentationSQLProofs` proves, for any clients, servers and documents, type
correctness and `Refines`. `TypeOK` is almost inductive: it says that the lock belongs
to exactly the transaction that has read the row, and that this transaction's copy
is the row. `Admitted` adds that a write on its way to COMMIT, or one whose COMMIT is
still open, has passed its comparison. That is why a write that settles after its
client was told a failure cannot overwrite what somebody has written since: its
transaction still holds the lock. A creation has no lock, and settles only on an
absent row.

`ImageServerProofs` has three parts. The first is about the arithmetic, for images and
requests of any size. A region that is not refused lies in the source and has pixels
(`RegionIsInside`); without `^` nothing is enlarged (`NothingIsEnlarged`); a best-fit
size stays in its box (`BestFitIsConfined`); the region on a smaller page lies in the
page (`PageRegionIsInside`) and has at least the pixels of the output
(`PageHasThePixels`); a tile that info.json offers resolves to itself, within the limit
of output pixels (`TileIsServed`). The bounds of a rounded quotient (`RoundBounds`,
`FloorsBelow`, `CeilsAbove`) carry the rest. Assumption: `Unit` is positive.

The second proves, for any requests, sources, paths and limits,
`SlotsAreHeld`, `TypeOK`, `InfoFollowsMeta`, `TilesAreServed` and `ExtractIsInside`. The
invariant has four parts. `Counted`: the counter of the limiter is the number of
requests at work. `Typed`. `Caching`: an entry of the info cache describes an image
that the source was since it had the metadata of the entry (`Describes`); a hit compares
that metadata with what the request has just read, so the image is as new as some version
with the metadata of the present one (`InfoFollows`). Where every version has its own
(`MetadataTells`), that is as new as the request (`InfoCurrentWhere`). `GoodRequest`: what each request has read and decided so far, and what its
answer says. The geometry theorems enter where a region or a size is used. The
assumptions are the named ones of the modules: requests are finitely many, images
have at least one pixel, and JPEG 2000 has at most 32 resolutions below the full one.

The third proves `CanonicalNames`, for identifiers of any length. Each part of an
operation that the parser accepts is written in a way that it reads back
(`RegionReturns`, `SizeReturns`, `RotationReturns`); an identifier is escaped into one
segment, which decodes to it (`IdentifierOfEscaped`); so a canonical URL is five
segments that are parsed to the request (`CanonicalReturns`), and a key ends in the four
segments of its operation, with the identifier before them (`KeysDiffer`). The
invariant this needs is `Nameable`: every request at work has an identifier and an
operation that the parser can return. Decoding is a fold over the parts of a segment.
What it returns is proved by induction on the number of parts, which is stated for a
set of numbers (`Induction`: the least number that is missing does not exist) and not
for a predicate.

`LocalSourceProofs` proves, for any calls, sessions, files and lists of mappings,
`TypeOK`, `ServedIsPermitted` and `AnswersAreCurrent`. The two properties speak of
answers; the invariant (`Good`) says of every step what makes the answer right: which
mappings have allowed the session so far (`ClearedBefore` before the probe of a
mapping, `Cleared` after it), and that the version seen lies between that of the
file when the call began and the present one. `NoneIsSkipped` carries the first from
a mapping to the next: the loop goes to the first one that matches behind it, so none
that probes is left out. `Coalesced` says that calls which share a HEAD request have
one key, hence one session. A call that goes on alone is one lemma (`OneMoves`); the
sharing of a HEAD request has a lemma for each of its steps. The assumptions are that
`None` is no request, session, version or answer, and that the bound on versions is
positive.

`LocalAuthProofs` proves all six safety properties of `LocalAuth`, for any finite set
of requests, any identifiers and credentials, any TTL and any limit. `GoodEntry` says
that a remembered decision is about its key, allows, and that its age and the time it
has left make up the TTL: so an unexpired entry is no older than the TTL, although the
code never computes an age. `GoodRequest` says that a result on its way to the cache
or to a waiter is of this tick, and that whoever waits without one is registered with
a key in the in-flight map; `Leaders`, that such a key has one leader. Eviction makes
room for one entry before one is added, which keeps the count (`Limited`).
`InvalidateAuth` removes exactly the entries that the history would call old.
Assumptions: the named ones of the module, among them that `None` is no decision.
`OnlyTheRace` complements the finding about `InvalidateAuth`. Its hypothesis `Unraced`
says that at no step does `InvalidateAuth` meet a decision about its identifier in the
hands of a leader or in the channel of a waiter; then every decision in the cache, on its
way or answered is `AllNew`, and `NoDecisionSurvivesInvalidation` holds.

`DerivativeCacheProofs` has two invariants. `IInv`: no file and no copy of a client is
older than the version in its key, and a request that goes on to make a derivative
makes it of a source at least as new as the version in its key. With it `TypeOK` and
`ServedIsCurrent` hold for any requests, times and versions, with unreadable files,
cleanup, crashes and power failures. `ServedIsWhole` needs that a power failure takes no
bytes of a file whose name it leaves (`Kept`); the invariant then says that a temporary
file is whole from the end of the copy on, and that every file with a name, every copy
and every answer is. `Hidden` is about the stamps of derivatives,
those on disk and those still in a temporary file: what was written before the last
acknowledged invalidation is no newer than its marker, so it expires no later (`Outdated`),
and what lies in the namespace of a marker was written after that marker's
invalidation began. A request that finds no live marker therefore finds no live
derivative that it would have hidden. This proves `InvalidatedIsIgnored` under
`Scheduled`: markers that exist can be opened and keep their names, and there is at most
one invalidation, or neither a cleanup nor a loss of bytes. The conditions are needed:
without the first a request falls back to the old namespace, with a second invalidation
the cleanup makes the property false (see Findings), and so does a loss of bytes, which
makes one name of two markers. Assumptions: the bounds are natural numbers, there is a version, and `None`
and `Marker` are names of their own.

`SourceCacheProofs` has two invariants, for any requests, refreshers, versions and block
lists. `IInv` proves `TypeOK`, `EntryAgrees`, `SizesAgree` and `OneRefresh`. `EntryAgrees`
needs that the payload of a failed install can be removed (`~RemoveFails`), the others
nothing. They say little of a goroutine in the middle of a fill, so the invariant adds it:
`GoodInstall` says that whoever holds the mutex has renamed the payload whose type it is
about to write, wherever other fills are; `GoodFill`, that every block copied so far is of
a version of the size that the first response told, which is what the range reader
compares; `Refreshing`, that the map holds the source exactly while one refresher works.
`Originals` adds that the blocks a goroutine has copied are all of its version
(`GoodBytes`). It is inductive under `Faithful`: the upstream serves no ranges, or no
response is cut short and no two versions have one size. Without it `EntryIsOriginal`
is false (see Findings). Assumptions: there is a version, every version has a block,
and requests and refreshers are different goroutines, with at least one refresher.

Only model-checked: liveness, which is out of reach of the prover.

## Not modelled, and why

Validation of Presentation documents, redaction, CORS, metrics and configuration are
functions of one request or one file without state. Pixels, encoders and libvips
are outside; `vips.go` sets up the library once. `MetaCaching` answers from memory
for a documented time; what it returns is as old as that, and no property here
bounds the age of a version. Conditional reads (304) of a Presentation resource
change nothing. File-system errors in the cache other than a failed `Put` or an
entry that cannot be opened or read are not told apart. Two concurrent invalidations of
one identifier are served one after the other. Temporary files that a crash leaves behind
are not followed: nothing reads them, and the cleanup passes over them (`file.go:227`). The MariaDB server and the upstream HTTP server appear only through what
the code does with their answers. `main` exits with `os.Exit` on an error, which skips
the deferred shutdown of libvips and matters to nothing that survives the process.

## Plan

1. `MetaCaching` in front of `SourceCache`, crashes between the two files of an
   entry, and `DerivativeCache` over both, with what its properties become: in
   particular one about the age of the bytes served, not of the file they are in.
2. Refreshes in flight at shutdown, which `SourceCache` cancels but does not await.
3. Proofs of the safety properties of these models, from the invariants of the modules
   they compose.
