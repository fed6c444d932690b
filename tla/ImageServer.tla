---------------------------- MODULE ImageServer ----------------------------
(***************************************************************************)
(* Image API requests from the URL to the answer: Handler.ServeHTTP, the   *)
(* info documents with their cache of dimensions, and Pipeline.Transform,  *)
(* which share the libvips limiter (internal/iiif/image/v3/handler,        *)
(* pipeline and types, internal/vips).  The derivative cache is the        *)
(* subject of DerivativeCache: here every image request misses it.         *)
(*                                                                         *)
(* Open tells the metadata of a source and leads to its bytes, which a     *)
(* named file lets libvips read by path, later, when it may have been      *)
(* replaced.  A source that is no named file is spooled.                   *)
(***************************************************************************)
EXTENDS ImageRequests, FiniteSets

CONSTANTS
  Requests,             \* request goroutines
  Paths,                \* the URL paths clients ask for
  Images,               \* for each identifier, the images that replace each other
  TileWidth,            \* 512 in BuildLevel2Info
  MaxConcurrent,        \* max_concurrent_transforms; 0 is no limit
  MaxInfoCacheEntries,
  MaxSourcePixels, MaxOutputPixels, MaxSourceBytes   \* 0 is no limit

\* What a source can be: its dimensions, its resolutions, its bytes, and the time in its
\* metadata, where 0 is none: an upstream need not send Last-Modified, and times are as
\* coarse as it tells them.  libvips finds no image without pixels, and JPEG 2000 has
\* at most 32 resolutions below the full one.
Pictures ==
  [w : Nat \ {0}, h : Nat \ {0}, pages : 1..33, bytes : Nat, modTime : Nat,
   named : BOOLEAN, decodes : BOOLEAN]

ASSUME ImagesType == \A id \in DOMAIN Images : Images[id] \in Seq(Pictures) \ {<<>>}
ASSUME PathsType == Paths \subseteq Seq(Segments)
ASSUME RequestsAreFinite == IsFiniteSet(Requests)
ASSUME Limits ==
  /\ {MaxConcurrent, MaxSourcePixels, MaxOutputPixels, MaxSourceBytes} \subseteq Nat
  /\ {MaxInfoCacheEntries, TileWidth} \subseteq Nat \ {0}

VARIABLES
  current,    \* the version of each source, which only grows
  infoCache,  \* Handler.infoCache: dimensions, with the metadata read before them
  inUse,      \* the number of values in the channel of the limiter
  pc, req,    \* the step and the parsed request of each goroutine
  job,        \* its other locals
  got,        \* its answer
  began       \* history: the version of the source when the request began

vars == <<current, infoCache, inUse, pc, req, job, got, began>>

\* The locals of imageDimensions and Transform: the version of the metadata, the
\* version that was spooled, or Live, the dimensions and the number of pages of the
\* source, the page chosen, the dimensions of what was loaded last, the part of that
\* to extract, and the size of the output.
Live == 0
Opened(meta, file) ==
  [meta |-> meta, file |-> file, full |-> NoDims, pages |-> 0, page |-> 0,
   loaded |-> NoDims, rect |-> NoRect, out |-> NoDims]
NoJob == Opened(0, Live)

Identifiers == DOMAIN Images
ImageAt(r, version) == Images[req[r].id][version]

\* The image that is loaded now.
LoadedImage(r) == ImageAt(r, IF job[r].file = Live THEN current[req[r].id] ELSE job[r].file)

\* An answer: its outcome, the dimensions of what was served, and those the request
\* was resolved for.  The status is 400 for "syntax", "refused" and "large", 415 for
\* "unsupported", 503 for "busy", 303 for "redirect", 200 for "served", and 403, 404
\* or 500 for "failed".
Answered(outcome, d, full) == [outcome |-> outcome, dims |-> d, full |-> full]
NoAnswer == Answered("none", NoDims, NoDims)

Init ==
  /\ current = [id \in Identifiers |-> 1]
  /\ infoCache = << >>
  /\ inUse = 0
  /\ pc = [r \in Requests |-> "idle"]
  /\ req = [r \in Requests |-> ErrSyntax]
  /\ job = [r \in Requests |-> NoJob]
  /\ got = [r \in Requests |-> NoAnswer]
  /\ began = [r \in Requests |-> 0]

\* Go on with these locals, or answer, which drops them.
Continue(r, step, locals) ==
  /\ pc' = [pc EXCEPT ![r] = step]
  /\ job' = [job EXCEPT ![r] = locals]
  /\ UNCHANGED got
Answer(r, outcome, d) ==
  /\ pc' = [pc EXCEPT ![r] = "answered"]
  /\ job' = [job EXCEPT ![r] = NoJob]
  /\ got' = [got EXCEPT ![r] = Answered(outcome, d, job[r].full)]
Refuse(r, outcome) == Answer(r, outcome, NoDims)
---------------------------------------------------------------------------
\* ServeHTTP: parse the path; a base URI is redirected to its info document.
Begin(r) ==
  /\ pc[r] = "idle"
  /\ \E path \in Paths :
       LET q == Parse(path) IN
       /\ req' = [req EXCEPT ![r] = q]
       /\ began' = [began EXCEPT ![r] = IF q.id \in Identifiers THEN current[q.id] ELSE 0]
       /\ CASE q.kind = "error" -> Refuse(r, "syntax")
            [] q.kind = "base" -> Refuse(r, "redirect")
            [] OTHER -> Continue(r, "open", NoJob)
  /\ UNCHANGED <<current, infoCache, inUse>>

\* The source is missing, forbidden or unreadable, or cannot be spooled.
OpenFails(r) ==
  /\ pc[r] = "open"
  /\ Refuse(r, "failed")
  /\ UNCHANGED <<current, infoCache, inUse, req, began>>

\* src.Open in imageDimensions, or openSource; a source without a name is spooled.
Open(r) ==
  /\ pc[r] = "open"
  /\ req[r].id \in Identifiers
  /\ LET v == current[req[r].id]
         image == ImageAt(r, v)
     IN IF MaxSourceBytes > 0 /\ image.bytes > MaxSourceBytes
          THEN Refuse(r, "failed")
          ELSE Continue(r, IF req[r].kind = "info" THEN "lookup" ELSE "acquire",
                        Opened(v, IF image.named THEN Live ELSE v))
  /\ UNCHANGED <<current, infoCache, inUse, req, began>>

\* Mutant: the entry of the identifier is used whatever the metadata says.
HitWithoutMeta(r) == req[r].id \in DOMAIN infoCache

\* What Open tells of a source and the cache looks at.  It need not tell a version from
\* the one that replaced it.
MetaOf(image) == [size |-> image.bytes, modTime |-> image.modTime]
Meta(r) == MetaOf(ImageAt(r, job[r].meta))

\* Dimensions are cached where a size or a time is known, and used where both are those
\* of the entry.
Cacheable(r) == Meta(r).size > 0 \/ Meta(r).modTime # 0
Hit(r) ==
  /\ req[r].id \in DOMAIN infoCache
  /\ infoCache[req[r].id].meta = Meta(r)

Lookup(r) ==
  /\ pc[r] = "lookup"
  /\ IF Cacheable(r) /\ Hit(r)
       THEN Answer(r, "served", infoCache[req[r].id].dims)
       ELSE Continue(r, "acquire", job[r])
  /\ UNCHANGED <<current, infoCache, inUse, req, began>>
---------------------------------------------------------------------------
\* Limiter.Acquire and the function it returns, which is deferred.
Limited == MaxConcurrent > 0
Release == inUse' = IF Limited THEN inUse - 1 ELSE inUse

Acquire(r) ==
  /\ pc[r] = "acquire"
  /\ Limited => inUse < MaxConcurrent
  /\ inUse' = IF Limited THEN inUse + 1 ELSE inUse
  /\ Continue(r, "load", job[r])
  /\ UNCHANGED <<current, infoCache, req, began>>

\* Mutant: the release function is called although no slot was acquired.
GiveUpReleasing(r) ==
  /\ pc[r] = "acquire"
  /\ Refuse(r, "busy")
  /\ Release
  /\ UNCHANGED <<current, infoCache, req, began>>

\* The client has left: ErrBusy.
GiveUp(r) ==
  /\ pc[r] = "acquire"
  /\ Refuse(r, "busy")
  /\ UNCHANGED <<current, infoCache, inUse, req, began>>

\* Mutant: the slot is not given back.
FinishHolding(r, outcome, d) == UNCHANGED inUse /\ Answer(r, outcome, d)
Finish(r, outcome, d) == Release /\ Answer(r, outcome, d)

\* libvips fails or panics while the slot is held, or the bytes of the derivative are
\* more than max_derivative_bytes.
WorkFails(r) ==
  /\ pc[r] \in {"load", "page", "encode"}
  /\ Finish(r, "failed", NoDims)
  /\ UNCHANGED <<current, infoCache, req, began>>

\* The first load tells the dimensions; those too large, and what is no image, are
\* refused here for either kind of request.
Load(r) ==
  /\ pc[r] = "load"
  /\ LET image == LoadedImage(r)
     IN CASE ~image.decodes -> Finish(r, "unsupported", NoDims)
          [] image.decodes /\ ~CheckSourcePixels(image.w, image.h, MaxSourcePixels) ->
               Finish(r, "large", NoDims)
          [] OTHER ->
               /\ Continue(r, IF req[r].kind = "info" THEN "store" ELSE "resolve",
                           [job[r] EXCEPT !.full = Dims(image.w, image.h), !.pages = image.pages])
               /\ UNCHANGED inUse
  /\ UNCHANGED <<current, infoCache, req, began>>

\* The end of imageDimensions: one entry, any one, makes room for the new one, even
\* where the identifier already has an entry.
Entry(r) == [dims |-> job[r].full, meta |-> Meta(r)]
With(cache, id, entry) == [x \in DOMAIN cache \cup {id} |-> IF x = id THEN entry ELSE cache[x]]
\* Mutant: the cache grows beyond its limit.
KeptAll == {infoCache}
Kept == IF Cardinality(DOMAIN infoCache) < MaxInfoCacheEntries
          THEN {infoCache}
          ELSE {Restrict(infoCache, DOMAIN infoCache \ {id}) : id \in DOMAIN infoCache}

Store(r) ==
  /\ pc[r] = "store"
  /\ IF Cacheable(r)
       THEN \E kept \in Kept : infoCache' = With(kept, req[r].id, Entry(r))
       ELSE UNCHANGED infoCache
  /\ Finish(r, "served", job[r].full)
  /\ UNCHANGED <<current, req, began>>
---------------------------------------------------------------------------
\* Transform after the first load: the region, the size, and whether a smaller page
\* will do, which is then loaded in place of the image.
Resolve(r) ==
  /\ pc[r] = "resolve"
  /\ LET full == job[r].full IN
     \E region \in resolveRegion(req[r].region, full.w, full.h) :
       \E size \in IF region = NoRect THEN {NoDims} ELSE resolveSize(req[r].size, region.w, region.h) :
         IF size = NoDims \/ ~CheckOutputPixels(size, MaxOutputPixels)
           THEN Finish(r, "refused", NoDims)
           ELSE \E p \in chooseJP2Page(job[r].pages, region, size) :
                   /\ Continue(r, IF p > 0 THEN "page" ELSE "encode",
                               [job[r] EXCEPT !.rect = region, !.out = size, !.page = p, !.loaded = full])
                   /\ UNCHANGED inUse
  /\ UNCHANGED <<current, infoCache, req, began>>

\* JPEG 2000 halves the dimensions for every page, and rounds up.
PageDims(image, p) == Dims(Ceil(image.w, 2^p), Ceil(image.h, 2^p))

\* The path is loaded again; it may be another image by now, with fewer pages.
LoadPage(r) ==
  /\ pc[r] = "page"
  /\ LET image == LoadedImage(r)
         d == PageDims(image, job[r].page)
     IN IF ~image.decodes \/ job[r].page >= image.pages
          THEN Finish(r, "failed", NoDims)
          ELSE /\ \E part \in scaleRegionToLoadedPage(job[r].rect, job[r].full, d) :
                    Continue(r, "encode", [job[r] EXCEPT !.rect = part, !.loaded = d])
               /\ UNCHANGED inUse
  /\ UNCHANGED <<current, infoCache, req, began>>

\* Rotation by 90 or 270 degrees swaps the sides; what another angle does to them is
\* up to libvips, and is left out.
Rotated(d, degrees) == IF degrees \in {90 * Unit, 270 * Unit} THEN Dims(d.h, d.w) ELSE d

\* ExtractArea fails if the region is not in the image.
Encode(r) ==
  /\ pc[r] = "encode"
  /\ IF Inside(job[r].rect, job[r].loaded)
       THEN Finish(r, "served", Rotated(job[r].out, req[r].rotation.degrees))
       ELSE Finish(r, "failed", NoDims)
  /\ UNCHANGED <<current, infoCache, req, began>>
---------------------------------------------------------------------------
\* The client has its answer; the goroutine ends.
Return(r) ==
  /\ pc[r] = "answered"
  /\ pc' = [pc EXCEPT ![r] = "idle"]
  /\ req' = [req EXCEPT ![r] = ErrSyntax]
  /\ got' = [got EXCEPT ![r] = NoAnswer]
  /\ began' = [began EXCEPT ![r] = 0]
  /\ UNCHANGED <<current, infoCache, inUse, job>>

\* maybeServeCacheInvalidation forgets the dimensions of the identifier.
Invalidate(id) ==
  /\ infoCache' = Restrict(infoCache, DOMAIN infoCache \ {id})
  /\ UNCHANGED <<current, inUse, pc, req, job, got, began>>

\* Somebody replaces a source.
Replace(id) ==
  /\ current[id] < Len(Images[id])
  /\ current' = [current EXCEPT ![id] = @ + 1]
  /\ UNCHANGED <<infoCache, inUse, pc, req, job, got, began>>

Work(r) ==
  Open(r) \/ Lookup(r) \/ Load(r) \/ Store(r) \/ Resolve(r) \/ LoadPage(r) \/ Encode(r)

Next ==
  \/ \E r \in Requests :
       \/ Begin(r) \/ OpenFails(r) \/ Acquire(r) \/ GiveUp(r) \/ Work(r) \/ WorkFails(r)
       \/ Return(r)
  \/ \E id \in Identifiers : Invalidate(id) \/ Replace(id)

\* A goroutine that can go on does, and the channel of the limiter serves senders in
\* the order they came.  Nobody has to give up, and nothing has to fail but the
\* opening of a source that is not there.
Fairness ==
  \A r \in Requests :
    /\ WF_vars(Work(r) \/ OpenFails(r)) /\ SF_vars(Acquire(r)) /\ WF_vars(Return(r))

Spec == Init /\ [][Next]_vars /\ Fairness
---------------------------------------------------------------------------
\* The steps between Acquire and the release of the slot.
Working == {"load", "store", "resolve", "page", "encode"}
Steps == {"idle", "open", "lookup", "acquire", "answered"} \cup Working

TypeOK ==
  /\ current \in [Identifiers -> Nat \ {0}]
  /\ \A id \in Identifiers : current[id] <= Len(Images[id])
  /\ DOMAIN infoCache \subseteq Identifiers
  /\ Cardinality(DOMAIN infoCache) <= MaxInfoCacheEntries
  /\ inUse \in Int
  /\ pc \in [Requests -> Steps]
  /\ began \in [Requests -> Nat]
  /\ \A r \in Requests :
       /\ {job[r].meta, job[r].file, job[r].pages, job[r].page} \subseteq Nat
       /\ {job[r].full, job[r].loaded, job[r].out, got[r].dims, got[r].full} \subseteq Sizes

\* The slots in use are those of the requests that work with libvips: every answer,
\* refusal, failure and departure gives back what it took, once (limiter.go:24-28).
SlotsAreHeld ==
  Limited =>
    /\ inUse <= MaxConcurrent
    /\ inUse = Cardinality({r \in Requests : pc[r] \in Working})

\* d are dimensions that the source had when it told this metadata, or later.
Describes(d, id, meta, now) ==
  \E v \in 1..now :
    /\ MetaOf(Images[id][v]) = meta
    /\ \E w \in v..now : d = Dims(Images[id][w].w, Images[id][w].h)

\* info.json is never older than the metadata that the source has while the request
\* runs, although dimensions are cached under metadata that was read before the bytes
\* were, by requests that overtake each other, and evicted in any order: it describes an
\* image that the source was since some version told the same size and time
\* (handler.go:315-396).
InfoFollowsMeta ==
  \A r \in Requests :
    req[r].kind = "info" /\ got[r].outcome = "served" =>
      \E v \in began[r]..current[req[r].id] :
        Describes(got[r].dims, req[r].id, MetaOf(ImageAt(r, v)), current[req[r].id])

\* The operation of the tile, as a viewer asks for it.
IsTile(q, t, f) ==
  /\ q.region = Region("pixels", t.left * Unit, t.top * Unit, t.w * Unit, t.h * Unit)
  /\ q.size = Size("wh", TileSize(t, f).w, TileSize(t, f).h, 0, FALSE)
  /\ q.rotation = NoRotation

\* A tile that info.json offers of an image is never refused while the source is that
\* image, and has the size the viewer expects.
TilesAreServed ==
  TileWidth * TileWidth <= MaxOutputPixels =>
  \A r \in Requests :
    LET full == got[r].full IN
    req[r].kind = "image" /\ full # NoDims =>
      \A f \in pyramidScaleFactors(full.w, full.h, TileWidth) :
        \A column \in 0..full.w, row \in 0..full.h :
          LET t == Tile(full, f, TileWidth, column, row)
          IN t # NoRect /\ IsTile(req[r], t, f) =>
               /\ got[r].outcome # "refused"
               /\ got[r].outcome = "served" => got[r].dims = TileSize(t, f)

\* What is extracted lies in what was loaded, even if that is a page of another image
\* than the region was computed for; and where the source stayed the same, a request
\* without ^ is never answered with fewer pixels enlarged (pipeline.go:163-189).
ExtractIsInside ==
  \A r \in Requests :
    pc[r] = "encode" =>
      /\ Inside(job[r].rect, job[r].loaded)
      /\ began[r] = current[req[r].id] /\ ~req[r].size.upscale => FitsIn(job[r].out, job[r].rect)

\* The canonical URL of a request, and the URL a base URI is redirected to, are parsed
\* to the same request; and requests share a derivative key only if they are the same
\* (handler.go:586-644, keys.go:7-13).
CanonicalNames ==
  /\ \A r \in Requests :
       /\ req[r].kind = "image" => Parse(canonicalImageURL(req[r])) = req[r]
       /\ req[r].kind = "base" => Parse(infoRedirect(req[r])) = Plain("info", req[r].id)
  /\ \A r, s \in Requests :
       req[r].kind = "image" /\ req[s].kind = "image"
         /\ DerivativeKey(req[r]) = DerivativeKey(req[s]) => req[r] = req[s]

\* A request is answered, whatever the other requests do with the limiter.
RequestsReturn == \A r \in Requests : pc[r] # "idle" ~> pc[r] = "idle"
=============================================================================
