-------------------------- MODULE DerivativeCache --------------------------
(***************************************************************************)
(* Derivatives of one source: Handler.serveImage and its cache-invalidation *)
(* route (internal/iiif/image/v3/handler), the payload-only FileStore they *)
(* share (internal/cache), and triplet-cache-cleanup, which is another     *)
(* process on the same directory.                                          *)
(*                                                                         *)
(* A derivative is keyed by the version of the source and by the version   *)
(* in the invalidation marker, itself an entry of the cache.  A step is    *)
(* one request to the source or one call to the file system: opening a     *)
(* file fixes what is read from it, and renaming one over it changes what  *)
(* the next open finds.  Nothing that Put writes is synced: PowerLoss says *)
(* what of it a power failure may take.                                    *)
(***************************************************************************)
EXTENDS Naturals

CONSTANTS
  Requests,          \* image requests, all for the same region, size and format
  None,              \* no file, no version, no copy
  Marker,            \* the name of the invalidation marker
  MaxAge,            \* FileStore.MaxAge in ticks; 0 is no limit
  CleanupRuns,       \* whether triplet-cache-cleanup is scheduled
  ReadErrors,        \* what may fail though a cache file is there: "open", "read"
  PowerLoss,         \* what a power failure may lose of a file: its "bytes", its "name"
  ClientsKeep,       \* whether clients keep responses and ask with their ETags
  MaxVersion,        \* bound on the changes of the source
  MaxInvalidations,  \* bound on the requests to the invalidation route
  MaxTime            \* bound of the clock

ASSUME Bounds == {MaxAge, MaxVersion, MaxInvalidations, MaxTime} \subseteq Nat /\ MaxVersion # 0
ASSUME Switches ==
  /\ {CleanupRuns, ClientsKeep} \subseteq BOOLEAN
  /\ ReadErrors \subseteq {"open", "read"}
  /\ PowerLoss \subseteq {"bytes", "name"}

VARIABLES
  source,       \* the version of the source bytes
  clock,
  \* the request goroutines: the version and the namespace in the key, the version
  \* of the bytes of the new derivative, its temporary file, the answer
  pc, version, ns, made, written, got,
  \* the files of the cache directory
  files, marker,
  \* the invalidation route: its step, its version, and when its file was written
  ipc, iversion, iwritten,
  \* the cleanup process: its step, time.Now() of its start, the file it looks at
  cpc, cnow, victim,
  copy,         \* a response some client has kept, with its ETag
  \* history: the source and the acknowledged invalidations when a request began,
  \* the invalidations begun so far, and those acknowledged
  began, begun, acked

reqVars == <<pc, version, ns, made, written, got, began>>
invVars == <<ipc, iversion, iwritten, begun, acked>>
cleanVars == <<cpc, cnow, victim>>
vars == <<source, clock, reqVars, files, marker, invVars, cleanVars, copy>>

\* derivativeKey and the #invalidate suffix; the ETag is a hash of the key.  The suffix
\* is what a marker contains, or the time at which it was written; the contents that a
\* power failure has taken may read as zeros.
Versions == 1..MaxVersion
Zeros == [of |-> "zeros", marker |-> 0]
Namespaces == {None, Zeros} \cup [of : {"contents", "mtime"}, marker : 1..MaxInvalidations]
Keys == [version : Versions, ns : Namespaces]
\* Mutant: the key names the request only.
KeyWithoutVersion(r) == [version |-> 1, ns |-> ns[r]]
Key(r) == [version |-> version[r], ns |-> ns[r]]

\* FileStore.expired
Expired(mtime, now) == MaxAge > 0 /\ now - mtime > MaxAge
Live(f) == f # None /\ ~Expired(f.mtime, clock)

Init ==
  /\ source = 1
  /\ clock = 0
  /\ pc = [r \in Requests |-> "idle"]
  /\ version = [r \in Requests |-> None]
  /\ ns = [r \in Requests |-> None]
  /\ made = [r \in Requests |-> None]
  /\ written = [r \in Requests |-> None]
  /\ got = [r \in Requests |-> None]
  /\ began = [r \in Requests |-> None]
  /\ files = [k \in Keys |-> None]
  /\ marker = None
  /\ ipc = "idle" /\ iversion = None /\ iwritten = None
  /\ cpc = "idle" /\ cnow = 0 /\ victim = None
  /\ copy = None
  /\ begun = 0 /\ acked = 0

Goto(r, step) == pc' = [pc EXCEPT ![r] = step]

---------------------------------------------------------------------------
\* serveImage

\* sourceMeta and derivativeKey: a source without a version is not cacheable.  A
\* request whose sourceMeta fails is answered with an error and changes nothing.
ReadMeta(r) ==
  /\ pc[r] = "idle"
  /\ began' = [began EXCEPT ![r] = [source |-> source, acked |-> acked]]
  /\ \/ version' = [version EXCEPT ![r] = source] /\ Goto(r, "marker")
     \/ UNCHANGED version /\ Goto(r, "transform")
  /\ UNCHANGED <<ns, made, written, got, source, clock, files, marker,
                 invVars, cleanVars, copy>>

\* What a request can make of a marker that it has opened: its contents or, when they
\* cannot be read or there are none, its StoredAt.
Readings(m) ==
  {n \in Namespaces \ {None} :
     \/ n = [of |-> "contents", marker |-> m.bytes] /\ m.whole
     \/ n = [of |-> "mtime", marker |-> m.bytes] /\ (m.whole => "read" \in ReadErrors)
     \/ n = Zeros /\ ~m.whole}

\* derivativeInvalidationVersion: a marker that cannot be opened is no marker.
ReadMarker(r) ==
  /\ pc[r] = "marker"
  /\ \/ Live(marker) /\ \E n \in Readings(marker) : ns' = [ns EXCEPT ![r] = n]
     \/ (~Live(marker) \/ "open" \in ReadErrors) /\ UNCHANGED ns
  /\ Goto(r, "lookup")
  /\ UNCHANGED <<version, made, written, got, began, source, clock, files, marker,
                 invVars, cleanVars, copy>>

\* What a request is answered with: the version of the bytes, whether they are
\* all there and, from the cache, the invalidations begun when they were written.
Response(bytes, whole, epoch) == [bytes |-> bytes, whole |-> whole, epoch |-> epoch]

Answer(r, response) ==
  /\ got' = [got EXCEPT ![r] = response]
  /\ made' = [made EXCEPT ![r] = None]
  /\ written' = [written EXCEPT ![r] = None]
  /\ Goto(r, "answered")

\* The client sends the ETag of its copy in If-None-Match.
NotModified(r) ==
  /\ pc[r] = "lookup"
  /\ copy # None
  /\ copy.etag = Key(r)
  /\ Answer(r, Response(copy.bytes, copy.whole, None))
  /\ UNCHANGED <<version, ns, began, source, clock, files, marker,
                 invVars, cleanVars, copy>>

\* Mutant: a hit of any age.
HitAnyAge(r) ==
  LET f == files[Key(r)] IN
  /\ pc[r] = "lookup"
  /\ f # None
  /\ Answer(r, Response(f.bytes, f.whole, f.epoch))
  /\ UNCHANGED <<version, ns, began, source, clock, files, marker,
                 invVars, cleanVars, copy>>

\* FileStore.Get opens the file and looks at the age of what it opened.
Hit(r) ==
  LET f == files[Key(r)] IN
  /\ pc[r] = "lookup"
  /\ Live(f)
  /\ Answer(r, Response(f.bytes, f.whole, f.epoch))
  /\ UNCHANGED <<version, ns, began, source, clock, files, marker,
                 invVars, cleanVars, copy>>

\* A derivative that cannot be read is logged, and made again.
Miss(r) ==
  /\ pc[r] = "lookup"
  /\ "open" \in ReadErrors \/ ~Live(files[Key(r)])
  /\ Goto(r, "transform")
  /\ UNCHANGED <<version, ns, made, written, got, began, source, clock, files, marker,
                 invVars, cleanVars, copy>>

\* Pipeline.Transform opens the source anew.
Transform(r) ==
  /\ pc[r] = "transform"
  /\ IF version[r] = None
       THEN Answer(r, Response(source, TRUE, None))
       ELSE /\ made' = [made EXCEPT ![r] = source]
            /\ Goto(r, "write")
            /\ UNCHANGED <<written, got>>
  /\ UNCHANGED <<version, ns, began, source, clock, files, marker,
                 invVars, cleanVars, copy>>

\* FileStore.Put: CreateTemp and the first bytes, the other bytes, and the rename.  The
\* modification time is that of the last bytes; until then it is of no use.
Partial == [whole |-> FALSE, mtime |-> 0, epoch |-> 0]

WriteTemp(r) ==
  /\ pc[r] = "write"
  /\ written' = [written EXCEPT ![r] = Partial]
  /\ Goto(r, "copy")
  /\ UNCHANGED <<version, ns, made, got, began, source, clock, files, marker,
                 invVars, cleanVars, copy>>

\* Mutant: the error of io.Copy is dropped.
CopyIgnoresError(r) ==
  /\ pc[r] = "copy"
  /\ \E all \in BOOLEAN :
       written' = [written EXCEPT ![r] = [whole |-> all, mtime |-> clock, epoch |-> begun]]
  /\ Goto(r, "rename")
  /\ UNCHANGED <<version, ns, made, got, began, source, clock, files, marker,
                 invVars, cleanVars, copy>>

CopyRest(r) ==
  /\ pc[r] = "copy"
  /\ written' = [written EXCEPT ![r] = [whole |-> TRUE, mtime |-> clock, epoch |-> begun]]
  /\ Goto(r, "rename")
  /\ UNCHANGED <<version, ns, made, got, began, source, clock, files, marker,
                 invVars, cleanVars, copy>>

Rename(r) ==
  /\ pc[r] = "rename"
  /\ files' = [files EXCEPT ![Key(r)] =
       [bytes |-> made[r], whole |-> written[r].whole,
        mtime |-> written[r].mtime, epoch |-> written[r].epoch]]
  /\ Answer(r, Response(made[r], TRUE, None))
  /\ UNCHANGED <<version, ns, began, source, clock, marker,
                 invVars, cleanVars, copy>>

\* Mutant: a failed Put leaves its temporary file.
PutFailsKeepsTemp(r) ==
  /\ pc[r] \in {"write", "copy", "rename"}
  /\ got' = [got EXCEPT ![r] = Response(made[r], TRUE, None)]
  /\ Goto(r, "answered")
  /\ UNCHANGED <<version, ns, made, written, began, source, clock, files, marker,
                 invVars, cleanVars, copy>>

\* Whatever call of Put fails, the temporary file is removed; the failure is logged, and
\* the derivative served all the same, from the temporary file of serveImage.
PutFails(r) ==
  /\ pc[r] \in {"write", "copy", "rename"}
  /\ Answer(r, Response(made[r], TRUE, None))
  /\ UNCHANGED <<version, ns, began, source, clock, files, marker,
                 invVars, cleanVars, copy>>

Forget(r) ==
  /\ version' = [version EXCEPT ![r] = None]
  /\ ns' = [ns EXCEPT ![r] = None]
  /\ made' = [made EXCEPT ![r] = None]
  /\ written' = [written EXCEPT ![r] = None]
  /\ got' = [got EXCEPT ![r] = None]
  /\ began' = [began EXCEPT ![r] = None]
  /\ Goto(r, "idle")

\* The source cannot be transformed: the request is answered with an error.
Fail(r) ==
  /\ pc[r] = "transform"
  /\ Forget(r)
  /\ UNCHANGED <<source, clock, files, marker, invVars, cleanVars, copy>>

\* The response is out, and the client may keep it with its ETag.
Done(r) ==
  /\ pc[r] = "answered"
  /\ \/ copy' = copy
     \/ ClientsKeep /\ version[r] # None /\
          copy' = [etag |-> Key(r), bytes |-> got[r].bytes, whole |-> got[r].whole]
  /\ Forget(r)
  /\ UNCHANGED <<source, clock, files, marker, invVars, cleanVars>>

---------------------------------------------------------------------------
\* maybeServeCacheInvalidation: one request at a time.

InvalidateBegin ==
  /\ ipc = "idle"
  /\ begun < MaxInvalidations
  /\ begun' = begun + 1
  /\ iversion' = begun + 1
  /\ iwritten' = clock
  /\ ipc' = "rename"
  /\ UNCHANGED <<acked, source, clock, reqVars, files, marker, cleanVars, copy>>

InvalidateInstall ==
  /\ ipc = "rename"
  /\ marker' = [bytes |-> iversion, whole |-> TRUE, mtime |-> iwritten]
  /\ acked' = iversion
  /\ ipc' = "idle" /\ iversion' = None /\ iwritten' = None
  /\ UNCHANGED <<begun, source, clock, reqVars, files, cleanVars, copy>>

\* Put fails, and the route answers 500.
InvalidateFails ==
  /\ ipc = "rename"
  /\ ipc' = "idle" /\ iversion' = None /\ iwritten' = None
  /\ UNCHANGED <<begun, acked, source, clock, reqVars, files, marker, cleanVars, copy>>

---------------------------------------------------------------------------
\* FileStore.Cleanup in triplet-cache-cleanup: the walk looks at a file and then
\* removes whatever has its name.

CleanupBegin ==
  /\ CleanupRuns
  /\ cpc = "idle"
  /\ cnow' = clock
  /\ cpc' = "walk"
  /\ UNCHANGED <<victim, source, clock, reqVars, files, marker, invVars, copy>>

CleanupStat ==
  /\ cpc = "walk"
  /\ \/ \E k \in Keys : /\ files[k] # None
                        /\ Expired(files[k].mtime, cnow)
                        /\ victim' = k
     \/ /\ marker # None
        /\ Expired(marker.mtime, cnow)
        /\ victim' = Marker
  /\ cpc' = "remove"
  /\ UNCHANGED <<cnow, source, clock, reqVars, files, marker, invVars, copy>>

\* The directory without a name.
Remove(name) ==
  IF name = Marker
    THEN marker' = None /\ UNCHANGED files
    ELSE files' = [files EXCEPT ![name] = None] /\ UNCHANGED marker

CleanupRemove ==
  /\ cpc = "remove"
  /\ Remove(victim)
  /\ victim' = None
  /\ cpc' = "walk"
  /\ UNCHANGED <<cnow, source, clock, reqVars, invVars, copy>>

CleanupEnd ==
  /\ cpc = "walk"
  /\ cpc' = "idle"
  /\ cnow' = 0
  /\ UNCHANGED <<victim, source, clock, reqVars, files, marker, invVars, copy>>

---------------------------------------------------------------------------
SourceChanges ==
  /\ source < MaxVersion
  /\ source' = source + 1
  /\ UNCHANGED <<clock, reqVars, files, marker, invVars, cleanVars, copy>>

Tick ==
  /\ clock < MaxTime
  /\ clock' = clock + 1
  /\ UNCHANGED <<source, reqVars, files, marker, invVars, cleanVars, copy>>

\* What the server process knows is gone when it stops, and it is started again.
ServerStops ==
  /\ pc' = [r \in Requests |-> "idle"]
  /\ version' = [r \in Requests |-> None]
  /\ ns' = [r \in Requests |-> None]
  /\ made' = [r \in Requests |-> None]
  /\ written' = [r \in Requests |-> None]
  /\ got' = [r \in Requests |-> None]
  /\ began' = [r \in Requests |-> None]
  /\ ipc' = "idle" /\ iversion' = None /\ iwritten' = None

\* The server process dies; the directory and the cleanup process survive.
Crash ==
  /\ ServerStops
  /\ UNCHANGED <<source, clock, files, marker, begun, acked, cleanVars, copy>>

\* The bytes of a file are not on the disk, though its name is.
LoseBytes ==
  /\ "bytes" \in PowerLoss
  /\ \/ \E k \in Keys : /\ files[k] # None
                        /\ files' = [files EXCEPT ![k].whole = FALSE]
                        /\ UNCHANGED marker
     \/ /\ marker # None
        /\ marker' = [marker EXCEPT !.whole = FALSE]
        /\ UNCHANGED files

\* The rename is not on the disk.  A file that it replaced, and that may be back, was
\* one of the same key, to which all that is said of the lost file applies.
LoseName ==
  /\ "name" \in PowerLoss
  /\ \E name \in Keys \cup {Marker} : Remove(name)

\* The machine stops, and one file comes back other than it was; several files do when
\* the power fails again.
PowerFails ==
  /\ LoseBytes \/ LoseName
  /\ ServerStops
  /\ cpc' = "idle" /\ cnow' = 0 /\ victim' = None
  /\ UNCHANGED <<source, clock, begun, acked, copy>>

Serve(r) ==
  \/ ReadMeta(r) \/ ReadMarker(r)
  \/ NotModified(r) \/ Hit(r) \/ Miss(r)
  \/ Transform(r) \/ WriteTemp(r) \/ CopyRest(r) \/ Rename(r) \/ PutFails(r)
  \/ Fail(r) \/ Done(r)

Next ==
  \/ \E r \in Requests : Serve(r)
  \/ InvalidateBegin \/ InvalidateInstall \/ InvalidateFails
  \/ CleanupBegin \/ CleanupStat \/ CleanupRemove \/ CleanupEnd
  \/ SourceChanges \/ Tick \/ Crash \/ PowerFails

Spec == Init /\ [][Next]_vars

---------------------------------------------------------------------------
Times == 0..MaxTime
Epochs == 0..MaxInvalidations
Files == [bytes : Versions, whole : BOOLEAN, mtime : Times, epoch : Epochs]
Responses == [bytes : Versions, whole : BOOLEAN, epoch : Epochs \cup {None}]
Temps == [whole : BOOLEAN, mtime : Times, epoch : Epochs]
Markers == [bytes : 1..MaxInvalidations, whole : BOOLEAN, mtime : Times]
Copies == [etag : Keys, bytes : Versions, whole : BOOLEAN]

ASSUME NoneIsNothing ==
  /\ None \notin Versions \cup Epochs \cup Files \cup Responses \cup Temps \cup Markers \cup Copies
  /\ None \notin {Zeros} \cup [of : {"contents", "mtime"}, marker : 1..MaxInvalidations]
  /\ Marker \notin Keys \cup {None}

\* Every variable has its type, and a request holds derivative, temporary file and
\* answer exactly at the steps that use them.
TypeOK ==
  /\ source \in Versions
  /\ clock \in Times
  /\ pc \in [Requests -> {"idle", "marker", "lookup", "transform", "write",
                          "copy", "rename", "answered"}]
  /\ version \in [Requests -> Versions \cup {None}]
  /\ ns \in [Requests -> Namespaces]
  /\ made \in [Requests -> Versions \cup {None}]
  /\ written \in [Requests -> Temps \cup {None}]
  /\ got \in [Requests -> Responses \cup {None}]
  /\ began \in [Requests -> [source : Versions, acked : Epochs] \cup {None}]
  /\ files \in [Keys -> Files \cup {None}]
  /\ marker \in Markers \cup {None}
  /\ ipc \in {"idle", "rename"}
  /\ iversion \in 1..MaxInvalidations \cup {None}
  /\ iwritten \in Times \cup {None}
  /\ \A r \in Requests : made[r] # None <=> pc[r] \in {"write", "copy", "rename"}
  /\ \A r \in Requests : written[r] # None <=> pc[r] \in {"copy", "rename"}
  /\ \A r \in Requests : got[r] # None <=> pc[r] = "answered"
  /\ cpc \in {"idle", "walk", "remove"}
  /\ cnow \in Times
  /\ victim \in Keys \cup {Marker, None}
  /\ copy \in Copies \cup {None}
  /\ begun \in Epochs /\ acked \in Epochs

\* Whatever a request is answered with, from the source, the cache or the client's
\* own copy, is no older than the source was when the request began.
ServedIsCurrent ==
  \A r \in Requests : pc[r] = "answered" => got[r].bytes >= began[r].source

\* A derivative is never served in part, by the cache or by confirming a copy of it,
\* whichever call of Put fails and whenever the server dies: true while the disk keeps
\* the bytes of a file when it keeps its name, for Put syncs neither.
ServedIsWhole ==
  \A r \in Requests : pc[r] = "answered" => got[r].whole

\* A request that begins after an invalidation was acknowledged never gets a
\* derivative that was written to the cache before that invalidation began.
InvalidatedIsIgnored ==
  \A r \in Requests :
    pc[r] = "answered" /\ got[r].epoch # None => got[r].epoch >= began[r].acked
===========================================================================
