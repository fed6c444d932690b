---------------------------- MODULE LocalSource ----------------------------
(***************************************************************************)
(* Where the bytes and the metadata of one source come from: the           *)
(* multiplexer, the file opener, and LocalURLFallback, which tries the     *)
(* files of its mappings one after the other and then the upstream         *)
(* (internal/storage: multiplex.go, file.go, local_url.go).                *)
(*                                                                         *)
(* A step is one call to the file system or to the upstream.  Files come,  *)
(* go and are replaced between the steps.  What authorize decides is the   *)
(* subject of LocalAuth, and how misses of one key share a download that   *)
(* of AuthFallbackOpen; here each is one step with their outcomes.         *)
(***************************************************************************)
EXTENDS Naturals, SequencesExt

CONSTANTS
  Requests,        \* calls of Open and Meta
  Sessions,        \* the credentials they are made with
  Permitted,       \* the sessions the upstream allows to read the source
  Identifiers,     \* names of the source: an origin, or None, and a path
  Mappings,        \* LocalURLFallback.Mappings: prefix, ocfl and probe of each
  AllowedOrigins,  \* origins that a prefix without one stands for
  Default,         \* the opener for names without an origin: "file" or "http"
  None,            \* no origin, no request, no answer
  MaxVersion       \* bound on the versions of a file and of the upstream

ASSUME PermittedType == Permitted \subseteq Sessions
ASSUME DefaultType == Default \in {"file", "http"}
ASSUME MaxVersionType == MaxVersion \in Nat \ {0}
ASSUME MappingsType == Len(Mappings) \in Nat

\* A root is that of a mapping, or 0 for that of the file opener.
Roots == 0..Len(Mappings)

VARIABLES
  identifier,  \* the name by which the source is asked for
  disk,        \* the file it leads to under each root: is it there, which version
  upstream,    \* the version of the upstream
  \* the calls: their step, what they ask and with which credentials, the root they
  \* are at, the version the last stat saw, and the answer
  pc, kind, session, at, seen, reply,
  leader,      \* authFallbackMetaInflight: the call that asks the upstream for a key
  since        \* history: the versions when the call, or the one it joined, began

callVars == <<pc, kind, session, at, seen, reply, since>>
vars == <<identifier, disk, upstream, callVars, leader>>

Versions == 1..MaxVersion
Now == [disk |-> disk, upstream |-> upstream]

\* authFallbackKey("meta", ...)
\* Mutant: the key has no credentials.
KeyWithoutSession(r) == [root |-> at[r], session |-> CHOOSE s \in Sessions : TRUE]
Key(r) == [root |-> at[r], session |-> session[r]]
Keys == [root : Roots, session : Sessions]

\* The rest of the name behind the prefix of a mapping; empty if it does not match.
stripLocalPathPrefix(path, prefix) ==
  IF IsPrefix(prefix, path) THEN SubSeq(path, Len(prefix) + 1, Len(path)) ELSE <<>>

OriginMatches(origin, prefix) ==
  origin = prefix \/ (prefix = None /\ origin \in AllowedOrigins)

stripLocalURLPrefix(id, prefix) ==
  IF OriginMatches(id.origin, prefix.origin)
    THEN stripLocalPathPrefix(id.path, prefix.path)
    ELSE <<>>

Matching == {i \in 1..Len(Mappings) : stripLocalURLPrefix(identifier, Mappings[i].prefix) # <<>>}

\* Multiplex.route: names with an origin are URLs.
route == IF identifier.origin # None THEN "http" ELSE Default

\* The roots under which the source may lie; no other file is of interest.
Reachable == IF route = "file" THEN {0} ELSE Matching

Init ==
  /\ identifier \in Identifiers
  /\ disk \in [Roots -> [there : BOOLEAN, version : {1}]]
  /\ \A i \in Roots \ Reachable : ~disk[i].there
  /\ upstream = 1
  /\ pc = [r \in Requests |-> "idle"]
  /\ kind = [r \in Requests |-> None]
  /\ session = [r \in Requests |-> None]
  /\ at = [r \in Requests |-> 0]
  /\ seen = [r \in Requests |-> None]
  /\ reply = [r \in Requests |-> None]
  /\ leader = [k \in Keys |-> None]
  /\ since = [r \in Requests |-> None]

---------------------------------------------------------------------------
\* The next mapping that matches, or the step that follows the last one.
Continue(r, i) ==
  LET later == {j \in Matching : j > i} IN
  \/ later = {} /\ pc' = [pc EXCEPT ![r] = "fallback"] /\ UNCHANGED at
  \/ \E j \in later :
       /\ \A k \in later : j <= k
       /\ at' = [at EXCEPT ![r] = j]
       /\ pc' = [pc EXCEPT ![r] = "resolve"]

Goto(r, step) == pc' = [pc EXCEPT ![r] = step]
OnDisk(r) == disk[at[r]]
Probes(r) == at[r] # 0 /\ Mappings[at[r]].probe
Ocfl(r) == at[r] # 0 /\ Mappings[at[r]].ocfl

\* The version reported and that of the bytes; without bytes they are the same.
Answer(from, meta, bytes, by) ==
  [from |-> from, meta |-> meta, bytes |-> bytes, by |-> by]
Failed == Answer("error", None, None, None)

Reply(r, answer) ==
  /\ reply' = [reply EXCEPT ![r] = answer]
  /\ Goto(r, "replied")

Begin(r) ==
  /\ pc[r] = "idle"
  /\ \E k \in {"meta", "open"}, s \in Sessions :
       /\ kind' = [kind EXCEPT ![r] = k]
       /\ session' = [session EXCEPT ![r] = s]
  /\ IF route = "file" THEN Goto(r, "resolve") /\ UNCHANGED at ELSE Continue(r, 0)
  /\ since' = [since EXCEPT ![r] = Now]
  /\ UNCHANGED <<identifier, disk, upstream, seen, reply, leader>>

---------------------------------------------------------------------------
\* FileOpener.meta and ocflMeta.  The symbolic links of the path are resolved, or
\* the inventory is read, which names the file of its version.

Resolve(r) ==
  /\ pc[r] = "resolve"
  /\ OnDisk(r).there
  /\ seen' = [seen EXCEPT ![r] = OnDisk(r).version]
  /\ Goto(r, "stat")
  /\ UNCHANGED <<identifier, disk, upstream, kind, session, at, reply, leader, since>>

\* ErrNotFound: a probing mapping asks the upstream with the credentials of the
\* request (openAuthFallback), any other leaves the request to the next mapping.
NotFound(r) ==
  IF at[r] = 0 THEN Reply(r, Failed) /\ UNCHANGED at
  ELSE IF Probes(r) THEN Goto(r, "authfallback") /\ UNCHANGED <<at, reply>>
  ELSE Continue(r, at[r]) /\ UNCHANGED reply

\* The file is not there; the one of an older OCFL version may have been removed.
Gone(r) == ~OnDisk(r).there \/ (Ocfl(r) /\ OnDisk(r).version # seen[r])

Missing(r) ==
  /\ \/ pc[r] = "resolve" /\ ~OnDisk(r).there
     \/ pc[r] = "stat" /\ Ocfl(r) /\ Gone(r)
  /\ NotFound(r)
  /\ UNCHANGED <<identifier, disk, upstream, kind, session, seen, leader, since>>

\* The version of a file is its path, size and time: a replaced file has a new one,
\* the file of a version of an OCFL object does not change.
Stat(r) ==
  /\ pc[r] = "stat"
  /\ OnDisk(r).there
  /\ seen' = [seen EXCEPT ![r] = IF Ocfl(r) THEN @ ELSE OnDisk(r).version]
  /\ Goto(r, IF at[r] = 0 THEN "found" ELSE "authorize")
  /\ UNCHANGED <<identifier, disk, upstream, kind, session, at, reply, leader, since>>

Authorize(r) ==
  /\ pc[r] = "authorize"
  /\ Probes(r) => session[r] \in Permitted
  /\ Goto(r, "found")
  /\ UNCHANGED <<identifier, disk, upstream, kind, session, at, seen, reply, leader, since>>

Local(r, meta, bytes) ==
  Reply(r, Answer(IF Probes(r) THEN "private" ELSE "public", meta, bytes, session[r]))

ReplyMeta(r) ==
  /\ pc[r] = "found"
  /\ kind[r] = "meta"
  /\ Local(r, seen[r], seen[r])
  /\ UNCHANGED <<identifier, disk, upstream, kind, session, at, seen, leader, since>>

\* FileOpener.Open resolves and stats the file once more, now on behalf of Open; the
\* file opener of the multiplexer has just done so.
Reopen(r) ==
  /\ pc[r] = "found"
  /\ kind[r] = "open"
  /\ Goto(r, IF Ocfl(r) \/ at[r] = 0 THEN "open" ELSE "reresolve")
  /\ UNCHANGED <<identifier, disk, upstream, kind, session, at, seen, reply, leader, since>>

Reresolve(r) ==
  /\ pc[r] = "reresolve"
  /\ OnDisk(r).there
  /\ Goto(r, "restat")
  /\ UNCHANGED <<identifier, disk, upstream, kind, session, at, seen, reply, leader, since>>

Restat(r) ==
  /\ pc[r] = "restat"
  /\ OnDisk(r).there
  /\ seen' = [seen EXCEPT ![r] = OnDisk(r).version]
  /\ Goto(r, "open")
  /\ UNCHANGED <<identifier, disk, upstream, kind, session, at, reply, leader, since>>

\* Mutant: the file is opened before the stat that describes it.
OpenBeforeStat(r) ==
  /\ pc[r] = "open"
  /\ OnDisk(r).there
  /\ IF Ocfl(r) THEN Local(r, seen[r], seen[r]) ELSE Local(r, OnDisk(r).version, seen[r])
  /\ UNCHANGED <<identifier, disk, upstream, kind, session, at, seen, leader, since>>

Open(r) ==
  /\ pc[r] = "open"
  /\ OnDisk(r).there
  /\ IF Ocfl(r) THEN Local(r, seen[r], seen[r]) ELSE Local(r, seen[r], OnDisk(r).version)
  /\ UNCHANGED <<identifier, disk, upstream, kind, session, at, seen, leader, since>>

\* The file has disappeared since it was authorized: the next mapping, whatever this
\* one is.
Disappeared(r) ==
  /\ pc[r] \in {"reresolve", "open"}
  /\ Gone(r)
  /\ IF at[r] = 0 THEN Reply(r, Failed) /\ UNCHANGED at ELSE Continue(r, at[r]) /\ UNCHANGED reply
  /\ UNCHANGED <<identifier, disk, upstream, kind, session, seen, leader, since>>

---------------------------------------------------------------------------
\* The upstream with the credentials of the request (openAuthFallback).  Concurrent
\* calls of Meta with one key share a HEAD request (coalescedAuthFallbackMeta).

\* A download that began at an earlier version of the upstream may be shared.
FetchOpen(r) ==
  /\ pc[r] = "authfallback"
  /\ kind[r] = "open"
  /\ session[r] \in Permitted
  /\ \E v \in 1..upstream :
       /\ Reply(r, Answer("auth", v, v, session[r]))
       /\ since' = [since EXCEPT ![r].upstream = IF v < @ THEN v ELSE @]
  /\ UNCHANGED <<identifier, disk, upstream, kind, session, at, seen, leader>>

LeadMeta(r) ==
  /\ pc[r] = "authfallback"
  /\ kind[r] = "meta"
  /\ leader[Key(r)] = None
  /\ leader' = [leader EXCEPT ![Key(r)] = r]
  /\ Goto(r, "head")
  /\ UNCHANGED <<identifier, disk, upstream, kind, session, at, seen, reply, since>>

\* What is true of a shared answer is true since the call began that it is shared with.
JoinMeta(r) ==
  /\ pc[r] = "authfallback"
  /\ kind[r] = "meta"
  /\ leader[Key(r)] # None
  /\ since' = [since EXCEPT ![r].upstream = since[leader[Key(r)]].upstream]
  /\ Goto(r, "waiting")
  /\ UNCHANGED <<identifier, disk, upstream, kind, session, at, seen, reply, leader>>

\* The leader goes on if its client leaves; the upstream may fail or deny.
AskMeta(r) ==
  /\ pc[r] = "head"
  /\ \E v \in {None} \cup (IF session[r] \in Permitted THEN {upstream} ELSE {}) :
       seen' = [seen EXCEPT ![r] = v]
  /\ Goto(r, "publish")
  /\ UNCHANGED <<identifier, disk, upstream, kind, session, at, reply, leader, since>>

Sharing(r) == {q \in Requests : q = r \/ (pc[q] = "waiting" /\ Key(q) = Key(r))}

Shared(r) ==
  IF seen[r] = None THEN Failed ELSE Answer("auth", seen[r], seen[r], session[r])

\* Mutant: the call stays in the map.
PublishKeepsCall(r) ==
  /\ pc[r] = "publish"
  /\ reply' = [q \in Requests |-> IF q \in Sharing(r) THEN Shared(r) ELSE reply[q]]
  /\ pc' = [q \in Requests |-> IF q \in Sharing(r) THEN "replied" ELSE pc[q]]
  /\ UNCHANGED <<identifier, disk, upstream, kind, session, at, seen, leader, since>>

\* finishAuthFallbackMeta wakes the waiters.
Publish(r) ==
  /\ pc[r] = "publish"
  /\ leader' = [leader EXCEPT ![Key(r)] = None]
  /\ reply' = [q \in Requests |-> IF q \in Sharing(r) THEN Shared(r) ELSE reply[q]]
  /\ pc' = [q \in Requests |-> IF q \in Sharing(r) THEN "replied" ELSE pc[q]]
  /\ UNCHANGED <<identifier, disk, upstream, kind, session, at, seen, since>>

\* LocalURLFallback.Fallback, which may serve a cached copy of the upstream.
Fallback(r) ==
  /\ pc[r] = "fallback"
  /\ \E v \in 1..upstream : Reply(r, Answer("shared", v, v, session[r]))
  /\ UNCHANGED <<identifier, disk, upstream, kind, session, at, seen, leader, since>>

---------------------------------------------------------------------------
\* Every other outcome is an error that no mapping follows: a file that is gone
\* between two calls of FileOpener.meta, a denial, an upstream that is not there.
Fail(r) ==
  /\ \/ pc[r] \in {"resolve", "stat", "reresolve", "restat", "open", "authfallback", "waiting", "fallback"}
     \/ pc[r] = "authorize" /\ Probes(r)
  /\ Reply(r, Failed)
  /\ UNCHANGED <<identifier, disk, upstream, kind, session, at, seen, leader, since>>

Return(r) ==
  /\ pc[r] = "replied"
  /\ kind' = [kind EXCEPT ![r] = None]
  /\ session' = [session EXCEPT ![r] = None]
  /\ at' = [at EXCEPT ![r] = 0]
  /\ seen' = [seen EXCEPT ![r] = None]
  /\ reply' = [reply EXCEPT ![r] = None]
  /\ since' = [since EXCEPT ![r] = None]
  /\ Goto(r, "idle")
  /\ UNCHANGED <<identifier, disk, upstream, leader>>

Write(i) ==
  /\ disk[i].version < MaxVersion
  /\ disk' = [disk EXCEPT ![i] = [there |-> TRUE, version |-> @.version + 1]]
  /\ UNCHANGED <<identifier, upstream, callVars, leader>>

Unlink(i) ==
  /\ disk[i].there
  /\ disk' = [disk EXCEPT ![i].there = FALSE]
  /\ UNCHANGED <<identifier, upstream, callVars, leader>>

UpstreamChanges ==
  /\ upstream < MaxVersion
  /\ upstream' = upstream + 1
  /\ UNCHANGED <<identifier, disk, callVars, leader>>

Step(r) ==
  \/ Begin(r) \/ Resolve(r) \/ Missing(r) \/ Stat(r) \/ Authorize(r)
  \/ ReplyMeta(r) \/ Reopen(r) \/ Reresolve(r) \/ Restat(r) \/ Open(r) \/ Disappeared(r)
  \/ FetchOpen(r) \/ LeadMeta(r) \/ JoinMeta(r) \/ AskMeta(r) \/ Publish(r)
  \/ Fallback(r) \/ Fail(r) \/ Return(r)

Next ==
  \/ \E r \in Requests : Step(r)
  \/ \E i \in Reachable : Write(i) \/ Unlink(i)
  \/ UpstreamChanges

Spec == Init /\ [][Next]_vars

---------------------------------------------------------------------------
Answers ==
  [from : {"private", "public", "auth", "shared"}, meta : Versions, bytes : Versions,
   by : Sessions] \cup {Failed}

ASSUME NoneIsNothing == None \notin Requests \cup Sessions \cup Versions \cup Answers

\* Every variable has its type, and the calls that lead a shared request are those
\* that are asking the upstream for its key.
TypeOK ==
  /\ identifier \in Identifiers
  /\ disk \in [Roots -> [there : BOOLEAN, version : Versions]]
  /\ upstream \in Versions
  /\ pc \in [Requests -> {"idle", "resolve", "stat", "authorize", "found", "reresolve",
                          "restat", "open", "authfallback", "head", "waiting", "publish",
                          "fallback", "replied"}]
  /\ kind \in [Requests -> {"meta", "open", None}]
  /\ session \in [Requests -> Sessions \cup {None}]
  /\ at \in [Requests -> Roots]
  /\ seen \in [Requests -> Versions \cup {None}]
  /\ reply \in [Requests -> Answers \cup {None}]
  /\ leader \in [Keys -> Requests \cup {None}]
  /\ \A r \in Requests : reply[r] # None <=> pc[r] = "replied"
  /\ \A k \in Keys, r \in Requests :
       leader[k] = r <=> pc[r] \in {"head", "publish"} /\ Key(r) = k
  /\ \A r \in Requests : pc[r] = "waiting" => leader[Key(r)] # None

\* No call gets past a probing mapping, to its file, the upstream behind it, a later
\* mapping or the shared source cache, unless the upstream allows its session; and no
\* session is told what the upstream said to the credentials of another.
ServedIsPermitted ==
  \A r \in Requests : pc[r] = "replied" /\ reply[r] # Failed =>
    /\ reply[r].by = session[r]
    /\ \A i \in Matching : Mappings[i].probe /\ (i <= at[r] \/ reply[r].from = "shared") =>
         session[r] \in Permitted

\* No file is older than the version reported with it, and no version reported is
\* older than the file, or the upstream, was when the call began: a derivative or
\* dimensions filed under that version are never those of an older one.
AnswersAreCurrent ==
  \A r \in Requests :
    LET from == reply[r].from
        began == IF from = "auth" THEN since[r].upstream ELSE since[r].disk[at[r]].version
    IN pc[r] = "replied" /\ from \in {"private", "public", "auth"} =>
         began <= reply[r].meta /\ reply[r].meta <= reply[r].bytes
=============================================================================
