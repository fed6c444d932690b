------------------------ MODULE PresentationRequests ------------------------
(***************************************************************************)
(* The requests for one Presentation resource that reach a store, and the  *)
(* conditions they carry (internal/iiif/presentation/v3: handler.go and    *)
(* store/store.go).  Either store is a module that extends this one.       *)
(***************************************************************************)
EXTENDS Naturals

CONSTANTS
  Clients,   \* the request goroutines, of one or several servers
  Bodies,    \* valid documents whose id is the URL of the resource
  Absent,    \* no document, no body
  Star,      \* the If-Match value that any existing document matches
  None       \* no request, no reply, no process, no transaction

ASSUME AbsentIsNew == Absent \notin Bodies
ASSUME NoneIsNew == None \notin Clients

\* DocumentETag hashes the body; distinct bodies are taken to have distinct hashes.
DocumentETag(body) == <<"sha256", body>>
ETags == {DocumentETag(b) : b \in Bodies}

\* What validStrongIfMatch lets through: a list of strong entity tags, or *.
IfMatchHeaders == {{Star}} \cup (SUBSET ETags \ {{}})

\* putPreconditions: a PUT has If-None-Match: * or an If-Match header, not both.
Gets == [kind : {"get"}, body : {Absent}, ifMatch : {{}}, ifNoneMatch : {FALSE}]
Creates == [kind : {"put"}, body : Bodies, ifMatch : {{}}, ifNoneMatch : {TRUE}]
Replaces == [kind : {"put"}, body : Bodies, ifMatch : IfMatchHeaders, ifNoneMatch : {FALSE}]
Deletes == [kind : {"delete"}, body : {Absent}, ifMatch : IfMatchHeaders, ifNoneMatch : {FALSE}]
Writes == Creates \cup Replaces \cup Deletes
Operations == Gets \cup Writes

IfMatchMatches(header, etag) == Star \in header \/ etag \in header

\* putPreconditionMatches, and the condition of Delete.
Accepts(o, doc) ==
  IF o.ifNoneMatch
    THEN doc = Absent
    ELSE doc # Absent /\ IfMatchMatches(o.ifMatch, DocumentETag(doc))

\* The answers: of a read, of an accepted write, of a refused one, of a failure.
Found(doc) == [status |-> IF doc = Absent THEN 404 ELSE 200, body |-> doc]
Accepted(o) == [status |-> IF o.ifNoneMatch THEN 201 ELSE 204, body |-> Absent]
Refused == [status |-> 412, body |-> Absent]
Failed == [status |-> 500, body |-> Absent]
=============================================================================
