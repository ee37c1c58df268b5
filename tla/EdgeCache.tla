----------------------------- MODULE EdgeCache -----------------------------
(***************************************************************************)
(* The edge cache of cmd/edgekv-edge in front of the gateway: one handler  *)
(* per request, a map from URL to a shared entry object, and purges.  The  *)
(* entries are objects: a handler that renews one renews it for every      *)
(* handler that holds it, also after a purge has taken it off the map.     *)
(* An object that neither the map nor a handler refers to is garbage.      *)
(***************************************************************************)
EXTENDS Integers, FiniteSets

CONSTANTS Edge,         \* the edge caches
          MaxHandlers,  \* bound: requests an edge handles at the same time
          MaxVersion,   \* bound: versions of the key
          AskedVersion, \* the versions asked for with ?v=
          Year,         \* max-age of a versioned URL, beyond every clock value
          MaxClock      \* bound: the clock

(* The URLs of the one key modelled: /v1/kv/k, which the edge only passes  *)
(* on, /v1/cache/k, and /v1/cache/k?v=n.  The key may be spelt as the path *)
(* a purge names, or with percent escapes, as url.PathEscape of the client *)
(* does for a key with a slash or a blank; this is told apart for the one  *)
(* URL whose entries a purge is for.                                       *)
Url == [kind : {"kv"}, v : {0}, spelt : {"path"}]
         \cup [kind : {"latest"}, v : {0}, spelt : {"path", "escaped"}]
         \cup [kind : {"versioned"}, v : AskedVersion, spelt : {"path"}]
CacheUrl == {u \in Url : u.kind # "kv"}

Handler == 1 .. MaxHandlers
NoEntry == 0
Object == 1 .. Cardinality(Edge) * Cardinality(CacheUrl) + MaxHandlers

VARIABLES cache,     \* edge.cache: for each edge and URL the entry, or NoEntry
          entries,   \* the heap: the entry objects
          requests   \* the handlers' local state

edgeVars == <<cache, entries, requests>>

(* content identifies the bytes of the body; version is what ETag says. *)
Entry == [version : 0 .. MaxVersion, content : 0 .. MaxVersion,
          ttl : 0 .. Year, expires : 0 .. MaxClock + Year]

Garbage == [version |-> 0, content |-> 0, ttl |-> 0, expires |-> 0]

(* What the gateway answers: the status, the body and the max-age; "error" *)
(* is a transport error or a timeout.                                      *)
Answer == [status : {"none", "ok", "notModified", "refused", "error"},
           version : 0 .. MaxVersion, content : 0 .. MaxVersion, ttl : 0 .. Year]

NoAnswer == [status |-> "none", version |-> 0, content |-> 0, ttl |-> 0]
Refused == [NoAnswer EXCEPT !.status = "refused"]
FetchError == [NoAnswer EXCEPT !.status = "error"]

RequestState == [at : {"free", "lookup", "compare", "fetch", "answered"},
                 edge : Edge, url : Url,
                 now : 0 .. MaxClock,          \* time.Now() at the start
                 ent : Object \cup {NoEntry},  \* the local variable ent
                 answer : Answer]

NoRequest == [at |-> "free", edge |-> CHOOSE e \in Edge : TRUE,
              url |-> [kind |-> "kv", v |-> 0, spelt |-> "path"], now |-> 0, ent |-> NoEntry, answer |-> NoAnswer]

EdgeType == /\ cache \in [Edge -> [CacheUrl -> Object \cup {NoEntry}]]
            /\ entries \in [Object -> Entry]
            /\ requests \in [Handler -> RequestState]

EdgeStarts == /\ cache = [e \in Edge |-> [u \in CacheUrl |-> NoEntry]]
              /\ entries = [o \in Object |-> Garbage]
              /\ requests = [r \in Handler |-> NoRequest]

(* An object lives while the map or a handler refers to it. *)
Reachable(c, rs) == {c[e][u] : e \in Edge, u \in CacheUrl} \cup {rs[r].ent : r \in Handler}

Unused == Object \ Reachable(cache, requests)

(* The heap after a step that leaves es: what is no longer referred to is  *)
(* collected.                                                              *)
Heap(es) == [o \in Object |-> IF o \in Reachable(cache', requests') THEN es[o] ELSE Garbage]

At(r, at) == requests[r].at = at

(* The handler of r writes its response and returns. *)
Return(r) == requests' = [requests EXCEPT ![r] = NoRequest]

(* handle begins: a request the edge may cache notes the time, any other   *)
(* one is proxied.                                                         *)
Handle(r, e, u, clock) ==
  /\ At(r, "free")
  /\ requests' = [requests EXCEPT ![r].at = IF u.kind = "kv" THEN "fetch" ELSE "lookup",
                                  ![r].edge = e, ![r].url = u, ![r].now = clock]
  /\ UNCHANGED <<cache, entries>>

(* The map is read under the mutex ... *)
Lookup(r) ==
  /\ At(r, "lookup")
  /\ requests' = [requests EXCEPT ![r].at = "compare",
                                  ![r].ent = cache[requests[r].edge][requests[r].url]]
  /\ UNCHANGED <<cache, entries>>

(* ... and the entry's expiry after the mutex is released: a race with the *)
(* handler that renews the entry.  Both times have a monotonic reading and *)
(* Before compares that one word, so it sees the old time or the new one.  *)
IsFresh(r) == LET q == requests[r] IN q.ent # NoEntry /\ q.now < entries[q.ent].expires

(* The body of the entry a handler holds, 0 without one. *)
Body(r) == LET ent == requests[r].ent IN IF ent = NoEntry THEN 0 ELSE entries[ent].content

(* A fresh entry is served ("Hit"). *)
ServeHit(r) ==
  /\ At(r, "compare")
  /\ IsFresh(r)
  /\ Return(r)
  /\ UNCHANGED cache
  /\ entries' = Heap(entries)

GoToOrigin(r) ==
  /\ At(r, "compare")
  /\ ~IsFresh(r)
  /\ requests' = [requests EXCEPT ![r].at = "fetch"]
  /\ UNCHANGED <<cache, entries>>

(* The version the fetch asks about with If-None-Match, 0 for none. *)
Conditional(r) ==
  LET ent == requests[r].ent IN IF ent = NoEntry THEN 0 ELSE entries[ent].version

(* fetch: the origin answers a, or the call fails. *)
Fetch(r, a) ==
  /\ At(r, "fetch")
  /\ requests' = [requests EXCEPT ![r].at = "answered", ![r].answer = a]
  /\ UNCHANGED <<cache, entries>>

(* proxy: the answer, or 502, goes to the client ("Pass"). *)
PassOn(r) ==
  /\ At(r, "answered")
  /\ requests[r].url.kind = "kv"
  /\ Return(r)
  /\ UNCHANGED <<cache, entries>>

Caching(r) == At(r, "answered") /\ requests[r].url.kind # "kv"
Renewable(q) == q.answer.status = "notModified" /\ q.ent # NoEntry
Storable(q) == q.answer.status = "ok" /\ q.answer.ttl > 0

(* The origin cannot be reached: stale-if-error serves the entry whatever  *)
(* its age ("Stale"); without one the answer is 502.                       *)
FetchFailed(r) ==
  /\ Caching(r)
  /\ requests[r].answer.status = "error"
  /\ Return(r)
  /\ UNCHANGED cache
  /\ entries' = Heap(entries)

(* The mutant that renews from the time of the answer. *)
RenewLate(r, clock) ==
  LET q == requests[r] IN
  /\ Caching(r)
  /\ Renewable(q)
  /\ Return(r)
  /\ UNCHANGED cache
  /\ entries' = Heap([entries EXCEPT ![q.ent].expires = clock + q.answer.ttl])

(* 304: the entry object is renewed from the time the request began and    *)
(* served ("RefreshHit").                                                  *)
Renew(r, clock) ==
  LET q == requests[r]
      ttl == IF q.answer.ttl = 0 THEN entries[q.ent].ttl ELSE q.answer.ttl IN
  /\ Caching(r)
  /\ Renewable(q)
  /\ Return(r)
  /\ UNCHANGED cache
  /\ entries' = Heap([entries EXCEPT ![q.ent].expires = q.now + ttl])

(* 200 with a max-age: a new entry object takes the place of what the map  *)
(* holds ("Miss").                                                         *)
Fill(r) ==
  LET q == requests[r] IN
  /\ Caching(r)
  /\ Storable(q)
  /\ Return(r)
  /\ \E new \in Unused :
       /\ \A o \in Unused : new <= o    \* any would do
       /\ cache' = [cache EXCEPT ![q.edge][q.url] = new]
       /\ entries' = Heap([entries EXCEPT ![new] =
            [version |-> q.answer.version, content |-> q.answer.content,
             ttl |-> q.answer.ttl, expires |-> q.now + q.answer.ttl]])

(* Any other answer is passed through ("Miss") and leaves the map alone. *)
PassUncached(r) ==
  LET q == requests[r] IN
  /\ Caching(r)
  /\ q.answer.status # "error" /\ ~Renewable(q) /\ ~Storable(q)
  /\ Return(r)
  /\ UNCHANGED cache
  /\ entries' = Heap(entries)

(* What a handler that is about to return sends: X-Cache and the body. *)
Response(r) ==
  LET q == requests[r]
      Send(how, body) == [how |-> how, body |-> body] IN
  CASE At(r, "compare") /\ IsFresh(r) -> Send("Hit", Body(r))
    [] At(r, "answered") /\ ~Caching(r) -> Send("Pass", q.answer.content)
    [] Caching(r) /\ q.answer.status = "error" -> Send("Stale", Body(r))
    [] Caching(r) /\ Renewable(q) -> Send("RefreshHit", Body(r))
    [] Caching(r) /\ q.answer.status # "error" /\ ~Renewable(q) -> Send("Miss", q.answer.content)
    [] OTHER -> Send("none", 0)

(* handleInvalidate's apply for the key's path: every query variant of it  *)
(* goes.  The map's keys are the request URIs as they came, the path is    *)
(* made from the decoded key, so another spelling of it does not match.    *)
Purge(e) ==
  /\ cache' = [cache EXCEPT ![e] =
       [u \in CacheUrl |-> IF u.spelt = "path" THEN NoEntry ELSE cache[e][u]]]
  /\ UNCHANGED requests
  /\ entries' = Heap(entries)

(* POST /_edge/flush: a new map. *)
Flush(e) ==
  /\ cache' = [cache EXCEPT ![e] = [u \in CacheUrl |-> NoEntry]]
  /\ UNCHANGED requests
  /\ entries' = Heap(entries)

=============================================================================
