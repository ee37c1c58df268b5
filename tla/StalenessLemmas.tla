-------------------------- MODULE StalenessLemmas ---------------------------
(***************************************************************************)
(* The inductive invariant behind the TTL bound of module CachedReads, for *)
(* every number of edges, handlers, versions and clock values, and the     *)
(* steps that do not belong to a read: time, commits, purges.              *)
(*                                                                         *)
(* The bound rests on what an entry and an answer carry: an entry of the   *)
(* plain URL expires at most its TTL after it was fetched and at most its  *)
(* TTL after its content stopped being current, because a handler counts   *)
(* from the time it began, when the content it was later given was still   *)
(* to be replaced.                                                         *)
(***************************************************************************)
EXTENDS CachedReads, TLAPS

(* Types, without the bounds that the argument does not need. *)
SomeAnswer == [status : {"none", "ok", "notModified", "refused", "error"},
               version : Nat, content : Nat, ttl : Nat]
SomeEntry == [version : Nat, content : Nat, ttl : Nat, expires : Nat]
SomeRequest == [at : {"free", "lookup", "compare", "fetch", "answered"}, edge : Edge, url : Url,
                now : Nat, ent : Object \cup {NoEntry}, answer : SomeAnswer]

EdgeShape == /\ cache \in [Edge -> [CacheUrl -> Object \cup {NoEntry}]]
             /\ entries \in [Object -> SomeEntry]
             /\ requests \in [Handler -> SomeRequest]

(* The record, and what the past says of its contents. *)
OriginInv ==
  /\ scope \in Scopes
  /\ clock \in 0 .. MaxClock
  /\ record.content \in 0 .. MaxVersion /\ record.version = record.content
  /\ record.ttl \in Nat /\ record.live \in BOOLEAN /\ record.cacheable \in BOOLEAN
  /\ record.live => record.content > 0
  /\ record.cacheable => record.ttl > 0
  /\ past.until \in [Version -> Nat] /\ past.ttlOf \in [Version -> Nat]
  /\ record.content > 0 => past.ttlOf[record.content] = record.ttl
  /\ \A n \in Version : n >= record.content => past.until[n] = Always

Known(c) == c \in 1 .. record.content

(* Object o is an entry of a URL of this kind, in a map or in a handler. *)
Held(kind, o) ==
  \/ \E e \in Edge, u \in CacheUrl : u.kind = kind /\ cache[e][u] = o
  \/ \E r \in Handler : requests[r].url.kind = kind /\ requests[r].ent = o

EntryInv(o) ==
  LET x == entries[o] IN
  /\ ~(Held("latest", o) /\ Held("versioned", o))
  /\ Held("latest", o) =>
       /\ Known(x.content) /\ x.version = x.content
       /\ x.ttl = past.ttlOf[x.content] /\ x.ttl > 0
       /\ x.expires <= past.until[x.content] + x.ttl
       /\ x.expires <= clock + x.ttl

RequestInv(r) ==
  LET q == requests[r] IN
  /\ q.now <= clock
  /\ q.url.kind = "kv" => q.ent = NoEntry
  /\ q.at \in {"free", "lookup"} => q.ent = NoEntry
  /\ q.at \in {"lookup", "compare"} => q.url.kind # "kv"
  /\ q.at # "answered" => q.answer = NoAnswer
  /\ q.answer.status # "ok" => q.answer.content = 0
  /\ q.url.kind # "versioned" /\ q.answer.status = "ok" =>
       /\ Known(q.answer.content) /\ q.answer.version = q.answer.content
       /\ q.now <= past.until[q.answer.content]
       /\ q.url.kind = "latest" => q.answer.ttl = past.ttlOf[q.answer.content] /\ q.answer.ttl > 0
  /\ q.url.kind = "latest" /\ q.answer.status = "notModified" /\ q.ent # NoEntry =>
       /\ q.now <= past.until[entries[q.ent].content]
       /\ q.answer.ttl = past.ttlOf[entries[q.ent].content]

StalenessInv == /\ EdgeShape
                /\ OriginInv
                /\ \A o \in Object : EntryInv(o)
                /\ \A r \in Handler : RequestInv(r)

-----------------------------------------------------------------------------

LEMMA Constants ==
  /\ MaxVersion \in Nat /\ MaxHandlers \in Nat /\ MaxClock \in Nat /\ Year \in Nat
  /\ Year > 0
  /\ Always \in Nat /\ Always > MaxClock
  /\ \A s \in Scopes : s.commits \in 1 .. MaxVersion /\ s.ticks \in 0 .. MaxClock
                       /\ s.edges \subseteq Edge /\ s.urls \subseteq Url /\ s.asked \subseteq Nat
  /\ NoEntry \notin Object /\ NoEntry \in Nat
  /\ \A u \in Url : u.kind \in {"kv", "latest", "versioned"} /\ (u \in CacheUrl <=> u.kind # "kv")
  /\ CacheUrl \subseteq Url
<1>1. /\ MaxVersion \in Nat /\ MaxHandlers \in Nat /\ MaxClock \in Nat /\ Year \in Nat
      /\ Year > 0 /\ Always \in Nat /\ Always > MaxClock
  BY CachedReadsAssumption DEF Always
<1>2. \A s \in Scopes : s.commits \in 1 .. MaxVersion /\ s.ticks \in 0 .. MaxClock
                       /\ s.edges \subseteq Edge /\ s.urls \subseteq Url /\ s.asked \subseteq Nat
  BY CachedReadsAssumption, Zenon DEF Version
<1>3. NoEntry \notin Object /\ NoEntry \in Nat
  BY DEF NoEntry, Object
<1>4. \A u \in Url : u.kind \in {"kv", "latest", "versioned"} /\ (u \in CacheUrl <=> u.kind # "kv")
  BY DEF Url, CacheUrl
<1>5. CacheUrl \subseteq Url
  BY DEF CacheUrl
<1> QED BY <1>1, <1>2, <1>3, <1>4, <1>5

(* The bounds are numbers, and so are the times. *)
LEMMA Numbers ==
  /\ MaxVersion \in Nat /\ MaxClock \in Nat /\ Always \in Nat /\ Always > MaxClock
  /\ OriginInv => /\ clock \in Nat /\ clock <= MaxClock /\ record.content \in Nat
                  /\ \A c : Known(c) => /\ c \in Version
                                        /\ past.until[c] \in Nat /\ past.ttlOf[c] \in Nat
<1>1. MaxVersion \in Nat /\ MaxClock \in Nat /\ Always \in Nat /\ Always > MaxClock
  BY CachedReadsAssumption DEF Always
<1>2. ASSUME OriginInv PROVE clock \in Nat /\ clock <= MaxClock /\ record.content \in Nat
  BY <1>1, <1>2 DEF OriginInv
<1>3. ASSUME OriginInv, NEW c, Known(c)
      PROVE  c \in Version /\ past.until[c] \in Nat /\ past.ttlOf[c] \in Nat
  <2>1. c \in Version
    BY <1>1, <1>3 DEF OriginInv, Known, Version
  <2> QED BY <1>3, <2>1 DEF OriginInv
<1> QED BY <1>1, <1>2, <1>3

LEMMA AnswerShapes ==
  /\ NoAnswer \in SomeAnswer /\ Refused \in SomeAnswer /\ FetchError \in SomeAnswer
  /\ NoAnswer.status = "none" /\ Refused.status = "refused" /\ FetchError.status = "error"
  /\ NoAnswer.content = 0 /\ Refused.content = 0 /\ FetchError.content = 0
BY DEF NoAnswer, Refused, FetchError, SomeAnswer

LEMMA GarbageShape == Garbage \in SomeEntry
BY DEF Garbage, SomeEntry

(* The TTL of a cacheable put is positive. *)
LEMMA TtlPositive ==
  ASSUME NEW asked \in Nat
  PROVE  TtlSeconds(asked) \in Nat /\ TtlSeconds(asked) > 0
<1>1. CASE asked = 0
  BY <1>1, CachedReadsAssumption DEF TtlSeconds
<1>2. CASE asked # 0
  <2> DEFINE m == CHOOSE x \in {asked, 1} : \A y \in {asked, 1} : x >= y
             t == CHOOSE x \in {m, MaxTtl} : \A y \in {m, MaxTtl} : x =< y
  <2>1. m = asked
    <3>1. \A x \in {asked, 1} : (\A y \in {asked, 1} : x >= y) <=> x = asked
      BY <1>2
    <3> QED BY <3>1
  <2>2. t \in {asked, MaxTtl}
    <3>1. MaxTtl \in Nat /\ MaxTtl > 0
      BY CachedReadsAssumption
    <3>2. \E x \in {asked, MaxTtl} : \A y \in {asked, MaxTtl} : x =< y
      BY <3>1
    <3>3. (CHOOSE x \in {asked, MaxTtl} : \A y \in {asked, MaxTtl} : x =< y) \in {asked, MaxTtl}
      BY <3>2, Zenon
    <3> QED BY <2>1, <3>3, Zenon
  <2>3. TtlSeconds(asked) = t
    BY <1>2 DEF TtlSeconds, Min, Max
  <2> HIDE DEF t, m
  <2> QED BY <1>2, <2>2, <2>3, CachedReadsAssumption
<1> QED BY <1>1, <1>2

-----------------------------------------------------------------------------
(* Steps that leave the edges, the record and the clock alone.             *)

LEMMA UntouchedKeeps ==
  ASSUME StalenessInv, UNCHANGED <<cache, entries, requests, record, past, clock, scope>>
  PROVE  StalenessInv'
<1>1. EdgeShape' /\ OriginInv'
  BY DEF StalenessInv, EdgeShape, OriginInv
<1>2. \A o \in Object : EntryInv(o)'
  BY DEF StalenessInv, EntryInv, Held, Known
<1>3. \A r \in Handler : RequestInv(r)'
  BY DEF StalenessInv, RequestInv, Known
<1> QED BY <1>1, <1>2, <1>3 DEF StalenessInv

(* Time passes: every bound is on the safe side of the clock. *)
LEMMA TickKeeps ==
  ASSUME StalenessInv, Tick, UNCHANGED scope
  PROVE  StalenessInv'
<1>shape. EdgeShape
  BY DEF StalenessInv
<1>origin. OriginInv
  BY DEF StalenessInv
<1>entry. \A o \in Object : EntryInv(o)
  BY DEF StalenessInv
<1>request. \A k \in Handler : RequestInv(k)
  BY DEF StalenessInv
<1>0. UNCHANGED <<cache, entries, requests, record, past, scope>> /\ clock' = clock + 1
  BY DEF Tick, edgeVars, originVars
<1>1. clock \in Nat /\ clock' \in 0 .. MaxClock
  BY <1>origin, <1>0, Constants DEF Tick, OriginInv
<1>2. EdgeShape' /\ OriginInv'
  BY <1>shape, <1>origin, <1>0, <1>1 DEF EdgeShape, OriginInv
<1>3. ASSUME NEW o \in Object PROVE EntryInv(o)'
  <2>1. entries[o].ttl \in Nat /\ entries[o].expires \in Nat
    BY <1>shape DEF EdgeShape, SomeEntry
  <2>2. \A kind : Held(kind, o)' <=> Held(kind, o)
    BY <1>0 DEF Held
  <2> QED BY <1>entry, <1>0, <1>1, <2>1, <2>2 DEF EntryInv, Known
<1>4. ASSUME NEW r \in Handler PROVE RequestInv(r)'
  <2>1. requests[r].now \in Nat
    BY <1>shape DEF EdgeShape, SomeRequest
  <2> QED BY <1>request, <1>0, <1>1, <2>1 DEF RequestInv, Known
<1> QED BY <1>2, <1>3, <1>4 DEF StalenessInv

(* A commit: what was current until now stops being so at this very time,  *)
(* which no entry and no request is ahead of.                              *)
LEMMA CommitKeeps ==
  ASSUME StalenessInv, UNCHANGED scope, NEW live \in BOOLEAN, NEW cacheable \in BOOLEAN,
         NEW ttl \in Nat, cacheable => ttl > 0, Commit(live, cacheable, ttl)
  PROVE  StalenessInv'
<1>shape. EdgeShape
  BY DEF StalenessInv
<1>origin. OriginInv
  BY DEF StalenessInv
<1>entry. \A o \in Object : EntryInv(o)
  BY DEF StalenessInv
<1>request. \A k \in Handler : RequestInv(k)
  BY DEF StalenessInv
<1> DEFINE n == record.content + 1
<1>0. /\ UNCHANGED <<cache, entries, requests, clock, scope>>
      /\ n <= scope.commits
      /\ record' = [version |-> record.version + 1, content |-> n,
                    live |-> live, cacheable |-> cacheable, ttl |-> ttl]
      /\ past' = [until |-> [m \in Version |-> IF m = record.content THEN clock ELSE past.until[m]],
                  ttlOf |-> [past.ttlOf EXCEPT ![n] = ttl]]
  BY DEF Commit, edgeVars, NextVersion
<1>1. n \in Version /\ record.content \in Nat /\ clock \in Nat /\ clock <= MaxClock
  <2>1. scope \in Scopes
    BY <1>origin DEF OriginInv
  <2>2. scope.commits \in 1 .. MaxVersion
    BY <2>1, Constants
  <2>3. record.content \in Nat /\ clock \in Nat /\ clock <= MaxClock /\ MaxVersion \in Nat
    BY <1>origin, Numbers
  <2> QED BY <1>0, <2>2, <2>3 DEF Version
<1>2. /\ record'.content = n /\ record'.version = record.version + 1 /\ record'.live = live
      /\ record'.cacheable = cacheable /\ record'.ttl = ttl
  BY <1>0
<1>3. /\ past'.until \in [Version -> Nat] /\ past'.ttlOf \in [Version -> Nat]
      /\ past'.ttlOf[n] = ttl
      /\ \A m \in Version : m # n => past'.ttlOf[m] = past.ttlOf[m]
      /\ \A m \in Version : m # record.content => past'.until[m] = past.until[m]
      /\ \A m \in Version : m = record.content => past'.until[m] = clock
  BY <1>origin, <1>0, <1>1 DEF OriginInv
<1>4. OriginInv'
  <2>1. \A m \in Version : m >= n => past'.until[m] = Always
    <3>1. \A m \in Version : m >= record.content => past.until[m] = Always
      BY <1>origin DEF OriginInv
    <3>2. \A m \in Version : m >= n => m >= record.content /\ m # record.content
      BY <1>1 DEF Version
    <3> QED BY <1>3, <3>1, <3>2
  <2> QED BY <1>origin, <1>0, <1>1, <1>2, <1>3, <2>1 DEF OriginInv, Version
<1>5. EdgeShape'
  BY <1>shape, <1>0 DEF EdgeShape
<1>6. ASSUME NEW m, Known(m)
      PROVE  /\ Known(m)'
             /\ past'.ttlOf[m] = past.ttlOf[m]
             /\ past'.until[m] = past.until[m] \/ past'.until[m] = clock
             /\ past.until[m] \in Nat
  <2>1. m \in Nat /\ 1 <= m /\ m <= record.content /\ m # n
    BY <1>1, <1>6 DEF Known
  <2>2. m \in Version
    BY <1>origin, <1>1, <2>1, Constants DEF OriginInv, Version
  <2>3. Known(m)'
    BY <1>1, <1>2, <2>1 DEF Known
  <2> QED BY <1>origin, <1>3, <2>1, <2>2, <2>3 DEF OriginInv
<1>7. ASSUME NEW o \in Object PROVE EntryInv(o)'
  <2>1. entries[o].ttl \in Nat /\ entries[o].expires \in Nat
    BY <1>shape DEF EdgeShape, SomeEntry
  <2>2. \A kind : Held(kind, o)' <=> Held(kind, o)
    BY <1>0 DEF Held
  <2>3. EntryInv(o)
    BY <1>entry
  <2> DEFINE x == entries[o]
  <2>4. ASSUME Held("latest", o)
        PROVE  /\ Known(x.content)' /\ x.version = x.content
               /\ x.ttl = past'.ttlOf[x.content] /\ x.ttl > 0
               /\ x.expires <= past'.until[x.content] + x.ttl
               /\ x.expires <= clock + x.ttl
    <3>1. /\ Known(x.content) /\ x.version = x.content
          /\ x.ttl = past.ttlOf[x.content] /\ x.ttl > 0
          /\ x.expires <= past.until[x.content] + x.ttl
          /\ x.expires <= clock + x.ttl
      BY <2>3, <2>4 DEF EntryInv
    <3>2. x' = x
      BY <1>0
    <3>3. /\ Known(x.content)' /\ past'.ttlOf[x.content] = past.ttlOf[x.content]
          /\ past'.until[x.content] = past.until[x.content] \/ past'.until[x.content] = clock
      BY <1>6, <3>1, <3>2
    <3> HIDE DEF x
    <3> QED BY <3>1, <3>3
  <2> QED BY <1>0, <2>2, <2>3, <2>4 DEF EntryInv
<1>8. ASSUME NEW r \in Handler PROVE RequestInv(r)'
  <2>1. requests[r].now \in Nat /\ requests[r] \in SomeRequest
    BY <1>shape DEF EdgeShape, SomeRequest
  <2>2. RequestInv(r)
    BY <1>request
  <2>3. ASSUME requests[r].url.kind = "latest", requests[r].ent # NoEntry
        PROVE  Known(entries[requests[r].ent].content)
    <3>1. requests[r].ent \in Object /\ Held("latest", requests[r].ent)
      BY <2>1, <2>3 DEF SomeRequest, Held
    <3> QED BY <1>entry, <3>1 DEF EntryInv
  <2> DEFINE q == requests[r]
  <2>4. q' = q /\ entries' = entries /\ clock' = clock
    BY <1>0
  <2>5. ASSUME q.url.kind # "versioned", q.answer.status = "ok"
        PROVE  /\ Known(q.answer.content)' /\ q.now <= past'.until[q.answer.content]
               /\ past'.ttlOf[q.answer.content] = past.ttlOf[q.answer.content]
    BY <1>1, <1>6, <2>1, <2>2, <2>4, <2>5 DEF RequestInv
  <2>6. ASSUME q.url.kind = "latest", q.answer.status = "notModified", q.ent # NoEntry
        PROVE  /\ q.now <= past'.until[entries[q.ent].content]
               /\ q.answer.ttl = past'.ttlOf[entries[q.ent].content]
    BY <1>1, <1>6, <2>1, <2>2, <2>3, <2>6 DEF RequestInv
  <2> QED BY <2>2, <2>4, <2>5, <2>6, Zenon DEF RequestInv
<1> QED BY <1>4, <1>5, <1>7, <1>8 DEF StalenessInv

-----------------------------------------------------------------------------
(* The steps of the edge.                                                  *)

LEMMA NoRequestShape ==
  ASSUME NEW r \in Handler, EdgeShape
  PROVE  /\ NoRequest \in SomeRequest
         /\ NoRequest.at = "free" /\ NoRequest.ent = NoEntry /\ NoRequest.now = 0
         /\ NoRequest.url.kind = "kv" /\ NoRequest.answer = NoAnswer
<1>1. requests[r].edge \in Edge
  BY DEF EdgeShape, SomeRequest
<1>2. (CHOOSE e \in Edge : TRUE) \in Edge
  BY <1>1
<1>3. [kind |-> "kv", v |-> 0, spelt |-> "path"] \in Url
  BY DEF Url
<1> QED BY <1>2, <1>3, AnswerShapes DEF NoRequest, SomeRequest

LEMMA HeapShape ==
  ASSUME NEW es \in [Object -> SomeEntry], entries' = Heap(es)
  PROVE  /\ entries' \in [Object -> SomeEntry]
         /\ \A o \in Object : o \in Reachable(cache', requests') => entries'[o] = es[o]
BY GarbageShape DEF Heap

(* A step that stores nothing: no object is held that was not held before, *)
(* and those that still are have not changed.                              *)
LEMMA NothingStored ==
  ASSUME StalenessInv, UNCHANGED <<record, past, clock, scope>>, EdgeShape',
         \A kind, o : o \in Object /\ Held(kind, o)' => Held(kind, o),
         \A o \in Object : o \in Reachable(cache', requests') => entries'[o] = entries[o],
         \A r \in Handler : requests'[r] = requests[r] \/ RequestInv(r)'
  PROVE  StalenessInv'
<1>shape. EdgeShape
  BY DEF StalenessInv
<1>origin. OriginInv
  BY DEF StalenessInv
<1>entry. \A o \in Object : EntryInv(o)
  BY DEF StalenessInv
<1>request. \A k \in Handler : RequestInv(k)
  BY DEF StalenessInv
<1>1. OriginInv'
  BY <1>origin DEF OriginInv
<1>2. ASSUME NEW o \in Object PROVE EntryInv(o)'
  <2>1. CASE Held("latest", o)'
    <3>1. o \in Reachable(cache', requests')
      BY <1>shape, <2>1 DEF EdgeShape, Held, Reachable
    <3> QED BY <1>entry, <2>1, <3>1 DEF EntryInv, Known
  <2>2. CASE ~Held("latest", o)'
    BY <2>2 DEF EntryInv
  <2> QED BY <2>1, <2>2
<1>3. ASSUME NEW r \in Handler PROVE RequestInv(r)'
  <2>1. CASE requests'[r] = requests[r]
    <3>1. requests[r].ent \in Object \cup {NoEntry}
      BY <1>shape DEF EdgeShape, SomeRequest
    <3>2. requests[r].ent \in Reachable(cache', requests')
      BY <2>1 DEF Reachable
    <3>3. requests[r].ent # NoEntry => entries'[requests[r].ent] = entries[requests[r].ent]
      BY <3>1, <3>2
    <3>4. RequestInv(r)
      BY <1>request
    <3> QED BY <2>1, <3>3, <3>4, Zenon DEF RequestInv, Known
  <2>2. CASE RequestInv(r)'
    BY <2>2
  <2> QED BY <2>1, <2>2
<1> QED BY <1>1, <1>2, <1>3 DEF StalenessInv

(* A handler returns without storing anything. *)
LEMMA ReturnKeeps ==
  ASSUME StalenessInv, UNCHANGED <<record, past, clock, scope>>,
         NEW r \in Handler, Return(r), UNCHANGED cache,
         entries' = Heap(entries) \/ UNCHANGED entries
  PROVE  StalenessInv'
<1>shape. EdgeShape
  BY DEF StalenessInv
<1>origin. OriginInv
  BY DEF StalenessInv
<1>entry. \A o \in Object : EntryInv(o)
  BY DEF StalenessInv
<1>request. \A k \in Handler : RequestInv(k)
  BY DEF StalenessInv
<1>1. /\ NoRequest \in SomeRequest
      /\ NoRequest.at = "free" /\ NoRequest.ent = NoEntry /\ NoRequest.now = 0
      /\ NoRequest.url.kind = "kv" /\ NoRequest.answer = NoAnswer
  BY <1>shape, NoRequestShape
<1>2. /\ requests' \in [Handler -> SomeRequest]
      /\ requests'[r] = NoRequest
      /\ \A k \in Handler : k # r => requests'[k] = requests[k]
  BY <1>shape, <1>1 DEF Return, EdgeShape
<1>3. /\ entries' \in [Object -> SomeEntry]
      /\ \A o \in Object : o \in Reachable(cache', requests') => entries'[o] = entries[o]
  BY <1>shape, HeapShape DEF EdgeShape
<1>4. EdgeShape'
  BY <1>shape, <1>2, <1>3 DEF EdgeShape
<1>5. ASSUME NEW kind, NEW o \in Object, Held(kind, o)' PROVE Held(kind, o)
  BY <1>1, <1>2, <1>5, Constants DEF Held
<1>6. RequestInv(r)'
  BY <1>origin, <1>1, <1>2, AnswerShapes DEF RequestInv, OriginInv
<1> QED BY <1>2, <1>3, <1>4, <1>5, <1>6, NothingStored

LEMMA PurgeKeeps ==
  ASSUME StalenessInv, UNCHANGED <<record, past, clock, scope>>,
         NEW e \in Edge, Purge(e) \/ Flush(e)
  PROVE  StalenessInv'
<1>shape. EdgeShape
  BY DEF StalenessInv
<1>origin. OriginInv
  BY DEF StalenessInv
<1>entry. \A o \in Object : EntryInv(o)
  BY DEF StalenessInv
<1>request. \A k \in Handler : RequestInv(k)
  BY DEF StalenessInv
<1>1. /\ \E new : /\ cache' = [cache EXCEPT ![e] = [u \in CacheUrl |-> new[u]]]
                  /\ \A u \in CacheUrl : new[u] = NoEntry \/ new[u] = cache[e][u]
      /\ requests' = requests
      /\ entries' = Heap(entries)
  <2>1. CASE Purge(e)
    <3> DEFINE new == [u \in CacheUrl |-> IF u.spelt = "path" THEN NoEntry ELSE cache[e][u]]
    <3>1. \A u \in CacheUrl : new[u] = NoEntry \/ new[u] = cache[e][u]
      OBVIOUS
    <3>2. cache' = [cache EXCEPT ![e] = [u \in CacheUrl |-> new[u]]]
      BY <2>1, Zenon DEF Purge
    <3> HIDE DEF new
    <3> QED BY <2>1, <3>1, <3>2, Zenon DEF Purge
  <2>2. CASE Flush(e)
    <3> DEFINE new == [u \in CacheUrl |-> NoEntry]
    <3>1. \A u \in CacheUrl : new[u] = NoEntry
      OBVIOUS
    <3>2. cache' = [cache EXCEPT ![e] = [u \in CacheUrl |-> new[u]]]
      BY <2>2, Zenon DEF Flush
    <3> HIDE DEF new
    <3> QED BY <2>2, <3>1, <3>2, Zenon DEF Flush
  <2> QED BY <2>1, <2>2
<1>2. /\ entries' \in [Object -> SomeEntry]
      /\ \A o \in Object : o \in Reachable(cache', requests') => entries'[o] = entries[o]
  BY <1>shape, <1>1, HeapShape DEF EdgeShape
<1>3. EdgeShape'
  BY <1>shape, <1>1, <1>2 DEF EdgeShape
<1>4. ASSUME NEW kind, NEW o \in Object, Held(kind, o)' PROVE Held(kind, o)
  <2>1. \A d \in Edge, u \in CacheUrl : cache'[d][u] = NoEntry \/ cache'[d][u] = cache[d][u]
    BY <1>shape, <1>1 DEF EdgeShape
  <2> QED BY <1>1, <1>4, <2>1, Constants DEF Held
<1> QED BY <1>1, <1>2, <1>3, <1>4, NothingStored

(* A step of one handler that changes only what it knows. *)
LEMMA HandlerMoves ==
  ASSUME StalenessInv, UNCHANGED <<record, past, clock, scope, cache, entries>>,
         NEW r \in Handler, NEW q \in SomeRequest, requests' = [requests EXCEPT ![r] = q],
         q.ent # NoEntry => Held(q.url.kind, q.ent),
         RequestInv(r)'
  PROVE  StalenessInv'
<1>shape. EdgeShape
  BY DEF StalenessInv
<1>origin. OriginInv
  BY DEF StalenessInv
<1>entry. \A o \in Object : EntryInv(o)
  BY DEF StalenessInv
<1>request. \A k \in Handler : RequestInv(k)
  BY DEF StalenessInv
<1>1. /\ requests'[r] = q
      /\ \A k \in Handler : k # r => requests'[k] = requests[k]
  BY <1>shape DEF EdgeShape
<1>2. EdgeShape'
  BY <1>shape DEF EdgeShape
<1>3. ASSUME NEW kind, NEW o \in Object, Held(kind, o)' PROVE Held(kind, o)
  BY <1>1, <1>3, Constants DEF Held
<1> QED BY <1>1, <1>2, <1>3, NothingStored
=============================================================================
