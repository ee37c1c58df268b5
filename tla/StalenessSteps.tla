--------------------------- MODULE StalenessSteps ---------------------------
(***************************************************************************)
(* The steps of the edge handlers keep the invariant of StalenessLemmas.   *)
(***************************************************************************)
EXTENDS StalenessLemmas

LEMMA HandleKeeps ==
  ASSUME StalenessInv, UNCHANGED <<record, past, clock, scope>>,
         NEW r \in Handler, NEW e \in Edge, NEW u \in Url, Handle(r, e, u, clock)
  PROVE  StalenessInv'
<1>shape. EdgeShape
  BY DEF StalenessInv
<1>origin. OriginInv
  BY DEF StalenessInv
<1>entry. \A o \in Object : EntryInv(o)
  BY DEF StalenessInv
<1>request. \A k \in Handler : RequestInv(k)
  BY DEF StalenessInv
<1> DEFINE q == [requests[r] EXCEPT !.at = IF u.kind = "kv" THEN "fetch" ELSE "lookup",
                                    !.edge = e, !.url = u, !.now = clock]
<1>1. requests[r] \in SomeRequest /\ clock \in Nat
  BY <1>shape, <1>origin, Constants DEF EdgeShape, OriginInv
<1>2. /\ q \in SomeRequest
      /\ q.at = (IF u.kind = "kv" THEN "fetch" ELSE "lookup") /\ q.edge = e /\ q.url = u
      /\ q.now = clock /\ q.ent = requests[r].ent /\ q.answer = requests[r].answer
  BY <1>1, Zenon DEF SomeRequest
<1>3. requests' = [requests EXCEPT ![r] = q]
  BY <1>shape, <1>1, Zenon DEF Handle, EdgeShape, SomeRequest
<1>4. requests[r].at = "free" /\ requests[r].ent = NoEntry /\ requests[r].answer = NoAnswer
  BY <1>request DEF Handle, At, RequestInv
<1>5. requests'[r] = q
  BY <1>shape, <1>3 DEF EdgeShape
<1> HIDE DEF q
<1>6. RequestInv(r)'
  BY <1>1, <1>2, <1>4, <1>5, AnswerShapes DEF RequestInv
<1> QED BY <1>2, <1>3, <1>4, <1>6, HandlerMoves, Zenon DEF Handle

LEMMA LookupKeeps ==
  ASSUME StalenessInv, UNCHANGED <<record, past, clock, scope>>, NEW r \in Handler, Lookup(r)
  PROVE  StalenessInv'
<1>shape. EdgeShape
  BY DEF StalenessInv
<1>origin. OriginInv
  BY DEF StalenessInv
<1>entry. \A o \in Object : EntryInv(o)
  BY DEF StalenessInv
<1>request. \A k \in Handler : RequestInv(k)
  BY DEF StalenessInv
<1> DEFINE ent == cache[requests[r].edge][requests[r].url]
           q == [requests[r] EXCEPT !.at = "compare", !.ent = ent]
<1>1. requests[r] \in SomeRequest /\ requests[r].url \in CacheUrl /\ requests[r].edge \in Edge
  <2>1. requests[r] \in SomeRequest /\ requests[r].url \in Url /\ requests[r].edge \in Edge
    BY <1>shape DEF EdgeShape, SomeRequest
  <2>2. requests[r].url.kind # "kv"
    BY <1>request DEF Lookup, At, RequestInv
  <2> QED BY <2>1, <2>2, Constants
<1>2. ent \in Object \cup {NoEntry}
  BY <1>shape, <1>1 DEF EdgeShape
<1>3. /\ q \in SomeRequest
      /\ q.at = "compare" /\ q.url = requests[r].url /\ q.now = requests[r].now
      /\ q.ent = ent /\ q.answer = requests[r].answer
  BY <1>1, <1>2, Zenon DEF SomeRequest
<1>4. requests' = [requests EXCEPT ![r] = q]
  BY <1>shape, Zenon DEF Lookup, EdgeShape, SomeRequest
<1>5. requests'[r] = q
  BY <1>shape, <1>4 DEF EdgeShape
<1>6. q.ent # NoEntry => Held(q.url.kind, q.ent)
  BY <1>1, <1>3 DEF Held
<1>7. requests[r].url.kind # "kv" /\ RequestInv(r) /\ requests[r].answer = NoAnswer
  BY <1>request DEF Lookup, At, RequestInv
<1> HIDE DEF q, ent
<1>8. RequestInv(r)'
  BY <1>3, <1>5, <1>7, AnswerShapes DEF RequestInv
<1> QED BY <1>3, <1>4, <1>6, <1>8, HandlerMoves, Zenon DEF Lookup

LEMMA GoToOriginKeeps ==
  ASSUME StalenessInv, UNCHANGED <<record, past, clock, scope>>, NEW r \in Handler, GoToOrigin(r)
  PROVE  StalenessInv'
<1>shape. EdgeShape
  BY DEF StalenessInv
<1>origin. OriginInv
  BY DEF StalenessInv
<1>entry. \A o \in Object : EntryInv(o)
  BY DEF StalenessInv
<1>request. \A k \in Handler : RequestInv(k)
  BY DEF StalenessInv
<1> DEFINE q == [requests[r] EXCEPT !.at = "fetch"]
<1>1. requests[r] \in SomeRequest
  BY <1>shape DEF EdgeShape
<1>2. /\ q \in SomeRequest
      /\ q.at = "fetch" /\ q.url = requests[r].url /\ q.now = requests[r].now
      /\ q.ent = requests[r].ent /\ q.answer = requests[r].answer
  BY <1>1 DEF SomeRequest
<1>3. requests' = [requests EXCEPT ![r] = q]
  BY <1>shape DEF GoToOrigin, EdgeShape, SomeRequest
<1>4. requests'[r] = q
  BY <1>shape, <1>3 DEF EdgeShape
<1>5. q.ent # NoEntry => Held(q.url.kind, q.ent)
  BY <1>2 DEF Held
<1>6. RequestInv(r) /\ requests[r].answer = NoAnswer
  BY <1>request DEF GoToOrigin, At, RequestInv
<1> HIDE DEF q
<1>7. RequestInv(r)'
  BY <1>2, <1>4, <1>6, AnswerShapes DEF RequestInv
<1> QED BY <1>2, <1>3, <1>5, <1>7, HandlerMoves, Zenon DEF GoToOrigin

(* What the gateway answers is what the record says at that instant: the   *)
(* content is current, so no request began after it was replaced.          *)
LEMMA OriginAnswerFits ==
  ASSUME StalenessInv, NEW r \in Handler, NEW a \in {OriginAnswer(r), Refused, FetchError}
  PROVE  /\ a \in SomeAnswer
         /\ a.status # "ok" => a.content = 0
         /\ a.status = "ok" => /\ record.content > 0
                               /\ a.content = record.content /\ a.version = record.content
                               /\ requests[r].url.kind = "latest" => a.ttl = record.ttl /\ record.ttl > 0
         /\ a.status = "notModified" /\ requests[r].url.kind = "latest" =>
              /\ record.content > 0 /\ a.ttl = record.ttl
              /\ requests[r].ent # NoEntry => entries[requests[r].ent].version = record.content
<1>shape. EdgeShape
  BY DEF StalenessInv
<1>origin. OriginInv
  BY DEF StalenessInv
<1>entry. \A o \in Object : EntryInv(o)
  BY DEF StalenessInv
<1>request. \A k \in Handler : RequestInv(k)
  BY DEF StalenessInv
<1>1. CASE a \in {Refused, FetchError}
  BY <1>1, AnswerShapes
<1>2. CASE a = OriginAnswer(r)
  <2> DEFINE u == requests[r].url
  <2>0. /\ record.content \in Nat /\ record.version = record.content /\ record.ttl \in Nat
        /\ (record.live => record.content > 0) /\ (record.cacheable => record.ttl > 0)
    <3>1. OriginInv
      BY DEF StalenessInv
    <3> QED BY <1>origin, <3>1, Numbers DEF OriginInv
  <2>1. \A ttl \in Nat : /\ Ok(ttl) \in SomeAnswer /\ Ok(ttl).status = "ok" /\ Ok(ttl).ttl = ttl
                         /\ Ok(ttl).content = record.content /\ Ok(ttl).version = record.content
    BY <2>0 DEF Ok, SomeAnswer
  <2>2. MaxAge(u) \in Nat /\ (u.kind = "latest" => MaxAge(u) = record.ttl)
    BY <2>0, Constants DEF MaxAge
  <2>3. CASE u.kind = "kv"
    BY <1>2, <2>0, <2>1, <2>3, AnswerShapes DEF OriginAnswer, KvGet
  <2>4. CASE u.kind # "kv"
    <3> DEFINE same == [NoAnswer EXCEPT !.status = "notModified", !.ttl = MaxAge(u)]
    <3>1. same \in SomeAnswer /\ same.status = "notModified" /\ same.content = 0 /\ same.ttl = MaxAge(u)
      BY <2>2, Zenon DEF NoAnswer, SomeAnswer
    <3>2. \/ a = Refused
          \/ record.live /\ record.cacheable /\ Conditional(r) = record.version /\ a = same
          \/ record.live /\ record.cacheable /\ a = Ok(MaxAge(u))
      BY <1>2, <2>4 DEF OriginAnswer, CacheGet
    <3>3. requests[r].ent # NoEntry => Conditional(r) = entries[requests[r].ent].version
      BY DEF Conditional
    <3> HIDE DEF same
    <3> QED BY <2>0, <2>1, <2>2, <3>1, <3>2, <3>3, AnswerShapes
  <2> QED BY <2>3, <2>4
<1> QED BY <1>1, <1>2 DEF StalenessInv

LEMMA FetchKeeps ==
  ASSUME StalenessInv, UNCHANGED <<record, past, clock, scope>>, NEW r \in Handler,
         NEW a \in {OriginAnswer(r), Refused, FetchError}, Fetch(r, a)
  PROVE  StalenessInv'
<1>shape. EdgeShape
  BY DEF StalenessInv
<1>origin. OriginInv
  BY DEF StalenessInv
<1>entry. \A o \in Object : EntryInv(o)
  BY DEF StalenessInv
<1>request. \A k \in Handler : RequestInv(k)
  BY DEF StalenessInv
<1> DEFINE q == [requests[r] EXCEPT !.at = "answered", !.answer = a]
<1>0. /\ a \in SomeAnswer
      /\ a.status # "ok" => a.content = 0
      /\ a.status = "ok" => /\ record.content > 0
                            /\ a.content = record.content /\ a.version = record.content
                            /\ requests[r].url.kind = "latest" => a.ttl = record.ttl /\ record.ttl > 0
      /\ a.status = "notModified" /\ requests[r].url.kind = "latest" =>
           /\ record.content > 0 /\ a.ttl = record.ttl
           /\ requests[r].ent # NoEntry => entries[requests[r].ent].version = record.content
  BY OriginAnswerFits
<1>1. requests[r] \in SomeRequest /\ requests[r].now \in Nat
  BY <1>shape DEF EdgeShape, SomeRequest
<1>2. /\ q \in SomeRequest
      /\ q.at = "answered" /\ q.url = requests[r].url /\ q.now = requests[r].now
      /\ q.ent = requests[r].ent /\ q.answer = a
  BY <1>0, <1>1, Zenon DEF SomeRequest
<1>3. requests' = [requests EXCEPT ![r] = q] /\ entries' = entries
  BY <1>shape, Zenon DEF Fetch, EdgeShape, SomeRequest
<1>4. requests'[r] = q
  BY <1>shape, <1>3 DEF EdgeShape
<1>5. q.ent # NoEntry => Held(q.url.kind, q.ent)
  BY <1>2 DEF Held
<1>6. RequestInv(r)
  BY <1>request
<1>7. record.content > 0 => /\ Known(record.content) /\ past.until[record.content] = Always
                            /\ past.ttlOf[record.content] = record.ttl
                            /\ q.now <= Always
  <2>1. q.now <= clock
    BY <1>2, <1>6 DEF RequestInv
  <2>2. clock \in Nat /\ clock < Always /\ record.content \in Nat
    BY <1>origin, Numbers
  <2>3. record.content > 0 => Known(record.content)
    BY <2>2 DEF Known
  <2>4. record.content > 0 => record.content \in Version
    BY <1>origin, <2>3, Numbers
  <2> HIDE DEF q
  <2>5. q.now <= Always
    BY <1>1, <1>2, <2>1, <2>2, Numbers
  <2> QED BY <1>origin, <2>2, <2>3, <2>4, <2>5 DEF OriginInv
<1>8. ASSUME q.url.kind = "latest", q.ent # NoEntry
      PROVE  entries[q.ent].version = entries[q.ent].content
  BY <1>entry, <1>2, <1>5, <1>8, Zenon DEF EntryInv, SomeRequest
<1> HIDE DEF q
<1>9. RequestInv(r)'
  <2>1. \A c : Known(c)' <=> Known(c)
    BY DEF Known
  <2>2. /\ q.now <= clock
        /\ q.url.kind = "kv" => q.ent = NoEntry
    BY <1>2, <1>6 DEF RequestInv
  <2>3. ASSUME q.url.kind # "versioned", a.status = "ok"
        PROVE  /\ Known(a.content) /\ a.version = a.content
               /\ q.now <= past.until[a.content]
               /\ q.url.kind = "latest" => a.ttl = past.ttlOf[a.content] /\ a.ttl > 0
    BY <1>0, <1>2, <1>7, <2>3
  <2>4. ASSUME q.url.kind = "latest", a.status = "notModified", q.ent # NoEntry
        PROVE  /\ q.now <= past.until[entries[q.ent].content]
               /\ a.ttl = past.ttlOf[entries[q.ent].content]
    BY <1>0, <1>2, <1>7, <1>8, <2>4
  <2> QED BY <1>0, <1>2, <1>3, <1>4, <2>1, <2>2, <2>3, <2>4 DEF RequestInv
<1> QED BY <1>2, <1>3, <1>5, <1>9, HandlerMoves, Zenon DEF Fetch

(* A renewal counts from the time its handler began, when the content it   *)
(* was later told is current was current or yet to come.                   *)
LEMMA RenewKeeps ==
  ASSUME StalenessInv, UNCHANGED <<record, past, clock, scope>>, NEW r \in Handler, Renew(r, clock)
  PROVE  StalenessInv'
<1>shape. EdgeShape
  BY DEF StalenessInv
<1>origin. OriginInv
  BY DEF StalenessInv
<1>entry. \A o \in Object : EntryInv(o)
  BY DEF StalenessInv
<1>request. \A k \in Handler : RequestInv(k)
  BY DEF StalenessInv
<1> DEFINE q == requests[r]
           ttl == IF q.answer.ttl = 0 THEN entries[q.ent].ttl ELSE q.answer.ttl
           es == [entries EXCEPT ![q.ent].expires = q.now + ttl]
<1>0. q \in SomeRequest /\ q.now \in Nat /\ q.answer.ttl \in Nat /\ RequestInv(r)
  BY <1>shape, <1>request DEF EdgeShape, SomeRequest, SomeAnswer
<1>1. /\ q.url.kind # "kv" /\ q.answer.status = "notModified" /\ q.ent # NoEntry
      /\ Return(r) /\ cache' = cache /\ entries' = Heap(es)
  BY DEF Renew, Caching, Renewable
<1>2. q.ent \in Object /\ entries[q.ent] \in SomeEntry /\ ttl \in Nat
  BY <1>shape, <1>0, <1>1 DEF SomeRequest, EdgeShape, SomeEntry
<1>3. /\ es \in [Object -> SomeEntry]
      /\ \A o \in Object : /\ es[o].content = entries[o].content /\ es[o].version = entries[o].version
                           /\ es[o].ttl = entries[o].ttl
                           /\ o # q.ent => es[o].expires = entries[o].expires
      /\ es[q.ent].expires = q.now + ttl
  BY <1>shape, <1>0, <1>2 DEF EdgeShape, SomeEntry
<1> HIDE DEF es
<1>4. /\ entries' \in [Object -> SomeEntry]
      /\ \A o \in Object : o \in Reachable(cache', requests') => entries'[o] = es[o]
  BY <1>1, <1>3, HeapShape
<1>5. /\ NoRequest \in SomeRequest
      /\ NoRequest.at = "free" /\ NoRequest.ent = NoEntry /\ NoRequest.now = 0
      /\ NoRequest.url.kind = "kv" /\ NoRequest.answer = NoAnswer
  BY <1>shape, NoRequestShape
<1>6. /\ requests' \in [Handler -> SomeRequest]
      /\ requests'[r] = NoRequest
      /\ \A k \in Handler : k # r => requests'[k] = requests[k]
  BY <1>shape, <1>1, <1>5 DEF Return, EdgeShape
<1>7. EdgeShape' /\ OriginInv'
  BY <1>shape, <1>origin, <1>1, <1>4, <1>6 DEF EdgeShape, OriginInv
<1>8. ASSUME NEW kind, NEW o \in Object, Held(kind, o)' PROVE Held(kind, o) /\ entries'[o] = es[o]
  <2>1. o \in Reachable(cache', requests')
    BY <1>8 DEF Held, Reachable
  <2>2. Held(kind, o)
    BY <1>1, <1>5, <1>6, <1>8, Constants DEF Held
  <2> QED BY <1>4, <2>1, <2>2
<1>9. ASSUME NEW o \in Object PROVE EntryInv(o)'
  <2>1. CASE ~Held("latest", o)'
    BY <2>1 DEF EntryInv
  <2>2. CASE Held("latest", o)'
    <3>1. Held("latest", o) /\ entries'[o] = es[o]
      BY <1>8, <2>2
    <3>2. ~Held("versioned", o)'
      BY <1>entry, <1>8, <3>1 DEF EntryInv
    <3>3. EntryInv(o) /\ clock \in Nat
      BY <1>entry, <1>origin, Numbers
    <3>4. CASE o # q.ent
      BY <1>3, <2>2, <3>1, <3>2, <3>3, <3>4 DEF EntryInv, Known
    <3>5. CASE o = q.ent
      <4> DEFINE c == entries[o].content
      <4>1. q.url.kind = "latest"
        <5>1. Held(q.url.kind, o)
          BY <3>5 DEF Held
        <5>2. q.url \in Url
          BY <1>0 DEF SomeRequest
        <5> QED BY <1>1, <3>1, <3>3, <5>1, <5>2, Constants DEF EntryInv
      <4>2. q.now <= past.until[c] /\ q.answer.ttl = past.ttlOf[c] /\ q.now <= clock
        BY <1>0, <1>1, <3>5, <4>1 DEF RequestInv
      <4>3. ttl = entries[o].ttl /\ past.until[c] \in Nat
        <5>1. c \in Version
          BY <1>origin, <3>1, <3>3, Constants DEF EntryInv, Known, OriginInv, Version
        <5> QED BY <1>origin, <3>1, <3>3, <3>5, <4>2, <5>1, Zenon DEF EntryInv, OriginInv
      <4>4. /\ es[o].expires <= past.until[c] + entries[o].ttl
            /\ es[o].expires <= clock + entries[o].ttl
        <5>1. es[o].expires = q.now + ttl
          BY <1>3, <3>5
        <5> HIDE DEF q, ttl, c
        <5> QED BY <1>0, <1>2, <3>3, <4>2, <4>3, <5>1
      <4> QED BY <1>3, <2>2, <3>1, <3>2, <3>3, <4>4 DEF EntryInv, Known
    <3> QED BY <3>4, <3>5
  <2> QED BY <2>1, <2>2
<1>10. ASSUME NEW k \in Handler PROVE RequestInv(k)'
  <2>1. CASE k = r
    <3>1. clock' \in Nat /\ requests'[k] = NoRequest
      BY <1>5, <1>6, <2>1, Numbers, <1>origin
    <3> QED BY <1>5, <3>1, AnswerShapes DEF RequestInv
  <2>2. CASE k # r
    <3>1. requests'[k] = requests[k] /\ RequestInv(k)
      BY <1>request, <1>6, <2>2
    <3>2. requests[k].ent # NoEntry => entries'[requests[k].ent].content = entries[requests[k].ent].content
      <4>1. requests[k].ent \in Object \cup {NoEntry} /\ requests[k].ent \in Reachable(cache', requests')
        <5>1. requests \in [Handler -> SomeRequest]
          BY DEF StalenessInv, EdgeShape
        <5>2. requests[k].ent \in Object \cup {NoEntry}
          BY <5>1 DEF SomeRequest
        <5> QED BY <3>1, <5>2 DEF Reachable
      <4> QED BY <1>3, <1>4, <4>1
    <3> QED BY <3>1, <3>2, Zenon DEF RequestInv, Known
  <2> QED BY <2>1, <2>2
<1> QED BY <1>7, <1>9, <1>10 DEF StalenessInv

(* A new entry is held by nobody before and by its place in the map after. *)
LEMMA FillKeeps ==
  ASSUME StalenessInv, UNCHANGED <<record, past, clock, scope>>, NEW r \in Handler, Fill(r)
  PROVE  StalenessInv'
<1>shape. EdgeShape
  BY DEF StalenessInv
<1>origin. OriginInv
  BY DEF StalenessInv
<1>entry. \A o \in Object : EntryInv(o)
  BY DEF StalenessInv
<1>request. \A k \in Handler : RequestInv(k)
  BY DEF StalenessInv
<1> DEFINE q == requests[r]
           x == [version |-> q.answer.version, content |-> q.answer.content,
                 ttl |-> q.answer.ttl, expires |-> q.now + q.answer.ttl]
<1>0. /\ q \in SomeRequest /\ q.now \in Nat /\ q.edge \in Edge /\ q.url \in Url
      /\ q.answer.ttl \in Nat /\ q.answer.version \in Nat /\ q.answer.content \in Nat
      /\ RequestInv(r) /\ clock \in Nat
  BY <1>shape, <1>origin, <1>request, Numbers DEF EdgeShape, SomeRequest, SomeAnswer
<1>1. PICK new \in Unused :
        /\ cache' = [cache EXCEPT ![q.edge][q.url] = new]
        /\ entries' = Heap([entries EXCEPT ![new] = x])
  BY Zenon DEF Fill
<1> DEFINE es == [entries EXCEPT ![new] = x]
<1>2. q.url.kind # "kv" /\ q.answer.status = "ok" /\ q.answer.ttl > 0 /\ Return(r)
  BY DEF Fill, Caching, Storable
<1>3. new \in Object /\ new \notin Reachable(cache, requests) /\ q.url \in CacheUrl
  BY <1>0, <1>2, Constants DEF Unused
<1>4. /\ x \in SomeEntry /\ es \in [Object -> SomeEntry]
      /\ es[new] = x /\ \A o \in Object : o # new => es[o] = entries[o]
  <2>1. entries \in [Object -> SomeEntry]
    BY DEF StalenessInv, EdgeShape
  <2>2. x \in SomeEntry
    BY <1>0 DEF SomeEntry
  <2> HIDE DEF x
  <2> QED BY <1>3, <2>1, <2>2
<1>5. entries' = Heap(es)
  BY <1>1
<1>6. /\ x.version = q.answer.version /\ x.content = q.answer.content
      /\ x.ttl = q.answer.ttl /\ x.expires = q.now + q.answer.ttl
  OBVIOUS
<1> HIDE DEF es, x
<1>7. /\ entries' \in [Object -> SomeEntry]
      /\ \A o \in Object : o \in Reachable(cache', requests') => entries'[o] = es[o]
  BY <1>4, <1>5, HeapShape
<1>8. /\ NoRequest \in SomeRequest
      /\ NoRequest.at = "free" /\ NoRequest.ent = NoEntry /\ NoRequest.now = 0
      /\ NoRequest.url.kind = "kv" /\ NoRequest.answer = NoAnswer
  BY <1>shape, NoRequestShape
<1>9. /\ requests' \in [Handler -> SomeRequest]
      /\ requests'[r] = NoRequest
      /\ \A k \in Handler : k # r => requests'[k] = requests[k]
  BY <1>shape, <1>2, <1>8 DEF Return, EdgeShape
<1>10. /\ cache' \in [Edge -> [CacheUrl -> Object \cup {NoEntry}]]
       /\ \A e \in Edge, u \in CacheUrl :
            cache'[e][u] = IF e = q.edge /\ u = q.url THEN new ELSE cache[e][u]
  BY <1>shape, <1>0, <1>1, <1>3 DEF EdgeShape
<1>11. EdgeShape' /\ OriginInv'
  BY <1>shape, <1>origin, <1>7, <1>9, <1>10 DEF EdgeShape, OriginInv
<1>12. \A e \in Edge, u \in CacheUrl : cache[e][u] # new
  BY <1>3 DEF Reachable
<1>13. \A k \in Handler : requests[k].ent # new
  BY <1>3 DEF Reachable
<1> HIDE DEF q
<1>14. ASSUME NEW kind, NEW o \in Object, Held(kind, o)'
       PROVE  /\ o # new => Held(kind, o)
              /\ o = new => kind = q.url.kind
              /\ entries'[o] = es[o]
  <2>1. o \in Reachable(cache', requests')
    BY <1>14 DEF Held, Reachable
  <2>2. CASE \E e \in Edge, u \in CacheUrl : u.kind = kind /\ cache'[e][u] = o
    BY <1>7, <1>10, <1>12, <2>1, <2>2 DEF Held
  <2>3. CASE \E k \in Handler : requests'[k].url.kind = kind /\ requests'[k].ent = o
    BY <1>3, <1>7, <1>8, <1>9, <1>13, <2>1, <2>3, Constants DEF Held
  <2> QED BY <1>14, <2>2, <2>3 DEF Held
<1>15. ASSUME NEW o \in Object PROVE EntryInv(o)'
  <2>1. CASE ~Held("latest", o)'
    BY <2>1 DEF EntryInv
  <2>2. CASE Held("latest", o)' /\ o # new
    <3>1. Held("latest", o) /\ entries'[o] = entries[o]
      BY <1>4, <1>14, <2>2
    <3>2. EntryInv(o)
      BY <1>entry
    <3>3. ~Held("versioned", o)'
      BY <1>14, <2>2, <3>1, <3>2 DEF EntryInv
    <3> QED BY <2>2, <3>1, <3>2, <3>3 DEF EntryInv, Known
  <2>3. CASE Held("latest", o)' /\ o = new
    <3>1. q.url.kind = "latest" /\ entries'[o] = x
      BY <1>4, <1>14, <2>3
    <3>2. ~Held("versioned", o)'
      BY <1>14, <2>3, <3>1
    <3>3. /\ Known(q.answer.content) /\ q.answer.version = q.answer.content
          /\ q.now <= past.until[q.answer.content] /\ q.now <= clock
          /\ q.answer.ttl = past.ttlOf[q.answer.content]
      BY <1>0, <1>2, <3>1 DEF RequestInv, q
    <3>4. past.until[q.answer.content] \in Nat
      BY <1>origin, <3>3, Numbers
    <3>5. /\ x.expires <= past.until[x.content] + x.ttl
          /\ x.expires <= clock + x.ttl
      BY <1>0, <1>6, <3>3, <3>4
    <3> QED BY <1>2, <1>6, <3>1, <3>2, <3>3, <3>5 DEF EntryInv, Known
  <2> QED BY <2>1, <2>2, <2>3
<1>16. ASSUME NEW k \in Handler PROVE RequestInv(k)'
  <2>1. CASE k = r
    <3>1. clock' \in Nat /\ requests'[k] = NoRequest
      BY <1>8, <1>9, <2>1, Numbers, <1>origin
    <3> QED BY <1>8, <3>1, AnswerShapes DEF RequestInv
  <2>2. CASE k # r
    <3>1. requests'[k] = requests[k] /\ RequestInv(k)
      BY <1>request, <1>9, <2>2
    <3>2. requests[k].ent # NoEntry => entries'[requests[k].ent] = entries[requests[k].ent]
      <4>1. requests[k].ent \in Object \cup {NoEntry} /\ requests[k].ent \in Reachable(cache', requests')
        <5>1. requests \in [Handler -> SomeRequest]
          BY DEF StalenessInv, EdgeShape
        <5>2. requests[k].ent \in Object \cup {NoEntry}
          BY <5>1 DEF SomeRequest
        <5> QED BY <3>1, <5>2 DEF Reachable
      <4> QED BY <1>4, <1>7, <1>13, <4>1
    <3> QED BY <3>1, <3>2, Zenon DEF RequestInv, Known
  <2> QED BY <2>1, <2>2
<1> QED BY <1>11, <1>15, <1>16 DEF StalenessInv

LEMMA EdgeStepKeeps ==
  ASSUME StalenessInv, UNCHANGED scope, NEW r \in Handler, EdgeStep(r)
  PROVE  StalenessInv'
<1>0. UNCHANGED <<record, past, clock, scope>>
  BY DEF EdgeStep, originVars
<1>1. CASE \E e \in scope.edges, u \in scope.urls : Handle(r, e, u, clock)
  <2>1. scope.edges \subseteq Edge /\ scope.urls \subseteq Url
    BY Constants DEF StalenessInv, OriginInv
  <2> QED BY <1>0, <1>1, <2>1, HandleKeeps
<1>2. CASE Lookup(r)
  BY <1>0, <1>2, LookupKeeps
<1>3. CASE GoToOrigin(r)
  BY <1>0, <1>3, GoToOriginKeeps
<1>4. CASE \E a \in {OriginAnswer(r), Refused, FetchError} : Fetch(r, a)
  BY <1>0, <1>4, FetchKeeps
<1>5. CASE ServeHit(r) \/ PassOn(r) \/ FetchFailed(r) \/ PassUncached(r)
  <2>1. Return(r) /\ UNCHANGED cache /\ (entries' = Heap(entries) \/ UNCHANGED entries)
    BY <1>5 DEF ServeHit, PassOn, FetchFailed, PassUncached
  <2> QED BY <1>0, <2>1, ReturnKeeps
<1>6. CASE Renew(r, clock)
  BY <1>0, <1>6, RenewKeeps
<1>7. CASE Fill(r)
  BY <1>0, <1>7, FillKeeps
<1> QED BY <1>1, <1>2, <1>3, <1>4, <1>5, <1>6, <1>7, Zenon DEF EdgeStep
=============================================================================
