--------------------------- MODULE MCCachedReads ---------------------------
(***************************************************************************)
(* The instances of CachedReads that TLC checks.                           *)
(***************************************************************************)
EXTENDS CachedReads

Kind(kinds) == {u \in Url : u.kind \in kinds /\ u.spelt = "path"}

Escaped == {u \in Url : u.spelt = "escaped"}

AnEdge == CHOOSE e \in Edge \ DelayedEdge : TRUE
ADelayedEdge == CHOOSE e \in DelayedEdge : TRUE

(* The queue and the edges it purges. *)
Queue ==
  [inv |-> HTTPPurge(Edge), writes |-> {"cacheable"}, commits |-> 2, watch |-> 1,
   edges |-> Edge, urls |-> {}, handlers |-> 0, ticks |-> 0, asked |-> {0}]

(* Reads through one edge while the queue purges it, at once or with the   *)
(* edge's delay.                                                           *)
Purged(e, urls) ==
  [Queue EXCEPT !.inv = HTTPPurge({e}), !.watch = 2, !.edges = {e}, !.urls = urls,
                !.handlers = 1]

(* Reads of the plain URL as time passes: two at once, or one at a time    *)
(* with writes of different TTLs, or under both spellings.                 *)
Latest(n, ttls, urls) ==
  [inv |-> Noop, writes |-> {"cacheable", "delete"}, commits |-> 2, watch |-> 1,
   edges |-> {AnEdge}, urls |-> urls, handlers |-> n, ticks |-> 2, asked |-> ttls]

(* Reads of a versioned URL, and reads through the edge, of three writes. *)
Versioned ==
  [inv |-> Noop, writes |-> {"plain", "cacheable", "delete"}, commits |-> 3, watch |-> 1,
   edges |-> {AnEdge}, urls |-> Kind({"versioned", "kv"}), handlers |-> 2, ticks |-> 0,
   asked |-> {0}]

MCScopes == {Queue,
             Purged(AnEdge, Kind({"latest"})), Purged(AnEdge, Kind({"versioned"})),
             Purged(ADelayedEdge, Kind({"latest"})),
             Latest(2, {0}, Kind({"latest"})),
             Latest(1, RequestedTtl, Kind({"latest"})),
             Latest(1, {0}, Kind({"latest"}) \cup Escaped), Versioned}
=============================================================================
