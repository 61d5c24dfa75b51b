--------------------------- MODULE ShardingProofs ---------------------------
(***************************************************************************)
(* Every statement is on the backend its hash selects, and on no other,    *)
(* for any number of backends, handlers, statements and failed calls.      *)
(***************************************************************************)
EXTENDS Sharding, TLAPS

\* The time the provers have for a step.
USE SMTT(30), ZenonT(30)

\* The items of a sequence, and of one that has got one more.
LEMMA ItemsOf ==
    ASSUME NEW T, NEW q \in Seq(T)
    PROVE  q \in [1 .. Len(q) -> T] /\ DOMAIN q = 1 .. Len(q) /\ Len(q) \in Nat
OBVIOUS

LEMMA ItemsOfAppend ==
    ASSUME NEW T, NEW q \in Seq(T), NEW x \in T
    PROVE  LET a == Append(q, x) IN
           /\ a \in Seq(T) /\ a # <<>> /\ Len(a) = Len(q) + 1
           /\ a[Len(q) + 1] = x
           /\ \A i \in 1 .. Len(q) : a[i] = q[i]
OBVIOUS

USE BackendsAssumption, ShardingAssumption

(* Operators *)

\* Collect yields changes, whatever the request and the store.
LEMMA CollectType ==
    ASSUME NEW c \in Changes, NEW req \in Request, NEW store
    PROVE  Collect(c, req, store) \in Changes
<1> DEFINE keys == IF req.op = "put" THEN req.keys ELSE {k \in req.keys : store[k] # Absent}
           D == DOMAIN c \cup keys
<1>1. PICK E \in SUBSET Key : c \in [E -> Value \cup {Absent}]
  BY DEF Changes
<1>2. req.keys \in SUBSET Key /\ req.value \in Value \cup {Absent}
  BY DEF Request, StmtAdded, NsAdded, Removed, Key, Value
<1>3. D \in SUBSET Key
  BY <1>1, <1>2
<1>4. Collect(c, req, store) \in [D -> Value \cup {Absent}]
  BY <1>1, <1>2 DEF Collect
<1> QED
  BY <1>3, <1>4 DEF Changes

\* A write leaves a store.
LEMMA ApplyType ==
    ASSUME NEW c \in Changes, NEW store \in Store
    PROVE  Apply(c, store) \in Store
<1>1. PICK E \in SUBSET Key : c \in [E -> Value \cup {Absent}]
  BY DEF Changes
<1> QED
  BY <1>1 DEF Apply, Store

\* The empty batch.
LEMMA NoChangeFacts == NoChange \in Changes /\ \A b \in Bucket : InBucket(NoChange, b)
<1>1. \A D \in SUBSET Key : [D -> Value \cup {Absent}] \subseteq Changes
  BY DEF Changes
<1>2. DOMAIN NoChange = {}
  BY DEF NoChange
<1>3. NoChange \in [{} -> Value \cup {Absent}]
  BY DEF NoChange
<1>4. NoChange \in Changes
  <2>1. [{} -> Value \cup {Absent}] \subseteq Changes
    BY <1>1
  <2> QED
    BY ONLY <1>3, <2>1, Zenon
<1> QED
  BY <1>2, <1>4 DEF InBucket

\* A request that may go to backend b.
OfBucket(req, b) == req \in StmtAdded => \A x \in req.keys : bucket(x) = b

\* Reading a request of bucket b adds no statement of another bucket.
LEMMA CollectInBucket ==
    ASSUME NEW b \in Bucket, NEW c \in Changes, NEW req \in Request, NEW store,
           InBucket(c, b), OfBucket(req, b)
    PROVE  InBucket(Collect(c, req, store), b)
<1> DEFINE keys == IF req.op = "put" THEN req.keys ELSE {k \in req.keys : store[k] # Absent}
           new == Collect(c, req, store)
<1> SUFFICES ASSUME NEW x \in DOMAIN new \cap Statement, new[x] # Absent
             PROVE  bucket(x) = b
  BY DEF InBucket
<1>1. DOMAIN new = DOMAIN c \cup keys
  BY DEF Collect
<1>2. new[x] = IF x \in keys THEN req.value ELSE c[x]
  BY <1>1 DEF Collect
<1>3. CASE x \notin keys
  BY <1>1, <1>2, <1>3 DEF InBucket
<1>4. CASE x \in keys
  <2>1. x \in req.keys /\ req.value # Absent
    BY <1>2, <1>4
  <2>2. req \notin Removed
    BY <2>1 DEF Removed
  <2>3. req \notin NsAdded
    BY <2>1 DEF NsAdded
  <2> QED
    BY <2>1, <2>2, <2>3 DEF Request, OfBucket
<1> QED
  BY <1>3, <1>4

\* Writing such a batch to backend b puts no statement of another bucket there.
LEMMA ApplyPlaced ==
    ASSUME NEW b \in Bucket, NEW c \in Changes, NEW store \in Store, InBucket(c, b),
           \A x \in Statement : store[x] # Absent => bucket(x) = b
    PROVE  \A x \in Statement : Apply(c, store)[x] # Absent => bucket(x) = b
BY DEF Apply, InBucket, Key

\* A statement is routed to its own bucket.
LEMMA RouteOfBucket ==
    ASSUME NEW req \in Request, NEW b \in Route(req)
    PROVE  b \in Bucket => OfBucket(req, b)
<1> SUFFICES ASSUME req \in StmtAdded, NEW x \in req.keys PROVE bucket(x) = b
  BY DEF OfBucket
<1>1. req.keys = {x}
  BY DEF StmtAdded
<1>2. (CHOOSE y \in req.keys : TRUE) = x
  BY <1>1
<1> QED
  BY <1>2, ZenonT(30) DEF Route

-----------------------------------------------------------------------------
(* The invariant *)

LEMMA InitInvariant == Init => PlacementInvariant
<1> SUFFICES ASSUME Init PROVE PlacementInvariant
  OBVIOUS
<1>1. TypeOK
  BY NoChangeFacts
  DEF Init, TypeOK, Store, Nowhere, NoLinks, NoBatches, NoneFailed
<1>2. Routed
  BY NoChangeFacts DEF Init, Routed, NoLinks, NoBatches
<1>3. Placement
  BY DEF Init, Placement, Nowhere, Key
<1>4. FanoutRemoves
  BY DEF Init, FanoutRemoves
<1> QED
  BY <1>1, <1>2, <1>3, <1>4 DEF PlacementInvariant

\* A write of changes c to backend b, whoever does it.
LEMMA WriteKeepsPlacement ==
    ASSUME PlacementInvariant, NEW b \in Bucket, NEW c \in Changes, InBucket(c, b),
           shard' = [shard EXCEPT ![b] = Apply(c, @)]
    PROVE  shard' \in [Bucket -> Store] /\ Placement'
<1>1. shard \in [Bucket -> Store] /\ shard[b] \in Store
  BY DEF PlacementInvariant, TypeOK
<1>2. Apply(c, shard[b]) \in Store
  BY <1>1, ApplyType
<1>3. \A x \in Statement : Apply(c, shard[b])[x] # Absent => bucket(x) = b
  BY <1>1, ApplyPlaced DEF PlacementInvariant, Placement
<1>4. shard' \in [Bucket -> Store]
  BY <1>1, <1>2
<1>5. shard'[b] = Apply(c, shard[b]) /\ \A a \in Bucket \ {b} : shard'[a] = shard[a]
  BY <1>1
<1>6. Placement'
  BY <1>3, <1>5 DEF PlacementInvariant, Placement, bucket
<1> QED
  BY <1>4, <1>6

\* Changes c that a failed call leaves behind at backend b.
LEMMA MoreOrphans ==
    ASSUME TypeOK, Routed, NEW b \in Bucket, NEW c \in Changes, InBucket(c, b)
    PROVE  LET more == [orphans EXCEPT ![b] = @ \cup {c}]
           IN  /\ more \in [Bucket -> SUBSET Changes]
               /\ \A a \in Bucket : \A d \in more[a] : InBucket(d, a)
<1> DEFINE more == [orphans EXCEPT ![b] = @ \cup {c}]
<1>1. orphans \in [Bucket -> SUBSET Changes]
  BY DEF TypeOK
<1>2. \A a \in Bucket : more[a] = IF a = b THEN orphans[a] \cup {c} ELSE orphans[a]
  BY <1>1, ZenonT(30)
<1>3. more \in [Bucket -> SUBSET Changes]
  BY <1>1
<1>4. \A a \in Bucket : \A d \in more[a] : InBucket(d, a)
  BY <1>2 DEF Routed
<1> QED
  BY <1>3, <1>4

\* Forwarding keeps the links routed.
LEMMA ForwardStep ==
    ASSUME PlacementInvariant, NEW h \in Handler, NEW req \in Request, Forward(h, req)
    PROVE  PlacementInvariant'
<1> DEFINE new == [b \in Bucket |-> IF b \in Route(req) /\ ~failed[h][b]
                                    THEN Append(link[h][b], req) ELSE link[h][b]]
<1>1. TypeOK /\ FanoutRemoves /\ Routed /\ Placement
  BY DEF PlacementInvariant
<1>2. link' = [link EXCEPT ![h] = new]
  BY DEF Forward
<1>3. link[h] \in [Bucket -> Seq(Request)]
  BY <1>1 DEF TypeOK
<1>4. \A b \in Bucket : Append(link[h][b], req) \in Seq(Request)
  BY <1>3, ItemsOfAppend
<1>5. new \in [Bucket -> Seq(Request)]
  BY <1>3, <1>4
<1>6. TypeOK'
  BY <1>1, <1>2, <1>5 DEF TypeOK, Forward
<1>7. ASSUME NEW b \in Bucket, NEW i \in DOMAIN new[b]
      PROVE  OfBucket(new[b][i], b)
  <2>1. \A j \in DOMAIN link[h][b] : OfBucket(link[h][b][j], b)
    BY <1>1 DEF Routed, OfBucket
  <2>2. CASE b \in Route(req) /\ ~failed[h][b]
    <3>1. new[b] = Append(link[h][b], req)
      BY <2>2
    <3>2. link[h][b] \in Seq(Request)
      BY <1>3
    <3>3. (i \in DOMAIN link[h][b] /\ new[b][i] = link[h][b][i]) \/ new[b][i] = req
      BY <3>1, <3>2, ItemsOfAppend, ItemsOf
    <3>4. OfBucket(req, b)
      BY <2>2, RouteOfBucket
    <3> QED
      BY <2>1, <3>3, <3>4
  <2>3. CASE ~(b \in Route(req) /\ ~failed[h][b])
    BY <2>1, <2>3
  <2> QED
    BY <2>2, <2>3
<1>8. Routed'
  <2>1. \A g \in Handler : link'[g] = IF g = h THEN new ELSE link[g]
    BY <1>1, <1>2 DEF TypeOK
  <2>2. batch' = batch /\ orphans' = orphans
    BY DEF Forward
  <2> HIDE DEF new
  <2>3. ASSUME NEW g \in Handler, NEW a \in Bucket
        PROVE  \A i \in DOMAIN link'[g][a] : OfBucket(link'[g][a][i], a)
    <3>1. CASE g = h
      BY <1>7, <2>1, <3>1
    <3>2. CASE g # h
      BY <1>1, <2>1, <3>2 DEF Routed, OfBucket
    <3> QED
      BY <3>1, <3>2
  <2> QED
    BY <1>1, <2>2, <2>3 DEF Routed, OfBucket, InBucket
<1>9. Placement'
  BY <1>1 DEF Placement, Forward
<1>10. FanoutRemoves'
  BY <1>1, <1>2 DEF TypeOK, FanoutRemoves, Forward
<1> QED
  BY <1>6, <1>8, <1>9, <1>10 DEF PlacementInvariant

\* A backend reads a forwarded request.
LEMMA ReadStep ==
    ASSUME PlacementInvariant, NEW h \in Handler, NEW b \in Bucket, BackendRead(h, b)
    PROVE  PlacementInvariant'
<1> DEFINE q == link[h][b]
           new == Collect(batch[h][b], Head(q), shard[b])
<1>1. TypeOK /\ FanoutRemoves /\ Routed /\ Placement
  BY DEF PlacementInvariant
<1>2. q \in Seq(Request) /\ q # <<>> /\ batch[h][b] \in Changes
  BY <1>1 DEF TypeOK, BackendRead
<1>3. /\ Head(q) \in Request /\ Tail(q) \in Seq(Request)
      /\ Head(q) = q[1] /\ 1 \in DOMAIN q
      /\ \A i \in DOMAIN Tail(q) : i + 1 \in DOMAIN q /\ Tail(q)[i] = q[i + 1]
  BY <1>2
<1>4. OfBucket(Head(q), b) /\ InBucket(batch[h][b], b)
  BY <1>1, <1>3 DEF Routed, OfBucket
<1>5. new \in Changes /\ InBucket(new, b)
  BY <1>2, <1>3, <1>4, CollectType, CollectInBucket
<1>6. /\ batch' = [batch EXCEPT ![h][b] = new]
      /\ link' = [link EXCEPT ![h][b] = Tail(q)]
      /\ UNCHANGED <<shard, orphans, pc, failed, todo, messages, failures>>
  BY DEF BackendRead
<1> HIDE DEF new
<1>7. TypeOK'
  BY <1>1, <1>3, <1>5, <1>6 DEF TypeOK
<1>8. Routed'
  <2>1. ASSUME NEW g \in Handler, NEW a \in Bucket
        PROVE  /\ batch'[g][a] = IF g = h /\ a = b THEN new ELSE batch[g][a]
               /\ link'[g][a] = IF g = h /\ a = b THEN Tail(q) ELSE link[g][a]
    BY <1>1, <1>6 DEF TypeOK
  <2>2. \A i \in DOMAIN Tail(q) : OfBucket(Tail(q)[i], b)
    BY <1>1, <1>3 DEF Routed, OfBucket
  <2>3. ASSUME NEW g \in Handler, NEW a \in Bucket
        PROVE  /\ InBucket(batch'[g][a], a)
               /\ \A i \in DOMAIN link'[g][a] : OfBucket(link'[g][a][i], a)
    <3>1. CASE g = h /\ a = b
      BY <1>5, <2>1, <2>2, <3>1, ZenonT(30)
    <3>2. CASE ~(g = h /\ a = b)
      BY <1>1, <2>1, <3>2 DEF Routed, OfBucket
    <3> QED
      BY <3>1, <3>2
  <2> QED
    BY <1>1, <1>6, <2>3 DEF Routed, OfBucket, InBucket
<1>9. Placement'
  BY <1>1, <1>6 DEF Placement
<1>10. FanoutRemoves'
  BY <1>1, <1>6 DEF TypeOK, FanoutRemoves, BackendRead
<1> QED
  BY <1>7, <1>8, <1>9, <1>10 DEF PlacementInvariant

-----------------------------------------------------------------------------
\* Every step keeps the invariant.
LEMMA NextInvariant == PlacementInvariant /\ [Next]_vars => PlacementInvariant'
<1> SUFFICES ASSUME PlacementInvariant, [Next]_vars PROVE PlacementInvariant'
  OBVIOUS
<1>0. TypeOK /\ FanoutRemoves /\ Routed /\ Placement
  BY DEF PlacementInvariant
<1>1. ASSUME NEW b \in Bucket, NEW c \in orphans[b], OrphanWrite(b, c)
      PROVE  PlacementInvariant'
  <2>1. c \in Changes /\ InBucket(c, b)
    BY <1>0 DEF TypeOK, Routed
  <2>2. shard' \in [Bucket -> Store] /\ Placement'
    BY <1>1, <2>1, WriteKeepsPlacement, ZenonT(30) DEF OrphanWrite
  <2>3. TypeOK'
    BY <1>0, <1>1, <2>2 DEF TypeOK, OrphanWrite, calls
  <2>4. \A a \in Bucket : orphans'[a] \subseteq orphans[a]
    BY <1>0, <1>1 DEF TypeOK, OrphanWrite
  <2>5. Routed'
    BY <1>0, <1>1, <2>4 DEF Routed, OrphanWrite, calls, InBucket
  <2>9. FanoutRemoves'
    BY <1>0, <1>1 DEF TypeOK, FanoutRemoves, OrphanWrite, calls
  <2> QED
    BY <2>2, <2>3, <2>5, <2>9 DEF PlacementInvariant
<1>2. ASSUME NEW h \in Handler, Begin(h) \/ EndStream(h)
      PROVE  PlacementInvariant'
  <2>1. TypeOK'
    BY <1>0, <1>2, ZenonT(30) DEF TypeOK, Begin, EndStream, calls
  <2>2. Routed'
    BY <1>0, <1>2 DEF Routed, Begin, EndStream, calls, InBucket
  <2>3. Placement'
    BY <1>0, <1>2 DEF Placement, Begin, EndStream
  <2>9. FanoutRemoves'
    BY <1>0, <1>2 DEF TypeOK, FanoutRemoves, Begin, EndStream, calls
  <2> QED
    BY <2>1, <2>2, <2>3, <2>9 DEF PlacementInvariant
<1>3. ASSUME NEW h \in Handler, NEW req \in Request, Forward(h, req)
      PROVE  PlacementInvariant'
  BY <1>3, ForwardStep
<1>4. ASSUME NEW h \in Handler, NEW b \in Bucket, BackendRead(h, b)
      PROVE  PlacementInvariant'
  BY <1>4, ReadStep
<1>5. ASSUME NEW h \in Handler, NEW b \in Bucket, Finish(h, b)
      PROVE  PlacementInvariant'
  <2>1. batch[h][b] \in Changes /\ InBucket(batch[h][b], b)
    BY <1>0 DEF TypeOK, Routed
  <2>2. shard' \in [Bucket -> Store] /\ Placement'
    <3>1. CASE failed[h][b]
      BY <1>0, <1>5, <3>1 DEF TypeOK, Placement, Finish
    <3>2. CASE ~failed[h][b]
      BY <1>5, <2>1, <3>2, WriteKeepsPlacement, ZenonT(30) DEF Finish
    <3> QED
      BY <3>1, <3>2
  <2>3. TypeOK'
    BY <1>0, <1>5, <2>2 DEF TypeOK, Finish, calls
  <2>4. Routed'
    BY <1>0, <1>5 DEF Routed, Finish, calls, InBucket
  <2>9. FanoutRemoves'
    BY <1>0, <1>5 DEF TypeOK, FanoutRemoves, Finish, calls
  <2> QED
    BY <2>2, <2>3, <2>4, <2>9 DEF PlacementInvariant
<1>6. ASSUME NEW h \in Handler, Return(h)
      PROVE  PlacementInvariant'
  <2>1. TypeOK'
    BY <1>0, <1>6, NoChangeFacts DEF TypeOK, Return, NoLinks, NoBatches, NoneFailed
  <2>2. \A g \in Handler \ {h} : link'[g] = link[g] /\ batch'[g] = batch[g]
    BY <1>0, <1>6 DEF TypeOK, Return
  <2>3. link'[h] = NoLinks /\ batch'[h] = NoBatches /\ orphans' = orphans
    BY <1>0, <1>6 DEF TypeOK, Return
  <2>4. Routed'
    <3>1. \A b \in Bucket : InBucket(NoBatches[b], b) /\ DOMAIN NoLinks[b] = {}
      BY NoChangeFacts DEF NoLinks, NoBatches, InBucket
    <3>2. ASSUME NEW g \in Handler, NEW b \in Bucket
          PROVE  /\ InBucket(batch'[g][b], b)
                 /\ \A i \in DOMAIN link'[g][b] : OfBucket(link'[g][b][i], b)
      <4>1. CASE g = h
        BY <2>3, <3>1, <4>1
      <4>2. CASE g # h
        BY <1>0, <2>2, <4>2 DEF Routed, OfBucket
      <4> QED
        BY <4>1, <4>2
    <3> QED
      BY <1>0, <2>3, <3>2 DEF Routed, OfBucket, InBucket
  <2>5. Placement'
    BY <1>0, <1>6 DEF Placement, Return
  <2>9. FanoutRemoves'
    BY <1>0, <1>6 DEF TypeOK, FanoutRemoves, Return
  <2> QED
    BY <2>1, <2>4, <2>5, <2>9 DEF PlacementInvariant
<1>7. ASSUME NEW h \in Handler, NEW b \in Bucket, Fail(h, b)
      PROVE  PlacementInvariant'
  <2>1. batch[h][b] \in Changes /\ InBucket(batch[h][b], b)
    BY <1>0 DEF TypeOK, Routed
  <2> DEFINE more == [orphans EXCEPT ![b] = @ \cup {batch[h][b]}]
  <2>2. more \in [Bucket -> SUBSET Changes] /\ \A a \in Bucket : \A c \in more[a] : InBucket(c, a)
    BY <1>0, <2>1, MoreOrphans
  <2>3. orphans' = orphans \/ orphans' = more
    BY <1>7 DEF Fail
  <2> HIDE DEF more
  <2>6. TypeOK'
    BY <1>0, <1>7, <2>2, <2>3 DEF TypeOK, Fail
  <2>7. \A a \in Bucket : \A c \in orphans'[a] : InBucket(c, a)
    BY <1>0, <2>2, <2>3 DEF Routed
  <2>4. Routed'
    BY <1>0, <1>7, <2>7 DEF Routed, Fail, InBucket
  <2>5. Placement'
    BY <1>0, <1>7 DEF Placement, Fail
  <2>9. FanoutRemoves'
    BY <1>0, <1>7 DEF TypeOK, FanoutRemoves, Fail
  <2> QED
    BY <2>6, <2>4, <2>5, <2>9 DEF PlacementInvariant
<1>8. ASSUME NEW h \in Handler, NEW req \in Removed, FanoutRemove(h, req)
      PROVE  PlacementInvariant'
  <2>1. req \in Request /\ req \notin StmtAdded
    BY DEF Request, Removed, StmtAdded
  <2>2. TypeOK'
    BY <1>0, <1>8, <2>1 DEF TypeOK, FanoutRemove
  <2>3. \A g \in Handler \ {h} : link'[g] = link[g]
    BY <1>0, <1>8 DEF TypeOK, FanoutRemove
  <2>4. \A b \in Bucket : link'[h][b] = <<req>>
    BY <1>0, <1>8 DEF TypeOK, FanoutRemove
  <2>5. Routed'
    <3>1. batch' = batch /\ orphans' = orphans
      BY <1>8 DEF FanoutRemove
    <3>2. ASSUME NEW g \in Handler, NEW b \in Bucket
          PROVE  \A i \in DOMAIN link'[g][b] : OfBucket(link'[g][b][i], b)
      <4>1. CASE g = h
        <5>1. DOMAIN <<req>> = {1} /\ <<req>>[1] = req
          OBVIOUS
        <5>2. OfBucket(req, b)
          BY <2>1 DEF OfBucket
        <5> QED
          BY <2>4, <4>1, <5>1, <5>2
      <4>2. CASE g # h
        BY <1>0, <2>3, <4>2 DEF Routed, OfBucket
      <4> QED
        BY <4>1, <4>2
    <3> QED
      BY <1>0, <3>1, <3>2 DEF Routed, OfBucket, InBucket
  <2>6. Placement'
    BY <1>0, <1>8 DEF Placement, FanoutRemove
  <2>9. FanoutRemoves'
    BY <1>0, <1>8 DEF TypeOK, FanoutRemoves, FanoutRemove
  <2> QED
    BY <2>2, <2>5, <2>6, <2>9 DEF PlacementInvariant
<1>9. ASSUME NEW h \in Handler, NEW b \in Bucket, FanoutCall(h, b) \/ FanoutFail(h, b)
      PROVE  PlacementInvariant'
  <2> DEFINE req == Head(link[h][b])
             c == Collect(NoChange, req, shard[b])
             more == [orphans EXCEPT ![b] = @ \cup {c}]
  <2>1. req \in Removed
    <3>1. pc[h] = "fanout"
      BY <1>9 DEF FanoutCall, FanoutFail
    <3>2. Len(link[h][b]) = 1 /\ link[h][b][1] \in Removed
      BY <1>0, <3>1 DEF FanoutRemoves
    <3>3. link[h][b] \in Seq(Request)
      BY <1>0 DEF TypeOK
    <3> QED
      BY <3>2, <3>3
  <2>2. req \in Request /\ OfBucket(req, b)
    BY <2>1 DEF Request, Removed, StmtAdded, OfBucket
  <2>3. c \in Changes /\ InBucket(c, b)
    BY <2>2, NoChangeFacts, CollectType, CollectInBucket
  <2>4. /\ more \in [Bucket -> SUBSET Changes]
        /\ \A a \in Bucket : \A d \in more[a] : InBucket(d, a)
    BY <1>0, <2>3, MoreOrphans
  <2>5. \/ shard' = [shard EXCEPT ![b] = Apply(c, @)] /\ orphans' = orphans
        \/ shard' = shard /\ orphans' \in {orphans, more}
    BY <1>9 DEF FanoutCall, FanoutFail
  <2>6. /\ UNCHANGED <<pc, calls, messages>>
        /\ todo' = [todo EXCEPT ![h] = @ \ {b}]
        /\ failures' = failures \/ failures' = failures + 1
    BY <1>9 DEF FanoutCall, FanoutFail
  <2> HIDE DEF c, more
  <2>7. shard' \in [Bucket -> Store] /\ Placement'
    BY <1>0, <2>3, <2>5, WriteKeepsPlacement DEF TypeOK, Placement
  <2>8. /\ orphans' \in [Bucket -> SUBSET Changes]
        /\ \A a \in Bucket : \A d \in orphans'[a] : InBucket(d, a)
    BY <1>0, <2>4, <2>5 DEF TypeOK, Routed
  <2>9. TypeOK'
    BY <1>0, <2>6, <2>7, <2>8 DEF TypeOK, calls
  <2>10. Routed'
    BY <1>0, <2>6, <2>8 DEF Routed, calls, InBucket
  <2>11. FanoutRemoves'
    BY <1>0, <2>6 DEF FanoutRemoves, calls
  <2> QED
    BY <2>7, <2>9, <2>10, <2>11 DEF PlacementInvariant
<1>10. CASE UNCHANGED vars
  <2>1. TypeOK'
    BY <1>0, <1>10 DEF vars, TypeOK
  <2>2. Routed'
    BY <1>0, <1>10 DEF vars, Routed, InBucket
  <2>3. FanoutRemoves' /\ Placement'
    BY <1>0, <1>10 DEF vars, FanoutRemoves, Placement
  <2> QED
    BY <2>1, <2>2, <2>3 DEF PlacementInvariant
<1> QED
  BY <1>1, <1>2, <1>3, <1>4, <1>5, <1>6, <1>7, <1>8, <1>9, <1>10 DEF Next, Step

-----------------------------------------------------------------------------
\* The inductive invariant holds in every behaviour of the proxy.
THEOREM PlacementInvariantHolds == Spec => []PlacementInvariant
BY InitInvariant, NextInvariant, PTL DEF Spec

\* Statements are only ever on the backend that AddStatements and Update
\* select by hash, so no two backends answer a query with the same one.
THEOREM StatementsPlaced == Spec => []Placement
<1>1. PlacementInvariant => Placement
  BY DEF PlacementInvariant
<1> QED
  BY <1>1, PlacementInvariantHolds, PTL
=============================================================================
