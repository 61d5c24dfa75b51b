------------------------------ MODULE Sharding ------------------------------
(***************************************************************************)
(* The updates of ShardingService: a proxy that spreads statements over    *)
(* persistence servers by their hash and keeps namespaces on all of them.  *)
(*                                                                         *)
(* A handler of the proxy opens one call to every backend, forwards the    *)
(* requests it reads, and when its stream ends finishes the calls one      *)
(* after the other.  A backend reads what was forwarded to it into a batch *)
(* and writes the batch when its call is finished (in one step here, see   *)
(* LevelDBPersistence).  The proxy looks at no status of these calls.      *)
(*                                                                         *)
(* What a backend holds is a function from keys - statements and namespace *)
(* prefixes - to values.                                                   *)
(***************************************************************************)
EXTENDS Naturals, Sequences

CONSTANTS
    Backends,       \* the number of backends
    Statement,      \* the statements in use
    StmtHash,       \* std::hash<Statement>
    Prefix, Uri,    \* namespace prefixes and URIs in use
    Stored, Absent, \* the value of a stored statement; no entry under a key
    Target,         \* the sets of keys that removal requests match
    Handler,        \* the threads that serve requests
    MaxMessages,    \* bound on the messages of one request stream
    MaxFailures     \* bound on the calls to backends that fail

Key == Statement \cup Prefix
Value == Uri \cup {Stored}
Bucket == 0 .. (Backends - 1)

ASSUME BackendsAssumption == Backends \in Nat \ {0}

ASSUME ShardingAssumption ==
    /\ StmtHash \in [Statement -> Nat]
    /\ Statement \cap Prefix = {}
    /\ Absent \notin Value
    /\ Target \subseteq SUBSET Key
    /\ MaxMessages \in Nat
    /\ MaxFailures \in Nat

bucket(x) == StmtHash[x] % Backends

\* stmt_added, ns_added, and stmt_removed or ns_removed.
StmtAdded == [op : {"put"}, keys : {{x} : x \in Statement}, value : {Stored}]
NsAdded == [op : {"put"}, keys : {{p} : p \in Prefix}, value : Uri]
Removed == [op : {"del"}, keys : Target, value : {Absent}]
Request == StmtAdded \cup NsAdded \cup Removed

VARIABLES
    shard,      \* per backend, what it holds
    orphans,    \* per backend, batches of failed calls it may yet write
    pc,         \* per handler: "idle", "read", "finish" or "fanout"
    link,       \* per handler and backend, the requests forwarded and not read
    batch,      \* per handler and backend, the changes the backend has collected
    failed,     \* per handler and backend, whether the call has failed
    todo,       \* per handler, the backends whose calls are not finished
    messages,   \* per handler, the number of messages read
    failures    \* the number of calls to backends that have failed

calls == <<link, batch, failed>>
vars == <<shard, orphans, pc, link, batch, failed, todo, messages,
          failures>>

NoChange == [k \in {} |-> Absent]
NoLinks == [b \in Bucket |-> <<>>]
NoBatches == [b \in Bucket |-> NoChange]
NoneFailed == [b \in Bucket |-> FALSE]
Nowhere == [k \in Key |-> Absent]

Init ==
    /\ shard = [b \in Bucket |-> Nowhere]
    /\ orphans = [b \in Bucket |-> {}]
    /\ pc = [h \in Handler |-> "idle"]
    /\ link = [h \in Handler |-> NoLinks]
    /\ batch = [h \in Handler |-> NoBatches]
    /\ failed = [h \in Handler |-> NoneFailed]
    /\ todo = [h \in Handler |-> {}]
    /\ messages = [h \in Handler |-> 0]
    /\ failures = 0

-----------------------------------------------------------------------------
(* A persistence server *)

\* The changes c with those of a request: a removal deletes what the store
\* holds when the request is read.
Collect(c, req, store) ==
    LET keys == IF req.op = "put" THEN req.keys ELSE {k \in req.keys : store[k] # Absent}
    IN  [k \in DOMAIN c \cup keys |-> IF k \in keys THEN req.value ELSE c[k]]

Apply(c, store) == [k \in Key |-> IF k \in DOMAIN c THEN c[k] ELSE store[k]]

-----------------------------------------------------------------------------
(* AddStatements, AddNamespaces and Update of the proxy *)

\* One call is opened to every backend.
Begin(h) ==
    /\ pc[h] = "idle"
    /\ pc' = [pc EXCEPT ![h] = "read"]
    /\ todo' = [todo EXCEPT ![h] = Bucket]
    /\ UNCHANGED <<shard, orphans, calls, messages, failures>>

\* Mutant: the bucket of a statement is one too high.
RouteNext(req) ==
    IF req \in StmtAdded THEN {(bucket(CHOOSE x \in req.keys : TRUE) + 1) % Backends} ELSE Bucket

\* Mutant: a namespace or a removal goes to one backend only.
RouteOne(req) == IF req \in StmtAdded THEN {bucket(CHOOSE x \in req.keys : TRUE)} ELSE {0}

\* A statement goes to its bucket, everything else to all backends.
Route(req) == IF req \in StmtAdded THEN {bucket(CHOOSE x \in req.keys : TRUE)} ELSE Bucket

Forward(h, req) ==
    /\ pc[h] = "read"
    /\ messages[h] < MaxMessages
    /\ messages' = [messages EXCEPT ![h] = @ + 1]
    /\ link' = [link EXCEPT ![h] = [b \in Bucket |->
                   IF b \in Route(req) /\ ~failed[h][b] THEN Append(@[b], req) ELSE @[b]]]
    /\ UNCHANGED <<shard, orphans, pc, batch, failed, todo, failures>>

\* Backend b reads a request that h has forwarded.
BackendRead(h, b) ==
    /\ pc[h] \in {"read", "finish"}
    /\ ~failed[h][b]
    /\ link[h][b] # <<>>
    /\ batch' = [batch EXCEPT ![h][b] = Collect(@, Head(link[h][b]), shard[b])]
    /\ link' = [link EXCEPT ![h][b] = Tail(@)]
    /\ UNCHANGED <<shard, orphans, pc, failed, todo, messages, failures>>

\* The client's stream has ended.
EndStream(h) ==
    /\ pc[h] = "read"
    /\ pc' = [pc EXCEPT ![h] = "finish"]
    /\ UNCHANGED <<shard, orphans, calls, todo, messages, failures>>

\* Mutant: a failed call keeps the proxy waiting.
FinishUnlessFailed(h, b) ==
    /\ pc[h] = "finish"
    /\ b \in todo[h] /\ \A a \in todo[h] : b <= a
    /\ ~failed[h][b] /\ link[h][b] = <<>>
    /\ shard' = [shard EXCEPT ![b] = Apply(batch[h][b], @)]
    /\ todo' = [todo EXCEPT ![h] = @ \ {b}]
    /\ UNCHANGED <<orphans, pc, calls, messages, failures>>

\* WritesDone and Finish of the next call: its backend reads what is left and
\* writes its batch.  A failed call is passed over in silence.
Finish(h, b) ==
    /\ pc[h] = "finish"
    /\ b \in todo[h] /\ \A a \in todo[h] : b <= a
    /\ failed[h][b] \/ link[h][b] = <<>>
    /\ shard' = IF failed[h][b] THEN shard ELSE [shard EXCEPT ![b] = Apply(batch[h][b], @)]
    /\ todo' = [todo EXCEPT ![h] = @ \ {b}]
    /\ UNCHANGED <<orphans, pc, calls, messages, failures>>

\* Status::OK, in any case but that of a Fanout.
Return(h) ==
    /\ pc[h] \in {"finish", "fanout"}
    /\ todo[h] = {}
    /\ pc' = [pc EXCEPT ![h] = "idle"]
    /\ link' = [link EXCEPT ![h] = NoLinks]
    /\ batch' = [batch EXCEPT ![h] = NoBatches]
    /\ failed' = [failed EXCEPT ![h] = NoneFailed]
    /\ messages' = [messages EXCEPT ![h] = 0]
    /\ UNCHANGED <<shard, orphans, todo, failures>>

\* The call of h to backend b fails.  The backend has died, or finds the
\* stream ended, now or later, and writes what it has collected.
Fail(h, b) ==
    /\ failures < MaxFailures
    /\ failures' = failures + 1
    /\ pc[h] \in {"read", "finish"}
    /\ b \in todo[h] /\ ~failed[h][b]
    /\ failed' = [failed EXCEPT ![h][b] = TRUE]
    /\ orphans' \in {orphans, [orphans EXCEPT ![b] = @ \cup {batch[h][b]}]}
    /\ UNCHANGED <<shard, pc, link, batch, todo, messages>>

OrphanWrite(b, c) ==
    /\ c \in orphans[b]
    /\ shard' = [shard EXCEPT ![b] = Apply(c, @)]
    /\ orphans' = [orphans EXCEPT ![b] = @ \ {c}]
    /\ UNCHANGED <<pc, calls, todo, messages, failures>>

-----------------------------------------------------------------------------
(* RemoveStatements and Clear: Fanout, one thread per backend *)

FanoutRemove(h, req) ==
    /\ pc[h] = "idle"
    /\ pc' = [pc EXCEPT ![h] = "fanout"]
    /\ todo' = [todo EXCEPT ![h] = Bucket]
    /\ link' = [link EXCEPT ![h] = [b \in Bucket |-> <<req>>]]
    /\ UNCHANGED <<shard, orphans, batch, failed, messages, failures>>

\* The thread of backend b has its answer: the removal is written.
FanoutCall(h, b) ==
    /\ pc[h] = "fanout"
    /\ b \in todo[h]
    /\ shard' = [shard EXCEPT ![b] = Apply(Collect(NoChange, Head(link[h][b]), @), @)]
    /\ todo' = [todo EXCEPT ![h] = @ \ {b}]
    /\ UNCHANGED <<orphans, pc, calls, messages, failures>>

\* Its call has failed: the removal is not done, or written later.
FanoutFail(h, b) ==
    /\ failures < MaxFailures
    /\ failures' = failures + 1
    /\ pc[h] = "fanout"
    /\ b \in todo[h]
    /\ orphans' \in {orphans, [orphans EXCEPT ![b] =
                        @ \cup {Collect(NoChange, Head(link[h][b]), shard[b])}]}
    /\ todo' = [todo EXCEPT ![h] = @ \ {b}]
    /\ UNCHANGED <<shard, pc, calls, messages>>

-----------------------------------------------------------------------------
Step(h) ==
    \/ \E b \in Bucket : BackendRead(h, b) \/ Finish(h, b) \/ FanoutCall(h, b)
    \/ Return(h)

Next ==
    \/ \E b \in Bucket : \E c \in orphans[b] : OrphanWrite(b, c)
    \/ \E h \in Handler :
        \/ Begin(h)
        \/ \E req \in Request : Forward(h, req)
        \/ EndStream(h)
        \/ \E req \in {r \in Removed : r.keys \subseteq Statement} : FanoutRemove(h, req)
        \/ \E b \in Bucket : Fail(h, b) \/ FanoutFail(h, b)
        \/ Step(h)

\* The backends answer or fail, and the handlers' threads run.
Spec == Init /\ [][Next]_vars /\ \A h \in Handler : WF_vars(Step(h))

-----------------------------------------------------------------------------
Store == [Key -> Value \cup {Absent}]

\* New values for some of the keys.
Changes == UNION {[D -> Value \cup {Absent}] : D \in SUBSET Key}

\* What the backends hold and what is on its way to them.
TypeOK ==
    /\ shard \in [Bucket -> Store]
    /\ orphans \in [Bucket -> SUBSET Changes]
    /\ pc \in [Handler -> {"idle", "read", "finish", "fanout"}]
    /\ link \in [Handler -> [Bucket -> Seq(Request)]]
    /\ batch \in [Handler -> [Bucket -> Changes]]
    /\ failed \in [Handler -> [Bucket -> BOOLEAN]]
    /\ todo \in [Handler -> SUBSET Bucket]
    /\ messages \in [Handler -> Nat]
    /\ failures \in Nat

\* A backend holds only statements of its bucket, so that no statement is on
\* two backends: whatever calls overlap and fail, GetStatements, which passes
\* on the answers of all backends, returns no statement twice, and Size, which
\* adds them up, counts none twice.
Placement ==
    \A b \in Bucket, x \in Statement : shard[b][x] # Absent => bucket(x) = b

Idle == \A h \in Handler : pc[h] = "idle"

\* Calls return, also when backends fail.
CallsReturn == \A h \in Handler : pc[h] \in {"finish", "fanout"} ~> pc[h] = "idle"

\* "Since namespaces are potentially needed in all backends, they will be added
\* to all": once no call is running, the backends have the same namespaces.
\* The code does not keep this: see the README.
NamespacesOnAll ==
    Idle => \A a, b \in Bucket, p \in Prefix : shard[a][p] = shard[b][p]

-----------------------------------------------------------------------------
(* The inductive invariant behind Placement *)

\* The changes c add no statement of another bucket than b.
InBucket(c, b) == \A x \in DOMAIN c \cap Statement : c[x] # Absent => bucket(x) = b

\* What is on its way to a backend, or left there by a failed call, adds
\* statements of its bucket only.
Routed ==
    /\ \A h \in Handler, b \in Bucket :
          /\ InBucket(batch[h][b], b)
          /\ \A i \in DOMAIN link[h][b] :
                link[h][b][i] \in StmtAdded => \A x \in link[h][b][i].keys : bucket(x) = b
    /\ \A b \in Bucket : \A c \in orphans[b] : InBucket(c, b)

\* The threads of a Fanout have a removal to send.
FanoutRemoves ==
    \A h \in Handler, b \in Bucket :
        pc[h] = "fanout" => Len(link[h][b]) = 1 /\ link[h][b][1] \in Removed

\* The strengthening of Placement that every step preserves: bucket() is applied
\* when a statement is forwarded, and nothing behind the proxy moves a statement.
PlacementInvariant ==
    /\ TypeOK
    /\ FanoutRemoves
    /\ Routed
    /\ Placement
=============================================================================
