--------------------------- MODULE SailConnection ---------------------------
(***************************************************************************)
(* CMarmottaSailConnection, the Java client's transactions, over the       *)
(* Update call of the persistence server.                                  *)
(*                                                                         *)
(* The updates of a transaction are sent on a client stream that the first *)
(* of them opens.  Committing completes the stream and waits for the       *)
(* answer; a query or a removal first commits what was sent so far.  All   *)
(* streams of a connection share one response observer, and that observer  *)
(* sets whatever future the connection's field holds at the time.          *)
(*                                                                         *)
(* The server is Update of LevelDBPersistence with this connection as its  *)
(* only client, the batches of a call written in one step.                 *)
(***************************************************************************)
EXTENDS Naturals, Sequences

CONSTANTS
    Item,           \* the statements and namespaces in use
    Target,         \* the sets of them that removal patterns match
    MaxContexts,    \* bound on the contexts of one removal
    MaxStreams,     \* bound on the Update calls of the connection
    MaxSent,        \* bound on the messages of a stream before another is sent
    MayRollback,    \* whether transactions are rolled back
    MayFail         \* whether connections break, servers die, waits are interrupted

ASSUME SailAssumption ==
    /\ Target \subseteq SUBSET Item
    /\ MaxContexts \in Nat /\ MaxStreams \in Nat /\ MaxSent \in Nat
    /\ MayRollback \in BOOLEAN /\ MayFail \in BOOLEAN

NoStream == 0

VARIABLES
    active,     \* Sesame's flag: a transaction is active
    pc,         \* "idle", or "get": blocked in finishFuture.get()
    after,      \* how the call that waits goes on: "none", "commit", "query",
                \* or "remove" with the removals to send
    observer,   \* updateRequestObserver: the stream it sends on, or NoStream
    future,     \* finishFuture: "none", "pending", "ok" or "error"
    stream,     \* the Update calls made so far
    db,         \* the contents of the store
    expected    \* history: the contents with every update applied as issued

client == <<active, pc, after, observer, future, expected>>
vars == <<active, pc, after, observer, future, stream, db, expected>>

Added(x) == [op |-> "added", items |-> {x}]
Removed(X) == [op |-> "removed", items |-> X]
Request == [op : {"added"}, items : SUBSET Item] \cup [op : {"removed"}, items : Target]

\* The removals of one call: one per context, or one without a context.
Removals == UNION {[1 .. k -> {Removed(X) : X \in Target}] : k \in 1 .. MaxContexts}

NoBatch == [x \in Item |-> "none"]

\* An Update call: the requests sent and whether the client has completed or
\* cancelled the call; whether its connection is broken; how many requests the
\* server has read, its batch and what has become of its handler; and the
\* callback the client is still to get ("done": it had it).
Call ==
    [sent : Seq(Request), end : {"open", "completed", "cancelled"}, broken : BOOLEAN,
     read : Nat, batch : [Item -> {"none", "put", "del"}],
     server : {"reading", "applied", "dead"}, reply : {"none", "ok", "error", "done"}]

NewCall(reqs) ==
    [sent |-> reqs, end |-> "open", broken |-> FALSE, read |-> 0, batch |-> NoBatch,
     server |-> "reading", reply |-> "none"]

Nothing == [op |-> "none", reqs |-> <<>>]

Init ==
    /\ active = FALSE
    /\ pc = "idle"
    /\ after = Nothing
    /\ observer = NoStream
    /\ future = "none"
    /\ stream = <<>>
    /\ db = {}
    /\ expected = {}

-----------------------------------------------------------------------------
(* The connection *)

\* ensureTransaction with no stream, and onNext of the requests.
OpenStream(reqs) ==
    /\ Len(stream) < MaxStreams
    /\ future' = "pending"
    /\ stream' = Append(stream, NewCall(reqs))
    /\ observer' = Len(stream) + 1

\* onNext on the stream there is; it throws on a completed one.
SendOn(req) ==
    /\ stream[observer].end = "open"
    /\ Len(stream[observer].sent) < MaxSent
    /\ stream' = [stream EXCEPT ![observer].sent = Append(@, req)]
    /\ UNCHANGED <<observer, future>>

\* Sesame's begin(); startTransactionInternal does nothing.
Begin ==
    /\ pc = "idle" /\ ~active
    /\ active' = TRUE
    /\ UNCHANGED <<pc, after, observer, future, stream, db, expected>>

\* addStatementInternal and setNamespaceInternal.
Add(x) ==
    /\ pc = "idle" /\ active
    /\ IF observer = NoStream THEN OpenStream(<<Added(x)>>) ELSE SendOn(Added(x))
    /\ expected' = expected \cup {x}
    /\ UNCHANGED <<active, pc, after, db>>

\* commitInternal up to finishFuture.get(), in a call that goes on with next.
\* onCompleted throws on a completed stream.
Complete(next) ==
    /\ pc = "idle" /\ active
    /\ observer # NoStream
    /\ stream[observer].end = "open"
    /\ stream' = [stream EXCEPT ![observer].end = "completed"]
    /\ pc' = "get"
    /\ after' = next
    /\ UNCHANGED <<active, observer, future, db, expected>>

AllItems(reqs) == UNION {reqs[i].items : i \in DOMAIN reqs}

\* removeStatementsInternal, clearInternal, removeNamespaceInternal and
\* clearNamespacesInternal with no stream open, or once it is committed.
SendRemovals(reqs) ==
    /\ OpenStream(reqs)
    /\ expected' = expected \ AllItems(reqs)

\* Mutant: no commitForQuery.
RemoveOnStream(reqs) ==
    /\ pc = "idle" /\ active
    /\ IF observer = NoStream THEN OpenStream(reqs) ELSE SendOn(reqs[1])
    /\ expected' = expected \ AllItems(reqs)
    /\ UNCHANGED <<active, pc, after, db>>

\* The same four methods: commitForQuery, ensureTransaction, onNext.
Remove(reqs) ==
    \/ Len(stream) < MaxStreams /\ Complete([op |-> "remove", reqs |-> reqs])
    \/ /\ pc = "idle" /\ active
       /\ observer = NoStream
       /\ SendRemovals(reqs)
       /\ UNCHANGED <<active, pc, after, db>>

\* The queries: commitForQuery, then a read of the store.
Query == Complete([op |-> "query", reqs |-> <<>>])

\* commit().  Without a stream there is nothing to complete.
Commit ==
    \/ Complete([op |-> "commit", reqs |-> <<>>])
    \/ /\ pc = "idle" /\ active
       /\ observer = NoStream
       /\ active' = FALSE
       /\ UNCHANGED <<pc, after, observer, future, stream, db, expected>>

\* finishFuture.get() returns, and the call that committed goes on.
GetReturns ==
    /\ pc = "get" /\ future = "ok"
    /\ pc' = "idle"
    /\ after' = Nothing
    /\ active' = (after.op # "commit")
    /\ IF after.op = "remove"
       THEN SendRemovals(after.reqs)
       ELSE observer' = NoStream /\ UNCHANGED <<future, stream, expected>>
    /\ UNCHANGED db

\* finishFuture.get() throws: the future has failed, or the wait is
\* interrupted.  updateRequestObserver keeps the completed stream.
GetThrows ==
    /\ pc = "get"
    /\ future = "error" \/ MayFail
    /\ pc' = "idle"
    /\ after' = Nothing
    /\ UNCHANGED <<active, observer, future, stream, db, expected>>

\* rollbackInternal cancels the stream.  An answer that has already arrived
\* may be passed on instead of the cancellation.
Rollback ==
    /\ MayRollback
    /\ pc = "idle" /\ active
    /\ observer # NoStream
    /\ \E r \in {"ok", "error", "done"} :
          /\ IF stream[observer].reply = "none" THEN r = "error"
             ELSE r = stream[observer].reply \/ (r = "error" /\ stream[observer].reply = "ok")
          /\ stream' = [stream EXCEPT ![observer].end = "cancelled", ![observer].reply = r]
    /\ observer' = NoStream
    /\ active' = FALSE
    /\ UNCHANGED <<pc, after, future, db, expected>>

\* rollbackInternal throws: there is no stream to cancel.
RollbackThrows ==
    /\ MayRollback
    /\ pc = "idle" /\ active
    /\ observer = NoStream
    /\ active' = FALSE
    /\ UNCHANGED <<pc, after, observer, future, stream, db, expected>>

\* Updates, queries and commit() throw: the stream of a commit that failed is
\* completed, and still in the field.
Throws ==
    /\ pc = "idle" /\ active
    /\ observer # NoStream
    /\ stream[observer].end = "completed"
    /\ UNCHANGED vars

\* Mutant: onError does not reach the future.
CallbackOk(n) ==
    /\ stream[n].reply \in {"ok", "error"}
    /\ future' = IF future = "pending" /\ stream[n].reply = "ok" THEN "ok" ELSE future
    /\ stream' = [stream EXCEPT ![n].reply = "done"]
    /\ UNCHANGED <<active, pc, after, observer, db, expected>>

\* Mutant: the answer is looked at after it was marked as seen.
CallbackStale(n) ==
    /\ stream[n].reply \in {"ok", "error"}
    /\ stream' = [stream EXCEPT ![n].reply = "done"]
    /\ future' = IF future = "pending" THEN stream'[n].reply ELSE future
    /\ UNCHANGED <<active, pc, after, observer, db, expected>>

\* onCompleted and onError of updateResponseObserver.  A future is set once.
Callback(n) ==
    /\ stream[n].reply \in {"ok", "error"}
    /\ future' = IF future = "pending" THEN stream[n].reply ELSE future
    /\ stream' = [stream EXCEPT ![n].reply = "done"]
    /\ UNCHANGED <<active, pc, after, observer, db, expected>>

-----------------------------------------------------------------------------
(* The server: one Update per stream *)

\* A removal deletes what the store holds now, not what the batch adds.
Collected(b, req) ==
    [x \in Item |-> IF x \notin req.items THEN b[x]
                    ELSE IF req.op = "added" THEN "put"
                    ELSE IF x \in db THEN "del" ELSE b[x]]

Read(n) ==
    /\ stream[n].server = "reading"
    /\ stream[n].end # "cancelled" /\ ~stream[n].broken
    /\ stream[n].read < Len(stream[n].sent)
    /\ stream' = [stream EXCEPT ![n].read = @ + 1,
                                ![n].batch = Collected(@, stream[n].sent[stream[n].read + 1])]
    /\ UNCHANGED <<client, db>>

\* ReaderIterator ends where Read fails: at the end of a completed stream, and
\* as well when the call is cancelled or its connection broken.
Write(n) ==
    /\ stream[n].server = "reading"
    /\ \/ stream[n].end = "completed" /\ stream[n].read = Len(stream[n].sent)
       \/ stream[n].end = "cancelled" \/ stream[n].broken
    /\ db' = {x \in Item : \/ stream[n].batch[x] = "put"
                           \/ stream[n].batch[x] = "none" /\ x \in db}
    /\ stream' = [stream EXCEPT ![n].server = "applied",
                                ![n].reply = IF @ = "none" THEN "ok" ELSE @]
    /\ UNCHANGED client

Lost(c) == [c EXCEPT !.broken = TRUE,
                     !.reply = IF @ \in {"none", "ok"} THEN "error" ELSE @]

\* The connection of a call breaks before its answer has arrived.
Break(n) ==
    /\ MayFail
    /\ stream[n].reply \in {"none", "ok"}
    /\ stream' = [stream EXCEPT ![n] = Lost(@)]
    /\ UNCHANGED <<client, db>>

\* The server dies, with all calls, and is started again.
ServerDies ==
    /\ MayFail
    /\ \E n \in DOMAIN stream : stream[n].server = "reading"
    /\ stream' = [n \in DOMAIN stream |->
                     IF stream[n].server = "reading"
                     THEN [Lost(stream[n]) EXCEPT !.server = "dead"] ELSE Lost(stream[n])]
    /\ UNCHANGED <<client, db>>

-----------------------------------------------------------------------------
Next ==
    \/ Begin \/ Query \/ Commit \/ GetReturns \/ GetThrows
    \/ Rollback \/ RollbackThrows \/ Throws
    \/ \E x \in Item : Add(x)
    \/ \E reqs \in Removals : Remove(reqs)
    \/ \E n \in DOMAIN stream : Callback(n) \/ Read(n) \/ Write(n) \/ Break(n)
    \/ ServerDies

\* gRPC and the server make progress on every call, and the user's thread
\* returns from get() once the future is set.
Spec ==
    /\ Init /\ [][Next]_vars
    /\ \A n \in 1 .. MaxStreams :
          WF_vars(n \in DOMAIN stream /\ (Callback(n) \/ Read(n) \/ Write(n)))
    /\ WF_vars(GetReturns \/ (future = "error" /\ GetThrows))

-----------------------------------------------------------------------------
\* What the fields of the connection and both ends of its streams hold.
TypeOK ==
    /\ active \in BOOLEAN
    /\ pc \in {"idle", "get"}
    /\ after \in [op : {"none", "query", "commit"}, reqs : {<<>>}]
                    \cup [op : {"remove"}, reqs : Removals]
    /\ observer \in 0 .. Len(stream)
    /\ future \in {"none", "pending", "ok", "error"}
    /\ stream \in Seq(Call)
    /\ db \in SUBSET Item
    /\ expected \in SUBSET Item

\* No stream has a removal behind an addition.  The server looks removals up
\* in the database and not in its batch, and would keep a statement that is
\* added and then removed; the commit before every removal prevents that.
RemovalsFirst ==
    \A n \in DOMAIN stream : \A i, j \in DOMAIN stream[n].sent :
        i < j /\ stream[n].sent[i].op = "added" => stream[n].sent[j].op = "added"

\* The connection has not rolled a stream back.
NoneCancelled == \A n \in DOMAIN stream : stream[n].end # "cancelled"

\* A commit that returns has brought the store to where the updates issued so
\* far lead, one after the other, whatever queries and removals committed on
\* the way.  The cancellation of a stream voids this for the rest of the
\* connection; broken connections and dying servers do not.
CommitTakesEffect == [][GetReturns /\ NoneCancelled => db = expected]_vars

\* "Transaction committed.": a commit that returns is applied by the server.
\* The code does not keep this: see the README.
CommitIsApplied == [][GetReturns => stream[observer].server = "applied"]_vars

\* "Error while writing to server": commit throws only if its own call failed.
\* The code does not keep this: see the README.
CommitErrorIsReal == [][GetThrows => stream[observer].broken]_vars

\* "transaction rollback": nothing a cancelled stream carried is applied.
\* The code does not keep this: see the README.
RollbackDiscards ==
    \A n \in DOMAIN stream :
        stream[n].end = "cancelled" /\ stream[n].server = "applied" => stream[n].batch = NoBatch

\* A commit comes back to the user, with an error if the call failed.
CommitReturns == pc = "get" ~> pc = "idle"

-----------------------------------------------------------------------------
(* The inductive invariants behind them *)

SailInvariant == TypeOK /\ RemovalsFirst

\* What the first k of some requests add, and what they remove.
AddedBy(reqs, k) ==
    {x \in Item : \E i \in 1 .. k : reqs[i].op = "added" /\ x \in reqs[i].items}
RemovedBy(reqs, k) ==
    {x \in Item : \E i \in 1 .. k : reqs[i].op = "removed" /\ x \in reqs[i].items}

\* The call in the field.
Current == stream[observer]

\* Its batch stands for the requests read: their additions, and deletions of what
\* the store holds of their removals.
BatchOfRead ==
    /\ Current.read <= Len(Current.sent)
    /\ \A x \in Item :
        /\ Current.batch[x] = "put" <=> x \in AddedBy(Current.sent, Current.read)
        /\ Current.batch[x] = "del" <=> /\ x \in db
                                       /\ x \in RemovedBy(Current.sent, Current.read)
                                       /\ x \notin AddedBy(Current.sent, Current.read)

\* All of its requests together lead from what the store holds to what is expected.
AllToExpected ==
    expected = (db \ RemovedBy(Current.sent, Len(Current.sent)))
                  \cup AddedBy(Current.sent, Len(Current.sent))

\* Once it is answered with success, it has been applied as a whole.
InFlight ==
    /\ Current.broken => Current.reply # "none"
    /\ future = "ok" => Current.reply = "done"
    /\ Current.reply = "ok" \/ future = "ok" =>
        Current.server = "applied" /\ Current.end = "completed" /\ db = expected
    /\ Current.server = "reading" => BatchOfRead /\ AllToExpected

\* All calls but the one in the field have been applied and answered.
OthersDone ==
    \A n \in DOMAIN stream :
        n # observer => stream[n].server = "applied" /\ stream[n].reply = "done"

CallsInTurn ==
    /\ pc = "get" => observer # NoStream
    /\ NoneCancelled =>
        /\ OthersDone
        /\ observer = NoStream => db = expected
        /\ observer # NoStream => InFlight
=============================================================================
