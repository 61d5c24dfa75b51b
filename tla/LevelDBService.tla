--------------------------- MODULE LevelDBService ---------------------------
(***************************************************************************)
(* The handlers of LevelDBService that put together an answer from several *)
(* calls of LevelDBPersistence: Clear and Size take a list of contexts and *)
(* go through them one by one.  RemoveStatements is such a Clear           *)
(* of a single pattern.                                                    *)
(*                                                                         *)
(* Other calls run in between.  RemoveStatements first scans an index and  *)
(* then writes its batches; the writes to the four indexes are one step    *)
(* here (see LevelDBPersistence).                                          *)
(***************************************************************************)
EXTENDS StatementIndex, FiniteSets, Sequences, Functions

CONSTANTS
    Handler,        \* the threads that serve requests
    Removals,       \* the patterns RemoveStatements is called with
    MaxContexts,    \* bound on the contexts of a request
    MaxAdded        \* bound on the statements added

ASSUME ServiceAssumption ==
    Removals \subseteq Pattern /\ MaxContexts \in Nat /\ MaxAdded \in Nat

VARIABLES
    store,      \* the statements stored
    pc,         \* per handler: "idle", "next" or "write"
    method,     \* per handler, the method called
    todo,       \* per handler, the patterns it has yet to go through
    found,      \* per handler, what RemoveStatements has found and will delete
    count,      \* per handler, the number it will return
    added,      \* history: how often statements were added
    deleted,    \* history: the deletions reported to clients
    before,     \* history: per handler, what was stored at the call
    again,      \* history: per handler, what was added since the call
    asked       \* history: per handler, the patterns of the call

history == <<added, deleted, before, again, asked>>
vars == <<store, pc, method, todo, found, count, history>>

AnyStatement == [s |-> Unset, p |-> Unset, o |-> Unset, c |-> Unset]

InContext(c) == [AnyStatement EXCEPT !.c = c]

\* The lists of contexts a client may send; Clear and Size of none are
\* RemoveStatements and Size of the whole store.
Requests ==
    {<<AnyStatement>>} \cup
        {[i \in DOMAIN l |-> InContext(l[i])] :
            l \in UNION {[1 .. n -> Context] : n \in 1 .. MaxContexts}}

Init ==
    /\ store = {}
    /\ pc = [h \in Handler |-> "idle"]
    /\ method = [h \in Handler |-> "none"]
    /\ todo = [h \in Handler |-> <<>>]
    /\ found = [h \in Handler |-> {}]
    /\ count = [h \in Handler |-> 0]
    /\ added = 0
    /\ deleted = 0
    /\ before = [h \in Handler |-> {}]
    /\ again = [h \in Handler |-> {}]
    /\ asked = [h \in Handler |-> <<>>]

-----------------------------------------------------------------------------
Call(h, m, patterns) ==
    /\ pc[h] = "idle"
    /\ pc' = [pc EXCEPT ![h] = "next"]
    /\ method' = [method EXCEPT ![h] = m]
    /\ todo' = [todo EXCEPT ![h] = patterns]
    /\ before' = [before EXCEPT ![h] = store]
    /\ asked' = [asked EXCEPT ![h] = patterns]
    /\ UNCHANGED <<store, found, count, added, deleted, again>>

Clear(h) == \E patterns \in Requests : Call(h, "Clear", patterns)

Size(h) == \E patterns \in Requests : Call(h, "Size", patterns)

RemoveStatements(h) == \E pat \in Removals : Call(h, "RemoveStatements", <<pat>>)

\* Mutant: Size counts the whole store for every context.
CountAll(h) ==
    /\ pc[h] = "next" /\ method[h] = "Size"
    /\ todo[h] # <<>>
    /\ count' = [count EXCEPT ![h] = @ + Cardinality(store)]
    /\ todo' = [todo EXCEPT ![h] = Tail(@)]
    /\ UNCHANGED <<store, pc, method, found, history>>

\* Size: one more context is counted.
Count(h) ==
    /\ pc[h] = "next" /\ method[h] = "Size"
    /\ todo[h] # <<>>
    /\ count' = [count EXCEPT ![h] = @ + Cardinality(Scan(store, Head(todo[h])))]
    /\ todo' = [todo EXCEPT ![h] = Tail(@)]
    /\ UNCHANGED <<store, pc, method, found, history>>

\* Mutant: the context is not put into the pattern.
FindAll(h) ==
    /\ pc[h] = "next" /\ method[h] # "Size"
    /\ todo[h] # <<>>
    /\ found' = [found EXCEPT ![h] = store]
    /\ todo' = [todo EXCEPT ![h] = Tail(@)]
    /\ pc' = [pc EXCEPT ![h] = "write"]
    /\ UNCHANGED <<store, method, count, history>>

\* persistence->RemoveStatements: what matches is looked up ...
Find(h) ==
    /\ pc[h] = "next" /\ method[h] # "Size"
    /\ todo[h] # <<>>
    /\ found' = [found EXCEPT ![h] = Scan(store, Head(todo[h]))]
    /\ todo' = [todo EXCEPT ![h] = Tail(@)]
    /\ pc' = [pc EXCEPT ![h] = "write"]
    /\ UNCHANGED <<store, method, count, history>>

\* Mutant: only the last context is deleted from the store.
DeleteLast(h) ==
    /\ pc[h] = "write"
    /\ store' = IF todo[h] = <<>> THEN store \ found[h] ELSE store
    /\ count' = [count EXCEPT ![h] = @ + Cardinality(found[h])]
    /\ found' = [found EXCEPT ![h] = {}]
    /\ pc' = [pc EXCEPT ![h] = "next"]
    /\ UNCHANGED <<method, todo, history>>

\* ... and deleted.
Delete(h) ==
    /\ pc[h] = "write"
    /\ store' = store \ found[h]
    /\ count' = [count EXCEPT ![h] = @ + Cardinality(found[h])]
    /\ found' = [found EXCEPT ![h] = {}]
    /\ pc' = [pc EXCEPT ![h] = "next"]
    /\ UNCHANGED <<method, todo, history>>

Done(h) == pc[h] = "next" /\ todo[h] = <<>>

Return(h) ==
    /\ Done(h)
    /\ pc' = [pc EXCEPT ![h] = "idle"]
    /\ method' = [method EXCEPT ![h] = "none"]
    /\ count' = [count EXCEPT ![h] = 0]
    /\ deleted' = IF method[h] = "Size" THEN deleted ELSE deleted + count[h]
    /\ before' = [before EXCEPT ![h] = {}]
    /\ again' = [again EXCEPT ![h] = {}]
    /\ asked' = [asked EXCEPT ![h] = <<>>]
    /\ UNCHANGED <<store, todo, found, added>>

\* AddStatements or Update of another client is written.
Add(x) ==
    /\ added < MaxAdded
    /\ store' = store \cup {x}
    /\ added' = added + 1
    /\ again' = [h \in Handler |-> IF pc[h] = "idle" THEN {} ELSE again[h] \cup {x}]
    /\ UNCHANGED <<pc, method, todo, found, count, deleted, before, asked>>

-----------------------------------------------------------------------------
Next ==
    \/ \E x \in Statement : Add(x)
    \/ \E h \in Handler :
        \/ Clear(h) \/ Size(h) \/ RemoveStatements(h)
        \/ Count(h) \/ Find(h) \/ Delete(h) \/ Return(h)

Spec == Init /\ [][Next]_vars

-----------------------------------------------------------------------------
Asked(h, x) == \E i \in DOMAIN asked[h] : matches(x, asked[h][i])

\* Nothing was written between the call of h and now: what was deleted could
\* only be back by being added again.
Undisturbed(h) == store = before[h] /\ again[h] = {}

\* When Clear returns, nothing is left of what its contexts held when it was
\* called, except what other clients have added again in the meantime.  It goes
\* through its contexts one by one, with other calls in between.
ClearedAll ==
    \A h \in Handler : Done(h) /\ method[h] = "Clear"
        => \A x \in before[h] \cap store : Asked(h, x) => x \in again[h]

\* Clear deletes no statement of a context that it was not asked to clear,
\* whatever was stored when it was called or has been added since.
ClearsOnlyAsked ==
    [][\A h \in Handler : method[h] = "Clear" /\ Delete(h)
        => \A x \in store \ store' : Asked(h, x)]_vars

\* Undisturbed, Size of different contexts is the number of statements in them.
SizeExact ==
    \A h \in Handler :
        Done(h) /\ method[h] = "Size" /\ Undisturbed(h) /\ IsInjective(asked[h])
            => count[h] = Cardinality({x \in store : Asked(h, x)})

\* "Count the number of statements in the contexts specified in the request."
\* (sail.proto): naming a context twice does not put its statements in it twice.
\* The code does not keep this: see the README.
SizeOfContexts ==
    \A h \in Handler : Done(h) /\ method[h] = "Size" /\ Undisturbed(h)
        => count[h] = Cardinality({x \in store : Asked(h, x)})

\* "Returns the number of statements deleted." (sail.proto, RemoveStatements):
\* clients are never told of more deletions than statements were added.
\* The code does not keep this: see the README.
DeletedWereAdded == deleted <= added

-----------------------------------------------------------------------------
(* The inductive invariant behind them *)

TypeOK ==
    /\ store \in SUBSET Statement /\ IsFiniteSet(store)
    /\ pc \in [Handler -> {"idle", "next", "write"}]
    /\ method \in [Handler -> {"none", "Clear", "Size", "RemoveStatements"}]
    /\ todo \in [Handler -> Seq(Pattern)]
    /\ found \in [Handler -> SUBSET Statement] /\ \A h \in Handler : IsFiniteSet(found[h])
    /\ count \in [Handler -> Nat]
    /\ added \in Nat /\ deleted \in Nat
    /\ before \in [Handler -> SUBSET Statement]
    /\ again \in [Handler -> SUBSET Statement]
    /\ asked \in [Handler -> Seq(Pattern)]

\* How many of its patterns h has gone through; the last one may be half done.
Through(h) == Len(asked[h]) - Len(todo[h])

\* A call has the patterns that it was asked for before it, one after the other.
InTurn(h) ==
    IF pc[h] = "idle" THEN count[h] = 0 /\ again[h] = {}
    ELSE /\ method[h] # "none"
         /\ method[h] # "RemoveStatements" => asked[h] \in Requests
         /\ Len(todo[h]) <= Len(asked[h])
         /\ \A i \in 1 .. Len(todo[h]) : todo[h][i] = asked[h][Through(h) + i]
         /\ pc[h] = "write" => method[h] # "Size" /\ Through(h) >= 1

\* Of the patterns gone through nothing is left of what was there before, but for
\* what was added again, or is found and about to be deleted.
Cleared(h) ==
    pc[h] # "idle" /\ method[h] # "Size" =>
        \A x \in before[h] \cap store : \A i \in 1 .. Through(h) :
            matches(x, asked[h][i]) =>
                \/ x \in again[h]
                \/ pc[h] = "write" /\ i = Through(h) /\ x \in found[h]

\* Clear has found statements of its context only.
FoundAsked(h) ==
    pc[h] = "write" /\ method[h] = "Clear" =>
        \A x \in found[h] : matches(x, asked[h][Through(h)])

\* The statements of the patterns h has gone through.
Passed(h) == {x \in store : \E i \in 1 .. Through(h) : matches(x, asked[h][i])}

\* The store only shrinks without additions, and if it has not, what was counted
\* is what is there.
Counts(h) ==
    pc[h] # "idle" /\ again[h] = {} =>
        /\ store \subseteq before[h]
        /\ method[h] = "Size" /\ store = before[h] /\ IsInjective(asked[h])
              => count[h] = Cardinality(Passed(h))

Sound(h) == InTurn(h) /\ Cleared(h) /\ FoundAsked(h) /\ Counts(h)

ServiceInvariant == TypeOK /\ \A h \in Handler : Sound(h)
=============================================================================
