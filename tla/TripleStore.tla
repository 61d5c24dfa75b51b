----------------------------- MODULE TripleStore -----------------------------
(***************************************************************************)
(* What a server of sail.proto promises to those who call it: one store of *)
(* entries under keys, changed by calls.  A call collects the changes of   *)
(* its requests and then makes them all, in one step as far as a reader of *)
(* settled keys can tell.  LevelDBPersistence and Sharding are shown to    *)
(* implement it; CommandLineClient is composed with it.                    *)
(*                                                                         *)
(* Two calls that are written at the same time and disagree about a key,   *)
(* and a crash while a call is written, leave the value of the keys        *)
(* concerned unknown, until a call that is alone writes them again.        *)
(***************************************************************************)
CONSTANTS
    Key, Value,     \* what is stored: keys and their values
    Absent, Keep,   \* no entry under a key; a key that a call does not change
    Target,         \* the sets of keys that removal requests match
    Call            \* the calls a server can serve at the same time

VARIABLES
    store,      \* the value of every key
    state,      \* per call: "idle", "open" or "closing"
    pending,    \* per call, the changes it has collected
    unknown     \* the keys whose value is unknown

vars == <<store, state, pending, unknown>>

NoChange == [k \in Key |-> Keep]
Nothing == [k \in Key |-> Absent]

Init ==
    /\ store = Nothing
    /\ state = [c \in Call |-> "idle"]
    /\ pending = [c \in Call |-> NoChange]
    /\ unknown = {}

-----------------------------------------------------------------------------
\* A call other than those of C is writing key k.
Busy(k, C) == \E c \in Call \ C : state[c] = "closing" /\ pending[c][k] # Keep

\* What a request that reads the keys T may find in the store.  A reader of
\* several indexes may or may not see a key that is being written.
Found(T) ==
    LET vague == {k \in T : k \in unknown \/ Busy(k, {})}
    IN  {{k \in T \ vague : store[k] # Absent} \cup E : E \in SUBSET vague}

Deleted(changes, D) == [k \in Key |-> IF k \in D THEN Absent ELSE changes[k]]

Applied(changes) ==
    [k \in Key |-> IF k \in unknown \/ changes[k] = Keep THEN store[k] ELSE changes[k]]

\* The store stays as it is, but for the keys whose value was or is now unknown.
KeepKnown ==
    \E now \in [unknown \ unknown' -> Value \cup {Absent}] :
        store' = [k \in Key |-> IF k \in unknown' THEN Absent
                                ELSE IF k \in unknown THEN now[k] ELSE store[k]]

\* Call c starts to write its changes.
Settle(c, changes) ==
    /\ unknown' = {k \in Key :
          \/ \E g \in Call \ {c} : /\ state[g] = "closing" /\ pending[g][k] # Keep
                                   /\ changes[k] \notin {Keep, pending[g][k]}
          \/ k \in unknown /\ (changes[k] = Keep \/ Busy(k, {c}))}
    /\ KeepKnown

-----------------------------------------------------------------------------
\* AddStatements, AddNamespaces or Update is called.
Begin(c) ==
    /\ state[c] = "idle"
    /\ state' = [state EXCEPT ![c] = "open"]
    /\ UNCHANGED <<store, pending, unknown>>

\* A request to store v under k is read.
Put(c, k, v) ==
    /\ state[c] = "open"
    /\ pending' = [pending EXCEPT ![c] = [@ EXCEPT ![k] = v]]
    /\ UNCHANGED <<store, state, unknown>>

\* A request to remove the keys T is read: the entries found now.
Delete(c, T) ==
    /\ state[c] = "open"
    /\ \E D \in Found(T) : pending' = [pending EXCEPT ![c] = Deleted(@, D)]
    /\ UNCHANGED <<store, state, unknown>>

\* The stream of requests is over.
Close(c) ==
    /\ state[c] = "open"
    /\ state' = [state EXCEPT ![c] = "closing"]
    /\ Settle(c, pending[c])
    /\ UNCHANGED pending

\* RemoveStatements: a call of one request.  It may be answered at once, or
\* overlap with others between its search and its writes.
Remove(c, T) ==
    /\ state[c] = "idle"
    /\ \E D \in Found(T) :
          /\ pending' = [pending EXCEPT ![c] = Deleted(NoChange, D)]
          /\ \/ /\ state' = [state EXCEPT ![c] = "open"]
                /\ UNCHANGED <<store, unknown>>
             \/ /\ state' = [state EXCEPT ![c] = "closing"]
                /\ Settle(c, Deleted(NoChange, D))

\* The changes of call c are made, all of them.
Commit(c) ==
    /\ state[c] = "closing"
    /\ store' = Applied(pending[c])
    /\ state' = [state EXCEPT ![c] = "idle"]
    /\ pending' = [pending EXCEPT ![c] = NoChange]
    /\ UNCHANGED unknown

\* The server dies and is started again.
Crash ==
    /\ state' = [c \in Call |-> "idle"]
    /\ pending' = [c \in Call |-> NoChange]
    /\ unknown' = unknown \cup {k \in Key : Busy(k, {})}
    /\ KeepKnown

Next ==
    \/ \E c \in Call :
        \/ Begin(c)
        \/ \E k \in Key, v \in Value : Put(c, k, v)
        \/ \E T \in Target : Delete(c, T) \/ Remove(c, T)
        \/ Close(c)
        \/ Commit(c)
    \/ Crash

Safety == Init /\ [][Next]_vars

\* A call whose stream is over is written, unless the server dies.
Spec == Safety /\ \A c \in Call : WF_vars(Commit(c))
=============================================================================
