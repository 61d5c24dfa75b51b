------------------------- MODULE ShardingRefinement -------------------------
(***************************************************************************)
(* The sharding proxy with its backends as one TripleStore, as long as its *)
(* calls do not overlap and no backend fails: the store that the answers   *)
(* of all backends together show, and the calls of the proxy's clients.    *)
(***************************************************************************)
EXTENDS Sharding

CONSTANT Keep   \* a key that a call does not change

\* The changes that backend b will have collected for h once it has read what
\* is forwarded to it.
Collected(h, b) ==
    LET after[i \in 0 .. Len(link[h][b])] ==
            IF i = 0 THEN batch[h][b] ELSE Collect(after[i - 1], link[h][b][i], shard[b])
    IN  after[Len(link[h][b])]

\* A call takes effect when the first of its backends has written it: what the
\* others will write is then settled.
Effective(h) == pc[h] \in {"finish", "fanout"} /\ todo[h] # Bucket

\* What backend b holds, with what it is still to write of calls in effect.
Holds(b) ==
    IF \E h \in Handler : Effective(h) /\ b \in todo[h]
    THEN Apply(Collected(CHOOSE h \in Handler : Effective(h) /\ b \in todo[h], b), shard[b])
    ELSE shard[b]

\* What backends say of k, each b in B that f[b], taken together: of a statement
\* one backend speaks, of a namespace all alike.  Anything else is nothing that
\* a TripleStore could hold.
Together(k, B, f) ==
    IF \E b \in B : (B = IF k \in Prefix THEN Bucket ELSE {b}) /\ \A a \in B : f[a] = f[b]
    THEN f[CHOOSE b \in B : TRUE] ELSE "torn"

AbstractStore ==
    LET held == [b \in Bucket |-> Holds(b)]
    IN  [k \in Key |->
            LET holders == {b \in Bucket : held[b][k] # Absent}
            IN  IF holders = {} THEN Absent
                ELSE Together(k, holders, [b \in holders |-> held[b][k]])]

AbstractState ==
    [h \in Handler |-> IF pc[h] = "read" THEN "open"
                       ELSE IF pc[h] = "idle" \/ Effective(h) THEN "idle" ELSE "closing"]

AbstractPending ==
    [h \in Handler |->
        LET collected == [b \in Bucket |-> Collected(h, b)]
        IN  [k \in Key |->
                LET changers == {b \in Bucket : k \in DOMAIN collected[b]}
                IN  IF AbstractState[h] = "idle" \/ changers = {} THEN Keep
                    ELSE Together(k, changers, [b \in changers |-> collected[b][k]])]]

Server == INSTANCE TripleStore WITH
    Call <- Handler, store <- AbstractStore, state <- AbstractState,
    pending <- AbstractPending, unknown <- {}

\* AddStatements, AddNamespaces, Update, RemoveStatements and Clear of the proxy
\* have the effect they would have on one server, all at once: each statement is
\* on one backend, each namespace the same on all, whatever the order in which
\* backends read their part of a stream and write it.
ImplementsTripleStore == Server!Safety
=============================================================================
