-------------------------- MODULE LevelDBRefinement --------------------------
(***************************************************************************)
(* LevelDBPersistence as a TripleStore of statements: the store that its   *)
(* callers see behind the four statement databases.                        *)
(***************************************************************************)
EXTENDS LevelDBPersistence

\* A statement that is being written is there if the last call that has been
\* written completely says so.  One that nobody writes is stored if all four
\* databases hold it and absent if none does; databases that disagree about it
\* hold nothing that a TripleStore could.
AbstractStore ==
    [x \in Statement |->
        IF x \in inDoubt THEN "del"
        ELSE IF ~Settled(x) THEN IF x \in committed THEN "put" ELSE "del"
        ELSE IF \A d \in StmtDB : x \in index[d] THEN "put"
        ELSE IF \A d \in StmtDB : x \notin index[d] THEN "del" ELSE "torn"]

\* A call is over, for its callers, when its statements are written: the
\* namespaces are not keys of this store.
AbstractState ==
    [h \in Handler |->
        IF Writing(h) THEN "closing"
        ELSE IF pc[h] = "collect" /\ call[h] # "AddNamespaces" THEN "open" ELSE "idle"]

AbstractPending ==
    [h \in Handler |-> IF AbstractState[h] = "idle" THEN [x \in Statement |-> "none"]
                                                    ELSE batch[h]["spoc"]]

\* The statements a removal request with some pattern concerns.
RemovalTarget == {Scan(Statement, pat) : pat \in Pattern}

Server == INSTANCE TripleStore WITH
    Key <- Statement, Value <- {"put"}, Absent <- "del", Keep <- "none",
    Target <- RemovalTarget, Call <- Handler,
    store <- AbstractStore, state <- AbstractState, pending <- AbstractPending,
    unknown <- inDoubt

\* The writer threads of AddStatements, RemoveStatements and Update on four
\* databases, with any interleaving and crashes, look to callers like calls that
\* change one store in one step each.
ImplementsTripleStore == Server!Safety
=============================================================================
