----------------------- MODULE LevelDBStatementProofs -----------------------
(***************************************************************************)
(* The statement databases of LevelDBPersistence, and that they implement  *)
(* TripleStore, for every number of handlers and crashes and every set of  *)
(* statements.                                                             *)
(***************************************************************************)
EXTENDS LevelDBRefinement, LevelDBPersistenceProofs

-----------------------------------------------------------------------------
\* A step that leaves the statement databases alone, and changes the batches
\* only of handlers that have no statements to write, disturbs nothing that
\* the invariant says of writers.
LEMMA OthersKeep ==
    ASSUME IndexInvariant,
           \A g \in Handler :
              \/ ~Writing(g) /\ ~Writing(g)'
              \/ /\ pc'[g] = pc[g] /\ batch'[g] = batch[g]
                 /\ todo'[g] \cap StmtDB = todo[g] \cap StmtDB,
           UNCHANGED <<index, committed, inDoubt>>
    PROVE  WritersAgree' /\ WrittenHolds' /\ IndexesHoldCommitted'
<1>1. \A g \in Handler : Writing(g)' <=> Writing(g)
  BY DEF Writing
<1>2. \A g \in Handler : Writing(g) => /\ batch'[g] = batch[g]
                                       /\ StmtDB \ todo'[g] = StmtDB \ todo[g]
  BY DEF Writing
<1>3. \A g \in Handler, x \in Statement : Writing(g) => (Touches(g, x)' <=> Touches(g, x))
  BY <1>2 DEF Touches
<1>4. WritersAgree'
  BY <1>1, <1>2, <1>3 DEF IndexInvariant, WritersAgree
<1>5. WrittenHolds'
  BY <1>1, <1>2, <1>3 DEF IndexInvariant, WrittenHolds
<1>6. IndexesHoldCommitted'
  BY <1>1, <1>3 DEF IndexInvariant, IndexesHoldCommitted, Settled
<1> QED
  BY <1>4, <1>5, <1>6

\* The writer threads of h start.  A statement that h touches alone leaves
\* doubt; one that another writer changes the other way enters it.
LEMMA StartWritersKeeps ==
    ASSUME IndexInvariant, NEW h \in Handler, StartWriters(h)
    PROVE  WritersAgree' /\ WrittenHolds' /\ IndexesHoldCommitted'
<1>1. /\ UNCHANGED <<index, batch, committed, call>>
      /\ \A g \in Handler \ {h} : pc'[g] = pc[g] /\ todo'[g] = todo[g]
      /\ pc[h] = "collect" /\ todo'[h] = Writers(call[h])
  BY DEF StartWriters, dbs, batches, IndexInvariant, TypeOK
<1>2. \A g \in Handler, x \in Statement : Touches(g, x)' <=> Touches(g, x)
  BY <1>1 DEF Touches
<1>3. \A g \in Handler \ {h} : Writing(g)' <=> Writing(g)
  BY <1>1 DEF Writing
<1>4. ~Writing(h)
  BY <1>1 DEF Writing
<1>5. \A x \in Statement : Touches(h, x) => StmtDB \subseteq todo'[h]
  <2>1. \A x \in Statement : Touches(h, x) => call[h] # "AddNamespaces"
    BY DEF IndexInvariant, BatchesClean, Touches, EmptyBatch, StmtDB
  <2> QED
    BY <1>1, <2>1 DEF Writers, DB
<1>6. \A x \in Statement \ inDoubt' : /\ ~Conflict(h, x)
                                      /\ x \in inDoubt => Touches(h, x) /\ Alone(h, x)
  BY DEF StartWriters
<1>7. WritersAgree'
  <2> SUFFICES ASSUME NEW x \in Statement \ inDoubt', NEW f \in Handler, NEW g \in Handler,
                      Writing(f)', Writing(g)', Touches(f, x)', Touches(g, x)'
               PROVE  batch'[f]["spoc"][x] = batch'[g]["spoc"][x]
    BY DEF WritersAgree
  <2>1. CASE f = h \/ g = h
    BY <2>1, <1>1, <1>2, <1>3, <1>6 DEF Conflict
  <2>2. CASE f # h /\ g # h
    BY <2>2, <1>1, <1>2, <1>3, <1>6 DEF Alone, IndexInvariant, WritersAgree
  <2> QED
    BY <2>1, <2>2
<1>8. WrittenHolds'
  <2> SUFFICES ASSUME NEW x \in Statement \ inDoubt', NEW g \in Handler,
                      Writing(g)', Touches(g, x)', NEW d \in StmtDB \ todo'[g]
               PROVE  x \in index'[d] <=> batch'[g]["spoc"][x] = "put"
    BY DEF WrittenHolds
  <2>1. g # h
    BY <1>2, <1>5
  <2>2. x \notin inDoubt
    BY <2>1, <1>2, <1>3, <1>6 DEF Alone
  <2> QED
    BY <2>1, <2>2, <1>1, <1>2, <1>3 DEF IndexInvariant, WrittenHolds
<1>9. IndexesHoldCommitted'
  <2> SUFFICES ASSUME NEW x \in Statement, Settled(x)'
               PROVE  \A d \in StmtDB : x \in index'[d] <=> x \in committed'
    BY DEF IndexesHoldCommitted
  <2>1. ~Touches(h, x)
    <3> SUFFICES ASSUME Touches(h, x)
                 PROVE  FALSE
      OBVIOUS
    <3>1. Writing(h)'
      BY <1>5 DEF Writing, StartWriters, StmtDB, IndexInvariant, TypeOK
    <3> QED
      BY <3>1, <1>2 DEF Settled
  <2>2. x \notin inDoubt
    BY <2>1, <1>6 DEF Settled
  <2>3. Settled(x)
    BY <2>2, <1>2, <1>3, <1>4 DEF Settled
  <2> QED
    BY <2>3, <1>1 DEF IndexInvariant, IndexesHoldCommitted
<1> QED
  BY <1>7, <1>8, <1>9

\* A writer thread of h writes database d.
LEMMA WriteStatementsKeeps ==
    ASSUME IndexInvariant, NEW h \in Handler, NEW d \in StmtDB, WriteStatements(h, d)
    PROVE  WritersAgree' /\ WrittenHolds' /\ IndexesHoldCommitted'
<1>1. /\ UNCHANGED <<pc, batch, inDoubt>>
      /\ \A g \in Handler \ {h} : todo'[g] = todo[g]
      /\ todo'[h] = todo[h] \ {d}
      /\ pc[h] = "write" /\ d \in todo[h]
  BY DEF WriteStatements, batches, IndexInvariant, TypeOK
<1>2. \A g \in Handler, x \in Statement : Touches(g, x)' <=> Touches(g, x)
  BY <1>1 DEF Touches
<1>3. Writing(h) /\ \A g \in Handler : Writing(g)' => Writing(g)
  BY <1>1 DEF Writing
<1>4. \A x \in Statement : /\ Touches(h, x) => (x \in index'[d] <=> batch[h]["spoc"][x] = "put")
                           /\ ~Touches(h, x) => (x \in index'[d] <=> x \in index[d])
  BY DEF WriteStatements, Apply, Touches, IndexInvariant, BatchesAgree, TypeOK
<1>5. \A e \in StmtDB \ {d} : index'[e] = index[e]
  BY DEF WriteStatements, IndexInvariant, TypeOK
<1>6. WritersAgree'
  <2> SUFFICES ASSUME NEW x \in Statement \ inDoubt, NEW f \in Handler, NEW g \in Handler,
                      Writing(f)', Writing(g)', Touches(f, x)', Touches(g, x)'
               PROVE  batch[f]["spoc"][x] = batch[g]["spoc"][x]
    BY <1>1 DEF WritersAgree
  <2>1. Writing(f) /\ Writing(g) /\ Touches(f, x) /\ Touches(g, x)
    BY <1>2, <1>3
  <2> QED
    BY <2>1 DEF IndexInvariant, WritersAgree
<1>7. WrittenHolds'
  <2> SUFFICES ASSUME NEW x \in Statement \ inDoubt, NEW g \in Handler,
                      Writing(g), Touches(g, x), NEW e \in StmtDB \ todo'[g]
               PROVE  x \in index'[e] <=> batch[g]["spoc"][x] = "put"
    BY <1>1, <1>2, <1>3 DEF WrittenHolds
  <2>1. CASE e = d /\ Touches(h, x)
    BY <2>1, <1>3, <1>4 DEF IndexInvariant, WritersAgree
  <2>2. CASE e = d /\ ~Touches(h, x)
    BY <2>2, <1>1, <1>4 DEF IndexInvariant, WrittenHolds
  <2>3. CASE e # d
    BY <2>3, <1>1, <1>5 DEF IndexInvariant, WrittenHolds
  <2> QED
    BY <2>1, <2>2, <2>3
<1>8. IndexesHoldCommitted'
  <2> SUFFICES ASSUME NEW x \in Statement, Settled(x)', NEW e \in StmtDB
               PROVE  x \in index'[e] <=> x \in committed'
    BY DEF IndexesHoldCommitted
  <2>1. x \notin inDoubt /\ \A g \in Handler : ~(Writing(g)' /\ Touches(g, x))
    BY <1>1, <1>2 DEF Settled
  <2>2. CASE Touches(h, x)
    <3>1. todo[h] \cap StmtDB = {d}
      BY <2>1, <2>2, <1>1 DEF Writing
    <3>2. x \in committed' <=> batch[h]["spoc"][x] = "put"
      BY <3>1, <2>2 DEF WriteStatements, Apply, Touches
    <3>3. CASE e = d
      BY <3>2, <3>3, <2>2, <1>4
    <3>4. CASE e # d
      BY <3>1, <3>2, <3>4, <2>1, <2>2, <1>3, <1>5 DEF IndexInvariant, WrittenHolds
    <3> QED
      BY <3>3, <3>4
  <2>3. CASE ~Touches(h, x)
    <3>1. x \in committed' <=> x \in committed
      BY <2>3 DEF WriteStatements, Apply, Touches, IndexInvariant, TypeOK
    <3>2. \A g \in Handler : ~(Writing(g) /\ Touches(g, x))
      BY <2>1, <2>3, <1>1 DEF Writing
    <3>3. x \in index[e] <=> x \in committed
      BY <3>2, <2>1 DEF IndexInvariant, IndexesHoldCommitted, Settled
    <3> QED
      BY <3>1, <3>3, <2>3, <1>4, <1>5
  <2> QED
    BY <2>2, <2>3
<1> QED
  BY <1>6, <1>7, <1>8

\* A crash ends all calls; what was being written comes into doubt.
LEMMA CrashKeeps ==
    ASSUME IndexInvariant, Crash
    PROVE  WritersAgree' /\ WrittenHolds' /\ IndexesHoldCommitted'
<1>1. \A h \in Handler : ~Writing(h)'
  BY DEF Crash, Writing
<1>2. WritersAgree' /\ WrittenHolds'
  BY <1>1 DEF WritersAgree, WrittenHolds
<1>3. \A x \in Statement : x \notin inDoubt' => Settled(x)
  BY DEF Crash, Settled
<1>4. IndexesHoldCommitted'
  BY <1>3 DEF Crash, dbs, IndexInvariant, IndexesHoldCommitted, Settled
<1> QED
  BY <1>2, <1>4

LEMMA InitIndexInvariant == Init => IndexInvariant
<1> SUFFICES ASSUME Init
             PROVE  IndexInvariant
  OBVIOUS
<1>1. \A h \in Handler : ~Writing(h)
  BY DEF Init, Writing
<1>2. BatchesAgree /\ BatchesClean
  BY DEF Init, BatchesAgree, BatchesClean, EmptyBatch, StmtDB
<1>3. WritersAgree /\ WrittenHolds
  BY <1>1 DEF WritersAgree, WrittenHolds
<1>4. IndexesHoldCommitted
  BY DEF Init, IndexesHoldCommitted
<1> QED
  BY <1>2, <1>3, <1>4, InitType DEF IndexInvariant

\* The statement batches stay alike, and empty where they should be.
LEMMA BatchesKept == IndexInvariant /\ [Next]_vars => BatchesAgree' /\ BatchesClean'
<1> SUFFICES ASSUME IndexInvariant, [Next]_vars
             PROVE  BatchesAgree' /\ BatchesClean'
  OBVIOUS
<1> USE DEF IndexInvariant, TypeOK, BatchesAgree, BatchesClean
<1>1. ASSUME NEW h \in Handler, NEW method \in Method \ {"RemoveStatements"}, Begin(h, method)
      PROVE  BatchesAgree' /\ BatchesClean'
  BY <1>1 DEF Begin, batches
<1>2. ASSUME NEW h \in Handler, NEW x \in Statement, AddStatement(h, x)
      PROVE  BatchesAgree' /\ BatchesClean'
  BY <1>2, ZenonT(30) DEF AddStatement, Message, PutAll, StmtDB
<1>3. ASSUME NEW h \in Handler, NEW pat \in Pattern, RemoveFromUpdate(h, pat)
      PROVE  BatchesAgree' /\ BatchesClean'
  BY <1>3, ZenonT(30) DEF RemoveFromUpdate, Message, DeleteAll, StmtDB
<1>4. ASSUME NEW h \in Handler, NEW pat \in Pattern, RemoveStatements(h, pat)
      PROVE  BatchesAgree' /\ BatchesClean'
  BY <1>4, ZenonT(30) DEF RemoveStatements, DeleteAll, StmtDB
<1>5. ASSUME NEW h \in Handler, NEW ns \in Namespace, AddNamespace(h, ns)
      PROVE  BatchesAgree' /\ BatchesClean'
  BY <1>5 DEF AddNamespace
<1>6. ASSUME NEW h \in Handler, NEW pat \in NamespacePattern, RemoveNamespace(h, pat)
      PROVE  BatchesAgree' /\ BatchesClean'
  BY <1>6 DEF RemoveNamespace
<1>7. ASSUME NEW h \in Handler, StartWriters(h)
      PROVE  BatchesAgree' /\ BatchesClean'
  BY <1>7 DEF StartWriters, batches
<1>8. ASSUME NEW h \in Handler, NEW d \in StmtDB, WriteStatements(h, d)
      PROVE  BatchesAgree' /\ BatchesClean'
  BY <1>8 DEF WriteStatements, batches
<1>9. ASSUME NEW h \in Handler, WriteNsPrefix(h) \/ WriteNsUrl(h)
      PROVE  BatchesAgree' /\ BatchesClean'
  <2>1. WriteNsPrefix(h) => UNCHANGED <<pc, call, batch>>
    BY ONLY DEF WriteNsPrefix, batches
  <2>2. WriteNsUrl(h) => UNCHANGED <<pc, call, batch>>
    BY ONLY DEF WriteNsUrl, batches
  <2> QED
    BY <1>9, <2>1, <2>2
<1>10. ASSUME NEW h \in Handler, Return(h)
       PROVE  BatchesAgree' /\ BatchesClean'
  BY <1>10, ZenonT(30) DEF Return, EmptyBatch, StmtDB
<1>11. CASE Crash
  BY <1>11 DEF Crash, EmptyBatch, StmtDB
<1>12. CASE UNCHANGED vars
  BY <1>12 DEF vars
<1> QED
  BY <1>1, <1>2, <1>3, <1>4, <1>5, <1>6, <1>7, <1>8, <1>9, <1>10, <1>11, <1>12, ZenonT(30)
  DEF Next, Collect, Finish

\* Every step preserves the invariant: the actions that neither start nor
\* perform statement writes by OthersKeep, the others by a lemma each.
LEMMA NextIndexInvariant == IndexInvariant /\ [Next]_vars => IndexInvariant'
<1> SUFFICES ASSUME IndexInvariant, [Next]_vars
             PROVE  WritersAgree' /\ WrittenHolds' /\ IndexesHoldCommitted'
  BY NextType, BatchesKept DEF IndexInvariant
<1> DEFINE Kept == WritersAgree' /\ WrittenHolds' /\ IndexesHoldCommitted'
<1>1. ASSUME NEW h \in Handler, NEW method \in Method \ {"RemoveStatements"}, Begin(h, method)
      PROVE  Kept
  BY <1>1, OthersKeep DEF Begin, dbs, batches, history, Writing, IndexInvariant, TypeOK
<1>2. ASSUME NEW h \in Handler, NEW x \in Statement, AddStatement(h, x)
      PROVE  Kept
  BY <1>2, OthersKeep DEF AddStatement, Message, dbs, history, Writing, IndexInvariant, TypeOK
<1>3. ASSUME NEW h \in Handler, NEW pat \in Pattern, RemoveFromUpdate(h, pat)
      PROVE  Kept
  BY <1>3, OthersKeep DEF RemoveFromUpdate, Message, dbs, history, Writing, IndexInvariant, TypeOK
<1>4. ASSUME NEW h \in Handler, NEW pat \in Pattern, RemoveStatements(h, pat)
      PROVE  Kept
  <2>1. /\ pc[h] = "idle" /\ pc'[h] = "collect"
        /\ \A g \in Handler \ {h} : pc'[g] = pc[g] /\ batch'[g] = batch[g]
        /\ UNCHANGED <<index, todo, committed, inDoubt>>
    BY <1>4 DEF RemoveStatements, dbs, history, IndexInvariant, TypeOK
  <2> QED
    BY <2>1, OthersKeep DEF Writing
<1>5. ASSUME NEW h \in Handler, NEW ns \in Namespace, AddNamespace(h, ns)
      PROVE  Kept
  BY <1>5, OthersKeep DEF AddNamespace, dbs, history
<1>6. ASSUME NEW h \in Handler, NEW pat \in NamespacePattern, RemoveNamespace(h, pat)
      PROVE  Kept
  BY <1>6, OthersKeep DEF RemoveNamespace, dbs, history
<1>7. ASSUME NEW h \in Handler, StartWriters(h)
      PROVE  Kept
  BY <1>7, StartWritersKeeps
<1>8. ASSUME NEW h \in Handler, NEW d \in StmtDB, WriteStatements(h, d)
      PROVE  Kept
  BY <1>8, WriteStatementsKeeps
<1>9. ASSUME NEW h \in Handler, WriteNsPrefix(h) \/ WriteNsUrl(h)
      PROVE  Kept
  <2>1. /\ UNCHANGED <<index, pc, batch, committed, inDoubt>>
        /\ \E n \in {"ns_prefix", "ns_url"} : todo' = [todo EXCEPT ![h] = @ \ {n}]
    <3>1. CASE WriteNsPrefix(h)
      BY <3>1 DEF WriteNsPrefix, batches, history
    <3>2. CASE WriteNsUrl(h)
      BY <3>2 DEF WriteNsUrl, batches, history
    <3> QED
      BY <1>9, <3>1, <3>2
  <2>2. \A g \in Handler : todo'[g] \cap StmtDB = todo[g] \cap StmtDB
    <3>1. todo \in [Handler -> SUBSET DB]
      BY DEF IndexInvariant, TypeOK
    <3> QED
      BY <2>1, <3>1 DEF StmtDB
  <2> QED
    BY <2>1, <2>2, OthersKeep
<1>10. ASSUME NEW h \in Handler, Return(h)
       PROVE  Kept
  BY <1>10, OthersKeep DEF Return, dbs, history, Writing, IndexInvariant, TypeOK
<1>11. CASE Crash
  BY <1>11, CrashKeeps
<1>12. CASE UNCHANGED vars
  BY <1>12, OthersKeep, ZenonT(30) DEF vars
<1> QED
  BY <1>1, <1>2, <1>3, <1>4, <1>5, <1>6, <1>7, <1>8, <1>9, <1>10, <1>11, <1>12
  DEF Next, Collect, Finish

\* The invariant holds throughout.
THEOREM IndexInvariantHolds == Spec => []IndexInvariant
<1> QED
  BY InitIndexInvariant, NextIndexInvariant, PTL DEF Spec

\* The four statement databases agree on every settled statement, with what
\* the last complete call said of it.
THEOREM IndexesConsistent == Spec => []IndexesHoldCommitted
<1>1. IndexInvariant => IndexesHoldCommitted
  BY DEF IndexInvariant
<1> QED
  BY <1>1, IndexInvariantHolds, PTL

\* A query finds a settled statement by every pattern that matches it,
\* exactly if the last complete call to concern it added it.
THEOREM QueriesConsistent == Spec => []QueriesSeeCommitted
<1>1. IndexInvariant => QueriesSeeCommitted
  <2> SUFFICES ASSUME IndexInvariant, NEW pat \in Pattern, NEW x \in Statement,
                      Settled(x), matches(x, pat)
               PROVE  x \in GetStatements(pat) <=> x \in committed
    BY DEF QueriesSeeCommitted
  <2>1. x \in index[TypeOf(pat)] <=> x \in committed
    BY TypeOfType DEF IndexInvariant, IndexesHoldCommitted
  <2>2. InRange(TypeOf(pat), pat, x)
    BY MatchesInRange
  <2> QED
    BY <2>1, <2>2 DEF GetStatements, Scan
<1> QED
  BY <1>1, IndexInvariantHolds, PTL

\* A call that completes has taken effect in all four databases.
THEOREM CommitsComplete == Spec => CommitCompletes
<1>1. IndexInvariant /\ [Next]_vars => [CommitStep]_vars
  <2> SUFFICES ASSUME IndexInvariant, [Next]_vars, NEW x \in Statement,
                      (x \in committed') # (x \in committed), x \notin inDoubt',
                      NEW e \in StmtDB
               PROVE  x \in index'[e] <=> x \in committed'
    BY DEF CommitStep
  <2>1. PICK h \in Handler, d \in StmtDB : WriteStatements(h, d)
    <3>1. committed' # committed
      OBVIOUS
    <3>2. ASSUME NEW h \in Handler, Collect(h)
          PROVE  committed' = committed
      BY <3>2, ZenonT(30) DEF Collect, Begin, AddStatement, RemoveFromUpdate, RemoveStatements,
                  AddNamespace, RemoveNamespace, StartWriters, history
    <3>3. ASSUME NEW h \in Handler, WriteNsPrefix(h) \/ WriteNsUrl(h) \/ Return(h)
          PROVE  committed' = committed
      BY <3>3 DEF WriteNsPrefix, WriteNsUrl, Return, history
    <3>4. Crash \/ UNCHANGED vars => committed' = committed
      BY DEF Crash, vars
    <3> QED
      BY <3>1, <3>2, <3>3, <3>4 DEF Next, Finish
  <2>2. /\ pc[h] = "write" /\ todo[h] \cap StmtDB = {d}
        /\ committed' = Apply(committed, batch[h]["spoc"])
        /\ x \notin inDoubt /\ Touches(h, x)
    <3>1. /\ pc[h] = "write" /\ todo[h] \cap StmtDB = {d}
          /\ committed' = Apply(committed, batch[h]["spoc"])
          /\ x \notin inDoubt
      BY <2>1 DEF WriteStatements
    <3>2. batch[h]["spoc"] \in [Statement -> {"none", "put", "del"}] /\ committed \subseteq Statement
      BY DEF IndexInvariant, TypeOK, StmtDB
    <3>3. x \in committed' <=> \/ batch[h]["spoc"][x] = "put"
                               \/ batch[h]["spoc"][x] = "none" /\ x \in committed
      BY <3>1 DEF Apply
    <3>4. Touches(h, x)
      BY <3>3 DEF Touches
    <3> QED
      BY <3>1, <3>4
  <2>3. x \in committed' <=> batch[h]["spoc"][x] = "put"
    BY <2>2 DEF Apply, Touches
  <2>4. CASE e = d
    BY <2>1, <2>2, <2>3, <2>4 DEF WriteStatements, Apply, Touches, IndexInvariant, BatchesAgree, TypeOK
  <2>5. CASE e # d
    <3>1. Writing(h) /\ e \in StmtDB \ todo[h]
      BY <2>2, <2>5 DEF Writing
    <3>2. index'[e] = index[e]
      BY <2>1, <2>5 DEF WriteStatements, IndexInvariant, TypeOK
    <3> QED
      BY <2>2, <2>3, <3>1, <3>2 DEF IndexInvariant, WrittenHolds
  <2> QED
    BY <2>4, <2>5
<1> QED
  BY <1>1, IndexInvariantHolds, PTL DEF Spec, CommitCompletes

\* A request read from an AddStatements or Update stream has the effect of being
\* applied after the requests before it, as long as no removal matches what its
\* stream has added.
THEOREM StreamsApplyInOrder == Spec => StreamsInOrder
<1>1. ASSUME IndexInvariant, NEW h \in Handler, NEW x \in Statement
      PROVE  RequestInOrder(h, x)
  <2>1. ASSUME NEW y \in Statement, AddStatement(h, y)
        PROVE  x \in Effect(h)' <=> x \in Effect(h) \cup {y}
    <3>1. index' = index
      BY <2>1 DEF AddStatement, dbs
    <3>2. batch'[h]["spoc"] = [batch[h]["spoc"] EXCEPT ![y] = "put"]
      BY <1>1, <2>1 DEF AddStatement, PutAll, StmtDB, IndexInvariant, TypeOK
    <3>3. batch[h]["spoc"] \in [Statement -> {"none", "put", "del"}]
      BY <1>1 DEF StmtDB, IndexInvariant, TypeOK
    <3> QED
      BY <1>1, <3>1, <3>2, <3>3 DEF Effect, Apply
  <2>2. ASSUME NEW pat \in Pattern, RemoveFromUpdate(h, pat), PrefixPattern(pat), Settled(x),
               batch[h]["spoc"][x] = "put" => ~matches(x, pat)
        PROVE  x \in Effect(h)' <=> x \in Effect(h) /\ ~matches(x, pat)
    <3>1. index' = index
      BY <2>2 DEF RemoveFromUpdate, dbs
    <3>2. batch'[h]["spoc"][x] = IF x \in GetStatements(pat) THEN "del" ELSE batch[h]["spoc"][x]
      BY <1>1, <2>2 DEF RemoveFromUpdate, DeleteAll, StmtDB, IndexInvariant, TypeOK
    <3>3. x \in index[TypeOf(pat)] <=> x \in index["spoc"]
      BY <1>1, <2>2, TypeOfType DEF IndexInvariant, IndexesHoldCommitted, StmtDB
    <3>4. x \in GetStatements(pat) <=> x \in index["spoc"] /\ matches(x, pat)
      BY <2>2, <3>3, PrefixScanExact DEF GetStatements, Scan
    <3> QED
      BY <1>1, <2>2, <3>1, <3>2, <3>4 DEF Effect, Apply
  <2> QED
    BY <2>1, <2>2, ZenonT(30) DEF RequestInOrder
<1>2. IndexInvariant => \A h \in Handler, x \in Statement : RequestInOrder(h, x)
  BY <1>1
<1> QED
  BY <1>2, IndexInvariantHolds, PTL DEF StreamsInOrder

-----------------------------------------------------------------------------
(* The refinement of TripleStore *)

\* The store behind the four databases: by IndexesHoldCommitted, they do not
\* disagree on a settled statement.
StoreValue == [x \in Statement |-> IF x \in committed /\ x \notin inDoubt THEN "put" ELSE "del"]

StoreIsValue == AbstractStore = StoreValue

LEMMA StoreIsCommitted == IndexInvariant => StoreIsValue
<1> SUFFICES ASSUME IndexInvariant, NEW x \in Statement
             PROVE  AbstractStore[x] = StoreValue[x]
  BY DEF AbstractStore, StoreValue, StoreIsValue
<1>1. CASE Settled(x)
  <2>1. x \notin inDoubt /\ \A d \in StmtDB : x \in index[d] <=> x \in committed
    BY <1>1 DEF IndexInvariant, IndexesHoldCommitted, Settled
  <2> QED
    BY <1>1, <2>1 DEF AbstractStore, StoreValue, StmtDB
<1>2. CASE ~Settled(x)
  BY <1>2 DEF AbstractStore, StoreValue
<1> QED
  BY <1>1, <1>2

LEMMA StoreIsCommittedNext == IndexInvariant' => StoreIsValue'
BY StoreIsCommitted, PTL

LEMMA InitImplements == Init => Server!Init
<1> SUFFICES ASSUME Init
             PROVE  Server!Init
  OBVIOUS
<1>1. AbstractStore = [x \in Statement |-> "del"]
  BY InitIndexInvariant, StoreIsCommitted DEF StoreValue, StoreIsValue, Init
<1>2. AbstractState = [h \in Handler |-> "idle"]
  BY DEF Init, AbstractState, Writing
<1>3. AbstractPending = [h \in Handler |-> [x \in Statement |-> "none"]]
  BY <1>2 DEF AbstractPending
<1> QED
  BY <1>1, <1>2, <1>3 DEF Init, Server!Init, Server!Nothing, Server!NoChange

-----------------------------------------------------------------------------
\* A step that leaves the statement part of every call, and what is committed,
\* as it was is not seen by callers.
LEMMA Unseen ==
    ASSUME IndexInvariant, IndexInvariant', UNCHANGED <<committed, inDoubt>>,
           \A g \in Handler : /\ AbstractState'[g] = AbstractState[g]
                              /\ AbstractState[g] # "idle" => batch'[g]["spoc"] = batch[g]["spoc"]
    PROVE  UNCHANGED Server!vars
<1>1. AbstractStore' = AbstractStore
  BY StoreIsCommitted, StoreIsCommittedNext DEF StoreValue, StoreIsValue
<1>2. AbstractState' = AbstractState
  BY DEF AbstractState
<1>3. AbstractPending' = AbstractPending
  BY DEF AbstractPending
<1> QED
  BY <1>1, <1>2, <1>3 DEF Server!vars

\* The types of the variables that the state of a call is made of.
LEMMA CallTypes ==
    ASSUME IndexInvariant
    PROVE  /\ pc \in [Handler -> {"idle", "collect", "write"}]
           /\ call \in [Handler -> Method \cup {"none"}]
           /\ batch \in [Handler -> [StmtDB -> [Statement -> {"none", "put", "del"}]]]
           /\ todo \in [Handler -> SUBSET DB]
BY DEF IndexInvariant, TypeOK

\* A step of the call of h changes only the state and the changes of h.
LEMMA OneCall ==
    ASSUME NEW h \in Handler,
           \A g \in Handler \ {h} : /\ pc'[g] = pc[g] /\ call'[g] = call[g]
                                    /\ batch'[g] = batch[g] /\ todo'[g] = todo[g]
    PROVE  /\ AbstractState' = [AbstractState EXCEPT ![h] = AbstractState'[h]]
           /\ AbstractPending' = [AbstractPending EXCEPT ![h] = AbstractPending'[h]]
<1>1. \A g \in Handler \ {h} : AbstractState'[g] = AbstractState[g]
  BY DEF AbstractState, Writing
<1>2. \A g \in Handler \ {h} : AbstractPending'[g] = AbstractPending[g]
  BY <1>1 DEF AbstractPending
<1>3. /\ AbstractState = [g \in Handler |-> AbstractState[g]]
      /\ AbstractState' = [g \in Handler |-> AbstractState'[g]]
  BY DEF AbstractState
<1>4. /\ AbstractPending = [g \in Handler |-> AbstractPending[g]]
      /\ AbstractPending' = [g \in Handler |-> AbstractPending'[g]]
  BY DEF AbstractPending
<1>5. AbstractState' = [AbstractState EXCEPT ![h] = AbstractState'[h]]
  BY <1>1, <1>3
<1>6. AbstractPending' = [AbstractPending EXCEPT ![h] = AbstractPending'[h]]
  BY <1>2, <1>4
<1> QED
  BY <1>5, <1>6

\* A request finds, of what it concerns, the settled statements that are there.
LEMMA FoundIsStored ==
    ASSUME IndexInvariant, NEW pat \in Pattern
    PROVE  /\ Scan(Statement, pat) \in RemovalTarget
           /\ GetStatements(pat) \in Server!Found(Scan(Statement, pat))
<1> DEFINE T == Scan(Statement, pat)
<1>1. T \in RemovalTarget
  BY DEF RemovalTarget
<1>2. GetStatements(pat) \subseteq T
  BY TypeOfType DEF GetStatements, Scan, IndexInvariant, TypeOK
<1>3. ASSUME NEW x \in T, x \notin inDoubt, ~Server!Busy(x, {})
      PROVE  x \in GetStatements(pat) <=> AbstractStore[x] # "del"
  <2>1. x \in Statement /\ InRange(TypeOf(pat), pat, x)
    BY DEF Scan
  <2>2. Settled(x)
    <3> SUFFICES ASSUME NEW h \in Handler, Writing(h), Touches(h, x)
                 PROVE  FALSE
      BY <1>3 DEF Settled
    <3>1. AbstractState[h] = "closing" /\ AbstractPending[h] = batch[h]["spoc"]
      BY DEF AbstractState, AbstractPending
    <3> QED
      BY <1>3, <3>1 DEF Server!Busy, Touches
  <2>3. x \in index[TypeOf(pat)] <=> x \in committed
    BY <2>1, <2>2, TypeOfType DEF IndexInvariant, IndexesHoldCommitted
  <2>4. AbstractStore[x] = IF x \in committed THEN "put" ELSE "del"
    BY <1>3, <2>1, StoreIsCommitted DEF StoreIsValue, StoreValue
  <2> QED
    BY <2>1, <2>3, <2>4 DEF GetStatements, Scan
<1> DEFINE vague == {x \in T : x \in inDoubt \/ Server!Busy(x, {})}
           E == GetStatements(pat) \cap vague
<1>4. E \in SUBSET vague
  OBVIOUS
<1>5. GetStatements(pat) = {x \in T \ vague : AbstractStore[x] # "del"} \cup E
  BY <1>2, <1>3
<1> QED
  BY <1>1, <1>4, <1>5, ZenonT(30) DEF Server!Found

-----------------------------------------------------------------------------
\* A statement to add is read.
LEMMA AddStep ==
    ASSUME IndexInvariant, IndexInvariant', NEW h \in Handler, NEW x \in Statement,
           AddStatement(h, x)
    PROVE  Server!Put(h, x, "put")
<1>1. /\ pc[h] = "collect" /\ call[h] # "AddNamespaces"
      /\ UNCHANGED <<pc, call, todo, committed, inDoubt>>
      /\ batch' = [batch EXCEPT ![h] = PutAll(@, x)]
  BY DEF AddStatement, Message, history
<1>2. \A g \in Handler \ {h} : batch'[g] = batch[g]
  BY <1>1, CallTypes
<1>3. batch'[h]["spoc"] = [batch[h]["spoc"] EXCEPT ![x] = "put"]
  BY <1>1, CallTypes DEF PutAll, StmtDB
<1>4. AbstractState[h] = "open" /\ AbstractState'[h] = "open"
  BY <1>1 DEF AbstractState, Writing
<1>5. AbstractPending[h] = batch[h]["spoc"] /\ AbstractPending'[h] = batch'[h]["spoc"]
  BY <1>4 DEF AbstractPending
<1>6. AbstractState' = AbstractState
  BY <1>1 DEF AbstractState, Writing
<1>7. AbstractStore' = AbstractStore
  BY <1>1, StoreIsCommitted, StoreIsCommittedNext DEF StoreIsValue, StoreValue
<1> QED
  BY <1>1, <1>2, <1>3, <1>4, <1>5, <1>6, <1>7, OneCall DEF Server!Put

\* A removal is read from the stream of an Update.
LEMMA DeleteStep ==
    ASSUME IndexInvariant, IndexInvariant', NEW h \in Handler, NEW pat \in Pattern,
           RemoveFromUpdate(h, pat)
    PROVE  Server!Delete(h, Scan(Statement, pat))
<1> DEFINE D == GetStatements(pat)
<1>1. /\ pc[h] = "collect" /\ call[h] # "AddNamespaces"
      /\ UNCHANGED <<pc, call, todo, committed, inDoubt>>
      /\ batch' = [batch EXCEPT ![h] = DeleteAll(@, D)]
  BY DEF RemoveFromUpdate, Message, history
<1> HIDE DEF D
<1>2. \A g \in Handler \ {h} : batch'[g] = batch[g]
  BY <1>1, CallTypes
<1>3. batch'[h]["spoc"] = Server!Deleted(batch[h]["spoc"], D)
  BY <1>1, CallTypes DEF DeleteAll, StmtDB, Server!Deleted
<1>4. AbstractState[h] = "open" /\ AbstractState'[h] = "open"
  BY <1>1 DEF AbstractState, Writing
<1>5. AbstractPending[h] = batch[h]["spoc"] /\ AbstractPending'[h] = batch'[h]["spoc"]
  BY <1>4 DEF AbstractPending
<1>6. AbstractState' = AbstractState
  BY <1>1 DEF AbstractState, Writing
<1>7. AbstractStore' = AbstractStore
  BY <1>1, StoreIsCommitted, StoreIsCommittedNext DEF StoreIsValue, StoreValue
<1>8. D \in Server!Found(Scan(Statement, pat))
  BY FoundIsStored DEF D
<1>9. AbstractPending' = [AbstractPending EXCEPT ![h] = Server!Deleted(AbstractPending[h], D)]
  BY <1>1, <1>2, <1>3, <1>5, OneCall, ZenonT(30)
<1> QED
  BY <1>1, <1>4, <1>6, <1>7, <1>8, <1>9, ZenonT(30) DEF Server!Delete

\* RemoveStatements has looked up what it removes.
LEMMA RemoveStep ==
    ASSUME IndexInvariant, IndexInvariant', NEW h \in Handler, NEW pat \in Pattern,
           RemoveStatements(h, pat)
    PROVE  Server!Remove(h, Scan(Statement, pat))
<1> DEFINE D == GetStatements(pat)
<1>1. /\ pc[h] = "idle" /\ UNCHANGED <<todo, committed, inDoubt>>
      /\ pc' = [pc EXCEPT ![h] = "collect"]
      /\ call' = [call EXCEPT ![h] = "RemoveStatements"]
      /\ batch' = [batch EXCEPT ![h] = DeleteAll(@, D)]
  BY DEF RemoveStatements, history
<1> HIDE DEF D
<1>2. /\ \A g \in Handler \ {h} : pc'[g] = pc[g] /\ call'[g] = call[g] /\ batch'[g] = batch[g]
      /\ pc'[h] = "collect" /\ call'[h] = "RemoveStatements"
  BY <1>1, CallTypes
<1>3. batch'[h]["spoc"] = Server!Deleted(Server!NoChange, D)
  <2>1. batch[h]["spoc"] = [x \in Statement |-> "none"]
    <3>1. batch[h] = EmptyBatch
      BY <1>1 DEF IndexInvariant, BatchesClean
    <3> QED
      BY <3>1 DEF EmptyBatch, StmtDB
  <2>2. batch'[h]["spoc"] = [x \in Statement |-> IF x \in D THEN "del" ELSE batch[h]["spoc"][x]]
    BY <1>1, CallTypes DEF DeleteAll, StmtDB
  <2> QED
    BY <2>1, <2>2 DEF Server!Deleted, Server!NoChange
<1>4. AbstractState[h] = "idle" /\ AbstractState'[h] = "open"
  BY <1>1, <1>2, ZenonT(30) DEF AbstractState, Writing
<1>5. AbstractPending'[h] = batch'[h]["spoc"]
  BY <1>4, ZenonT(30) DEF AbstractPending
<1>6. /\ AbstractState' = [AbstractState EXCEPT ![h] = "open"]
      /\ AbstractPending' = [AbstractPending EXCEPT ![h] = Server!Deleted(Server!NoChange, D)]
  BY <1>1, <1>2, <1>3, <1>4, <1>5, OneCall, ZenonT(30)
<1>7. AbstractStore' = AbstractStore
  BY <1>1, StoreIsCommitted, StoreIsCommittedNext DEF StoreIsValue, StoreValue
<1>8. D \in Server!Found(Scan(Statement, pat))
  BY FoundIsStored DEF D
<1> QED
  BY <1>1, <1>4, <1>6, <1>7, <1>8, ZenonT(30) DEF Server!Remove

\* The store as callers see it keeps its values, but for statements in doubt.
LEMMA KnownKept ==
    ASSUME IndexInvariant, IndexInvariant', committed' = committed
    PROVE  Server!KeepKnown
<1>1. /\ AbstractStore = StoreValue
      /\ AbstractStore' = StoreValue'
  BY StoreIsCommitted, StoreIsCommittedNext DEF StoreIsValue
<1>2. StoreValue' \in [Statement -> {"put", "del"}]
  BY DEF StoreValue
<1>3. \A x \in Statement : /\ x \in inDoubt' => StoreValue'[x] = "del"
                           /\ x \notin inDoubt \cup inDoubt' => StoreValue'[x] = StoreValue[x]
  BY DEF StoreValue
<1> DEFINE now == [x \in inDoubt \ inDoubt' |-> StoreValue'[x]]
<1>4. now \in [inDoubt \ inDoubt' -> {"put"} \cup {"del"}]
  <2>1. inDoubt \subseteq Statement
    BY DEF IndexInvariant, TypeOK
  <2> QED
    BY <1>2, <2>1
<1>5. StoreValue' = [x \in Statement |-> IF x \in inDoubt' THEN "del"
                                         ELSE IF x \in inDoubt THEN now[x] ELSE StoreValue[x]]
  BY <1>2, <1>3
<1> QED
  BY <1>1, <1>4, <1>5, ZenonT(30) DEF Server!KeepKnown

\* The writer threads of a call that has statements to write start.
LEMMA CloseStep ==
    ASSUME IndexInvariant, IndexInvariant', NEW h \in Handler, StartWriters(h),
           call[h] # "AddNamespaces"
    PROVE  Server!Close(h)
<1>1. /\ pc[h] = "collect" /\ UNCHANGED <<call, batch, committed>>
      /\ pc' = [pc EXCEPT ![h] = "write"]
      /\ todo' = [todo EXCEPT ![h] = Writers(call[h])]
  BY DEF StartWriters, batches
<1>2. /\ \A g \in Handler \ {h} : pc'[g] = pc[g] /\ todo'[g] = todo[g]
      /\ pc'[h] = "write" /\ todo'[h] = Writers(call[h])
  BY <1>1, CallTypes, ZenonT(30)
<1>3. AbstractState[h] = "open"
  BY <1>1 DEF AbstractState, Writing
<1>4. AbstractState'[h] = "closing"
  <2>1. "spoc" \in Writers(call[h]) \cap StmtDB
    BY DEF Writers, StmtDB, DB
  <2> QED
    BY <1>2, <2>1 DEF AbstractState, Writing
<1>5. AbstractState' = [AbstractState EXCEPT ![h] = "closing"]
  BY <1>1, <1>2, <1>4, OneCall
<1>6. AbstractPending' = AbstractPending
  <2>1. AbstractPending[h] = batch[h]["spoc"] /\ AbstractPending'[h] = batch[h]["spoc"]
    BY <1>1, <1>3, <1>4, ZenonT(30) DEF AbstractPending
  <2>2. AbstractPending' = [AbstractPending EXCEPT ![h] = AbstractPending'[h]]
    BY <1>1, <1>2, OneCall
  <2> QED
    BY <2>1, <2>2, ZenonT(30) DEF AbstractPending
<1>7. \A g \in Handler : /\ AbstractState[g] = "closing" <=> Writing(g)
                         /\ Writing(g) => AbstractPending[g] = batch[g]["spoc"]
  BY ZenonT(30) DEF AbstractState, AbstractPending
<1>8. AbstractPending[h] = batch[h]["spoc"]
  BY <1>3 DEF AbstractPending
<1>9. Server!Settle(h, AbstractPending[h])
  <2>1. ASSUME NEW x \in Statement
        PROVE  /\ Conflict(h, x) <=>
                     \E g \in Handler \ {h} : /\ AbstractState[g] = "closing"
                                             /\ AbstractPending[g][x] # "none"
                                             /\ AbstractPending[h][x] \notin {"none", AbstractPending[g][x]}
               /\ Alone(h, x) <=> ~Server!Busy(x, {h})
               /\ Touches(h, x) <=> AbstractPending[h][x] # "none"
    BY <1>7, <1>8 DEF Conflict, Alone, Touches, Server!Busy
  <2>2. inDoubt' = {x \in Statement : \/ Conflict(h, x)
                                      \/ x \in inDoubt /\ ~(Touches(h, x) /\ Alone(h, x))}
    BY ZenonT(30) DEF StartWriters
  <2> QED
    BY <1>1, <2>1, <2>2, KnownKept, ZenonT(30) DEF Server!Settle
<1> QED
  BY <1>3, <1>5, <1>6, <1>9 DEF Server!Close

\* A writer thread of h: the last one makes the changes of the call, the ones
\* before it are not seen.
LEMMA WriteStep ==
    ASSUME IndexInvariant, IndexInvariant', NEW h \in Handler, NEW d \in StmtDB,
           WriteStatements(h, d)
    PROVE  Server!Commit(h) \/ UNCHANGED Server!vars
<1>1. /\ pc[h] = "write" /\ d \in todo[h] /\ UNCHANGED <<pc, call, batch, inDoubt>>
      /\ todo' = [todo EXCEPT ![h] = @ \ {d}]
  BY DEF WriteStatements, batches
<1>2. /\ \A g \in Handler \ {h} : todo'[g] = todo[g]
      /\ todo'[h] = todo[h] \ {d}
  BY <1>1, CallTypes
<1>3. AbstractState[h] = "closing" /\ AbstractPending[h] = batch[h]["spoc"]
  BY <1>1 DEF AbstractState, AbstractPending, Writing
<1>4. CASE todo[h] \cap StmtDB = {d}
  <2>1. committed' = Apply(committed, batch[h]["spoc"])
    BY <1>4, ZenonT(30) DEF WriteStatements
  <2>2. AbstractState'[h] = "idle"
    BY <1>1, <1>2, <1>4 DEF AbstractState, Writing
  <2>3. AbstractPending'[h] = Server!NoChange
    BY <2>2 DEF AbstractPending, Server!NoChange
  <2>4. AbstractStore' = Server!Applied(AbstractPending[h])
    <3>1. AbstractStore = StoreValue /\ AbstractStore' = StoreValue'
      BY StoreIsCommitted, StoreIsCommittedNext DEF StoreIsValue
    <3>2. batch[h]["spoc"] \in [Statement -> {"none", "put", "del"}]
      BY CallTypes DEF StmtDB
    <3>3. ASSUME NEW x \in Statement
          PROVE  StoreValue'[x] = IF x \in inDoubt \/ batch[h]["spoc"][x] = "none"
                                  THEN StoreValue[x] ELSE batch[h]["spoc"][x]
      BY <1>1, <2>1, <3>2 DEF StoreValue, Apply
    <3>4. StoreValue' = [x \in Statement |-> StoreValue'[x]]
      BY DEF StoreValue
    <3> QED
      BY <1>3, <3>1, <3>3, <3>4 DEF Server!Applied
  <2>5. /\ AbstractState' = [AbstractState EXCEPT ![h] = "idle"]
        /\ AbstractPending' = [AbstractPending EXCEPT ![h] = Server!NoChange]
    BY <1>1, <1>2, <2>2, <2>3, OneCall
  <2> QED
    BY <1>1, <1>3, <2>4, <2>5 DEF Server!Commit
<1>5. CASE todo[h] \cap StmtDB # {d}
  <2>1. committed' = committed
    BY <1>5, ZenonT(30) DEF WriteStatements
  <2>2. \A g \in Handler : Writing(g)' <=> Writing(g)
    BY <1>1, <1>2, <1>5 DEF Writing
  <2>3. \A g \in Handler : AbstractState'[g] = AbstractState[g]
    BY <1>1, <2>2 DEF AbstractState
  <2> QED
    BY <1>1, <2>1, <2>3, Unseen, ZenonT(30)
<1> QED
  BY <1>4, <1>5

\* The server dies.
LEMMA CrashStep ==
    ASSUME IndexInvariant, IndexInvariant', Crash
    PROVE  Server!Crash
<1>1. /\ pc' = [h \in Handler |-> "idle"] /\ committed' = committed
      /\ inDoubt' = inDoubt \cup {x \in Statement : \E h \in Handler : Writing(h) /\ Touches(h, x)}
  BY DEF Crash
<1>2. AbstractState' = [h \in Handler |-> "idle"]
  BY <1>1 DEF AbstractState, Writing
<1>3. AbstractPending' = [h \in Handler |-> Server!NoChange]
  BY <1>2 DEF AbstractPending, Server!NoChange
<1>4. \A g \in Handler : /\ AbstractState[g] = "closing" <=> Writing(g)
                         /\ Writing(g) => AbstractPending[g] = batch[g]["spoc"]
  BY DEF AbstractState, AbstractPending
<1>5. \A x \in Statement : Server!Busy(x, {}) <=> \E h \in Handler : Writing(h) /\ Touches(h, x)
  BY <1>4 DEF Server!Busy, Touches
<1>6. inDoubt' = inDoubt \cup {x \in Statement : Server!Busy(x, {})}
  BY <1>1, <1>5
<1> QED
  BY <1>1, <1>2, <1>3, <1>6, KnownKept DEF Server!Crash

-----------------------------------------------------------------------------
\* Every step of the store is a step of the server it implements, or not seen.
LEMMA StepImplements ==
    IndexInvariant /\ IndexInvariant' /\ [Next]_vars => [Server!Next]_(Server!vars)
<1> SUFFICES ASSUME IndexInvariant, IndexInvariant', [Next]_vars
             PROVE  Server!Next \/ UNCHANGED Server!vars
  OBVIOUS
<1> DEFINE Seen == Server!Next \/ UNCHANGED Server!vars
<1>1. ASSUME NEW h \in Handler, NEW method \in Method \ {"RemoveStatements"}, Begin(h, method)
      PROVE  Seen
  <2>1. /\ pc[h] = "idle" /\ pc'[h] = "collect" /\ call'[h] = method
        /\ \A g \in Handler \ {h} : pc'[g] = pc[g] /\ call'[g] = call[g]
        /\ UNCHANGED <<batch, todo, committed, inDoubt>>
    BY <1>1, CallTypes DEF Begin, batches, history
  <2>2. AbstractState[h] = "idle"
    BY <2>1 DEF AbstractState, Writing
  <2>3. CASE method = "AddNamespaces"
    <3>1. AbstractState'[h] = "idle"
      BY <2>1, <2>3 DEF AbstractState, Writing
    <3>2. \A g \in Handler : AbstractState'[g] = AbstractState[g]
      BY <2>1, <2>2, <3>1, ZenonT(30) DEF AbstractState, Writing
    <3> QED
      BY <2>1, <3>2, Unseen
  <2>4. CASE method # "AddNamespaces"
    <3>1. AbstractState'[h] = "open"
      BY <2>1, <2>4 DEF AbstractState, Writing
    <3>2. AbstractPending[h] = [x \in Statement |-> "none"] /\ AbstractPending'[h] = batch[h]["spoc"]
      BY <2>1, <2>2, <3>1 DEF AbstractPending
    <3>3. batch[h]["spoc"] = [x \in Statement |-> "none"]
      BY <2>1 DEF IndexInvariant, BatchesClean, EmptyBatch, StmtDB
    <3>4. AbstractState' = [AbstractState EXCEPT ![h] = "open"]
      BY <2>1, <3>1, OneCall
    <3>5. AbstractPending' = [AbstractPending EXCEPT ![h] = AbstractPending'[h]]
      BY <2>1, OneCall
    <3>6. AbstractPending' = AbstractPending
      BY <3>2, <3>3, <3>5, ZenonT(30) DEF AbstractPending
    <3>7. AbstractStore' = AbstractStore
      BY <2>1, StoreIsCommitted, StoreIsCommittedNext DEF StoreIsValue, StoreValue
    <3>8. Server!Begin(h)
      BY <2>1, <2>2, <3>4, <3>6, <3>7 DEF Server!Begin
    <3> QED
      BY <3>8 DEF Server!Next
  <2> QED
    BY <2>3, <2>4
<1>2. ASSUME NEW h \in Handler, NEW x \in Statement, AddStatement(h, x)
      PROVE  Seen
  BY <1>2, AddStep DEF Server!Next
<1>3. ASSUME NEW h \in Handler, NEW pat \in Pattern, RemoveFromUpdate(h, pat)
      PROVE  Seen
  BY <1>3, DeleteStep, FoundIsStored DEF Server!Next
<1>4. ASSUME NEW h \in Handler, NEW pat \in Pattern, RemoveStatements(h, pat)
      PROVE  Seen
  BY <1>4, RemoveStep, FoundIsStored DEF Server!Next
<1>5. ASSUME UNCHANGED <<pc, call, batch, todo, committed, inDoubt>>
      PROVE  Seen
  <2>1. AbstractState' = AbstractState
    BY <1>5 DEF AbstractState, Writing
  <2> QED
    BY <1>5, <2>1, Unseen
<1>6. ASSUME NEW h \in Handler, NEW ns \in Namespace, AddNamespace(h, ns)
      PROVE  Seen
  <2>1. UNCHANGED <<pc, call, batch, todo, committed, inDoubt>>
    BY <1>6 DEF AddNamespace, history
  <2> QED
    BY <2>1, <1>5
<1>7. ASSUME NEW h \in Handler, NEW pat \in NamespacePattern, RemoveNamespace(h, pat)
      PROVE  Seen
  <2>1. UNCHANGED <<pc, call, batch, todo, committed, inDoubt>>
    BY <1>7 DEF RemoveNamespace, history
  <2> QED
    BY <2>1, <1>5
<1>8. ASSUME NEW h \in Handler, StartWriters(h)
      PROVE  Seen
  <2>1. CASE call[h] # "AddNamespaces"
    BY <1>8, <2>1, CloseStep DEF Server!Next
  <2>2. CASE call[h] = "AddNamespaces"
    <3>1. /\ pc[h] = "collect" /\ UNCHANGED <<call, batch, committed>>
          /\ pc'[h] = "write" /\ todo'[h] = Writers(call[h])
          /\ \A g \in Handler \ {h} : pc'[g] = pc[g] /\ todo'[g] = todo[g]
      BY <1>8, CallTypes, ZenonT(30) DEF StartWriters, batches
    <3>2. Writers(call[h]) \cap StmtDB = {}
      BY <2>2 DEF Writers, StmtDB
    <3>3. ~Writing(h) /\ ~Writing(h)'
      BY <3>1, <3>2, ZenonT(30) DEF Writing
    <3>4. \A g \in Handler : AbstractState'[g] = AbstractState[g]
      <4>1. AbstractState'[h] = AbstractState[h]
        BY <2>2, <3>1, <3>3, ZenonT(30) DEF AbstractState
      <4> QED
        BY <3>1, <4>1 DEF AbstractState, Writing
    <3>5. \A x \in Statement : ~Touches(h, x)
      <4>1. batch[h] = EmptyBatch
        BY <2>2 DEF IndexInvariant, BatchesClean
      <4> QED
        BY <4>1 DEF Touches, EmptyBatch, StmtDB
    <3>6. inDoubt' = inDoubt
      BY <1>8, <3>5, ZenonT(30) DEF StartWriters, Conflict, IndexInvariant, TypeOK
    <3> QED
      BY <3>1, <3>4, <3>6, Unseen
  <2> QED
    BY <2>1, <2>2
<1>9. ASSUME NEW h \in Handler, NEW d \in StmtDB, WriteStatements(h, d)
      PROVE  Seen
  BY <1>9, WriteStep DEF Server!Next
<1>10. ASSUME NEW h \in Handler, WriteNsPrefix(h) \/ WriteNsUrl(h)
       PROVE  Seen
  <2>1. /\ UNCHANGED <<pc, call, batch, committed, inDoubt>>
        /\ \E n \in {"ns_prefix", "ns_url"} : todo' = [todo EXCEPT ![h] = @ \ {n}]
    <3>1. CASE WriteNsPrefix(h)
      BY <3>1 DEF WriteNsPrefix, batches, history
    <3>2. CASE WriteNsUrl(h)
      BY <3>2 DEF WriteNsUrl, batches, history
    <3> QED
      BY <1>10, <3>1, <3>2
  <2>2. \A g \in Handler : todo'[g] \cap StmtDB = todo[g] \cap StmtDB
    BY <2>1, CallTypes DEF StmtDB
  <2>3. \A g \in Handler : AbstractState'[g] = AbstractState[g]
    BY <2>1, <2>2 DEF AbstractState, Writing
  <2> QED
    BY <2>1, <2>3, Unseen, ZenonT(30)
<1>11. ASSUME NEW h \in Handler, Return(h)
       PROVE  Seen
  <2>1. /\ pc[h] = "write" /\ todo[h] = {} /\ pc'[h] = "idle"
        /\ \A g \in Handler \ {h} : pc'[g] = pc[g] /\ call'[g] = call[g] /\ batch'[g] = batch[g]
        /\ UNCHANGED <<todo, committed, inDoubt>>
    BY <1>11, CallTypes DEF Return, history
  <2>2. AbstractState[h] = "idle" /\ AbstractState'[h] = "idle"
    BY <2>1, ZenonT(30) DEF AbstractState, Writing
  <2>3. \A g \in Handler : AbstractState'[g] = AbstractState[g]
    BY <2>1, <2>2 DEF AbstractState, Writing
  <2> QED
    BY <2>1, <2>2, <2>3, Unseen
<1>12. CASE Crash
  BY <1>12, CrashStep DEF Server!Next
<1>13. CASE UNCHANGED vars
  BY <1>13, <1>5 DEF vars
<1> QED
  BY <1>1, <1>2, <1>3, <1>4, <1>6, <1>7, <1>8, <1>9, <1>10, <1>11, <1>12, <1>13
  DEF Next, Collect, Finish

\* The four databases and their writer threads implement one store that every
\* call changes in one step, whatever the number of handlers and crashes.
THEOREM LevelDBImplementsTripleStore == Spec => ImplementsTripleStore
<1>1. Init => Server!Init
  BY InitImplements
<1>2. IndexInvariant /\ IndexInvariant' /\ [Next]_vars => [Server!Next]_(Server!vars)
  BY StepImplements
<1> QED
  BY <1>1, <1>2, IndexInvariantHolds, PTL DEF Spec, ImplementsTripleStore, Server!Safety
=============================================================================
