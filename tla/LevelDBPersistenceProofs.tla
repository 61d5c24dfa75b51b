---------------------- MODULE LevelDBPersistenceProofs ----------------------
(***************************************************************************)
(* The types of LevelDBPersistence, for every number of handlers and       *)
(* crashes and every set of statements, and its namespace databases, for   *)
(* one handler.                                                            *)
(***************************************************************************)
EXTENDS LevelDBPersistence, StatementIndexProofs, FiniteSetTheorems

\* The number of statements found by a query.
LEMMA FoundType ==
    ASSUME TypeOK, NEW pat \in Pattern
    PROVE  /\ GetStatements(pat) \subseteq Statement
           /\ Cardinality(GetStatements(pat)) \in Nat
<1>1. GetStatements(pat) \subseteq Statement
  BY TypeOfType DEF TypeOK, GetStatements, Scan
<1> QED
  BY <1>1, StatementAssumption, FS_Subset, FS_CardinalityType

LEMMA InitType == Init => TypeOK
BY BoundsAssumption DEF Init, TypeOK, UpdateStatistics, NoStats, EmptyBatch, EmptyPrefixBatch, EmptyUrlBatch

\* Counting keeps the statistics typed.
LEMMA Counted ==
    ASSUME NEW st \in UpdateStatistics, NEW n \in Nat
    PROVE  /\ [st EXCEPT !.added_stmts = @ + 1] \in UpdateStatistics
           /\ [st EXCEPT !.removed_stmts = @ + n] \in UpdateStatistics
           /\ [st EXCEPT !.added_ns = @ + 1] \in UpdateStatistics
BY DEF UpdateStatistics

\* Reading a message keeps the statistics typed.
LEMMA MessageType ==
    ASSUME TypeOK, NEW h \in Handler, NEW methods, NEW st \in UpdateStatistics,
           Message(h, methods, st)
    PROVE  stats' \in [Handler -> UpdateStatistics]
<1>1. [st EXCEPT !.messages = @ + 1] \in UpdateStatistics
  BY DEF UpdateStatistics
<1> QED
  BY <1>1 DEF TypeOK, Message

LEMMA NextType == TypeOK /\ [Next]_vars => TypeOK'
<1> SUFFICES ASSUME TypeOK, [Next]_vars
             PROVE  TypeOK'
  OBVIOUS
<1>1. ASSUME NEW h \in Handler, NEW method \in Method \ {"RemoveStatements"}, Begin(h, method)
      PROVE  TypeOK'
  BY <1>1 DEF TypeOK, Begin, dbs, batches, history
<1>2. ASSUME NEW h \in Handler, NEW x \in Statement, AddStatement(h, x)
      PROVE  TypeOK'
  <2>1. [stats[h] EXCEPT !.added_stmts = @ + 1] \in UpdateStatistics
    BY Counted, ZenonT(30) DEF TypeOK
  <2>2. stats' \in [Handler -> UpdateStatistics]
    BY <1>2, <2>1, MessageType DEF AddStatement
  <2>3. PutAll(batch[h], x) \in [StmtDB -> [Statement -> {"none", "put", "del"}]]
    BY DEF TypeOK, PutAll
  <2> QED
    BY <1>2, <2>2, <2>3, ZenonT(30) DEF TypeOK, AddStatement, dbs, history
<1>3. ASSUME NEW h \in Handler, NEW pat \in Pattern, RemoveFromUpdate(h, pat)
      PROVE  TypeOK'
  <2>1. [stats[h] EXCEPT !.removed_stmts = @ + Cardinality(GetStatements(pat))] \in UpdateStatistics
    BY FoundType, Counted, ZenonT(30) DEF TypeOK
  <2>2. stats' \in [Handler -> UpdateStatistics]
    BY <1>3, <2>1, MessageType DEF RemoveFromUpdate
  <2>3. DeleteAll(batch[h], GetStatements(pat)) \in [StmtDB -> [Statement -> {"none", "put", "del"}]]
    BY DEF TypeOK, DeleteAll
  <2> QED
    BY <1>3, <2>2, <2>3, ZenonT(30) DEF TypeOK, RemoveFromUpdate, dbs, history
<1>4. ASSUME NEW h \in Handler, NEW pat \in Pattern, RemoveStatements(h, pat)
      PROVE  TypeOK'
  <2>1. [NoStats EXCEPT !.removed_stmts = Cardinality(GetStatements(pat))] \in UpdateStatistics
    BY FoundType DEF NoStats, UpdateStatistics
  <2>2. DeleteAll(batch[h], GetStatements(pat)) \in [StmtDB -> [Statement -> {"none", "put", "del"}]]
    BY DEF TypeOK, DeleteAll
  <2> QED
    BY <1>4, <2>1, <2>2 DEF TypeOK, RemoveStatements, dbs, history
<1>5. ASSUME NEW h \in Handler, NEW ns \in Namespace, AddNamespace(h, ns)
      PROVE  TypeOK'
  <2>1. [stats[h] EXCEPT !.added_ns = @ + 1] \in UpdateStatistics
    BY Counted, ZenonT(30) DEF TypeOK
  <2>2. stats' \in [Handler -> UpdateStatistics]
    BY <1>5, <2>1, MessageType DEF AddNamespace
  <2>3. ns.prefix \in PrefixKey /\ ns.uri \in UriKey
    BY NamespaceAssumption
  <2> QED
    BY <1>5, <2>2, <2>3, ZenonT(30) DEF TypeOK, AddNamespace, dbs, history
<1>6. ASSUME NEW h \in Handler, NEW pat \in NamespacePattern, RemoveNamespace(h, pat)
      PROVE  TypeOK'
  <2>1. stats' \in [Handler -> UpdateStatistics]
    BY <1>6, MessageType DEF RemoveNamespace, TypeOK
  <2>2. bPrefix' \in [Handler -> [PrefixKey -> UriKey \cup {Absent, Keep}]]
    <3>1. [p \in PrefixKey |-> IF \E ns \in GetNamespaces(pat) : ns.prefix = p
                                THEN Absent ELSE bPrefix[h][p]]
             \in [PrefixKey -> UriKey \cup {Absent, Keep}]
      BY DEF TypeOK
    <3> QED
      BY <1>6, <3>1 DEF TypeOK, RemoveNamespace
  <2>3. bUrl' \in [Handler -> [UriKey -> PrefixKey \cup {Absent, Keep}]]
    <3>1. [u \in UriKey |-> IF \E ns \in GetNamespaces(pat) : ns.uri = u
                             THEN Absent ELSE bUrl[h][u]]
             \in [UriKey -> PrefixKey \cup {Absent, Keep}]
      BY DEF TypeOK
    <3> QED
      BY <1>6, <3>1 DEF TypeOK, RemoveNamespace
  <2> QED
    BY <1>6, <2>1, <2>2, <2>3 DEF TypeOK, RemoveNamespace, dbs, history
<1>7. ASSUME NEW h \in Handler, StartWriters(h)
      PROVE  TypeOK'
  BY <1>7 DEF TypeOK, StartWriters, Writers, DB, dbs, batches
<1>8. ASSUME NEW h \in Handler, NEW d \in StmtDB, WriteStatements(h, d)
      PROVE  TypeOK'
  BY <1>8 DEF TypeOK, WriteStatements, Apply, batches
<1>9. ASSUME NEW h \in Handler, WriteNsPrefix(h)
      PROVE  TypeOK'
  BY <1>9 DEF TypeOK, WriteNsPrefix, ApplyNs, batches, history
<1>10. ASSUME NEW h \in Handler, WriteNsUrl(h)
       PROVE  TypeOK'
  BY <1>10 DEF TypeOK, WriteNsUrl, ApplyNs, batches, history
<1>11. ASSUME NEW h \in Handler, Return(h)
       PROVE  TypeOK'
  BY <1>11 DEF TypeOK, Return, UpdateStatistics, NoStats, EmptyBatch, EmptyPrefixBatch, EmptyUrlBatch, dbs, history
<1>12. CASE Crash
  BY <1>12 DEF TypeOK, Crash, UpdateStatistics, NoStats, EmptyBatch, EmptyPrefixBatch, EmptyUrlBatch, dbs
<1>13. CASE UNCHANGED vars
  BY <1>13 DEF TypeOK, vars
<1> QED
  BY <1>1, <1>2, <1>3, <1>4, <1>5, <1>6, <1>7, <1>8, <1>9, <1>10, <1>11, <1>12, <1>13
  DEF Next, Collect, Finish

\* The variables of the store and of its handlers keep their types.
THEOREM TypeCorrect == Spec => []TypeOK
<1> QED
  BY InitType, NextType, PTL DEF Spec

-----------------------------------------------------------------------------
(* The namespace databases *)

\* The keys of the namespaces in use, and none of their values means something else.
LEMMA NamespaceType ==
    ASSUME NEW ns \in Namespace
    PROVE  /\ ns.prefix \in PrefixKey /\ ns.uri \in UriKey
           /\ ns = [prefix |-> ns.prefix, uri |-> ns.uri]
           /\ ns.prefix \notin {Absent, Keep} /\ ns.uri \notin {Absent, Keep}
           /\ Absent # Keep
BY NamespaceAssumption

\* A lookup returns namespaces that clients have added.
LEMMA FoundNamespaces ==
    ASSUME TypeOK, OnlyNamespaces, NEW pat \in NamespacePattern
    PROVE  GetNamespaces(pat) \subseteq Namespace
<1>1. pat.prefix \in PrefixKey /\ pat.uri \in UriKey
  BY DEF NamespacePattern
<1>2. CASE pat.prefix # Empty
  BY <1>1, <1>2 DEF GetNamespaces, OnlyNamespaces
<1>3. CASE pat.prefix = Empty /\ pat.uri # Empty
  BY <1>1, <1>3 DEF GetNamespaces, OnlyNamespaces
<1>4. CASE pat.prefix = Empty /\ pat.uri = Empty
  BY <1>1, <1>4 DEF GetNamespaces, OnlyNamespaces
<1> QED
  BY <1>2, <1>3, <1>4

\* What a step about namespaces does to the batches and to the databases.
LEMMA AddNamespaceStep ==
    ASSUME TypeOK, NEW h \in Handler, NEW ns \in Namespace, AddNamespace(h, ns)
    PROVE  /\ \A g \in Handler \ {h} : bPrefix'[g] = bPrefix[g] /\ bUrl'[g] = bUrl[g]
           /\ \A p \in PrefixKey : bPrefix'[h][p] = IF p = ns.prefix THEN ns.uri ELSE bPrefix[h][p]
           /\ \A u \in UriKey : bUrl'[h][u] = IF u = ns.uri THEN ns.prefix ELSE bUrl[h][u]
           /\ UNCHANGED <<nsPrefix, nsUrl, todo, crashes, pc>>
<1>1. ns.prefix \in PrefixKey /\ ns.uri \in UriKey
  BY NamespaceType
<1>2. bPrefix[h] \in [PrefixKey -> UriKey \cup {Absent, Keep}]
  BY DEF TypeOK
<1>3. bUrl[h] \in [UriKey -> PrefixKey \cup {Absent, Keep}]
  BY DEF TypeOK
<1>4. /\ bPrefix' = [bPrefix EXCEPT ![h] = [bPrefix[h] EXCEPT ![ns.prefix] = ns.uri]]
      /\ bUrl' = [bUrl EXCEPT ![h] = [bUrl[h] EXCEPT ![ns.uri] = ns.prefix]]
      /\ UNCHANGED <<nsPrefix, nsUrl, todo, crashes, pc>>
  BY DEF AddNamespace, dbs
<1>5. /\ \A g \in Handler \ {h} : bPrefix'[g] = bPrefix[g] /\ bUrl'[g] = bUrl[g]
      /\ bPrefix'[h] = [bPrefix[h] EXCEPT ![ns.prefix] = ns.uri]
      /\ bUrl'[h] = [bUrl[h] EXCEPT ![ns.uri] = ns.prefix]
  BY <1>4 DEF TypeOK
<1>6. \A p \in PrefixKey : bPrefix'[h][p] = IF p = ns.prefix THEN ns.uri ELSE bPrefix[h][p]
  BY <1>1, <1>2, <1>5
<1>7. \A u \in UriKey : bUrl'[h][u] = IF u = ns.uri THEN ns.prefix ELSE bUrl[h][u]
  BY <1>1, <1>3, <1>5
<1> QED
  BY <1>4, <1>5, <1>6, <1>7

LEMMA RemoveNamespaceStep ==
    ASSUME TypeOK, NEW h \in Handler, NEW pat \in NamespacePattern, RemoveNamespace(h, pat)
    PROVE  /\ \A g \in Handler \ {h} : bPrefix'[g] = bPrefix[g] /\ bUrl'[g] = bUrl[g]
           /\ \A p \in PrefixKey : bPrefix'[h][p] =
                 IF \E ns \in GetNamespaces(pat) : ns.prefix = p THEN Absent ELSE bPrefix[h][p]
           /\ \A u \in UriKey : bUrl'[h][u] =
                 IF \E ns \in GetNamespaces(pat) : ns.uri = u THEN Absent ELSE bUrl[h][u]
           /\ UNCHANGED <<nsPrefix, nsUrl, todo, crashes, pc>>
<1>1. UNCHANGED <<nsPrefix, nsUrl, todo, crashes, pc>>
  BY DEF RemoveNamespace, dbs
<1> QED
  BY <1>1 DEF RemoveNamespace, TypeOK

\* Steps that are not about namespaces.
LEMMA NamespacesAlone ==
    ASSUME NamespaceInvariant, UNCHANGED <<nsPrefix, nsUrl, bPrefix, bUrl>>,
           \A h \in Handler :
               \/ \A d \in {"ns_prefix", "ns_url"} : d \in todo'[h] <=> d \in todo[h]
               \/ ~Half(h) /\ ~Half(h)',
           crashes' = crashes
    PROVE  /\ OnlyNamespaces'
           /\ \A h \in Handler, ns \in Namespace : BatchMirrored(h, ns)'
           /\ crashes' = 0 =>
                \A ns \in Namespace : /\ (\A h \in Handler : ~Half(h)') => Mirrored(ns)'
                                      /\ \A h \in Handler : Half(h)' => HalfWritten(h, ns)'
<1>1. OnlyNamespaces'
  BY DEF NamespaceInvariant, OnlyNamespaces
<1>2. \A h \in Handler, ns \in Namespace : BatchMirrored(h, ns)'
  BY DEF NamespaceInvariant, BatchMirrored
<1>3. \A ns \in Namespace : Mirrored(ns)' <=> Mirrored(ns)
  BY DEF Mirrored
<1>4. \A h \in Handler : Half(h)' <=> Half(h)
  BY DEF Half
<1>5. \A h \in Handler, ns \in Namespace : Half(h)' /\ HalfWritten(h, ns) => HalfWritten(h, ns)'
  BY <1>3 DEF HalfWritten
<1> QED
  BY <1>1, <1>2, <1>3, <1>4, <1>5 DEF NamespaceInvariant

\* The batches of h after a request about namespaces that h has read.
LEMMA CollectsMirrored ==
    ASSUME PairedNamespaces, NamespaceInvariant, NEW h \in Handler,
           \/ \E ns \in Namespace : AddNamespace(h, ns)
           \/ \E pat \in NamespacePattern : RemoveNamespace(h, pat)
    PROVE  OnlyNamespaces' /\ \A g \in Handler, m \in Namespace : BatchMirrored(g, m)'
<1>1. TypeOK /\ OnlyNamespaces /\ \A g \in Handler, m \in Namespace : BatchMirrored(g, m)
  BY DEF NamespaceInvariant
<1>2. ASSUME NEW ns \in Namespace, AddNamespace(h, ns)
      PROVE  OnlyNamespaces' /\ \A g \in Handler, m \in Namespace : BatchMirrored(g, m)'
  <2>1. /\ \A g \in Handler \ {h} : bPrefix'[g] = bPrefix[g] /\ bUrl'[g] = bUrl[g]
        /\ \A p \in PrefixKey : bPrefix'[h][p] = IF p = ns.prefix THEN ns.uri ELSE bPrefix[h][p]
        /\ \A u \in UriKey : bUrl'[h][u] = IF u = ns.uri THEN ns.prefix ELSE bUrl[h][u]
        /\ UNCHANGED <<nsPrefix, nsUrl>>
    BY <1>1, <1>2, AddNamespaceStep
  <2>2. OnlyNamespaces'
    <3>1. ASSUME NEW g \in Handler, NEW p \in PrefixKey, bPrefix'[g][p] \notin {Keep, Absent}
          PROVE  [prefix |-> p, uri |-> bPrefix'[g][p]] \in Namespace
      <4>1. CASE g = h /\ p = ns.prefix
        BY <2>1, <4>1, NamespaceType
      <4>2. CASE ~(g = h /\ p = ns.prefix)
        <5>1. bPrefix'[g][p] = bPrefix[g][p]
          BY <2>1, <4>2
        <5> QED
          BY <1>1, <3>1, <5>1, ZenonT(30) DEF OnlyNamespaces
      <4> QED
        BY <4>1, <4>2
    <3>2. ASSUME NEW g \in Handler, NEW u \in UriKey, bUrl'[g][u] \notin {Keep, Absent}
          PROVE  [prefix |-> bUrl'[g][u], uri |-> u] \in Namespace
      <4>1. CASE g = h /\ u = ns.uri
        BY <2>1, <4>1, NamespaceType
      <4>2. CASE ~(g = h /\ u = ns.uri)
        <5>1. bUrl'[g][u] = bUrl[g][u]
          BY <2>1, <4>2
        <5> QED
          BY <1>1, <3>2, <5>1, ZenonT(30) DEF OnlyNamespaces
      <4> QED
        BY <4>1, <4>2
    <3>3. UNCHANGED <<nsPrefix, nsUrl>>
      BY <2>1
    <3> QED
      BY <1>1, <3>1, <3>2, <3>3 DEF OnlyNamespaces
  <2>3. ASSUME NEW g \in Handler, NEW m \in Namespace PROVE BatchMirrored(g, m)'
    <3>1. m.prefix \in PrefixKey /\ m.uri \in UriKey /\ (m.prefix = ns.prefix <=> m.uri = ns.uri)
      BY NamespaceType DEF PairedNamespaces
    <3>2. CASE g = h /\ m.prefix = ns.prefix
      <4>1. bPrefix'[g][m.prefix] = m.uri /\ bUrl'[g][m.uri] = m.prefix
        BY <2>1, <3>1, <3>2
      <4> QED
        BY <4>1 DEF BatchMirrored
    <3>3. CASE ~(g = h /\ m.prefix = ns.prefix)
      <4>1. bPrefix'[g][m.prefix] = bPrefix[g][m.prefix] /\ bUrl'[g][m.uri] = bUrl[g][m.uri]
        BY <2>1, <3>1, <3>3
      <4>2. BatchMirrored(g, m)
        BY <1>1
      <4> QED
        BY <4>1, <4>2 DEF BatchMirrored
    <3> QED
      BY <3>2, <3>3
  <2> QED
    BY <2>2, <2>3
<1>3. ASSUME NEW pat \in NamespacePattern, RemoveNamespace(h, pat)
      PROVE  OnlyNamespaces' /\ \A g \in Handler, m \in Namespace : BatchMirrored(g, m)'
  <2>1. /\ \A g \in Handler \ {h} : bPrefix'[g] = bPrefix[g] /\ bUrl'[g] = bUrl[g]
        /\ \A p \in PrefixKey : bPrefix'[h][p] =
              IF \E ns \in GetNamespaces(pat) : ns.prefix = p THEN Absent ELSE bPrefix[h][p]
        /\ \A u \in UriKey : bUrl'[h][u] =
              IF \E ns \in GetNamespaces(pat) : ns.uri = u THEN Absent ELSE bUrl[h][u]
        /\ UNCHANGED <<nsPrefix, nsUrl, todo, crashes, pc>>
    BY <1>1, <1>3, RemoveNamespaceStep, Zenon
  <2>2. OnlyNamespaces'
    <3>1. /\ \A g \in Handler, p \in PrefixKey : bPrefix'[g][p] \in {bPrefix[g][p], Absent}
          /\ \A g \in Handler, u \in UriKey : bUrl'[g][u] \in {bUrl[g][u], Absent}
      BY <2>1
    <3>2. ASSUME NEW g \in Handler, NEW p \in PrefixKey, bPrefix'[g][p] \notin {Keep, Absent}
          PROVE  [prefix |-> p, uri |-> bPrefix'[g][p]] \in Namespace
      <4>1. bPrefix'[g][p] = bPrefix[g][p]
        BY <3>1, <3>2
      <4> QED
        BY <1>1, <3>2, <4>1, ZenonT(30) DEF OnlyNamespaces
    <3>3. ASSUME NEW g \in Handler, NEW u \in UriKey, bUrl'[g][u] \notin {Keep, Absent}
          PROVE  [prefix |-> bUrl'[g][u], uri |-> u] \in Namespace
      <4>1. bUrl'[g][u] = bUrl[g][u]
        BY <3>1, <3>3
      <4> QED
        BY <1>1, <3>3, <4>1, ZenonT(30) DEF OnlyNamespaces
    <3>4. UNCHANGED <<nsPrefix, nsUrl>>
      BY <2>1
    <3> QED
      BY <1>1, <3>2, <3>3, <3>4 DEF OnlyNamespaces
  <2>3. ASSUME NEW g \in Handler, NEW m \in Namespace PROVE BatchMirrored(g, m)'
    <3>1. m.prefix \in PrefixKey /\ m.uri \in UriKey
      BY NamespaceType
    <3>2. (\E ns \in GetNamespaces(pat) : ns.prefix = m.prefix)
            <=> (\E ns \in GetNamespaces(pat) : ns.uri = m.uri)
      BY <1>1, FoundNamespaces DEF PairedNamespaces
    <3>3. CASE g = h /\ \E ns \in GetNamespaces(pat) : ns.prefix = m.prefix
      BY <2>1, <3>1, <3>2, <3>3 DEF BatchMirrored
    <3>4. CASE g # h \/ ~\E ns \in GetNamespaces(pat) : ns.prefix = m.prefix
      <4>1. bPrefix'[g][m.prefix] = bPrefix[g][m.prefix] /\ bUrl'[g][m.uri] = bUrl[g][m.uri]
        BY <2>1, <3>1, <3>2, <3>4
      <4> QED
        BY <1>1, <4>1 DEF BatchMirrored
    <3> QED
      BY <3>3, <3>4
  <2> QED
    BY <2>2, <2>3
<1> QED
  BY <1>2, <1>3

\* With one call at a time, the databases agree while it collects or is idle.
LEMMA CollectingMirrored ==
    ASSUME OneCallAtATime, NamespaceInvariant, crashes = 0,
           NEW h \in Handler, pc[h] # "write", NEW ns \in Namespace
    PROVE  Mirrored(ns)
<1>1. \A g \in Handler : todo[g] = {}
  BY DEF OneCallAtATime, NamespaceInvariant
<1>2. \A g \in Handler : ~Half(g)
  BY <1>1 DEF Half
<1> QED
  BY <1>2 DEF NamespaceInvariant

\* A writer thread writes db_ns_prefix, and db_ns_url.
LEMMA WriteNsPrefixKeeps ==
    ASSUME OneCallAtATime, NamespaceInvariant, NEW h \in Handler, WriteNsPrefix(h)
    PROVE  /\ OnlyNamespaces'
           /\ \A g \in Handler, m \in Namespace : BatchMirrored(g, m)'
           /\ crashes' = 0 =>
                \A ns \in Namespace : /\ (\A g \in Handler : ~Half(g)') => Mirrored(ns)'
                                      /\ \A g \in Handler : Half(g)' => HalfWritten(g, ns)'
<1>1. /\ UNCHANGED <<nsUrl, bPrefix, bUrl, crashes>>
      /\ "ns_prefix" \in todo[h] /\ todo'[h] = todo[h] \ {"ns_prefix"}
      /\ \A p \in PrefixKey : nsPrefix'[p] =
            IF bPrefix[h][p] = Keep THEN nsPrefix[p] ELSE bPrefix[h][p]
  BY DEF WriteNsPrefix, NamespaceInvariant, TypeOK, ApplyNs, batches
<1>2. OnlyNamespaces'
  BY <1>1, ZenonT(30) DEF NamespaceInvariant, OnlyNamespaces
<1>3. \A g \in Handler, m \in Namespace : BatchMirrored(g, m)'
  <2>1. \A g \in Handler, m \in Namespace : BatchMirrored(g, m)
    BY DEF NamespaceInvariant
  <2> QED
    BY <1>1, <2>1 DEF BatchMirrored
<1>4. ASSUME crashes' = 0, NEW ns \in Namespace
      PROVE  /\ (\A g \in Handler : ~Half(g)') => Mirrored(ns)'
             /\ \A g \in Handler : Half(g)' => HalfWritten(g, ns)'
  <2>1. /\ ns.prefix \in PrefixKey /\ ns.uri \in UriKey
        /\ nsUrl[ns.uri] # Keep /\ BatchMirrored(h, ns)
    <3>1. ns.prefix \in PrefixKey /\ ns.uri \in UriKey
      BY NamespaceType
    <3>2. nsUrl[ns.uri] \in PrefixKey \cup {Absent} /\ BatchMirrored(h, ns)
      BY <3>1 DEF NamespaceInvariant, TypeOK
    <3> QED
      BY <3>1, <3>2, NamespaceAssumption
  <2>2. \A g \in Handler : g = h
    BY DEF OneCallAtATime
  <2>3. CASE "ns_url" \in todo[h]
    <3>1. ~Half(h) /\ Half(h)' /\ "ns_url" \in todo'[h]
      BY <1>1, <2>3 DEF Half
    <3>2. Mirrored(ns)
      BY <1>1, <1>4, <2>2, <3>1 DEF NamespaceInvariant
    <3>3. HalfWritten(h, ns)'
      BY <1>1, <2>1, <3>1, <3>2 DEF HalfWritten, Mirrored
    <3> QED
      BY <2>2, <3>1, <3>3
  <2>4. CASE "ns_url" \notin todo[h]
    <3>1. Half(h) /\ ~Half(h)'
      BY <1>1, <2>4 DEF Half
    <3>2. HalfWritten(h, ns)
      BY <1>1, <1>4, <3>1 DEF NamespaceInvariant
    <3>3. Mirrored(ns)'
      BY <1>1, <2>1, <2>4, <3>2 DEF HalfWritten, Mirrored, BatchMirrored
    <3> QED
      BY <2>2, <3>1, <3>3
  <2> QED
    BY <2>3, <2>4
<1> QED
  BY <1>2, <1>3, <1>4

LEMMA WriteNsUrlKeeps ==
    ASSUME OneCallAtATime, NamespaceInvariant, NEW h \in Handler, WriteNsUrl(h)
    PROVE  /\ OnlyNamespaces'
           /\ \A g \in Handler, m \in Namespace : BatchMirrored(g, m)'
           /\ crashes' = 0 =>
                \A ns \in Namespace : /\ (\A g \in Handler : ~Half(g)') => Mirrored(ns)'
                                      /\ \A g \in Handler : Half(g)' => HalfWritten(g, ns)'
<1>1. /\ UNCHANGED <<nsPrefix, bPrefix, bUrl, crashes>>
      /\ "ns_url" \in todo[h] /\ todo'[h] = todo[h] \ {"ns_url"}
      /\ \A u \in UriKey : nsUrl'[u] = IF bUrl[h][u] = Keep THEN nsUrl[u] ELSE bUrl[h][u]
  BY DEF WriteNsUrl, NamespaceInvariant, TypeOK, ApplyNs, batches
<1>2. OnlyNamespaces'
  BY <1>1, ZenonT(30) DEF NamespaceInvariant, OnlyNamespaces
<1>3. \A g \in Handler, m \in Namespace : BatchMirrored(g, m)'
  <2>1. \A g \in Handler, m \in Namespace : BatchMirrored(g, m)
    BY DEF NamespaceInvariant
  <2> QED
    BY <1>1, <2>1 DEF BatchMirrored
<1>4. ASSUME crashes' = 0, NEW ns \in Namespace
      PROVE  /\ (\A g \in Handler : ~Half(g)') => Mirrored(ns)'
             /\ \A g \in Handler : Half(g)' => HalfWritten(g, ns)'
  <2>1. ns.prefix \in PrefixKey /\ ns.uri \in UriKey /\ BatchMirrored(h, ns)
    BY NamespaceType DEF NamespaceInvariant
  <2>2. \A g \in Handler : g = h
    BY DEF OneCallAtATime
  <2>3. bPrefix[h][ns.prefix] = Keep <=> bUrl[h][ns.uri] = Keep
    BY <2>1, NamespaceType DEF BatchMirrored
  <2>4. CASE "ns_prefix" \in todo[h]
    <3>1. ~Half(h) /\ Half(h)' /\ "ns_url" \notin todo'[h]
      BY <1>1, <2>4 DEF Half
    <3>2. Mirrored(ns)
      BY <1>1, <1>4, <2>2, <3>1 DEF NamespaceInvariant
    <3>3. HalfWritten(h, ns)'
      BY <1>1, <2>1, <2>3, <3>1, <3>2 DEF HalfWritten, Mirrored
    <3> QED
      BY <2>2, <3>1, <3>3
  <2>5. CASE "ns_prefix" \notin todo[h]
    <3>1. Half(h) /\ ~Half(h)'
      BY <1>1, <2>5 DEF Half
    <3>2. HalfWritten(h, ns)
      BY <1>1, <1>4, <3>1 DEF NamespaceInvariant
    <3>3. Mirrored(ns)'
      BY <1>1, <2>1, <2>3, <3>2 DEF HalfWritten, Mirrored, BatchMirrored
    <3> QED
      BY <2>2, <3>1, <3>3
  <2> QED
    BY <2>4, <2>5
<1> QED
  BY <1>2, <1>3, <1>4

LEMMA InitNamespace == Init => NamespaceInvariant
<1> SUFFICES ASSUME Init PROVE NamespaceInvariant
  OBVIOUS
<1>1. TypeOK
  BY InitType
<1>2. OnlyNamespaces
  BY DEF Init, OnlyNamespaces, EmptyPrefixBatch, EmptyUrlBatch
<1>3. \A h \in Handler, ns \in Namespace : BatchMirrored(h, ns)
  BY NamespaceType DEF Init, BatchMirrored, EmptyPrefixBatch, EmptyUrlBatch
<1>4. \A ns \in Namespace : Mirrored(ns)
  BY NamespaceType DEF Init, Mirrored
<1>5. \A h \in Handler : todo[h] = {}
  BY DEF Init
<1>6. \A h \in Handler : ~Half(h)
  BY <1>5 DEF Half
<1> QED
  BY <1>1, <1>2, <1>3, <1>4, <1>5, <1>6 DEF NamespaceInvariant

\* A handler that is not writing has no writer threads left.
LEMMA TodoKept ==
    ASSUME TypeOK, \A h \in Handler : pc[h] # "write" => todo[h] = {}, [Next]_vars
    PROVE  \A h \in Handler : pc'[h] # "write" => todo'[h] = {}
<1>1. CASE UNCHANGED vars
  BY <1>1 DEF vars
<1>2. CASE Crash
  BY <1>2 DEF Crash
<1>3. ASSUME NEW h \in Handler, Collect(h)
      PROVE  \A g \in Handler : pc'[g] # "write" => todo'[g] = {}
  BY <1>3, ZenonT(30) DEF Collect, Begin, Message, AddStatement, RemoveFromUpdate, RemoveStatements,
              AddNamespace, RemoveNamespace, StartWriters, TypeOK
<1>4. ASSUME NEW h \in Handler, Finish(h)
      PROVE  \A g \in Handler : pc'[g] # "write" => todo'[g] = {}
  BY <1>4, ZenonT(30) DEF Finish, WriteStatements, WriteNsPrefix, WriteNsUrl, Return, TypeOK
<1> QED
  BY <1>1, <1>2, <1>3, <1>4 DEF Next

\* One step per action.
LEMMA NextNamespace ==
    ASSUME OneCallAtATime, PairedNamespaces, NamespaceInvariant, [Next]_vars
    PROVE  NamespaceInvariant'
<1> DEFINE Kept == /\ OnlyNamespaces'
                   /\ \A g \in Handler, m \in Namespace : BatchMirrored(g, m)'
                   /\ crashes' = 0 =>
                        \A ns \in Namespace :
                           /\ (\A g \in Handler : ~Half(g)') => Mirrored(ns)'
                           /\ \A g \in Handler : Half(g)' => HalfWritten(g, ns)'
<1>1. TypeOK /\ TypeOK' /\ \A h \in Handler : pc'[h] # "write" => todo'[h] = {}
  BY NextType, TodoKept DEF NamespaceInvariant
<1>2. ASSUME UNCHANGED <<nsPrefix, nsUrl, bPrefix, bUrl, todo, crashes>> PROVE Kept
  BY <1>2, NamespacesAlone
<1>3. ASSUME UNCHANGED vars PROVE Kept
  BY <1>2, <1>3 DEF vars
<1>4. ASSUME Crash PROVE Kept
  <2>1. /\ UNCHANGED <<nsPrefix, nsUrl>> /\ crashes' # 0
        /\ bPrefix' = [h \in Handler |-> EmptyPrefixBatch]
        /\ bUrl' = [h \in Handler |-> EmptyUrlBatch]
    <3>1. crashes \in Nat /\ crashes' = crashes + 1
      BY <1>1, <1>4 DEF Crash, TypeOK
    <3> QED
      BY <1>4, <3>1 DEF Crash, dbs
  <2>2. OnlyNamespaces'
    BY <2>1, ZenonT(30) DEF NamespaceInvariant, OnlyNamespaces, EmptyPrefixBatch, EmptyUrlBatch
  <2>3. \A h \in Handler, ns \in Namespace : BatchMirrored(h, ns)'
    BY <2>1, NamespaceType DEF BatchMirrored, EmptyPrefixBatch, EmptyUrlBatch
  <2> QED
    BY <2>1, <2>2, <2>3
<1>5. ASSUME NEW h \in Handler, NEW method \in Method, Begin(h, method) PROVE Kept
  BY <1>2, <1>5 DEF Begin, dbs, batches
<1>6. ASSUME NEW h \in Handler, NEW x \in Statement, AddStatement(h, x) PROVE Kept
  BY <1>2, <1>6 DEF AddStatement, dbs
<1>7. ASSUME NEW h \in Handler, NEW pat \in Pattern,
             RemoveFromUpdate(h, pat) \/ RemoveStatements(h, pat) PROVE Kept
  BY <1>2, <1>7 DEF RemoveFromUpdate, RemoveStatements, dbs
<1>8. ASSUME NEW h \in Handler,
             \/ \E ns \in Namespace : AddNamespace(h, ns)
             \/ \E pat \in NamespacePattern : RemoveNamespace(h, pat) PROVE Kept
  <2>1. OnlyNamespaces' /\ \A g \in Handler, m \in Namespace : BatchMirrored(g, m)'
    BY <1>8, CollectsMirrored
  <2>2. pc[h] = "collect" /\ UNCHANGED <<nsPrefix, nsUrl, todo, crashes>>
    BY <1>8 DEF AddNamespace, RemoveNamespace, Message, dbs
  <2>3. crashes = 0 => \A ns \in Namespace : Mirrored(ns)'
    <3>1. crashes = 0 => \A ns \in Namespace : Mirrored(ns)
      BY <2>2, CollectingMirrored
    <3> QED
      BY <2>2, <3>1 DEF Mirrored
  <2>4. \A g \in Handler : ~Half(g)'
    <3>1. \A g \in Handler : todo'[g] = {}
      BY <2>2 DEF OneCallAtATime, NamespaceInvariant
    <3> QED
      BY <3>1 DEF Half
  <2> QED
    BY <2>1, <2>2, <2>3, <2>4
<1>9. ASSUME NEW h \in Handler, StartWriters(h) PROVE Kept
  <2>1. /\ UNCHANGED <<nsPrefix, nsUrl, bPrefix, bUrl, crashes>>
        /\ todo[h] = {} /\ todo'[h] = Writers(call[h])
        /\ \A g \in Handler \ {h} : todo'[g] = todo[g]
    BY <1>1, <1>9, ZenonT(30) DEF StartWriters, dbs, batches, NamespaceInvariant, TypeOK
  <2>2. "ns_prefix" \in Writers(call[h]) <=> "ns_url" \in Writers(call[h])
    BY DEF Writers, DB, StmtDB
  <2>3. ~Half(h) /\ ~Half(h)'
    BY <2>1, <2>2 DEF Half
  <2> QED
    BY <2>1, <2>3, NamespacesAlone
<1>10. ASSUME NEW h \in Handler, NEW d \in StmtDB, WriteStatements(h, d) PROVE Kept
  <2>1. /\ UNCHANGED <<nsPrefix, nsUrl, bPrefix, bUrl, crashes>>
        /\ todo' = [todo EXCEPT ![h] = @ \ {d}]
    BY <1>10 DEF WriteStatements, batches
  <2>2. d # "ns_prefix" /\ d # "ns_url"
    BY DEF StmtDB
  <2>3. \A g \in Handler, e \in {"ns_prefix", "ns_url"} : e \in todo'[g] <=> e \in todo[g]
    BY <1>1, <2>1, <2>2 DEF TypeOK
  <2> QED
    BY <2>1, <2>3, NamespacesAlone
<1>11. ASSUME NEW h \in Handler, WriteNsPrefix(h) PROVE Kept
  BY <1>11, WriteNsPrefixKeeps
<1>12. ASSUME NEW h \in Handler, WriteNsUrl(h) PROVE Kept
  BY <1>12, WriteNsUrlKeeps
<1>13. ASSUME NEW h \in Handler, Return(h) PROVE Kept
  <2>1. /\ UNCHANGED <<nsPrefix, nsUrl, todo, crashes>> /\ todo[h] = {}
        /\ bPrefix' = [bPrefix EXCEPT ![h] = EmptyPrefixBatch]
        /\ bUrl' = [bUrl EXCEPT ![h] = EmptyUrlBatch]
    BY <1>13 DEF Return, dbs
  <2> DEFINE P == [p \in PrefixKey |-> Keep]
             U == [u \in UriKey |-> Keep]
  <2>2. /\ \A g \in Handler \ {h} : bPrefix'[g] = bPrefix[g] /\ bUrl'[g] = bUrl[g]
        /\ bPrefix'[h] = P /\ bUrl'[h] = U
    BY <1>1, <2>1 DEF EmptyPrefixBatch, EmptyUrlBatch, TypeOK
  <2>3. /\ \A p \in PrefixKey : bPrefix'[h][p] = Keep
        /\ \A u \in UriKey : bUrl'[h][u] = Keep
    BY <2>2
  <2> HIDE DEF P, U
  <2>4. OnlyNamespaces'
    BY <2>1, <2>2, <2>3, ZenonT(30) DEF NamespaceInvariant, OnlyNamespaces
  <2>5. ASSUME NEW g \in Handler, NEW ns \in Namespace PROVE BatchMirrored(g, ns)'
    <3>1. CASE g = h
      BY <2>3, <3>1, NamespaceType DEF BatchMirrored
    <3>2. CASE g # h
      <4>1. bPrefix'[g] = bPrefix[g] /\ bUrl'[g] = bUrl[g] /\ BatchMirrored(g, ns)
        BY <2>2, <3>2 DEF NamespaceInvariant
      <4> QED
        BY <4>1 DEF BatchMirrored
    <3> QED
      BY <3>1, <3>2
  <2>6. \A g \in Handler : ~Half(g) /\ ~Half(g)'
    BY <2>1 DEF Half, OneCallAtATime
  <2>7. crashes' = 0 => \A ns \in Namespace : Mirrored(ns)'
    <3>1. crashes = 0 => \A ns \in Namespace : Mirrored(ns)
      BY <2>6 DEF NamespaceInvariant
    <3> QED
      BY <2>1, <3>1 DEF Mirrored
  <2> QED
    BY <2>4, <2>5, <2>6, <2>7
<1>14. Kept
  BY <1>3, <1>4, <1>5, <1>6, <1>7, <1>8, <1>9, <1>10, <1>11, <1>12, <1>13
     DEF Next, Collect, Finish
<1> QED
  BY <1>1, <1>14, ZenonT(30) DEF NamespaceInvariant

\* The invariant of the two namespace databases, with one call at a time that
\* pairs prefixes and URIs one to one.
THEOREM NamespaceInvariantHolds ==
    ASSUME OneCallAtATime, PairedNamespaces
    PROVE  Spec => []NamespaceInvariant
<1>1. NamespaceInvariant /\ [Next]_vars => NamespaceInvariant'
  BY NextNamespace
<1> QED
  BY <1>1, InitNamespace, PTL DEF Spec

\* What the two databases say of a prefix and a URI.
LEMMA MirroredEntries ==
    ASSUME TypeOK, OnlyNamespaces, \A ns \in Namespace : Mirrored(ns),
           NEW p \in PrefixKey, NEW u \in UriKey
    PROVE  nsPrefix[p] = u <=> nsUrl[u] = p
<1> DEFINE ns == [prefix |-> p, uri |-> u]
<1>1. p # Absent /\ u # Absent
  BY NamespaceAssumption
<1>2. ASSUME nsPrefix[p] = u PROVE nsUrl[u] = p
  <2>1. ns \in Namespace
    BY <1>1, <1>2 DEF OnlyNamespaces
  <2>2. Mirrored(ns)
    BY <2>1
  <2> QED
    BY <1>1, <1>2, <2>2 DEF Mirrored
<1>3. ASSUME nsUrl[u] = p PROVE nsPrefix[p] = u
  <2>1. ns \in Namespace
    BY <1>1, <1>3 DEF OnlyNamespaces
  <2>2. Mirrored(ns)
    BY <2>1
  <2> QED
    BY <1>1, <1>3, <2>2 DEF Mirrored
<1> QED
  BY <1>2, <1>3

\* AddNamespace and RemoveNamespace keep db_ns_prefix and db_ns_url each other's
\* mirror between calls, whichever of the two writer threads is the first.
THEOREM NamespacesStayMirrored ==
    ASSUME OneCallAtATime, PairedNamespaces
    PROVE  Spec => []NamespacesMirrored
<1>1. NamespaceInvariant => NamespacesMirrored
  <2> SUFFICES ASSUME NamespaceInvariant, Idle, crashes = 0
               PROVE  \A p \in PrefixKey, u \in UriKey : nsPrefix[p] = u <=> nsUrl[u] = p
    BY DEF NamespacesMirrored
  <2>1. \A h \in Handler : todo[h] = {}
    BY DEF Idle, NamespaceInvariant
  <2>2. \A h \in Handler : ~Half(h)
    BY <2>1 DEF Half
  <2>3. TypeOK /\ OnlyNamespaces /\ \A ns \in Namespace : Mirrored(ns)
    BY <2>2 DEF NamespaceInvariant
  <2> QED
    BY <2>3, MirroredEntries
<1> QED
  BY <1>1, NamespaceInvariantHolds, PTL

\* A lookup by prefix, by URI or of everything finds a namespace in the
\* database it consults exactly if it matches in db_ns_prefix.
LEMMA LookupExact ==
    ASSUME TypeOK, OnlyNamespaces, \A ns \in Namespace : Mirrored(ns),
           NEW pat \in NamespacePattern, Empty \in {pat.prefix, pat.uri},
           NEW p \in PrefixKey, nsPrefix[p] # Absent
    PROVE  (\E ns \in GetNamespaces(pat) : ns.prefix = p)
              <=> nsMatches([prefix |-> p, uri |-> nsPrefix[p]], pat)
<1>1. pat.prefix \in PrefixKey /\ pat.uri \in UriKey
  BY DEF NamespacePattern
<1>2. nsPrefix[p] \in UriKey
  BY DEF TypeOK
<1>3. CASE pat.prefix # Empty
  <2>1. \A ns : ns \in GetNamespaces(pat) <=>
                    /\ nsPrefix[pat.prefix] # Absent
                    /\ ns = [prefix |-> pat.prefix, uri |-> nsPrefix[pat.prefix]]
    BY <1>3, Zenon DEF GetNamespaces
  <2>2. (\E ns \in GetNamespaces(pat) : ns.prefix = p) <=> p = pat.prefix
    <3> DEFINE one == [prefix |-> pat.prefix, uri |-> nsPrefix[pat.prefix]]
    <3>1. one.prefix = pat.prefix
      OBVIOUS
    <3> HIDE DEF one
    <3>2. \A ns : ns \in GetNamespaces(pat) <=> nsPrefix[pat.prefix] # Absent /\ ns = one
      BY <2>1 DEF one
    <3> QED
      BY <3>1, <3>2, Zenon
  <2>3. nsMatches([prefix |-> p, uri |-> nsPrefix[p]], pat) <=> p = pat.prefix
    BY <1>3 DEF nsMatches
  <2> QED
    BY <2>2, <2>3, ZenonT(30)
<1>4. CASE pat.prefix = Empty /\ pat.uri # Empty
  <2>1. nsPrefix[p] = pat.uri <=> nsUrl[pat.uri] = p
    BY <1>1, MirroredEntries
  <2>2. p # Absent
    BY NamespaceAssumption
  <2>3. (\E ns \in GetNamespaces(pat) : ns.prefix = p) <=> nsUrl[pat.uri] = p
    <3>1. \A ns : ns \in GetNamespaces(pat) <=>
                      /\ nsUrl[pat.uri] # Absent
                      /\ ns = [prefix |-> nsUrl[pat.uri], uri |-> pat.uri]
      BY <1>4, Zenon DEF GetNamespaces
    <3> DEFINE one == [prefix |-> nsUrl[pat.uri], uri |-> pat.uri]
    <3>2. one.prefix = nsUrl[pat.uri]
      OBVIOUS
    <3> HIDE DEF one
    <3>3. \A ns : ns \in GetNamespaces(pat) <=> nsUrl[pat.uri] # Absent /\ ns = one
      BY <3>1 DEF one
    <3> QED
      BY <2>2, <3>2, <3>3, Zenon
  <2> QED
    BY <1>4, <2>1, <2>3 DEF nsMatches
<1>5. CASE pat.prefix = Empty /\ pat.uri = Empty
  BY <1>5, ZenonT(30) DEF GetNamespaces, nsMatches
<1> QED
  BY <1>3, <1>4, <1>5

\* Requests about namespaces take effect in the order of the stream, additions
\* last, though a removal is looked up in one of two databases.
THEOREM NamespacesApplyInOrder ==
    ASSUME OneCallAtATime, PairedNamespaces
    PROVE  Spec => NamespacesInOrder
<1>1. ASSUME NamespaceInvariant, NEW h \in Handler PROVE NsRequestInOrder(h)
  <2>1. TypeOK /\ OnlyNamespaces /\ nsPrefix \in [PrefixKey -> UriKey \cup {Absent}]
    BY <1>1 DEF NamespaceInvariant, TypeOK
  <2>2. ASSUME NEW ns \in Namespace, AddNamespace(h, ns)
        PROVE  NsEffect(h)' = [NsEffect(h) EXCEPT ![ns.prefix] = ns.uri]
    <3>1. /\ \A p \in PrefixKey : bPrefix'[h][p] = IF p = ns.prefix THEN ns.uri ELSE bPrefix[h][p]
          /\ nsPrefix' = nsPrefix
      BY <2>1, <2>2, AddNamespaceStep
    <3>2. ns.prefix \in PrefixKey /\ ns.uri # Keep
      BY NamespaceType
    <3> QED
      BY <2>1, <3>1, <3>2, ZenonT(30) DEF NsEffect, ApplyNs
  <2>3. ASSUME NEW pat \in NamespacePattern, Empty \in {pat.prefix, pat.uri}, crashes = 0,
               RemoveNamespace(h, pat),
               NEW p \in PrefixKey, bPrefix[h][p] \in {Keep, Absent}
        PROVE  NsEffect(h)'[p] = IF nsMatches([prefix |-> p, uri |-> nsPrefix[p]], pat)
                                 THEN Absent ELSE NsEffect(h)[p]
    <3> DEFINE found == \E ns \in GetNamespaces(pat) : ns.prefix = p
    <3>1. bPrefix'[h][p] = (IF found THEN Absent ELSE bPrefix[h][p]) /\ nsPrefix' = nsPrefix
      <4>1. TypeOK /\ RemoveNamespace(h, pat)
        BY <2>1, <2>3
      <4>2. /\ \A g \in Handler \ {h} : bPrefix'[g] = bPrefix[g] /\ bUrl'[g] = bUrl[g]
            /\ \A q \in PrefixKey : bPrefix'[h][q] =
                  IF \E ns \in GetNamespaces(pat) : ns.prefix = q THEN Absent ELSE bPrefix[h][q]
            /\ \A u \in UriKey : bUrl'[h][u] =
                  IF \E ns \in GetNamespaces(pat) : ns.uri = u THEN Absent ELSE bUrl[h][u]
            /\ UNCHANGED <<nsPrefix, nsUrl, todo, crashes, pc>>
        BY <4>1, RemoveNamespaceStep, Zenon
      <4> QED
        BY <4>2
    <3>2. pc[h] = "collect"
      BY <2>3 DEF RemoveNamespace, Message
    <3>3. \A ns \in Namespace : Mirrored(ns)
      BY <1>1, <2>3, <3>2, CollectingMirrored
    <3>4. nsPrefix[p] # Absent => (found <=> nsMatches([prefix |-> p, uri |-> nsPrefix[p]], pat))
      BY <2>1, <2>3, <3>3, LookupExact
    <3>5. Absent # Keep
      BY NamespaceAssumption
    <3> HIDE DEF found
    <3>6. NsEffect(h)[p] = IF bPrefix[h][p] = Keep THEN nsPrefix[p] ELSE Absent
      BY <2>1, <2>3 DEF NsEffect, ApplyNs
    <3>7. NsEffect(h)'[p] = IF found THEN Absent ELSE NsEffect(h)[p]
      BY <2>1, <2>3, <3>1, <3>5, <3>6 DEF NsEffect, ApplyNs
    <3>8. nsPrefix[p] = Absent => NsEffect(h)[p] = Absent
      BY <3>6
    <3> QED
      BY <3>4, <3>7, <3>8
  <2> QED
    BY <2>2, <2>3, ZenonT(30) DEF NsRequestInOrder
<1>2. NamespaceInvariant => [\A h \in Handler : NsRequestInOrder(h)]_vars
  BY <1>1
<1> QED
  BY <1>2, NamespaceInvariantHolds, PTL DEF NamespacesInOrder
=============================================================================
