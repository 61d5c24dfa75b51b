------------------------- MODULE LevelDBPersistence -------------------------
(***************************************************************************)
(* The LevelDB triple store: four statement databases and two namespace    *)
(* databases, written by the concurrent request handlers of LevelDBService.*)
(*                                                                         *)
(* A handler collects a LevelDB batch per database, reading the databases  *)
(* where a request removes something, and then writes every batch: one     *)
(* thread per database, joined before the call returns (AddNamespaces      *)
(* writes its two databases one after the other).  LevelDB makes a single  *)
(* Write atomic; nothing makes the writes of one call atomic together.     *)
(*                                                                         *)
(* A batch is kept as its net effect: the last operation on each key.      *)
(* committed and inDoubt are history variables; no action reads them.      *)
(***************************************************************************)
EXTENDS StatementIndex, FiniteSets

CONSTANTS
    Handler,        \* the threads that serve requests
    Method,         \* the methods clients call
    Prefix, Uri,    \* non-empty namespace prefixes and URIs
    Namespace,      \* the namespaces clients add
    Empty,          \* the empty string, an unset proto3 string field
    Absent,         \* no entry under a key
    Keep,           \* a key that a batch does not mention
    MaxMessages,    \* bound on the messages of one request stream
    MaxCrashes      \* bound on the crashes of a behaviour

PrefixKey == Prefix \cup {Empty}
UriKey == Uri \cup {Empty}

ASSUME NamespaceAssumption ==
    /\ Namespace \subseteq [prefix : PrefixKey, uri : UriKey]
    /\ Empty \notin Prefix \cup Uri
    /\ Absent \notin PrefixKey \cup UriKey
    /\ Keep \notin PrefixKey \cup UriKey \cup {Absent}

ASSUME MethodAssumption ==
    Method \subseteq {"AddStatements", "AddNamespaces", "Update", "RemoveStatements"}

\* Statements are told apart by their keys, of which there are finitely many.
ASSUME StatementAssumption == IsFiniteSet(Statement)

ASSUME BoundsAssumption == MaxMessages \in Nat /\ MaxCrashes \in Nat

DB == StmtDB \cup {"ns_prefix", "ns_url"}

NamespacePattern == [prefix : PrefixKey, uri : UriKey]

VARIABLES
    index,      \* statement databases: the statements each one holds
    nsPrefix,   \* db_ns_prefix: prefix -> URI
    nsUrl,      \* db_ns_url: URI -> prefix
    pc,         \* "idle", "collect" or "write", per handler
    call,       \* the persistence method a handler runs
    batch,      \* its statement batches: "put", "del" or "none" per statement
    bPrefix,    \* its batch for db_ns_prefix
    bUrl,       \* its batch for db_ns_url
    todo,       \* the databases its writer threads have not written yet
    stats,      \* UpdateStatistics, and the messages read so far
    crashes,    \* number of crashes so far
    committed,  \* history: the statements of the last complete write of each
    inDoubt     \* history: statements last written by overlapping or cut off calls

dbs == <<index, nsPrefix, nsUrl>>
batches == <<batch, bPrefix, bUrl, stats>>
history == <<committed, inDoubt>>
vars == <<index, nsPrefix, nsUrl, pc, call, batch, bPrefix, bUrl, todo, stats,
          crashes, committed, inDoubt>>

UpdateStatistics == [added_stmts : Nat, removed_stmts : Nat, added_ns : Nat,
                     removed_ns : Nat, messages : Nat]

NoStats == [added_stmts |-> 0, removed_stmts |-> 0, added_ns |-> 0,
            removed_ns |-> 0, messages |-> 0]

EmptyBatch == [d \in StmtDB |-> [x \in Statement |-> "none"]]
EmptyPrefixBatch == [p \in PrefixKey |-> Keep]
EmptyUrlBatch == [u \in UriKey |-> Keep]

Init ==
    /\ index = [d \in StmtDB |-> {}]
    /\ nsPrefix = [p \in PrefixKey |-> Absent]
    /\ nsUrl = [u \in UriKey |-> Absent]
    /\ pc = [h \in Handler |-> "idle"]
    /\ call = [h \in Handler |-> "none"]
    /\ batch = [h \in Handler |-> EmptyBatch]
    /\ bPrefix = [h \in Handler |-> EmptyPrefixBatch]
    /\ bUrl = [h \in Handler |-> EmptyUrlBatch]
    /\ todo = [h \in Handler |-> {}]
    /\ stats = [h \in Handler |-> NoStats]
    /\ crashes = 0
    /\ committed = {}
    /\ inDoubt = {}

-----------------------------------------------------------------------------
(* Queries *)

GetStatements(pat) == Scan(index[TypeOf(pat)], pat)

Size == Cardinality(index["cspo"])

\* Mutant: without a prefix all namespaces are listed.
GetNamespacesByPrefix(pat) ==
    {[prefix |-> q, uri |-> nsPrefix[q]] :
        q \in {q \in PrefixKey : nsPrefix[q] # Absent /\ pat.prefix \in {q, Empty}}}

\* A prefix is looked up in db_ns_prefix whatever the URI, a URI in db_ns_url,
\* and an empty pattern lists db_ns_prefix.
GetNamespaces(pat) ==
    IF pat.prefix # Empty
    THEN {[prefix |-> q, uri |-> nsPrefix[q]] : q \in {q \in {pat.prefix} : nsPrefix[q] # Absent}}
    ELSE IF pat.uri # Empty
    THEN {[prefix |-> nsUrl[u], uri |-> u] : u \in {u \in {pat.uri} : nsUrl[u] # Absent}}
    ELSE {[prefix |-> q, uri |-> nsPrefix[q]] : q \in {q \in PrefixKey : nsPrefix[q] # Absent}}

-----------------------------------------------------------------------------
(* Effect of a batch on a database *)

Apply(content, b) == {x \in Statement : b[x] = "put" \/ (b[x] = "none" /\ x \in content)}

ApplyNs(content, b) == [k \in DOMAIN content |-> IF b[k] = Keep THEN content[k] ELSE b[k]]

-----------------------------------------------------------------------------
(* Collecting batches *)

\* A streaming request (AddStatements, AddNamespaces, Update) arrives.
Begin(h, method) ==
    /\ pc[h] = "idle"
    /\ pc' = [pc EXCEPT ![h] = "collect"]
    /\ call' = [call EXCEPT ![h] = method]
    /\ UNCHANGED <<dbs, batches, todo, crashes, history>>

\* One more message is read from the stream of h, and stats are as st.
Message(h, methods, st) ==
    /\ pc[h] = "collect"
    /\ call[h] \in methods
    /\ stats[h].messages < MaxMessages
    /\ stats' = [stats EXCEPT ![h] = [st EXCEPT !.messages = @ + 1]]

\* Mutant: one Put is forgotten.
PutAllButPcos(b, x) == [d \in StmtDB |-> IF d = "pcos" THEN b[d] ELSE [b[d] EXCEPT ![x] = "put"]]

\* Mutant: an earlier deletion of the same key wins.
PutAllUnlessDeleted(b, x) == [d \in StmtDB |-> [b[d] EXCEPT ![x] = IF @ = "del" THEN @ ELSE "put"]]

PutAll(b, x) == [d \in StmtDB |-> [b[d] EXCEPT ![x] = "put"]]

\* A statement to add, in AddStatements or as stmt_added of an Update.
AddStatement(h, x) ==
    /\ Message(h, {"AddStatements", "Update"}, [stats[h] EXCEPT !.added_stmts = @ + 1])
    /\ batch' = [batch EXCEPT ![h] = PutAll(@, x)]
    /\ UNCHANGED <<dbs, pc, call, bPrefix, bUrl, todo, crashes, history>>

\* Mutant: one Delete is forgotten.
DeleteAllButCspo(b, X) ==
    [d \in StmtDB |-> [x \in Statement |-> IF x \in X /\ d # "cspo" THEN "del" ELSE b[d][x]]]

\* The deletions RemoveStatements(pattern, batches) adds.
DeleteAll(b, X) == [d \in StmtDB |-> [x \in Statement |-> IF x \in X THEN "del" ELSE b[d][x]]]

\* stmt_removed of an Update: what the database holds now is deleted.
RemoveFromUpdate(h, pat) ==
    LET found == GetStatements(pat) IN
    /\ Message(h, {"Update"}, [stats[h] EXCEPT !.removed_stmts = @ + Cardinality(found)])
    /\ batch' = [batch EXCEPT ![h] = DeleteAll(@, found)]
    /\ UNCHANGED <<dbs, pc, call, bPrefix, bUrl, todo, crashes, history>>

\* The method RemoveStatements(pattern): a batch of its own.
RemoveStatements(h, pat) ==
    LET found == GetStatements(pat) IN
    /\ pc[h] = "idle"
    /\ "RemoveStatements" \in Method
    /\ pc' = [pc EXCEPT ![h] = "collect"]
    /\ call' = [call EXCEPT ![h] = "RemoveStatements"]
    /\ stats' = [stats EXCEPT ![h] = [NoStats EXCEPT !.removed_stmts = Cardinality(found)]]
    /\ batch' = [batch EXCEPT ![h] = DeleteAll(@, found)]
    /\ UNCHANGED <<dbs, bPrefix, bUrl, todo, crashes, history>>

\* A namespace to add, in AddNamespaces or as ns_added of an Update.
AddNamespace(h, ns) ==
    /\ Message(h, {"AddNamespaces", "Update"}, [stats[h] EXCEPT !.added_ns = @ + 1])
    /\ bPrefix' = [bPrefix EXCEPT ![h][ns.prefix] = ns.uri]
    /\ bUrl' = [bUrl EXCEPT ![h][ns.uri] = ns.prefix]
    /\ UNCHANGED <<dbs, pc, call, batch, todo, crashes, history>>

\* Mutant: the entry of db_ns_url stays.
RemoveNamespacePrefix(h, pat) ==
    LET found == GetNamespaces(pat) IN
    /\ Message(h, {"Update"}, stats[h])
    /\ bPrefix' = [bPrefix EXCEPT ![h] = [p \in PrefixKey |->
                      IF \E ns \in found : ns.prefix = p THEN Absent ELSE @[p]]]
    /\ UNCHANGED <<dbs, pc, call, batch, bUrl, todo, crashes, history>>

\* ns_removed of an Update: both keys of every namespace found are deleted.
\* removed_ns is not counted.
RemoveNamespace(h, pat) ==
    LET found == GetNamespaces(pat) IN
    /\ Message(h, {"Update"}, stats[h])
    /\ bPrefix' = [bPrefix EXCEPT ![h] = [p \in PrefixKey |->
                      IF \E ns \in found : ns.prefix = p THEN Absent ELSE @[p]]]
    /\ bUrl' = [bUrl EXCEPT ![h] = [u \in UriKey |->
                   IF \E ns \in found : ns.uri = u THEN Absent ELSE @[u]]]
    /\ UNCHANGED <<dbs, pc, call, batch, todo, crashes, history>>

-----------------------------------------------------------------------------
(* Writing batches *)

\* Mutant: no writer thread for opsc.
WritersWithoutOpsc(method) ==
    CASE method = "Update" -> DB \ {"opsc"}
      [] method = "AddNamespaces" -> {"ns_prefix", "ns_url"}
      [] OTHER -> StmtDB \ {"opsc"}

Writers(method) ==
    CASE method = "Update" -> DB
      [] method = "AddNamespaces" -> {"ns_prefix", "ns_url"}
      [] OTHER -> StmtDB

\* Some statement database is still to be written by h.
Writing(h) == pc[h] = "write" /\ todo[h] \cap StmtDB # {}

Touches(h, x) == batch[h]["spoc"][x] # "none"

\* Another write in progress has the opposite effect on x.
Conflict(h, x) ==
    \E g \in Handler \ {h} : /\ Writing(g)
                             /\ Touches(g, x) /\ Touches(h, x)
                             /\ batch[g]["spoc"][x] # batch[h]["spoc"][x]

\* No other write in progress concerns x.
Alone(h, x) == \A g \in Handler \ {h} : ~(Writing(g) /\ Touches(g, x))

\* The stream of h is over - completed, cancelled or broken, which Read does
\* not tell apart - and its writer threads start.
StartWriters(h) ==
    /\ pc[h] = "collect"
    /\ pc' = [pc EXCEPT ![h] = "write"]
    /\ todo' = [todo EXCEPT ![h] = Writers(call[h])]
    /\ inDoubt' = {x \in Statement : \/ Conflict(h, x)
                                     \/ x \in inDoubt /\ ~(Touches(h, x) /\ Alone(h, x))}
    /\ UNCHANGED <<dbs, batches, call, crashes, committed>>

\* Mutant: a writer thread waits for a lock that a call holds while it reads
\* its stream.
WriteStatementsLocked(h, d) ==
    /\ pc[h] = "write"
    /\ d \in todo[h] \cap StmtDB
    /\ \A g \in Handler : pc[g] # "collect"
    /\ index' = [index EXCEPT ![d] = Apply(@, batch[h][d])]
    /\ todo' = [todo EXCEPT ![h] = @ \ {d}]
    /\ committed' = IF todo[h] \cap StmtDB = {d} THEN Apply(committed, batch[h]["spoc"])
                                                 ELSE committed
    /\ UNCHANGED <<nsPrefix, nsUrl, pc, call, batches, crashes, inDoubt>>

\* The writer thread of statement database d.  The last one completes the
\* statement part of the call.
WriteStatements(h, d) ==
    /\ pc[h] = "write"
    /\ d \in todo[h] \cap StmtDB
    /\ index' = [index EXCEPT ![d] = Apply(@, batch[h][d])]
    /\ todo' = [todo EXCEPT ![h] = @ \ {d}]
    /\ committed' = IF todo[h] \cap StmtDB = {d} THEN Apply(committed, batch[h]["spoc"])
                                                 ELSE committed
    /\ UNCHANGED <<nsPrefix, nsUrl, pc, call, batches, crashes, inDoubt>>

WriteNsPrefix(h) ==
    /\ pc[h] = "write"
    /\ "ns_prefix" \in todo[h]
    /\ nsPrefix' = ApplyNs(nsPrefix, bPrefix[h])
    /\ todo' = [todo EXCEPT ![h] = @ \ {"ns_prefix"}]
    /\ UNCHANGED <<index, nsUrl, pc, call, batches, crashes, history>>

WriteNsUrl(h) ==
    /\ pc[h] = "write"
    /\ "ns_url" \in todo[h]
    /\ call[h] = "AddNamespaces" => "ns_prefix" \notin todo[h]
    /\ nsUrl' = ApplyNs(nsUrl, bUrl[h])
    /\ todo' = [todo EXCEPT ![h] = @ \ {"ns_url"}]
    /\ UNCHANGED <<index, nsPrefix, pc, call, batches, crashes, history>>

\* All writer threads are joined; the call returns stats.
Return(h) ==
    /\ pc[h] = "write"
    /\ todo[h] = {}
    /\ pc' = [pc EXCEPT ![h] = "idle"]
    /\ call' = [call EXCEPT ![h] = "none"]
    /\ batch' = [batch EXCEPT ![h] = EmptyBatch]
    /\ bPrefix' = [bPrefix EXCEPT ![h] = EmptyPrefixBatch]
    /\ bUrl' = [bUrl EXCEPT ![h] = EmptyUrlBatch]
    /\ stats' = [stats EXCEPT ![h] = NoStats]
    /\ UNCHANGED <<dbs, todo, crashes, history>>

\* The process dies - CHECK_STATUS aborts it when a Write fails - and is
\* started again on the same databases.  What was not written is lost.
Crash ==
    /\ crashes < MaxCrashes
    /\ crashes' = crashes + 1
    /\ pc' = [h \in Handler |-> "idle"]
    /\ call' = [h \in Handler |-> "none"]
    /\ batch' = [h \in Handler |-> EmptyBatch]
    /\ bPrefix' = [h \in Handler |-> EmptyPrefixBatch]
    /\ bUrl' = [h \in Handler |-> EmptyUrlBatch]
    /\ todo' = [h \in Handler |-> {}]
    /\ stats' = [h \in Handler |-> NoStats]
    /\ inDoubt' = inDoubt \cup {x \in Statement : \E h \in Handler : Writing(h) /\ Touches(h, x)}
    /\ UNCHANGED <<dbs, committed>>

-----------------------------------------------------------------------------
Collect(h) ==
    \/ \E method \in Method \ {"RemoveStatements"} : Begin(h, method)
    \/ \E x \in Statement : AddStatement(h, x)
    \/ \E pat \in Pattern : RemoveFromUpdate(h, pat)
    \/ \E pat \in Pattern : RemoveStatements(h, pat)
    \/ \E ns \in Namespace : AddNamespace(h, ns)
    \/ \E pat \in NamespacePattern : RemoveNamespace(h, pat)
    \/ StartWriters(h)

Finish(h) ==
    \/ \E d \in StmtDB : WriteStatements(h, d)
    \/ WriteNsPrefix(h)
    \/ WriteNsUrl(h)
    \/ Return(h)

Next == Crash \/ \E h \in Handler : Collect(h) \/ Finish(h)

\* Writer threads run and are joined; nothing makes a client end its stream.
Spec == Init /\ [][Next]_vars /\ \A h \in Handler : WF_vars(Finish(h))

-----------------------------------------------------------------------------
(* Properties *)

\* What the databases, the handlers' batches and the statistics hold.
TypeOK ==
    /\ index \in [StmtDB -> SUBSET Statement]
    /\ nsPrefix \in [PrefixKey -> UriKey \cup {Absent}]
    /\ nsUrl \in [UriKey -> PrefixKey \cup {Absent}]
    /\ pc \in [Handler -> {"idle", "collect", "write"}]
    /\ call \in [Handler -> Method \cup {"none"}]
    /\ batch \in [Handler -> [StmtDB -> [Statement -> {"none", "put", "del"}]]]
    /\ bPrefix \in [Handler -> [PrefixKey -> UriKey \cup {Absent, Keep}]]
    /\ bUrl \in [Handler -> [UriKey -> PrefixKey \cup {Absent, Keep}]]
    /\ todo \in [Handler -> SUBSET DB]
    /\ stats \in [Handler -> UpdateStatistics]
    /\ crashes \in Nat
    /\ committed \in SUBSET Statement
    /\ inDoubt \in SUBSET Statement

\* No write in progress concerns x, and the last writes of x neither
\* overlapped in conflict nor were cut off by a crash.
Settled(x) ==
    /\ x \notin inDoubt
    /\ \A h \in Handler : ~(Writing(h) /\ Touches(h, x))

\* The writer threads of AddStatements, RemoveStatements and Update leave a
\* settled statement in all four databases or in none, as the last complete
\* call to concern it said, however the threads of several calls interleave
\* and whatever an earlier crash or conflict left behind.
IndexesHoldCommitted ==
    \A x \in Statement : Settled(x) => \A d \in StmtDB : x \in index[d] <=> x \in committed

\* GetStatements finds a settled statement by every pattern that matches it,
\* whichever database the pattern is answered from, exactly if the last
\* complete call to concern it added it.
QueriesSeeCommitted ==
    \A pat \in Pattern, x \in Statement :
        Settled(x) /\ matches(x, pat) => (x \in GetStatements(pat) <=> x \in committed)

\* A step that changes what is committed of a statement has brought it into,
\* or out of, all four databases.
CommitStep ==
    \A x \in Statement : (x \in committed') # (x \in committed) /\ x \notin inDoubt'
                            => \A d \in StmtDB : x \in index'[d] <=> x \in committed'

\* At the moment the last writer thread of a call is done, and before the
\* call returns, its effect is in all four databases, even while calls that
\* agree with it are still writing.
CommitCompletes == [][CommitStep]_vars

\* What the store will hold once the batch of h is written, if nothing else is.
Effect(h) == Apply(index["spoc"], batch[h]["spoc"])

\* The request read in this step has the effect of being applied after the ones
\* before it: an addition in any case, a removal on the statements that are
\* settled and that it does not match or the stream has not added.
RequestInOrder(h, x) ==
    /\ \A y \in Statement : AddStatement(h, y) => (x \in Effect(h)' <=> x \in Effect(h) \cup {y})
    /\ \A pat \in Pattern :
          /\ RemoveFromUpdate(h, pat) /\ PrefixPattern(pat) /\ Settled(x)
          /\ batch[h]["spoc"][x] = "put" => ~matches(x, pat)
          => (x \in Effect(h)' <=> x \in Effect(h) /\ ~matches(x, pat))

\* An Update whose removals precede its additions, the only kind the Java client
\* sends, has the effect of its requests one after the other, though all are
\* collected first, additions override earlier deletions in the batch, and
\* removals are looked up in the database, by an index of their own.
StreamsInOrder == [][\A h \in Handler, x \in Statement : RequestInOrder(h, x)]_vars

\* "Batch update operation to process a stream of update requests. Updates are
\* applied in order.": a removal leaves nothing of what it matches, also when the
\* stream has added it.
\* The code does not keep this: see the README.
UpdatesInOrder ==
    [][\A h \in Handler, pat \in Pattern :
          RemoveFromUpdate(h, pat) => \A x \in Effect(h)' : ~matches(x, pat)]_vars

\* A call whose stream has ended returns: its writer threads never wait for
\* those of another call, nor for each other except in AddNamespaces.
CallsReturn == \A h \in Handler : pc[h] = "write" ~> pc[h] = "idle"

Idle == \A h \in Handler : pc[h] = "idle"

\* "The updates are collected in LevelDB batches and written atomically to the
\* database when iteration ends": with no call running, the databases agree.
\* The code does not keep this: see the README.
IdleIndexesAgree == Idle => \A d, e \in StmtDB : index[d] = index[e]

\* "Remove all statements matching the pattern": what RemoveStatements and an
\* Update's stmt_removed delete matches the pattern.
\* The code does not keep this: see the README.
RemovesOnlyMatching ==
    [][\A h \in Handler, pat \in Pattern :
          RemoveStatements(h, pat) => \A x \in Statement :
             batch'[h]["spoc"][x] = "del" => matches(x, pat)]_vars

\* AddNamespace and RemoveNamespace keep the two namespace databases each
\* other's mirror, with one call at a time that pairs prefixes and URIs one to
\* one, as long as no crash comes between the two writes.
NamespacesMirrored ==
    Idle /\ crashes = 0 => \A p \in PrefixKey, u \in UriKey : nsPrefix[p] = u <=> nsUrl[u] = p

nsMatches(ns, pat) ==
    /\ pat.prefix # Empty => ns.prefix = pat.prefix
    /\ pat.uri # Empty => ns.uri = pat.uri

\* The prefixes once the batch of h is written, if nothing else is.
NsEffect(h) == ApplyNs(nsPrefix, bPrefix[h])

\* What the request about namespaces that is read in this step does to them.
NsRequestInOrder(h) ==
    /\ \A ns \in Namespace :
          AddNamespace(h, ns) => NsEffect(h)' = [NsEffect(h) EXCEPT ![ns.prefix] = ns.uri]
    /\ \A pat \in NamespacePattern :
          Empty \in {pat.prefix, pat.uri} /\ crashes = 0 /\ RemoveNamespace(h, pat) =>
             \A p \in PrefixKey : bPrefix[h][p] \in {Keep, Absent} =>
                NsEffect(h)'[p] = IF nsMatches([prefix |-> p, uri |-> nsPrefix[p]], pat)
                                  THEN Absent ELSE NsEffect(h)[p]

\* Requests about namespaces take effect in the order of the stream, with the
\* additions last, though removals are looked up by two databases while additions
\* are collected in batches for both, with one call at a time that pairs prefixes
\* and URIs one to one.  The default namespace has an empty prefix, which in a
\* pattern stands for every prefix: a removal by it takes all namespaces along.
NamespacesInOrder == [][\A h \in Handler : NsRequestInOrder(h)]_vars

\* removeNamespace(prefix) of the Java frontend, which sends a pattern with that
\* prefix, is about the namespace with this prefix only.
\* The code does not keep this: see the README.
OnePrefixRemoved ==
    [][\A h \in Handler, p \in PrefixKey : RemoveNamespace(h, [prefix |-> p, uri |-> Empty])
          => \A q \in PrefixKey \ {p} : NsEffect(h)'[q] = NsEffect(h)[q]]_vars

\* "Get all namespaces matching the pattern (which may have some of all fields
\* unset to indicate wildcards)": with no call running, a lookup by prefix or
\* by URI finds the namespaces of the full listing that match.
\* The code does not keep this: see the README.
NamespaceLookup ==
    Idle => LET all == GetNamespaces([prefix |-> Empty, uri |-> Empty])
            IN  \A pat \in NamespacePattern :
                    Empty \in {pat.prefix, pat.uri}
                       => GetNamespaces(pat) = {ns \in all : nsMatches(ns, pat)}

\* "Update responses contain statistics about the modified entities": an
\* Update whose batch deletes a namespace counts a removed namespace.
\* The code does not keep this: see the README.
RemovedNamespacesCounted ==
    \A h \in Handler :
        pc[h] = "write" /\ (\E p \in PrefixKey : bPrefix[h][p] = Absent) => stats[h].removed_ns > 0

-----------------------------------------------------------------------------
(* The inductive invariant behind IndexesHoldCommitted *)

\* AddStatement and RemoveStatements treat the four statement batches alike.
BatchesAgree == \A h \in Handler, d \in StmtDB : batch[h][d] = batch[h]["spoc"]

\* A handler without a statement to write has empty statement batches.
BatchesClean ==
    \A h \in Handler : pc[h] = "idle" \/ call[h] = "AddNamespaces" => batch[h] = EmptyBatch

\* Writes in progress of a statement that is not in doubt have one effect.
WritersAgree ==
    \A x \in Statement \ inDoubt, g, h \in Handler :
        Writing(g) /\ Writing(h) /\ Touches(g, x) /\ Touches(h, x)
            => batch[g]["spoc"][x] = batch[h]["spoc"][x]

\* What a writer thread of a call has written stays while the call is writing.
WrittenHolds ==
    \A x \in Statement \ inDoubt, h \in Handler :
        Writing(h) /\ Touches(h, x)
            => \A d \in StmtDB \ todo[h] : x \in index[d] <=> batch[h]["spoc"][x] = "put"

\* The strengthening of IndexesHoldCommitted that every step preserves.
IndexInvariant ==
    /\ TypeOK
    /\ BatchesAgree
    /\ BatchesClean
    /\ WritersAgree
    /\ WrittenHolds
    /\ IndexesHoldCommitted

-----------------------------------------------------------------------------
(* The inductive invariant behind NamespacesMirrored and NamespacesInOrder *)

\* One call at a time, which pairs prefixes and URIs one to one.
OneCallAtATime == \A g, h \in Handler : g = h
PairedNamespaces == \A m, n \in Namespace : m.prefix = n.prefix <=> m.uri = n.uri

\* The two databases agree about ns.
Mirrored(ns) ==
    \/ nsPrefix[ns.prefix] = ns.uri /\ nsUrl[ns.uri] = ns.prefix
    \/ nsPrefix[ns.prefix] = Absent /\ nsUrl[ns.uri] = Absent

\* And so do the two batches of h.
BatchMirrored(h, ns) ==
    \/ bPrefix[h][ns.prefix] = ns.uri /\ bUrl[h][ns.uri] = ns.prefix
    \/ bPrefix[h][ns.prefix] = Absent /\ bUrl[h][ns.uri] = Absent
    \/ bPrefix[h][ns.prefix] = Keep /\ bUrl[h][ns.uri] = Keep

\* Databases and batches have entries of the clients' namespaces only.
OnlyNamespaces ==
    /\ \A p \in PrefixKey :
        /\ nsPrefix[p] # Absent => [prefix |-> p, uri |-> nsPrefix[p]] \in Namespace
        /\ \A h \in Handler :
             bPrefix[h][p] \notin {Keep, Absent} => [prefix |-> p, uri |-> bPrefix[h][p]] \in Namespace
    /\ \A u \in UriKey :
        /\ nsUrl[u] # Absent => [prefix |-> nsUrl[u], uri |-> u] \in Namespace
        /\ \A h \in Handler :
             bUrl[h][u] \notin {Keep, Absent} => [prefix |-> bUrl[h][u], uri |-> u] \in Namespace

\* h has written one of the two databases, and will bring the other one in line.
Half(h) == ~("ns_prefix" \in todo[h] <=> "ns_url" \in todo[h])

HalfWritten(h, ns) ==
    IF bPrefix[h][ns.prefix] = Keep THEN Mirrored(ns)
    ELSE IF "ns_url" \in todo[h] THEN nsPrefix[ns.prefix] = bPrefix[h][ns.prefix]
    ELSE nsUrl[ns.uri] = bUrl[h][ns.uri]

NamespaceInvariant ==
    /\ TypeOK
    /\ \A h \in Handler : pc[h] # "write" => todo[h] = {}
    /\ OnlyNamespaces
    /\ \A h \in Handler, ns \in Namespace : BatchMirrored(h, ns)
    /\ crashes = 0 =>
        \A ns \in Namespace : /\ (\A h \in Handler : ~Half(h)) => Mirrored(ns)
                              /\ \A h \in Handler : Half(h) => HalfWritten(h, ns)
=============================================================================
