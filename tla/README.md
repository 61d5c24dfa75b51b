# TLA+ specifications of cmarmotta

cmarmotta is an RDF triple store: a C++ server that keeps statements and
namespaces in LevelDB and serves them through gRPC, a proxy that spreads the
statements over several such servers, SPARQL evaluation through Rasqal, a C++
RDF model, a command line client, and a Java frontend that makes the server
usable as a Sesame Sail.  This directory holds specifications of these parts,
the TLC models that check them, and TLAPS proofs.

`PROJECT.json` lists the components, the runs, which lines of `src/` each
definition stands for (`map`), a mutant per checked property, the hazards of the
code and the findings.

    tlc -config Persistence.cfg MCPersistence      # a run
    tlapm LevelDBPersistenceProofs.tla             # the proofs of a module

## 1. The system

| Part | State | Operations | What is hard |
|---|---|---|---|
| Statement indexes (`persistence/leveldb_persistence.cc`) | four LevelDB databases with keys ordered spoc, cspo, opsc, pcos | choose an index for a pattern, scan a key range | the range must contain every match; which patterns need a filter |
| Persistence (`persistence/leveldb_persistence.*`) | the four databases, two namespace databases | AddStatements, RemoveStatements, Update, AddNamespaces, GetNamespaces, Size | every call writes its databases by separate threads; calls overlap; the process may die between two writes |
| gRPC service (`persistence/leveldb_service.*`) | none of its own | one handler per RPC; Clear, Size and RemoveStatements loop over contexts and read before they write | steps of other handlers between the read and the write |
| SPARQL (`persistence/leveldb_sparql.*`, `sparql/*`) | a stack of triple pattern matches, bound variables | the callbacks given to Rasqal, the lazy iterator over a scan, term conversion | nested scans, each on a snapshot of its own; state kept between callbacks |
| C++ RDF model (`model/*`) | tagged protobuf messages | construction, copy, move, getters, setters, equality, printing | the type tag and the message must change together |
| Sharding proxy (`sharding/*`) | none; stubs of the backends | route additions by hash, send everything else to all, collect answers with a thread per backend | backends that fail, overlapping calls, unsynchronised collection |
| Java Sail connection (`CMarmottaSailConnection.java`) | the current Update stream and its future | begin, add, remove, query, commit, rollback, gRPC callbacks | late callbacks of an earlier stream, cancellation, broken connections |
| Java response stream (`ClosableResponseStream.java`) | a queue with two places | iterate, close; gRPC's listener | flow control between two threads, close racing with messages |
| Command line client, RDF parser, serializers (`client/client.cc`, `parser/*`, `serializer/*`) | none; two client streams, a client reader | import, delete, select | connections that break while the server works on, results nobody looks at, exceptions nobody catches |
| Term conversions (parser, serializers, Java model) | - | message to raptor or Sesame term and back | the libraries know one kind of literal, the messages two |
| Java Sail glue, utilities, server mains | - | - | configuration and start-up; see section 8 |

They interact along three paths.  *Updates*: client -> (proxy ->) `Update` of the
service -> batches -> writer threads -> databases.  *Queries*: client -> (proxy,
one thread per backend ->) `GetStatements` -> range scan -> answers streamed back
-> response stream.  *SPARQL*: a query inside the server, evaluated by Rasqal
calling back into the same range scans.

## 2. The modules

| Module | Models | EXTENDS |
|---|---|---|
| `StatementIndex` | keys, pattern types, index choice, key ranges: pure operators | |
| `StatementScan` | one GetStatements over a snapshot, the iterator step by step | `StatementIndex` |
| `TripleStore` | abstract: what a server promises its callers, one store of entries changed by calls | |
| `CommandLineClient` | a user's commands: import, delete and select, against the server, with faults | `StatementScan`, instance of `TripleStore` |
| `LevelDBPersistence` | the writing calls, their batches and writer threads, crashes | `StatementIndex` |
| `LevelDBRefinement` | the store that callers see behind the four databases | `LevelDBPersistence`, instance of `TripleStore` |
| `LevelDBService` | the handlers Clear, Size and RemoveStatements, among other clients' additions | `StatementIndex` |
| `SparqlQuery` | a query of triple patterns: Rasqal's nested loop (external), the callbacks, the lazy iterator, the rows | `StatementIndex` |
| `RdfModel` | C++ variables of the types URI, BNode, literals, Value, Resource, Statement | |
| `TermConversion` | the conversions of terms to raptor and Sesame and back, and the Java `equals` | `RdfModel` |
| `ResponseStream` | the two threads around the queue of `ClosableResponseStream` | |
| `SailConnection` | the Java transactions and the server's end of their streams | |
| `Sharding` | the proxy's updates and the backends that receive them | |
| `ShardingRefinement` | the store that callers see behind the proxy | `Sharding`, instance of `TripleStore` |
| `ShardingFanout` | one request collected from all backends by threads | |

`MC...` modules give TLC the constants that a `.cfg` file cannot express.  The
`...Proofs` modules hold theorems.  The modules that have theorems declare no
recursive operators.

`TripleStore` is a specification and translates no code: it is what
`LevelDBPersistence` and `Sharding` are shown to implement, and what
`CommandLineClient` relies on.  For the same reason the refinement mappings
(`AbstractStore` and its companions) have no entry in the map.

### How state and actions correspond to the code

**StatementIndex.** `StatementKey` is the key `AddStatement` builds: the hashes of
the four components in the order of the index.  `computeKey` is the prefix of
hashes that `PatternQuery` computes, filled with 0 (`MinKey`) or with the largest
value (`MaxKey`) from the first unset field on; `Less` is the comparison of the
comparator, block by block.  `TypeOf` chooses the index as `PatternQuery` does and
`Scan` is the result of a completed range scan.  The 128-bit Murmur hash is an
injective function into `0 .. MaxHash` (assumption `HashInjective`): two terms
with one hash are not modelled, terms that hash to the smallest and the largest
value are, and the instances contain them.

**StatementScan.** `rest` is what LevelDB's iterator has left of its snapshot.
`Open` is the constructor with its `Seek`; each further step is a turn of the
loop of GetStatements, which the callback may stop.  `ScanSpec` runs scans one after
the other, of any pattern over any store, with any client and a process that may
die; the scan of a select in `CommandLineClient` takes no other steps.

**TripleStore.** A call collects changes (`Begin`, `Put`, `Delete`), is closed, and
makes them all in one step (`Commit`).  Two calls being written at the same time
that disagree on a key, and a crash while a call is written, make the value of the
key `unknown` until a call that is alone writes it again: this is what the code
keeps of "written atomically" (section 7).  A reader finds what is stored, and may
or may not see a key that is being written or is unknown (`Found`).

**CommandLineClient.** `at` is where the process of the command stands, `calls` the
update calls it and earlier commands have made, each with its requests on the way,
the state of its handler and the status that `Finish` will have.  An import writes
every item the parser hands out to one of two streams (`Parse`), then ends and
finishes both; it looks at nothing but the two statuses.  A select reads from the
stream of a `StatementScan` and drops the status.  The three exceptions that nothing
catches (an unknown term type, a default namespace, whose prefix is a null pointer,
and a statement without context in a raptor serializer) end the process.
`BreakCalls` and `BreakSelect` cut connections, `Crash` ends the server;
afterwards handlers of a dead client may still be at work when the next command
runs.  `serializer.h:42` takes an abstract iterator by value, which no compiler
accepts; it is modelled as the reference that `serializer_base.h:66` takes.

**LevelDBPersistence.** `index[d]` is the set of statements in database `d`;
`nsPrefix` and `nsUrl` are the two namespace databases.  A handler has a `pc`, a
`batch` per database (as the last operation on each key) and `todo`, the
databases whose writer thread is not done.  Reading a request and putting it into
the batches is one step: the batches are local to the call, and a removal scans a
snapshot of one index.  Every `DB::Write` is a step of its own, since LevelDB makes
one Write atomic and nothing more.  `Crash` may happen anywhere; batches and calls
disappear, what was written stays.  Writes that an operating system loses because
they were not synced are not modelled.  `committed` and `inDoubt` are history:
what the last complete call said of a statement, and the statements on which
writes in progress disagreed or which a crash caught half written.

**LevelDBRefinement.** The abstract store is read off the four databases for a
settled statement, and has a value outside of `TripleStore` ("torn") if they
disagree; `inDoubt` is `unknown`.  A call takes effect with the last of its four
writes.

**LevelDBService.** Clear, Size and RemoveStatements turn by turn: finding the
statements of one pattern, deleting them, counting one context are steps, between
which other handlers and other clients' additions run.  The deletion from the
four indexes is one step here; its interleaving is the subject of
`LevelDBPersistence`.

**SparqlQuery.** `column` is the triple pattern Rasqal is at and `match[i]` the
iterator of column `i`; the actions are the callbacks `init_triples_match`,
`bind_match` (with `next_match`) and `finish`, and `Row`, the loop of TupleQuery.
Rasqal's nested loop is external and modelled from the callbacks it is given.
Every match opens a snapshot of its own, of which `rest` is the set still to come,
read in the key order of its index (`First`).  `ever` and `at` are history: what was
stored at some time during the query, and the statement each column is at.  The member `parsed` of the lazy iterator
is not initialised in the code and starts with any value of `InitParsed`.  The
conversions of `rasqal_model.cc` map a term to itself or to the empty message
according to its kind and to what Rasqal knows (`Native`).

**RdfModel.** A C++ variable is its message (the case of the oneof, content, tag)
and its `type`; each constructor, copy and move assignment, getter and setter is an
action.  `as_turtle` and `stringValue` give what is printed as delimiters, content
and suffix.

**TermConversion.** A term of raptor or Sesame is its type, string, language and
datatype.  `serializeTerm` and `parseObject` are the two sides of raptor,
`ToSesame` and `FromSesame` those of the Java model.  They are operators over the
messages that programs of `RdfModel` produce.

**ResponseStream.** gRPC's listener (`onMessage`, `onCloseOk`, `onCloseError`) and
the iterating thread (`Call`, `Take`, `Answer`, `Request`, `Return`, `close`) share
`buffer`.  gRPC, external, delivers no more messages than were asked for and
closes once.

**SailConnection.** `observer` and `future` are the fields of the connection;
`stream` holds every Update call with both of its ends: what was sent, what the
server has read, its batch, and the callback that is still to come.  The shared
response observer sets the future of the moment (`Callback`).  Adding a statement
to several contexts is several `Add` steps in a row.

**Sharding.** A handler of the proxy forwards requests on one call per backend
(`link`), then finishes the calls one after the other; a backend collects a batch
and writes it when its call is finished.  A call may fail, and its backend may still
write what it has collected (`orphans`).  The proxy looks at no status.
In `ShardingRefinement` a call takes effect when the first of its backends writes;
from then on the abstract store has what the others are still to write.  A
statement held by two backends, or a namespace on which they differ, is "torn".

**ShardingFanout.** One request and a thread per backend.  The unsynchronised `+=`
is a load and a store; GetStatements writes under the mutex; GetContexts does not
join its threads.

## 3. The runs

| Run | Config | States | What it checks |
|---|---|---|---|
| client | `CommandLineClient` | 161,612 | One select with every pattern against every store of up to two statements, and twelve scripts of two commands, with one fault anywhere. `ScanIsRange`: the iteration returns each statement of its key range once and in order, so the operator `Scan` may stand for it elsewhere. `SelectPrints`: what is printed is an initial part of that, and if the stream was not broken all of it, no match missing. `ImportReports`, `DeleteReports`: the numbers reported and the store behind them are right. `NoGaps`: an import that failed or was aborted has left an initial part of its statements and of its namespaces. `ScriptEnds`: every command ends and no handler is left behind. |
| persistence | `Persistence` | 135,818 | Two overlapping calls that add and remove one statement. `IndexInvariant` (which contains `IndexesHoldCommitted`): the four indexes agree on every settled statement, however the writer threads interleave. `QueriesSeeCommitted`: every pattern gets the same answer from its index. `ImplementsTripleStore`: to callers, a call changes one store in one step. `CallsReturn`: writer threads wait for no other call. |
| persistence_race | `PersistenceRace` | violation | `IdleIndexesAgree`, "written atomically": see section 7. |
| persistence_update | `PersistenceUpdate` | 470,367 | One Update or AddNamespaces after another, with a crash anywhere. `StreamsInOrder`: a stream with its removals first has the effect of its requests in order. `NamespacesInOrder`: the same of namespaces, which are looked up in two databases. `NamespacesMirrored`: the two namespace databases mirror each other. `ImplementsTripleStore`: with crashes too; a statement caught by a crash is settled again by the next call that writes it. |
| service | `LevelDBService` | 358,624 | Two handlers and other clients. `ClearedAll`, `ClearsOnlyAsked`: Clear leaves nothing of what its contexts held and deletes nothing else. `SizeExact`: an undisturbed Size of different contexts is exact. |
| sparql | `SparqlQuery` | 47,749 | Five queries of one or two patterns over every store of up to three statements, with one write in between. `RowsWereStored`: each row has a stored statement for each pattern. `JoinComplete`: an undisturbed query returns each solution as one row. `QueryEnds`: the nested loops end. |
| rdf_model | `RdfModel` | 198,168 | A variable of each class, two of `URI` and of `Statement`. `TypeIsCase`: type and message agree after any sequence of operations. `EqualPrintAlike`: values that `==` finds equal, also those read from statements, print alike. `RoundTrip`: every proper term comes back as it was from raptor and from Sesame. |
| response_stream | `ResponseStream` | 284 | `DeliveryInvariant` (inductive), `NeverOverflows`: two places are enough. `InOrder`, `EndIsComplete`: the answers come in order and all of them before the end. `CallsReturn`: no call blocks for ever. |
| sail_connection | `SailConnection` | 683,918 | Commits, queries, removals, rollbacks, breaking connections, a dying server. `RemovalsFirst`: no stream has a removal behind an addition, which is what `StreamsInOrder` needs of a client. `CommitTakesEffect`: a commit that returns has brought the store to the effect of the updates in order, until a stream is cancelled. `CommitReturns`. |
| sharding | `Sharding` | 231,266 | Two overlapping calls and a failing backend. `PlacementInvariant` (which contains `Placement`): a statement is, and is on its way, only to the backend of its bucket. `CallsReturn`: a failed backend does not block the proxy. |
| sharding_refinement | `ShardingRefinement` | 25,647 | Streams of two requests over three backends. `ImplementsTripleStore`: while no backend fails and calls do not overlap, the proxy with its backends is one store, whatever the pace of the backends. |
| sharding_fanout | `ShardingFanout` | 671,584 | Three backends. `FanoutReports`: success only if all succeed, and never more than the sum. `OneWriter`, `Multiplexed`: one thread at a time writes to the client, and each answer is passed on once, in its backend's order. `Returns`. |

The types of the state are checked in sparql (`QueryTypeOK`) and sail_connection
(`TypeOK`), as a part of the inductive invariants in persistence, response_stream and
sharding, and proved for all modules with theorems.

Two runs have properties under conditions that a reader should know.  What
`CommandLineClient` says of reports holds of a command that is `quiet`: nothing of
an earlier command was still at work in the server when it started.  And
`ShardingRefinement` has one handler and no failures: the proxy does not order
overlapping calls nor look at its backends' statuses, so with either it is no
`TripleStore` (`NamespacesOnAll` in section 7 shows both).

## 4. Bounds

- *Handlers*: two wherever calls overlap.  The conflicts of the code are between
  pairs of writes of one key; `IndexInvariant` and `Placement` are proved for any
  number.
- *Statements*: one in persistence and persistence_update, where statements do not interact other than
  through a pattern that matches several; two in client; up to three stored ones in
  sparql, so that a join has several partners; keys include hash 0 and the
  largest hash.
- *Messages of a stream* (`MaxMessages`, `MaxSent`): two where the order in a
  stream matters, one where only calls interleave.  Calls repeat without bound.
- *Commands* (`Scenario`, `MaxCalls`): scripts of one or two, so that the second
  meets what a broken first has left at work.  An import makes two calls, hence
  `MaxCalls = 4`.
- *Crashes and failures* (`MaxCrashes`, `MaxFailures`, `MaxFaults`): one per behaviour, after
  which further calls run.
- *Streams of a connection* (`MaxStreams`): two, enough for a removal to commit the
  stream before it and for a callback of one stream to meet the next.
- *Answers* (`Answers` = 4): more than the queue holds; `NeverOverflows` is proved
  for any number.
- *Backends*: two where calls overlap and fail, three in sharding_refinement and
  sharding_fanout.
- `MaxStored`, `MaxWrites`, `MaxAdded`, `MaxContexts`, `MaxValue` bound data only.

`CHECK_DEADLOCK FALSE` stands where a behaviour ends: a connection that has used
its streams, a service that has used its additions, a query that is done.

## 5. Fairness

| Module | Weak fairness of | Because |
|---|---|---|
| LevelDBPersistence | the writer threads and the return of each call | `std::thread`s run and are joined.  None for reading: a client need not end its stream. |
| CommandLineClient | the steps of the client, of each handler and of GetStatements | the client is one thread, and a live server serves every call it has accepted.  None for faults. |
| SparqlQuery | the steps of the query | it runs in one thread. |
| ResponseStream | delivery of requested messages or of the end, the end of a cancelled call, the iterating thread inside a call | gRPC delivers what was requested from a live server and closes cancelled calls.  None for the user's calls. |
| SailConnection | callback, read and write of each stream; the return from `get()` once the future is set | a live server and gRPC make progress; a broken call gets its error callback. |
| Sharding | backend steps, finish and return of each handler | backends answer or fail. |
| ShardingFanout | each backend thread, and the handler | threads run; backends answer or fail. |

## 6. What is proved

TLAPS proves the following for all values of the constants that satisfy the named
assumptions.

**StatementIndexProofs** (assumptions `HashAssumption`, `HashInjective`,
`UnsetAssumption`).  `RangeIsPrefix`: a statement is in the range of a pattern
exactly if it agrees with the pattern on the leading set fields of the index
order.  The lexicographic order on four blocks is unrolled once (`LessUnrolled`,
`FilledRange`).  From it follow `MatchesInRange` (no match is lost) and
`PrefixScanExact` (with a prefix pattern nothing else is returned).
`FirstIsLeast`: an iterator stands on an entry with the least key (`LeastEntry`, from
the least element of a set of naturals, one block of the key after the other), and no
other has that key (`KeyInjective`).

`SetFacts` names the facts of the library's theorem modules that the modules built on
this one need: on the least number of a set and on the cardinality of finite sets.
Lemmas have it as a hypothesis, and `CommandLineClientProofs` and `ServerProofs` prove it
from the library (`Library`) in front of their theorems, none of which has it as one.
This keeps the library out of the context of the many steps that do not use it.

**CommandLineClientProofs** (`ClientAssumption`, and the assumptions of
StatementIndexProofs).  `ScansAreRanges` (`ScanIsRange`): the iterator of GetStatements
computes `Scan`, of any store.  `ScanIsRange` looks at neighbours and at sets; the
inductive `ScanInvariant` says that all that was emitted is in order, is in the range,
and comes before all that is left.  `ClientScans`: to the iterator, a script of commands
is one of the clients of `ScanSpec`.

`ClientInvariantHolds`; from it `ImportsAreReported` (`ImportReports`), `ImportsHaveNoGaps`
(`NoGaps`), `DeletesAreReported` (`DeleteReports`) and `SelectsArePrinted` (`SelectPrints`),
for scripts, documents and stores of any size and any number of faults.  `MaxCalls` is
any number here: calls beyond it are made, and never served.  The four properties
speak of the end of a command and are not inductive; `ClientInvariant` says how
far each of its parts has come.  `CallsAgree` ties the client's view of a call to the
server's.  `ImportInvariant` gives each of the two calls of an import an item of the
document that it has reached (`Reached`): what the call has collected, or stored if it
is done, are the changes up to that item, the requests on their way are those of the
items behind it, in order (`Queued`, unless the connection is broken), and the counter
counts the items before it.  A crash ends both calls, and makes
the keys of one that is being written `unknown`.  `DeleteInvariant` says that the one call of a delete
has collected exactly `Gone`, and `SelectInvariant` that what was printed is what was
emitted, up to some point.  Each is about a `quiet` command, and is established by its
start, when no call is at work.

**LevelDBPersistenceProofs** (`NamespaceAssumption`, `MethodAssumption`,
`StatementAssumption`, `BoundsAssumption`).  `TypeCorrect`; and for the two namespace
databases `NamespaceInvariantHolds`, `NamespacesStayMirrored` (`NamespacesMirrored`)
and `NamespacesApplyInOrder` (`NamespacesInOrder`).  These three assume
`OneCallAtATime` and `PairedNamespaces` (no URI has two prefixes and no prefix two
URIs), as the run does: overlapping calls and rebound prefixes do separate the two
databases.  The inductive `NamespaceInvariant` says that, until a crash, the databases
mirror each other whenever none or both of a call's two writes are done, that the
two batches of a call mirror each other (`BatchMirrored`), and that between the two
writes the database written has what the batch says, and the batch brings the other
one in line (`HalfWritten`).

**LevelDBStatementProofs** (the assumptions of LevelDBPersistenceProofs).
`IndexInvariantHolds`, the inductive invariant of the statement databases; from it
`IndexesConsistent` (`IndexesHoldCommitted`), `QueriesConsistent` (with
`MatchesInRange`), `CommitsComplete`, and `StreamsApplyInOrder` (`StreamsInOrder`,
with `PrefixScanExact`).  `IndexesHoldCommitted` is not inductive: it says nothing of
a statement while it is written.  `BatchesAgree` (a call's four batches are alike),
`WritersAgree` (writes in progress of a statement not in doubt have one effect) and
`WrittenHolds` (what a thread has written of such a statement stays until its call
is complete) supply that; `BatchesClean` says that calls without statements write
none.

`LevelDBImplementsTripleStore`: the refinement, for any number of handlers,
statements and crashes.  By `IndexInvariant` the abstract store is `committed`
without what is in doubt (`StoreIsCommitted`); then every action is matched with
one of `TripleStore` (`AddStep`, `DeleteStep`, `RemoveStep`, `CloseStep`,
`WriteStep`, `CrashStep`) or is not seen by callers (`Unseen`).  The fairness of
`TripleStore` is not part of it.

**AnswerProofs** (`AnswersAssumption`, `MarkersAssumption`, `FanoutAssumption`), for
`ResponseStream` and `ShardingFanout`.
`StreamInvariantHolds` and `QueueSuffices`: `OneMessage` says that a message is
asked for only when the one before has left the queue, and `BufferShape` that
nothing comes behind a close.  `DeliveryInvariantHolds` adds to it what delivery
needs: `NoneLost` counts every message that gRPC has handed over as returned, held by the
iterator or in the queue, and `EndIsLast` says that the marker of the end is behind
them all.  From it follow `AnswersInOrder` (`InOrder`) and `EndsComplete`
(`EndIsComplete`), for any number of answers.

`FanoutInvariantHolds`; from it
`ThreadsWriteInTurn` (`OneWriter`), `FanoutNeverOverstates` (`FanoutReports`) and
`StatementsAreMultiplexed` (`Multiplexed`), for any number of backends and answers.
`FanoutReports` is about the end only; `SumOfFinished` bounds the sum, and every
value loaded from it, by what the finished threads have counted, which the racing
`+=` cannot exceed.  Sums over backends are cardinalities of sets of pairs
(`Counted`): they need no recursion.  `Passes` relates what a thread has read to
what it has passed on, with the one answer at which it found the client gone.

**ServerProofs** (`ServiceAssumption`, `SparqlAssumption`, and the assumptions of
StatementIndexProofs), for `SparqlQuery` and `LevelDBService`.  `QueryTypes`
(`QueryTypeOK`) holds of any query.  `RowsAreStored` (`RowsWereStored`) and
`JoinsAreComplete` (`JoinComplete`) hold of queries of any number of patterns, any
store and any writes of other clients, under the hypothesis `Exact`: the fields that are
set when Rasqal asks for a pattern are a prefix of an index's order, no pattern has a
variable twice, the constants are terms that the conversions leave alone, and Rasqal
keeps what it has written itself.  Without the first the two properties are wrong
(section 7), as they are of a variable used twice in a pattern, which the code does
not compare.  `MCSparqlQuery` assumes it of the queries of the run, so that TLC
evaluates it there.

The inductive `JoinInvariant` has five parts.  `QueryShape` says which columns are open
and which variables have values; it includes the first element of an iterator
whose `parsed` was true, which leaves variables without a value.  `QuerySupport`: what a
column has left agrees with the values found before it, and so does the statement it
is at (by `PrefixScanExact`).  `QueryProgress`: no statement comes twice.
`JoinProgress`, for `JoinComplete`: a solution is still to come (`ToCome`) if some column
has not come to its statement while the columns before it are at theirs; the others
are `Found`, each has a row, and there are as many rows as these.  Each step moves
no solution from one side to the other but `Row`, which moves exactly one.  No
induction over the patterns is needed, since `ToCome` speaks of all columns at once.

`ClearClearsAll` (`ClearedAll`),
`ClearTakesOnlyAsked` (`ClearsOnlyAsked`) and `SizeCountsExactly` (`SizeExact`), for any
number of handlers, contexts and statements.  `ServiceInvariantHolds` is the
inductive invariant: of the patterns a call has gone through nothing is left but
what was added again or is found and about to be deleted (`Cleared`), and what Size
has counted is what these patterns have in a store that has not changed
(`Counts`).  That a pattern with a context alone is answered exactly is
`PrefixScanExact`; that different contexts share no statement, so that the counts
add up, is `DifferentContexts`.

**ClientLibraryProofs** (`ModelAssumption`, `NullAssumption`, `SailAssumption`), for
`RdfModel`, `TermConversion` and `SailConnection`.  `TypesNameCases`,
`EqualValuesPrintAlike` and `TermsRoundTrip`, for any set of objects and strings.
The invariant is `ModelTypeOK /\ TypeIsCase`, kept in three parts (`ModelInvariant`),
one each for leaves, values and statements, since an operation changes one of them.

`SailInvariantHolds` and `StreamsRemoveFirst`: a removal is sent only on a stream that it opens itself.  The
invariant is `RemovalsFirst` together with `TypeOK` (`ConnectionTypeOK`), whose part
on `after` says that what a waiting removal will send consists of removals.
`CommitsTakeEffect` (`CommitTakesEffect`) rests on `CallsTakeTurns`: as long as no
stream was cancelled, every call but the one in the field has been applied and
answered (`OthersDone`), so that no late callback can complete the wrong future,
and the call in the field has a batch that stands for the requests read
(`BatchOfRead`) while all its requests lead from the store to what is expected
(`AllToExpected`).  That the batch, which looks removals up in the store, means the
requests in their order is where `RemovalsFirst` is used.

**ShardingProofs** (`BackendsAssumption`, `ShardingAssumption`).
`PlacementInvariantHolds` and `StatementsPlaced`: `Routed` says that what is on its
way to a backend, or left there by a failed call, adds statements of its bucket
only.

The longer proof modules name Zenon as the prover of their steps, and `SMTT` at the
steps that need arithmetic, sequences or records: translating a step for the SMT
solver takes longer the more steps a module has.

Every safety property that a passing run checks is proved, with one exception: that
`Sharding` refines `TripleStore` is only model-checked.  Its mapping runs through the
requests still on their way, and what `Collect` makes of a sequence of requests is
computed by recursion.  So are all liveness properties (`CallsReturn`, `CommitReturns`,
`QueryEnds`, `Returns`, `ScriptEnds`), which need `ENABLED` and fairness.

## 7. Where the code differs from its documentation

The run persistence_race shows the most consequential one.  The properties below
are stated in the modules as well, each with the sentence or the expectation it
comes from.  To see a
counterexample, take the config, apply the changes, and list the property alone.

| Property | Config and changes | What the code does |
|---|---|---|
| `IdleIndexesAgree` | `PersistenceRace`; also `Persistence` with `Handler = {h1}`, `MaxCrashes = 1` | `leveldb_persistence.h:125-126`: updates are "written atomically to the database when iteration ends".  Four threads write the four indexes without a common lock: two overlapping calls on one statement, or a crash between two writes, leave it in some indexes only, and nothing repairs it. |
| `OnlyMatching` | `CommandLineClient` | `leveldb_persistence.h:86`: "Get all statements matching the pattern".  With subject and object but no predicate (and the like) the scan also returns statements with another object, and `matches` is never applied. |
| `RangeHalfOpen` | `CommandLineClient` | `leveldb_persistence.cc:137`: "range [MinKey,MaxKey)".  `hasNext` includes MaxKey, as it must: a fully set pattern has MinKey = MaxKey. |
| `RemovesOnlyMatching` | `Persistence`, `Object = {"o1", "o2"}`, `MaxMessages = 2`, `Handler = {h1}` | `leveldb_persistence.h:118`: "Remove all statements matching the pattern".  The statements of an inexact scan are deleted too. |
| `UpdatesInOrder` | `PersistenceUpdate` | `sail.proto:99-100`: "Updates are applied in order."  A removal is looked up in the database and not in the batch, so a statement added earlier in the stream survives it. |
| `NamespaceLookup` | `PersistenceUpdate`, `Namespace <- Rebound`, `MaxCrashes = 0` | `leveldb_persistence.h:102`: "Get all namespaces matching the pattern".  When a prefix gets a new URI, the old URI still leads to the prefix. |
| `OnePrefixRemoved` | `PersistenceUpdate` | `removeNamespaceInternal(prefix)` (`CMarmottaSailConnection.java:361`) sends a pattern with that prefix.  The default namespace's prefix is empty, which in a pattern stands for any: removing it removes all namespaces. |
| `RemovedNamespacesCounted` | `PersistenceUpdate` | `sail.proto:44`: "Update responses contain statistics about the modified entities."  `removed_ns` stays 0. |
| `SizeOfContexts` | `LevelDBService` | `sail.proto:95`: "Count the number of statements in the contexts".  A context named twice counts twice. |
| `DeletedWereAdded` | `LevelDBService` | `sail.proto:81-82`: "Returns the number of statements deleted."  Two overlapping removals report the same statement. |
| `RowsWereStored` | `SparqlQuery`, `Queries <- EdgeQueries`, `Predicate = {"p", "q"}`, `InitParsed = {FALSE}`, `MaxWrites = 0` | `rasqal_adapter.h:49-50`: "statements matching the given subject, predicate, object and context".  A bound variable is not compared again, so an inexact scan yields rows that no stored statement supports.  The queries of the run sparql have prefix patterns. |
| `NeverCrashes` | `SparqlQuery` | `util/iterator.h:52`: "Dereference iterator, returning a pointer to the current element."  `parsed` is not initialised; if it is true, the first element is an empty statement. |
| `AssignmentCopies` | `RdfModel` | `rdf_model.h:33-34`: "All objects implement copy as well as efficient move operations for constructors and assignment operators."  Assignment merges: the target keeps its context if the source has none. |
| `EqualsAgree` | `RdfModel` | `ProtoLiteralBase.equals` (`ProtoLiteralBase.java:146-158`) does not compare the languages if its own is null: a plain literal equals one with a language, but not the other way round.  The C++ model tells them apart. |
| `BindingKeepsTerm` | `RdfModel` | `convert` of query results (`CMarmottaSailConnection.java:168-184`) has no `break` after URIs and after string literals: a URI becomes a blank node, a string literal one with an empty label. |
| `ClosedReturnsNothing` | `ResponseStream` | `ClosableResponseStream.java:90`: "or if it has been closed".  After `close()`, `next()` still answers from the queue. |
| `RollbackDiscards` | `SailConnection`, `MayFail = FALSE` | `CMarmottaSailConnection.java:282` cancels with "transaction rollback".  The server does not tell a cancelled stream from a completed one and writes what it has read. |
| `CommitErrorIsReal` | `SailConnection`, `MayFail = FALSE`, `MaxSent = 1` | `CMarmottaSailConnection.java:273`: "Error while writing to server".  The late error of a rolled back stream fails the future of the next transaction. |
| `CommitIsApplied` | `SailConnection`, `MayFail = FALSE`, `MaxSent = 1`, `MaxStreams = 4` | `CMarmottaSailConnection.java:276`: "Transaction committed."  A late completion of an earlier stream completes the future of the current one. |
| `NamespacesOnAll` | `Sharding`, `Prefix = {"x"}`, `Uri = {"u", "v"}`, with `Handler = {h1}` or with `MaxFailures = 0` | `sharding.h:63-64`: namespaces "will be added to all".  A failed backend goes unnoticed; overlapping calls reach the backends in different orders. |
| `FanoutSum` | `ShardingFanout` | `sharding.cc:55-56`: "collecting Int64Value responses by summing them up".  `r +=` in several threads loses additions. |
| `OkIsComplete` | `ShardingFanout` | Fanout reports an error if a backend fails; GetStatements ignores the status of its readers and says OK with the answers of the others. |
| `ContextsFromAll` | `ShardingFanout` | `sharding.h:120`: "Retrieve contexts from all backends."  The threads are not joined before the set is written. |

The client has disagreements of its own that the properties of the run client are
stated around.  Select prints the same way whether its stream was complete or
broken, since `ClientReaderIterator` drops the result of `Finish` (`client.cc:70`).
Import ignores the result of the parser: a document with a syntax error, or one
that could not be opened, is reported as added (`client.cc:124-134`); the report
is true of what the parser read.

## 8. What is not modelled

- *Hash collisions* and the content of keys beyond four blocks; LevelDB itself,
  which is taken to make a Write atomic and an iterator a snapshot; writes that an
  operating system crash loses because they were not synced.
- *The service's GetNamespace, GetNamespaces and GetContexts*: the lookup operator
  `GetNamespaces` is modelled in `LevelDBPersistence`; the handlers add no state.
- *SPARQL*: Rasqal is external.  Graph variables, a variable used twice in one
  pattern, filters and optional patterns, and the conversion of results to messages
  are left out.
- *RDF model*: a moved-from variable keeps its type and its content; what a move
  leaves in the message is unspecified.  `Namespace` (whose `==` compares the URI
  only), the `==` of statements (never true of statements without context) and the
  `std::hash` specialisations are left out.
- *Java Sail*: closing the connection and its channel, the null context, and the
  equality of statements (which ignores contexts).
- *Java model*: the numeric and date conversions of literals, `hashCode`,
  `ProtoNamespace` and the value factory are pure and without state.
- *Command line client*: sparql, size and namespaces print what one call returns.
  The choice of raptor's parser and serializer by format, and raptor's and
  protobuf's output, are external.
- *Murmur3*: 128-bit arithmetic whose only property of interest here, that terms
  have different hashes, is the assumption `HashInjective`.
- *Utilities, Java Sail and Marmotta glue, server programs*: string handling,
  configuration and start-up.
- *A proxy without backends* divides by zero (`sharding.cc:138`); the server
  programs do not check for it and the models assume one backend at least.
- *The set of GetContexts in the proxy* is read while threads still fill it
  (`sharding.cc:329`).  `ContextsFromAll` shows it; there is no weaker promise to check.
- *gRPC*: per call, messages arrive in order or the call fails.

## 9. Plan

1. `SailConnection` composed with `TripleStore`, as the command line client is, so
   that its commits meet other clients.
2. A proof of `ShardingRefinement`; it needs lemmas on what `Collect` makes of a
   sequence of requests.
3. Graph variables and repeated variables of SPARQL patterns.
