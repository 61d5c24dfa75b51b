-------------------------- MODULE CommandLineClient --------------------------
(***************************************************************************)
(* The command line client (client.cc) against a server: a user runs the   *)
(* commands of a script one after the other, each in a process of its own. *)
(* "import" streams what the parser reads from a document to AddNamespaces *)
(* and AddStatements, "delete" calls RemoveStatements, and "select" prints *)
(* what GetStatements streams.                                             *)
(*                                                                         *)
(* The server keeps the promises of TripleStore and answers a query with   *)
(* the range scan of StatementScan.  A connection may break at any time    *)
(* and the server may die: the client's process ends, while the call it    *)
(* made may still be at work in the server when the next command runs.     *)
(***************************************************************************)
EXTENDS StatementScan

CONSTANTS
    Prefix, Uri,        \* namespaces: keys and values
    Stored, Absent,     \* the value of a statement; no entry
    Keep,               \* a key that a call does not change
    NoContext,          \* the context of a statement that has none
    Scenario,           \* what is stored at first, and the user's script
    MaxCalls,           \* bound on the calls a server serves: two for each command
    MaxFaults           \* how often connections break or the server dies

Key == Statement \cup Prefix

\* What the parser reads from a document, and the commands of a script.
Item == [key : Key, value : Uri \cup {Stored}]

Commands ==
    [op : {"import"},
     doc : [items : Seq(Item), end : {"end", "syntax error", "exception"}]]
    \cup [op : {"delete"}, pattern : Pattern]
    \cup [op : {"select"}, pattern : Pattern, format : {"raptor", "proto"}]

\* Scripts are sequences of commands, and the markers are no values of entries.
ASSUME ClientAssumption ==
    /\ Scenario \subseteq [stored : SUBSET Statement, script : Seq(Commands)]
    /\ MaxCalls \in Nat /\ MaxFaults \in Nat
    /\ Absent # Keep /\ {Absent, Keep} \cap (Uri \cup {Stored}) = {}
    /\ Prefix \cap Statement = {}

VARIABLES
    script,     \* the commands to run; the first is the one that runs
    at,         \* its process: "start", "parse", "finish", "wait", "read" or "exit"
    line,       \* import: how many items of the document have been parsed
    calls,      \* the update calls made so far
    link,       \* select: is the connection of the stream up?
    read,       \* select: how many statements ClientReaderIterator has read
    printed,    \* select: the statements the serializer has written
    out,        \* what the command has printed at its end
    quiet,      \* at the start nothing of an earlier command was left at work or unknown
    before,     \* the store at the start of the command
    faults,     \* the faults so far
    store, state, pending, unknown      \* the server: see TripleStore

Server == INSTANCE TripleStore WITH
    Value <- Uri \cup {Stored}, Target <- {Scan(Statement, pat) : pat \in Pattern},
    Call <- 1 .. MaxCalls

serverVars == <<store, state, pending, unknown>>
userVars == <<script, line, quiet, before>>
selectVars == <<link, read, printed>>
vars == <<scanVars, serverVars, userVars, selectVars, at, calls, out, faults>>

Command == Head(script)
Silence == [op |-> "none"]

Statements(f) == {x \in Statement : f[x] # Absent}

Init ==
    /\ \E sc \in Scenario :
          /\ script = sc.script
          /\ store = [k \in Key |-> IF k \in sc.stored THEN Stored ELSE Absent]
    /\ before = store
    /\ state = [n \in 1 .. MaxCalls |-> "idle"]
    /\ pending = [n \in 1 .. MaxCalls |-> Server!NoChange]
    /\ unknown = {}
    /\ ScanInit
    /\ at = "start"
    /\ line = 0
    /\ calls = <<>>
    /\ link = FALSE
    /\ read = 0
    /\ printed = <<>>
    /\ out = Silence
    /\ quiet = TRUE
    /\ faults = 0

(***************************************************************************)
(* Calls that change the store.  An item is a key and the value to store   *)
(* under it.                                                               *)
(***************************************************************************)
\* sent: the requests written and not yet read; ended: WritesDone; work: the
\* handler has not begun ("new"), is at "work" or is "done"; status: what Finish has.
NewCall(kind, pat) ==
    [kind |-> kind, pattern |-> pat, sent |-> <<>>, ended |-> FALSE, up |-> TRUE,
     work |-> "new", count |-> 0, status |-> "none"]

\* The connection of a call is lost: the client's Finish fails and the handler
\* reads no more requests.  A call that has not begun may have got lost as well.
Cut(call) ==
    IF call.status # "none" \/ ~call.up THEN {call}
    ELSE {[call EXCEPT !.up = FALSE, !.sent = <<>>, !.status = "failed", !.work = w] :
            w \in {call.work} \cup IF call.work = "new" THEN {"done"} ELSE {}}

\* The calls N are cut.
CutCalls(N) ==
    calls' \in {c \in [DOMAIN calls -> UNION {Cut(calls[n]) : n \in DOMAIN calls}] :
                \A n \in DOMAIN calls : IF n \in N THEN c[n] \in Cut(calls[n]) ELSE c[n] = calls[n]}

AllDone == \A n \in DOMAIN calls : calls[n].work = "done"

Start ==
    /\ at = "start"
    /\ script # <<>>
    /\ line' = 0
    /\ out' = Silence
    /\ quiet' = (AllDone /\ unknown = {})
    /\ before' = store

-----------------------------------------------------------------------------
(***************************************************************************)
(* import                                                                  *)
(***************************************************************************)
NsCall == Len(calls) - 1
StmtCall == Len(calls)

StartImport ==
    /\ Start
    /\ Command.op = "import"
    /\ calls' = calls \o <<NewCall("ns", Anything), NewCall("stmt", Anything)>>
    /\ at' = "parse"
    /\ UNCHANGED <<scanVars, serverVars, selectVars, script, faults>>

Items == Command.doc.items

\* Mutant: a write replaces a request that has not been read yet.
WriteOver(call, item) == IF call.up THEN [call EXCEPT !.sent = <<item>>] ELSE call

\* Write on a ClientWriter: what is written to a broken stream is lost.
Write(call, item) == IF call.up THEN [call EXCEPT !.sent = Append(@, item)] ELSE call

\* raptor hands the next item to a handler, which writes it to its stream and
\* ignores the result of Write.
Parse ==
    /\ at = "parse"
    /\ line < Len(Items)
    /\ LET item == Items[line + 1]
           n == IF item.key \in Statement THEN StmtCall ELSE NsCall
       IN  calls' = [calls EXCEPT ![n] = Write(@, item)]
    /\ line' = line + 1
    /\ UNCHANGED <<scanVars, serverVars, selectVars, at, script, out, quiet, before, faults>>

\* The document is over, could not be opened (no items), or has a syntax error:
\* parse drops raptor's result, so these are all the same to the client.
ParseEnds ==
    /\ at = "parse"
    /\ line = Len(Items)
    /\ Command.doc.end # "exception"
    /\ calls' = [calls EXCEPT ![StmtCall].ended = TRUE, ![NsCall].ended = TRUE]
    /\ at' = "finish"
    /\ UNCHANGED <<scanVars, serverVars, selectVars, userVars, out, faults>>

\* raptor_stmt_handler throws a ParseError at a term of a type it does not know,
\* and raptor_ns_handler makes a string of the null pointer that a default
\* namespace has for its prefix.  Nothing catches the exception: the process ends
\* and its streams are cancelled.
ParseError ==
    /\ at = "parse"
    /\ line = Len(Items)
    /\ Command.doc.end = "exception"
    /\ CutCalls({NsCall, StmtCall})
    /\ out' = [op |-> "aborted"]
    /\ at' = "exit"
    /\ UNCHANGED <<scanVars, serverVars, selectVars, userVars, faults>>

\* Mutant: only the status of the statements' call is looked at.
BothOkIgnoringNs == calls[StmtCall].status = "ok"

BothOk == calls[NsCall].status = "ok" /\ calls[StmtCall].status = "ok"

\* Both calls have been finished.
ImportReport ==
    /\ at = "finish"
    /\ calls[NsCall].status # "none"
    /\ calls[StmtCall].status # "none"
    /\ out' = IF BothOk THEN [op |-> "added", ns |-> calls[NsCall].count,
                              stmt |-> calls[StmtCall].count]
                        ELSE [op |-> "failed"]
    /\ at' = "exit"
    /\ UNCHANGED <<scanVars, serverVars, selectVars, userVars, calls, faults>>

-----------------------------------------------------------------------------
(***************************************************************************)
(* delete                                                                  *)
(***************************************************************************)
StartDelete ==
    /\ Start
    /\ Command.op = "delete"
    /\ calls' = Append(calls, NewCall("remove", Command.pattern))
    /\ at' = "wait"
    /\ UNCHANGED <<scanVars, serverVars, selectVars, script, faults>>

DeleteReport ==
    /\ at = "wait"
    /\ LET call == calls[Len(calls)] IN
       /\ call.status # "none"
       /\ out' = IF call.status = "ok" THEN [op |-> "deleted", count |-> call.count]
                                       ELSE [op |-> "failed"]
    /\ at' = "exit"
    /\ UNCHANGED <<scanVars, serverVars, selectVars, userVars, calls, faults>>

-----------------------------------------------------------------------------
(***************************************************************************)
(* select                                                                  *)
(***************************************************************************)
StartSelect ==
    /\ Start
    /\ Command.op = "select"
    /\ RequestScan(Command.pattern)
    /\ link' = TRUE
    /\ read' = 0
    /\ printed' = <<>>
    /\ at' = "read"
    /\ UNCHANGED <<serverVars, script, calls, faults>>

\* The raptor serializers write each statement as it comes; the proto ones
\* collect the statements and write them in close().
Streams == Command.format = "raptor"

\* SerializationError: a raptor serializer has no term for a missing context.
CannotWrite(x) == Streams /\ x.c = NoContext

\* ClientReaderIterator reads the next statement and the serializer writes it.
Read ==
    /\ at = "read"
    /\ link
    /\ read < Len(emitted)
    /\ ~CannotWrite(emitted[read + 1])
    /\ read' = read + 1
    /\ printed' = IF Streams THEN Append(printed, emitted[read + 1]) ELSE printed
    /\ UNCHANGED <<scanVars, serverVars, userVars, link, at, calls, out, faults>>

\* The exception is not caught: the process ends, and with it the stream.
SerializationError ==
    /\ at = "read"
    /\ link
    /\ read < Len(emitted)
    /\ CannotWrite(emitted[read + 1])
    /\ link' = FALSE
    /\ out' = [op |-> "aborted"]
    /\ at' = "exit"
    /\ UNCHANGED <<scanVars, serverVars, userVars, read, printed, calls, faults>>

\* Mutant: an iterator that only looks whether the server is done.
StreamOverEarly == scan = "done" \/ ~link

\* Read returns false: at the end of the stream, or when it is broken.
StreamOver == (scan = "done" /\ read = Len(emitted)) \/ ~link

\* Finish's status is dropped.  serialize() calls close().
ReadEnds ==
    /\ at = "read"
    /\ StreamOver
    /\ printed' = IF Streams THEN printed ELSE SubSeq(emitted, 1, read)
    /\ out' = [op |-> "selected"]
    /\ at' = "exit"
    /\ UNCHANGED <<scanVars, serverVars, userVars, link, read, calls, faults>>

\* The user runs the next command.
Exit ==
    /\ at = "exit"
    /\ script' = Tail(script)
    /\ link' = FALSE
    /\ at' = "start"
    /\ UNCHANGED <<scanVars, serverVars, line, quiet, before, read, printed, calls, out, faults>>

-----------------------------------------------------------------------------
(***************************************************************************)
(* The server: sail.proto's handlers.                                      *)
(***************************************************************************)
serverOnly == <<scanVars, userVars, selectVars, at, out, faults>>

\* The handler of a streaming call begins.
Begin(n) ==
    /\ calls[n].work = "new"
    /\ calls[n].kind # "remove"
    /\ Server!Begin(n)
    /\ calls' = [calls EXCEPT ![n].work = "work"]
    /\ UNCHANGED serverOnly

\* It reads a request.
Request(n) ==
    /\ calls[n].work = "work"
    /\ calls[n].up
    /\ calls[n].sent # <<>>
    /\ LET item == Head(calls[n].sent) IN Server!Put(n, item.key, item.value)
    /\ calls' = [calls EXCEPT ![n].sent = Tail(@), ![n].count = @ + 1]
    /\ UNCHANGED serverOnly

\* RemoveStatements finds what it removes.
Remove(n) ==
    /\ calls[n].work = "new"
    /\ calls[n].kind = "remove"
    /\ Server!Remove(n, Scan(Statement, calls[n].pattern))
    /\ calls' = [calls EXCEPT ![n].work = "work",
                    ![n].count = Cardinality({k \in Key : pending'[n][k] = Absent})]
    /\ UNCHANGED serverOnly

\* Mutant: a broken stream is waited on for its end.
NoMoreRequestsUnlessEnded(call) == call.ended /\ call.sent = <<>>

\* Read returns false at the end of a stream, and when it is broken.
NoMoreRequests(call) == ~call.up \/ (call.ended /\ call.sent = <<>>)

\* A handler cannot tell a stream that is complete from one that is broken.
HandlerWrites(n) ==
    /\ calls[n].work = "work"
    /\ calls[n].kind = "remove" \/ NoMoreRequests(calls[n])
    /\ Server!Close(n)
    /\ UNCHANGED <<serverOnly, calls>>

HandlerReturns(n) ==
    /\ Server!Commit(n)
    /\ calls' = [calls EXCEPT ![n].work = "done"]
    /\ UNCHANGED serverOnly

\* Mutant: the handler answers before its changes are written.
AnswerEarly(n) ==
    /\ calls[n].work # "new"
    /\ calls[n].kind = "remove"
    /\ calls[n].up
    /\ calls[n].status = "none"
    /\ calls' = [calls EXCEPT ![n].status = "ok"]
    /\ UNCHANGED <<serverOnly, serverVars>>

\* The client receives the result of a handler.
Answer(n) ==
    /\ calls[n].work = "done"
    /\ calls[n].up
    /\ calls[n].status = "none"
    /\ calls' = [calls EXCEPT ![n].status = "ok"]
    /\ UNCHANGED <<serverOnly, serverVars>>

\* GetStatements: the scan sees what is stored, and may or may not see what is
\* being written.  The callback is a write to the client's stream.
ScanBegins == \E S \in Server!Found(Statement) : OpenScan(S)

GetStatements ==
    /\ ScanBegins \/ ScanStep(link) \/ ScanEnds
    /\ UNCHANGED <<serverVars, userVars, selectVars, at, calls, out, faults>>

-----------------------------------------------------------------------------
(***************************************************************************)
(* Faults.                                                                 *)
(***************************************************************************)
\* Connections of calls that are not answered yet break.
BreakCalls ==
    /\ faults < MaxFaults
    /\ \E N \in SUBSET {n \in DOMAIN calls : calls[n].up /\ calls[n].status = "none"} :
          N # {} /\ CutCalls(N)
    /\ faults' = faults + 1
    /\ UNCHANGED <<scanVars, serverVars, userVars, selectVars, at, out>>

BreakSelect ==
    /\ faults < MaxFaults
    /\ at = "read"
    /\ link
    /\ link' = FALSE
    /\ faults' = faults + 1
    /\ UNCHANGED <<scanVars, serverVars, userVars, read, printed, at, calls, out>>

\* The server dies, with its calls, and is started again.
Crash ==
    /\ faults < MaxFaults
    /\ Server!Crash
    /\ calls' = [n \in DOMAIN calls |->
          IF calls[n].status = "ok" THEN calls[n]
          ELSE [calls[n] EXCEPT !.up = FALSE, !.sent = <<>>, !.status = "failed", !.work = "done"]]
    /\ scan' = "none"
    /\ link' = FALSE
    /\ faults' = faults + 1
    /\ UNCHANGED <<snapshot, pattern, rest, emitted, userVars, read, printed, at, out>>

-----------------------------------------------------------------------------
Client ==
    \/ StartImport \/ Parse \/ ParseEnds \/ ParseError \/ ImportReport
    \/ StartDelete \/ DeleteReport
    \/ StartSelect \/ Read \/ SerializationError \/ ReadEnds
    \/ Exit

Handler(n) ==
    /\ n \in DOMAIN calls
    /\ Begin(n) \/ Request(n) \/ Remove(n) \/ HandlerWrites(n) \/ HandlerReturns(n) \/ Answer(n)

\* The user has run all commands.
Idle ==
    /\ script = <<>>
    /\ UNCHANGED vars

Next ==
    \/ Client
    \/ \E n \in 1 .. MaxCalls : Handler(n)
    \/ GetStatements
    \/ BreakCalls \/ BreakSelect \/ Crash
    \/ Idle

\* The client and the threads of the server run; faults need not happen.
Spec ==
    /\ Init /\ [][Next]_vars
    /\ WF_vars(Client)
    /\ \A n \in 1 .. MaxCalls : WF_vars(Handler(n))
    /\ WF_vars(GetStatements)

-----------------------------------------------------------------------------
\* The items about key k among the first n of the document, and the last of some.
Hits(k, n) == {i \in 1 .. n : Items[i].key = k}
LastOf(hits) == CHOOSE i \in hits : \A j \in hits : j <= i

\* The value under key k once the first n items of the document are stored.
Imported(k, n) ==
    IF Hits(k, n) = {} THEN before[k] ELSE Items[LastOf(Hits(k, n))].value

\* "Added n namespaces and m statements" is the truth: all that the parser read
\* is stored, the last value of a key that occurs twice, nothing else has
\* changed, and n and m count what was read.  The import relies on Finish alone:
\* the results of Write and of the parser are ignored.
ImportReports ==
    [][(ImportReport /\ out'.op = "added" /\ quiet) =>
          /\ \A k \in Key : store[k] = Imported(k, Len(Items))
          /\ out'.stmt = Cardinality({i \in DOMAIN Items : Items[i].key \in Statement})
          /\ out'.ns = Cardinality({i \in DOMAIN Items : Items[i].key \in Prefix})]_vars

\* However an import ends (reported, failed, or aborted by a ParseError), once the
\* server is done with its calls it has stored the namespaces and the statements
\* of the document up to some point each: the streams have no gaps.  After a
\* crash this holds of the keys that were not being written.
NoGaps ==
    (at # "start" /\ Command.op = "import" /\ quiet /\ AllDone) =>
        \E i, j \in 0 .. Len(Items) :
            \A k \in Key \ unknown : store[k] = Imported(k, IF k \in Statement THEN i ELSE j)

\* "Deleted n statements." is the truth: the statements in the range of the
\* pattern are gone, they were n, and nothing else has changed.
DeleteReports ==
    [][(DeleteReport /\ out'.op = "deleted" /\ quiet) =>
          LET gone == Scan(Statements(before), Command.pattern) IN
          /\ \A k \in Key : store[k] = IF k \in gone THEN Absent ELSE before[k]
          /\ out'.count = Cardinality(gone)]_vars

\* What select prints is an initial part of what the server's scan hands out, and
\* all of the pattern's range, no matching statement missing, if its stream was not
\* broken.  (ClientReaderIterator drops the status: the user cannot tell which of
\* the two they are looking at.)
SelectPrints ==
    /\ printed = SubSeq(emitted, 1, Len(printed))
    /\ (at = "exit" /\ out.op = "selected" /\ link) =>
          LET all == {printed[i] : i \in DOMAIN printed} IN
          /\ all = Scan(snapshot, Command.pattern)
          /\ \A x \in snapshot : matches(x, Command.pattern) => x \in all
          /\ quiet => all = Scan(Statements(before), Command.pattern)

\* Every command ends, whatever breaks, and no call is left behind in the server.
ScriptEnds == <>(script = <<>> /\ AllDone)
-----------------------------------------------------------------------------
(* The inductive invariant behind ImportReports, NoGaps, DeleteReports and   *)
(* SelectPrints                                                              *)

Entry == Uri \cup {Stored, Absent}

\* Requests read, or statements found.
Counts == Nat \cup {Cardinality(S) : S \in SUBSET Key}

CallType ==
    [kind : {"ns", "stmt", "remove"}, pattern : Pattern, sent : Seq(Item), ended : BOOLEAN,
     up : BOOLEAN, work : {"new", "work", "done"},
     count : Counts, status : {"none", "ok", "failed"}]

ClientTypeOK ==
    /\ script \in Seq(Commands)
    /\ at \in {"start", "parse", "finish", "wait", "read", "exit"}
    /\ at # "start" => script # <<>>
    /\ at \in {"parse", "finish"} => Command.op = "import" /\ Len(calls) >= 2
    /\ at = "wait" => Command.op = "delete" /\ Len(calls) >= 1
    /\ at = "read" => Command.op = "select"
    /\ line \in Nat /\ read \in Nat
    /\ calls \in Seq(CallType)
    /\ link \in BOOLEAN /\ quiet \in BOOLEAN
    /\ printed \in Seq(Statement)
    /\ before \in [Key -> Entry] /\ store \in [Key -> Entry]
    /\ state \in [1 .. MaxCalls -> {"idle", "open", "closing"}]
    /\ pending \in [1 .. MaxCalls -> [Key -> Entry \cup {Keep}]]
    /\ unknown \in SUBSET Key

ImportCalls ==
    at \in {"parse", "finish"} => calls[NsCall].kind = "ns" /\ calls[StmtCall].kind = "stmt"

\* The calls of the client and those of the server.
CallsAgree ==
    /\ ImportCalls
    /\ \A n \in 1 .. MaxCalls :
          IF state[n] = "idle" THEN pending[n] = Server!NoChange
                               ELSE n \in DOMAIN calls /\ calls[n].work = "work"
    /\ \A n \in DOMAIN calls :
          /\ calls[n].status = "ok" => calls[n].work = "done"
          /\ calls[n].status = "failed" <=> ~calls[n].up
          /\ IF calls[n].kind = "remove" THEN calls[n].sent = <<>> ELSE calls[n].count \in Nat

\* The command that runs is a quiet one, and it is op.
QuietCommand(op) == at # "start" /\ quiet /\ Command.op = op

SelectInvariant ==
    /\ read <= Len(emitted)
    /\ Len(printed) <= Len(emitted)
    /\ printed = SubSeq(emitted, 1, Len(printed))
    /\ at = "read" => /\ pattern = Command.pattern
                      /\ Streams => Len(printed) = read
    /\ at = "exit" /\ out.op = "selected" /\ link =>
          /\ Command.op = "select" /\ pattern = Command.pattern
          /\ scan = "done" /\ Len(printed) = Len(emitted)
    /\ QuietCommand("select") =>
          /\ AllDone /\ unknown = {} /\ store = before
          /\ scan \in {"scan", "done", "stopped"} => snapshot = Statements(before)

\* What a delete is to remove, and the store without it.
Gone == Scan(Statements(before), Command.pattern)
Without == [k \in Key |-> IF k \in Gone THEN Absent ELSE before[k]]

DeleteInvariant ==
    at = "wait" /\ quiet =>
        /\ calls # <<>>
        /\ \A m \in 1 .. (Len(calls) - 1) : calls[m].work = "done"
        /\ LET call == calls[Len(calls)] IN
           /\ call.kind = "remove" /\ call.pattern = Command.pattern
           /\ call.work # "done" => unknown = {} /\ store = before
           /\ call.work = "work" =>
                 /\ pending[Len(calls)] = [k \in Key |-> IF k \in Gone THEN Absent ELSE Keep]
                 /\ call.count = Cardinality(Gone)
           /\ call.work = "done" /\ call.up =>
                 unknown = {} /\ store = Without /\ call.count = Cardinality(Gone)

\* What the first i items of the document change under key k.
Change(k, i) == IF Hits(k, i) = {} THEN Keep ELSE Items[LastOf(Hits(k, i))].value

\* The keys a call of an import is about.
KeysOf(n) == IF n = StmtCall THEN Statement ELSE Prefix

\* The items about the keys K among the first i.
About(K, i) == {j \in 1 .. i : Items[j].key \in K}

\* The requests s are those of the items i + 1 .. l about the keys K, in order.
Queued(s, K, i, l) ==
    \E pos \in [1 .. Len(s) -> (i + 1) .. l] :
        /\ \A a, b \in 1 .. Len(s) : a < b => pos[a] < pos[b]
        /\ \A a \in 1 .. Len(s) : s[a] = Items[pos[a]] /\ Items[pos[a]].key \in K
        /\ \A p \in (i + 1) .. l : Items[p].key \in K => \E a \in 1 .. Len(s) : pos[a] = p

\* Call n has got as far as item i of the document.
Reached(n, i) ==
    /\ calls[n].work = "new" => i = 0
    /\ calls[n].work # "done" =>
          /\ \A k \in KeysOf(n) : store[k] = before[k]
          /\ n \in 1 .. MaxCalls => \A k \in Key :
                pending[n][k] = IF k \in KeysOf(n) THEN Change(k, i) ELSE Keep
    /\ calls[n].work = "done" => \A k \in KeysOf(n) \ unknown : store[k] = Imported(k, i)
    /\ calls[n].up =>
          /\ calls[n].count = Cardinality(About(KeysOf(n), i))
          /\ Queued(calls[n].sent, KeysOf(n), i, line)

ServedCall(n) ==
    /\ calls[n].ended => at # "parse"
    /\ calls[n].up /\ (calls[n].work = "done" \/ (n \in 1 .. MaxCalls /\ state[n] = "closing"))
          => calls[n].ended /\ calls[n].sent = <<>>
    /\ calls[n].work = "done" /\ calls[n].up => KeysOf(n) \cap unknown = {}
    /\ \E i \in 0 .. line : Reached(n, i)

ImportInvariant ==
    QuietCommand("import") =>
        /\ Len(calls) >= 2
        /\ line \in 0 .. Len(Items) /\ (at # "parse" => line = Len(Items))
        /\ \A m \in 1 .. (Len(calls) - 2) : calls[m].work = "done"
        /\ calls[NsCall].kind = "ns" /\ calls[StmtCall].kind = "stmt"
        /\ unknown = {} \/ AllDone
        /\ \A n \in {NsCall, StmtCall} : ServedCall(n)

ClientInvariant ==
    /\ ClientTypeOK
    /\ CallsAgree
    /\ ScanInvariant
    /\ SelectInvariant
    /\ DeleteInvariant
    /\ ImportInvariant
=============================================================================
