--------------------------- MODULE ShardingFanout ---------------------------
(***************************************************************************)
(* The requests that ShardingService answers with one thread per backend:  *)
(* Size, RemoveStatements and Clear (the template Fanout, which adds up    *)
(* numbers), GetStatements (which passes on statements) and GetContexts    *)
(* (which collects a set).  A behaviour is one request.                    *)
(*                                                                         *)
(* The n-th answer of backend b is <<b, n>>; two backends may have the     *)
(* same context, which the model does not tell apart from two contexts.    *)
(***************************************************************************)
EXTENDS Naturals, Sequences, FiniteSets

CONSTANTS
    Backends,       \* the number of backends
    MaxValue        \* bound on the number, or the number of answers, of a backend

ASSUME FanoutAssumption == Backends \in Nat /\ MaxValue \in Nat

Bucket == 0 .. (Backends - 1)
Method == {"Fanout", "GetStatements", "GetContexts"}

VARIABLES
    method,     \* the method called
    value,      \* per backend, the number it answers, or how many answers it sends
    status,     \* per backend, whether its call succeeds
    tpc,        \* per thread: "call", "load", "store", "read", "lock", "write", "done"
    r,          \* Fanout: the sum
    reg,        \* Fanout: per thread, the sum it has loaded
    sent,       \* per thread, the number of answers it has read
    mutex,      \* the thread that holds the mutex, or Backends
    out,        \* what was written to the client, or inserted into contexts
    gone,       \* the client is gone, and Write returns false
    hpc,        \* of the handler: "join", "done" or "terminated"
    result      \* what it returned

fanoutVars == <<method, value, status, tpc, r, reg, sent, mutex, out, gone, hpc, result>>
request == <<method, value, status>>

Free == Backends
None == [ok |-> FALSE, value |-> 0, out |-> <<>>]

\* The threads have been started.
FanoutInit ==
    /\ method \in Method
    /\ value \in [Bucket -> 0 .. MaxValue]
    /\ status \in [Bucket -> BOOLEAN]
    /\ tpc = [b \in Bucket |-> "call"]
    /\ r = 0
    /\ reg = [b \in Bucket |-> 0]
    /\ sent = [b \in Bucket |-> 0]
    /\ mutex = Free
    /\ out = <<>>
    /\ gone = FALSE
    /\ hpc = "join"
    /\ result = None

Goto(b, label) == tpc' = [tpc EXCEPT ![b] = label]

-----------------------------------------------------------------------------
(* A thread of Fanout *)

\* The call returns; the response of one that failed is 0.
CallReturns(b) ==
    /\ tpc[b] = "call" /\ method = "Fanout"
    /\ Goto(b, "load")
    /\ UNCHANGED <<request, r, reg, sent, mutex, out, gone, hpc, result>>

Response(b) == IF status[b] THEN value[b] ELSE 0

\* r += response.value(), on an int64_t that the threads share.
Load(b) ==
    /\ tpc[b] = "load"
    /\ reg' = [reg EXCEPT ![b] = r]
    /\ Goto(b, "store")
    /\ UNCHANGED <<request, r, sent, mutex, out, gone, hpc, result>>

Store(b) ==
    /\ tpc[b] = "store"
    /\ r' = reg[b] + Response(b)
    /\ Goto(b, "done")
    /\ UNCHANGED <<request, reg, sent, mutex, out, gone, hpc, result>>

-----------------------------------------------------------------------------
(* A thread of GetStatements or GetContexts *)

\* reader->Read: the next answer, or the end.  A call that fails ends early.
Read(b) ==
    /\ tpc[b] = "read" \/ (tpc[b] = "call" /\ method # "Fanout")
    /\ \/ sent[b] < value[b] /\ Goto(b, "lock")
       \/ (sent[b] = value[b] \/ ~status[b]) /\ Goto(b, "done")
    /\ UNCHANGED <<request, r, reg, sent, mutex, out, gone, hpc, result>>

\* Mutant: no lock_guard.
LockFree(b) ==
    /\ tpc[b] = "lock"
    /\ Goto(b, "write")
    /\ UNCHANGED <<request, r, reg, sent, mutex, out, gone, hpc, result>>

Lock(b) ==
    /\ tpc[b] = "lock" /\ mutex = Free
    /\ mutex' = b
    /\ Goto(b, "write")
    /\ UNCHANGED <<request, r, reg, sent, out, gone, hpc, result>>

\* Mutant: the mutex is not released once the client is gone.
WriteAndKeep(b) ==
    /\ tpc[b] = "write"
    /\ sent' = [sent EXCEPT ![b] = @ + 1]
    /\ out' = IF gone THEN out ELSE Append(out, <<b, sent[b] + 1>>)
    /\ mutex' = IF gone THEN mutex ELSE Free
    /\ Goto(b, IF method = "GetStatements" /\ gone THEN "done" ELSE "read")
    /\ UNCHANGED <<request, r, reg, gone, hpc, result>>

\* Mutant: the answer before the one just read is written.
WriteOffByOne(b) ==
    /\ tpc[b] = "write"
    /\ sent' = [sent EXCEPT ![b] = @ + 1]
    /\ out' = IF method = "GetStatements" /\ gone THEN out ELSE Append(out, <<b, sent[b]>>)
    /\ mutex' = Free
    /\ Goto(b, IF method = "GetStatements" /\ gone THEN "done" ELSE "read")
    /\ UNCHANGED <<request, r, reg, gone, hpc, result>>

\* result->Write, which ends the thread if it fails, or contexts.insert.
Write(b) ==
    /\ tpc[b] = "write"
    /\ sent' = [sent EXCEPT ![b] = @ + 1]
    /\ out' = IF method = "GetStatements" /\ gone THEN out ELSE Append(out, <<b, sent[b] + 1>>)
    /\ mutex' = Free
    /\ Goto(b, IF method = "GetStatements" /\ gone THEN "done" ELSE "read")
    /\ UNCHANGED <<request, r, reg, gone, hpc, result>>

-----------------------------------------------------------------------------
(* The handler *)

\* Mutant: the status of the first backend decides.
StatusOfFirst == method = "Fanout" => status[0]

\* Fanout returns the first status that is not OK; GetStatements and
\* GetContexts look at none.
Status == method = "Fanout" => \A b \in Bucket : status[b]

\* All threads are joined.
Join ==
    /\ hpc = "join" /\ method # "GetContexts"
    /\ \A b \in Bucket : tpc[b] = "done"
    /\ hpc' = "done"
    /\ result' = [ok |-> Status, value |-> r, out |-> out]
    /\ UNCHANGED <<request, tpc, r, reg, sent, mutex, out, gone>>

\* GetContexts does not join its threads: it writes the contexts there are,
\* and when threads goes out of scope with a joinable thread in it, the
\* process is terminated.
WriteContexts ==
    /\ hpc = "join" /\ method = "GetContexts"
    /\ hpc' = IF Backends = 0 THEN "done" ELSE "terminated"
    /\ result' = [ok |-> Status, value |-> 0, out |-> out]
    /\ UNCHANGED <<request, tpc, r, reg, sent, mutex, out, gone>>

ClientGone ==
    /\ hpc = "join" /\ ~gone
    /\ gone' = TRUE
    /\ UNCHANGED <<request, tpc, r, reg, sent, mutex, out, hpc, result>>

Answered ==
    /\ hpc \in {"done", "terminated"}
    /\ UNCHANGED fanoutVars

-----------------------------------------------------------------------------
Thread(b) == hpc = "join" /\ (CallReturns(b) \/ Load(b) \/ Store(b) \/ Read(b) \/ Lock(b) \/ Write(b))

FanoutNext == Join \/ WriteContexts \/ ClientGone \/ Answered \/ \E b \in Bucket : Thread(b)

\* The backends answer or fail, and the threads run.
FanoutSpec ==
    /\ FanoutInit /\ [][FanoutNext]_fanoutVars
    /\ WF_fanoutVars(Join \/ WriteContexts)
    /\ \A b \in Bucket : WF_fanoutVars(Thread(b))

-----------------------------------------------------------------------------
Returned(m) == method = m /\ hpc = "done"

\* What the backends B count between them: the n-th thing that b counts is <<b, n>>.
Counted(B) == UNION {{b} \X (1 .. Response(b)) : b \in B}

Total == Cardinality(Counted(Bucket))

\* Size, RemoveStatements and Clear report success only if all backends do,
\* and never more than the backends have reported between them, whatever the
\* order in which the threads add to the sum.
FanoutReports ==
    Returned("Fanout") /\ result.ok => (\A b \in Bucket : status[b]) /\ result.value <= Total

\* No two threads are in Write of the client's stream, which is not safe for
\* concurrent use, at the same time.
OneWriter ==
    \A a, b \in Bucket : tpc[a] = "write" /\ tpc[b] = "write" => a = b

\* Which answers of backend b have been passed on, and that they were in its order.
PassedOn(b) == {out[i][2] : i \in {k \in DOMAIN out : out[k][1] = b}}

PassedInOrder(b) ==
    \A i, j \in DOMAIN out : i < j /\ out[i][1] = b /\ out[j][1] = b => out[i][2] < out[j][2]

\* GetStatements passes on the answers of every backend once and in the backend's
\* order, whichever backends fail and whether or not the client stays, and when it
\* returns to a client that stayed, none is missing of a backend that did not fail.
Multiplexed ==
    method = "GetStatements" =>
        \A b \in Bucket :
            /\ PassedInOrder(b)
            /\ \E n \in 0 .. value[b] : PassedOn(b) = 1 .. n
            /\ hpc = "done" /\ ~gone /\ status[b] => PassedOn(b) = 1 .. value[b]

\* The handler returns: its threads do not wait for each other for ever, even
\* when the client goes away in the middle.
Returns == <>(hpc # "join")

\* "forwarding the same request to all backends and collecting Int64Value
\* responses by summing them up"
\* The code does not keep this: see the README.
FanoutSum == Returned("Fanout") /\ result.ok => result.value = Total

\* GetStatements says OK to a client only if it has passed on all that the backends
\* have, as Fanout does.
\* The code does not keep this: see the README.
OkIsComplete ==
    Returned("GetStatements") /\ result.ok /\ ~gone
        => \A b \in Bucket : PassedOn(b) = 1 .. value[b]

\* "Retrieve contexts from all backends."
\* The code does not keep this: see the README.
ContextsFromAll ==
    hpc # "join" /\ method = "GetContexts" /\ (\A b \in Bucket : status[b])
        => \A b \in Bucket, n \in 1 .. MaxValue : n <= value[b] =>
            \E i \in DOMAIN result.out : result.out[i] = <<b, n>>

-----------------------------------------------------------------------------
(* The inductive invariant behind the three of them *)

Finished == {b \in Bucket : tpc[b] = "done"}

FanoutTypeOK ==
    /\ method \in Method
    /\ value \in [Bucket -> 0 .. MaxValue]
    /\ status \in [Bucket -> BOOLEAN]
    /\ tpc \in [Bucket -> {"call", "load", "store", "read", "lock", "write", "done"}]
    /\ r \in Nat
    /\ reg \in [Bucket -> Nat]
    /\ sent \in [Bucket -> Nat]
    /\ mutex \in Bucket \cup {Free}
    /\ out \in Seq(Bucket \X Nat)
    /\ gone \in BOOLEAN
    /\ hpc \in {"join", "done", "terminated"}

\* The thread that writes holds the mutex.
WriterHoldsMutex == \A b \in Bucket : tpc[b] = "write" => mutex = b

\* A sum, stored or loaded, is made of responses of threads that have finished.
SumOfFinished ==
    /\ r <= Cardinality(Counted(Finished))
    /\ \A b \in Bucket : tpc[b] = "store" => reg[b] <= Cardinality(Counted(Finished))

\* A thread has passed on what it has read, but for the answer at which it found
\* the client gone.
Passes(b) ==
    /\ PassedInOrder(b)
    /\ sent[b] <= value[b]
    /\ tpc[b] \in {"lock", "write"} => sent[b] < value[b]
    /\ tpc[b] \in {"load", "store"} => method = "Fanout"
    /\ \/ PassedOn(b) = 1 .. sent[b]
       \/ gone /\ tpc[b] = "done" /\ sent[b] > 0 /\ PassedOn(b) = 1 .. (sent[b] - 1)
    /\ method # "Fanout" /\ tpc[b] = "done" /\ ~gone /\ status[b] => sent[b] = value[b]

PassesOn == \A b \in Bucket : Passes(b)

\* What was returned was put together from all threads.
Joined ==
    hpc = "done" /\ method # "GetContexts" =>
        Finished = Bucket /\ result.ok = Status /\ result.value = r

FanoutInvariant ==
    /\ FanoutTypeOK
    /\ WriterHoldsMutex
    /\ SumOfFinished
    /\ PassesOn
    /\ Joined
=============================================================================
