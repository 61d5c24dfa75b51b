---------------------------- MODULE StatementScan ----------------------------
(***************************************************************************)
(* LevelDBPersistence::GetStatements(pattern, callback): a range iterator  *)
(* over the snapshot of one index, run until the range is exhausted or the *)
(* callback (for instance a write to a client that went away) returns      *)
(* false.  CommandLineClient composes it with a store and a client.        *)
(***************************************************************************)
EXTENDS StatementIndex, FiniteSets, Sequences

VARIABLES
    snapshot,   \* the statements of the snapshot
    pattern,    \* the pattern asked for
    scan,       \* "none", "open", "scan", "done" or "stopped" (by the callback)
    rest,       \* the entries of the LevelDB iterator from its cursor on
    emitted     \* the statements passed to the callback, in order

scanVars == <<snapshot, pattern, scan, rest, emitted>>

Type == TypeOf(pattern)

\* The pattern without a set field.
Anything == [f \in {"s", "p", "o", "c"} |-> Unset]

ScanInit ==
    /\ snapshot = {}
    /\ pattern = Anything
    /\ scan = "none"
    /\ rest = {}
    /\ emitted = <<>>

\* A request for the statements that match pat arrives.
RequestScan(pat) ==
    /\ pattern' = pat
    /\ scan' = "open"
    /\ emitted' = <<>>
    /\ UNCHANGED <<snapshot, rest>>

\* The entry under the cursor: the smallest key that is left.
Current == First(Type, rest)

\* NewIterator on an index that holds the statements stored, and Seek(loKey).
OpenScan(stored) ==
    /\ scan = "open"
    /\ snapshot' = stored
    /\ rest' = {x \in stored : Leq(MinKey(Type, pattern), StatementKey(Type, x))}
    /\ scan' = "scan"
    /\ UNCHANGED <<pattern, emitted>>

\* Mutant: hiKey is excluded.
hasNextExclusive == rest # {} /\ Less(StatementKey(Type, Current), MaxKey(Type, pattern))

hasNext == rest # {} /\ Leq(StatementKey(Type, Current), MaxKey(Type, pattern))

\* One round of the loop.  The iterator is advanced before cbsuccess is
\* looked at, so a callback that fails has still been handed its statement.
ScanStep(cbsuccess) ==
    /\ scan = "scan"
    /\ hasNext
    /\ emitted' = Append(emitted, Current)
    /\ rest' = rest \ {Current}
    /\ scan' = IF cbsuccess THEN "scan" ELSE "stopped"
    /\ UNCHANGED <<snapshot, pattern>>

ScanEnds ==
    /\ scan = "scan"
    /\ ~hasNext
    /\ scan' = "done"
    /\ UNCHANGED <<snapshot, pattern, rest, emitted>>

\* The process dies.
ScanDies ==
    /\ scan' = "none"
    /\ UNCHANGED <<snapshot, pattern, rest, emitted>>

\* Requests in any environment: for any store and any client.
ScanNext ==
    \/ \E pat \in Pattern : RequestScan(pat)
    \/ \E stored \in SUBSET Statement : OpenScan(stored)
    \/ \E cbsuccess \in BOOLEAN : ScanStep(cbsuccess)
    \/ ScanEnds
    \/ ScanDies

ScanSpec == ScanInit /\ [][ScanNext]_scanVars

-----------------------------------------------------------------------------
Emitted == {emitted[i] : i \in DOMAIN emitted}

\* GetStatements hands out the statements of its key range in the order of their
\* keys, each once and none left out before the one it is at: it computes the
\* operator Scan that the rest of the project uses for a whole query, whatever
\* becomes of the store and of the client meanwhile.
ScanIsRange ==
    /\ \A i \in 1 .. (Len(emitted) - 1) :
          Less(StatementKey(Type, emitted[i]), StatementKey(Type, emitted[i + 1]))
    /\ scan \in {"scan", "done", "stopped"} =>
          LET left == Scan(snapshot, pattern) \ Emitted IN
          /\ Emitted \subseteq Scan(snapshot, pattern)
          /\ left = IF scan = "done" THEN {} ELSE Scan(rest, pattern)

\* "Get all statements matching the pattern (which may have some fields unset
\* to indicate wildcards)", for every pattern.
\* The code does not keep this: see the README.
OnlyMatching == \A x \in Emitted : matches(x, pattern)

\* "Return the upper key for querying the index (range [MinKey,MaxKey) )": the
\* upper key is not in the range.
\* The code does not keep this: see the README.
RangeHalfOpen == \A x \in Emitted : StatementKey(Type, x) # MaxKey(Type, pattern)

-----------------------------------------------------------------------------
(* The inductive invariant behind ScanIsRange *)

ScanTypeOK ==
    /\ snapshot \in SUBSET Statement
    /\ pattern \in Pattern
    /\ scan \in {"none", "open", "scan", "done", "stopped"}
    /\ rest \in SUBSET Statement
    /\ emitted \in Seq(Statement)

\* Two entries in the order of their keys.
Precedes(x, y) == Less(StatementKey(Type, x), StatementKey(Type, y))

\* The entries from loKey on are the ones emitted, in order and none above hiKey,
\* and after them the ones that the iterator has left.
ScanInvariant ==
    /\ ScanTypeOK
    /\ \A i, j \in DOMAIN emitted : i < j => Precedes(emitted[i], emitted[j])
    /\ scan = "open" => emitted = <<>>
    /\ scan \in {"scan", "done", "stopped"} =>
          /\ \A x \in Statement : x \in Emitted \/ x \in rest <=>
                x \in snapshot /\ Leq(MinKey(Type, pattern), StatementKey(Type, x))
          /\ \A x \in Emitted : /\ Leq(StatementKey(Type, x), MaxKey(Type, pattern))
                                /\ \A y \in rest : Precedes(x, y)
    /\ scan = "done" => \A x \in rest : ~Leq(StatementKey(Type, x), MaxKey(Type, pattern))
=============================================================================
