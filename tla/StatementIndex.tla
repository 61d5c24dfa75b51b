--------------------------- MODULE StatementIndex ---------------------------
(***************************************************************************)
(* The four statement indexes of LevelDBPersistence as pure functions: how *)
(* a statement becomes a key of an index, which index a pattern is         *)
(* answered from, and which key range that index is scanned over.          *)
(*                                                                         *)
(* A statement carries the serialised form of its subject, predicate,      *)
(* object and context.  A term is an abstract value; all that a key keeps  *)
(* of it is its 128-bit Murmur hash, here a number in 0..MaxHash.          *)
(***************************************************************************)
EXTENDS Naturals

CONSTANTS
    Subject, Predicate, Object, Context,  \* the serialised terms in use
    Unset,          \* a field of a pattern that is not set: a wildcard
    Hash, MaxHash   \* MurmurHash3 on terms, and its largest value (all 0xFF)

Term == Subject \cup Predicate \cup Object \cup Context

\* A hash is one block of a key.
ASSUME HashAssumption ==
    /\ MaxHash \in Nat
    /\ Hash \in [Term -> 0 .. MaxHash]

\* Distinct terms have distinct hashes: the code keeps no other trace of a
\* term in a key, so every index is built on this.
ASSUME HashInjective == \A a, b \in Term : Hash[a] = Hash[b] => a = b

\* A set field of a pattern is never mistaken for a wildcard.
ASSUME UnsetAssumption == Unset \notin Term

Statement == [s : Subject, p : Predicate, o : Object, c : Context]

\* A pattern is a Statement message with some fields not set.  A context that
\* is not set is a wildcard; one that is set to an empty message serialises
\* like the missing context of a stored statement.
Pattern == [s : Subject \cup {Unset}, p : Predicate \cup {Unset},
            o : Object \cup {Unset}, c : Context \cup {Unset}]

StmtDB == {"spoc", "cspo", "opsc", "pcos"}

(***************************************************************************)
(* Keys.  AddStatement and RemoveStatements hash the four components and   *)
(* reorder the blocks for each index; PatternQuery::compute names the same *)
(* four orders a second time.                                              *)
(***************************************************************************)
\* Mutant: AddStatement orders the blocks of pcos differently.
KeyOrderSwapped ==
    [spoc |-> <<"s", "p", "o", "c">>, cspo |-> <<"c", "s", "p", "o">>,
     opsc |-> <<"o", "p", "s", "c">>, pcos |-> <<"p", "o", "c", "s">>]

KeyOrder ==
    [spoc |-> <<"s", "p", "o", "c">>, cspo |-> <<"c", "s", "p", "o">>,
     opsc |-> <<"o", "p", "s", "c">>, pcos |-> <<"p", "c", "o", "s">>]

StatementKey(d, x) == [i \in 1 .. 4 |-> Hash[x[KeyOrder[d][i]]]]

PatternOrder ==
    [spoc |-> <<"s", "p", "o", "c">>, cspo |-> <<"c", "s", "p", "o">>,
     opsc |-> <<"o", "p", "s", "c">>, pcos |-> <<"p", "c", "o", "s">>]

\* computeKey stops at the first component that is not set: block i is
\* written only if the components before it are set as well.
Bound(d, pat, i) == \A j \in 1 .. i : pat[PatternOrder[d][j]] # Unset

computeKey(d, pat, fill) ==
    [i \in 1 .. 4 |-> IF Bound(d, pat, i) THEN Hash[pat[PatternOrder[d][i]]]
                                          ELSE fill]

MinKey(d, pat) == computeKey(d, pat, 0)

MaxKey(d, pat) == computeKey(d, pat, MaxHash)

\* KeyComparator::Compare and Slice::compare: memcmp over the four blocks.
Less(k, l) == \E i \in 1 .. 4 : k[i] < l[i] /\ \A j \in 1 .. (i - 1) : k[j] = l[j]

Leq(k, l) == k = l \/ Less(k, l)

\* The entry of S that an iterator over index d comes to first.
First(d, S) == CHOOSE x \in S : \A y \in S : Leq(StatementKey(d, x), StatementKey(d, y))

(***************************************************************************)
(* The index PatternQuery answers a pattern from.                          *)
(***************************************************************************)
TypeOf(pat) ==
    IF pat.s # Unset THEN IF pat.c # Unset THEN "cspo" ELSE "spoc"
    ELSE IF pat.o # Unset THEN "opsc"
    ELSE IF pat.p # Unset THEN "pcos"
    ELSE IF pat.c # Unset THEN "cspo"
    ELSE "spoc"

\* A statement is returned by a scan if its key is in [MinKey, MaxKey].
InRange(d, pat, x) ==
    /\ Leq(MinKey(d, pat), StatementKey(d, x))
    /\ Leq(StatementKey(d, x), MaxKey(d, pat))

\* What a completed scan returns from an index holding the statements stored.
Scan(stored, pat) == {x \in stored : InRange(TypeOf(pat), pat, x)}

(***************************************************************************)
(* The meaning of a pattern: its unset fields are wildcards.               *)
(***************************************************************************)
matches(x, pat) == \A f \in {"s", "p", "o", "c"} : pat[f] # Unset => x[f] = pat[f]

\* The patterns whose set fields are a prefix of the order of their index.
PrefixPattern(pat) ==
    \A i \in 1 .. 4 : pat[PatternOrder[TypeOf(pat)][i]] # Unset => Bound(TypeOf(pat), pat, i)
=============================================================================
