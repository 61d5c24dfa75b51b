--------------------------- MODULE MCSparqlQuery ----------------------------
(***************************************************************************)
(* Small instance of SparqlQuery.  "a" and "b" are URIs, used as subjects  *)
(* and objects; "1" is a literal Rasqal keeps, "x" one it does not know.   *)
(***************************************************************************)
EXTENDS SparqlQuery

MCHash == [t \in Term |->
    CASE t = "a" -> 1 [] t = "b" -> 3 [] t = "1" -> 0 [] t = "x" -> 6
      [] t = "p" -> 2 [] t = "q" -> 4 [] t = "none" -> 5]

MCNative == [t \in Literal |-> IF t = "x" THEN Empty ELSE t]

Triple(s, p, o) == [s |-> s, p |-> p, o |-> o, c |-> Unset]

\* The path, the two edges into one node, the loop, the guarded listing, and the
\* lookup of an object.
ExactQueries ==
    {<<Triple("?s", "p", "?m"), Triple("?m", "p", "?o")>>,
     <<Triple("?s", "p", "?m"), Triple("?o", "p", "?m")>>,
     <<Triple("?s", "p", "?m"), Triple("?m", "p", "?s")>>,
     <<Triple("a", "p", "b"), Triple("?s", "?m", "?o")>>,
     <<[Triple("?s", "p", "?m") EXCEPT !.c = "none"]>>}

\* They are queries the rows of which are shown to be right.
ASSUME ExactTerms /\ \A q \in ExactQueries : ExactQuery(q)

\* The edges whose two ends are connected by any predicate: the second pattern
\* has a subject and an object, which no index has as a prefix.
EdgeQueries == {<<Triple("?s", "p", "?m"), Triple("?s", "?o", "?m")>>}
=============================================================================
