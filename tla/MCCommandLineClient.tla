------------------------- MODULE MCCommandLineClient -------------------------
EXTENDS CommandLineClient

CONSTANTS x, u, v

\* Hash values include 0 and MaxHash, the fill values of MinKey and MaxKey.
MCHash == [s1 |-> 3, p1 |-> 1, p2 |-> 6, o1 |-> 0, o2 |-> 5,
           c1 |-> 7, none |-> 4]

MCPrefix == {x}
MCUri == {u, v}

\* Statements of documents: the parser leaves none without a context.
A == [s |-> "s1", p |-> "p1", o |-> "o1", c |-> "c1"]
B == [s |-> "s1", p |-> "p1", o |-> "o2", c |-> "c1"]

AboutO1 == [Anything EXCEPT !.o = "o1"]

St(s) == [key |-> s, value |-> Stored]
Ns(w) == [key |-> x, value |-> w]

Import(items, end) == [op |-> "import", doc |-> [items |-> items, end |-> end]]
Delete(pat) == [op |-> "delete", pattern |-> pat]
Select(pat, format) == [op |-> "select", pattern |-> pat, format |-> format]

\* One query with every pattern against every store of at most two statements.
Queries ==
    {[stored |-> S, script |-> <<Select(pat, "raptor")>>] :
        S \in {T \in SUBSET Statement : Cardinality(T) <= 2}, pat \in Pattern}

Whole == Import(<<Ns(u), St(A), St(B)>>, "end")

\* Two commands, the second while calls of the first may still be at work.
Sessions ==
    {[stored |-> {B}, script |-> <<first, second>>] :
        first \in {Whole, Delete(Anything), Import(<<St(B), Ns(u), Ns(v)>>, "syntax error"),
                  Import(<<St(A), Ns(v)>>, "exception")},
        second \in {Whole, Delete(AboutO1), Select(Anything, "proto")}}

MCScenario == Queries \cup Sessions
=============================================================================
