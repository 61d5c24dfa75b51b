---------------------------- MODULE SparqlQuery -----------------------------
(***************************************************************************)
(* SparqlService::TupleQuery over a LevelDBTripleSource.  Rasqal, which is *)
(* external, evaluates the triple patterns of a query as nested loops: one *)
(* column per pattern, each with a triples match that the callbacks of     *)
(* rasqal_adapter.cc fill from an iterator over the persistence.  Rasqal   *)
(* asks is_end, binds the column's variables with bind_match, moves on     *)
(* with next_match, and goes to the next column; at the end of a column it *)
(* finishes the match, unsets its variables and goes back.                 *)
(*                                                                         *)
(* Every match reads its own snapshot; other clients write in between.     *)
(* Patterns whose graph is a variable are left out.                        *)
(***************************************************************************)
EXTENDS StatementIndex, FiniteSets, Sequences

CONSTANTS
    Var,            \* the variables of a query
    Queries,        \* the queries: sequences of patterns with variables
    Uri, Blank,     \* the terms that are URIs and blank nodes
    Native,         \* what the literals become on their way through Rasqal
    Empty,          \* an empty message
    InitParsed,     \* the values an uninitialised bool may have
    MaxStored,      \* bound on the statements stored at first
    MaxWrites       \* bound on the statements written or deleted meanwhile

Literal == Object \ (Uri \cup Blank)

QueryPattern == [s : Term \cup Var, p : Term \cup Var, o : Term \cup Var, c : Context \cup {Unset}]

ASSUME SparqlAssumption ==
    /\ Queries \subseteq Seq(QueryPattern) \ {<<>>}
    /\ Unset \notin Var \cup {Empty}
    /\ Native \in [Literal -> Literal \cup {Empty}]
    /\ InitParsed \subseteq BOOLEAN
    /\ MaxStored \in Nat /\ MaxWrites \in Nat

VARIABLES
    triples,    \* the statements stored
    writes,     \* the writes of other clients
    query,      \* the query
    phase,      \* "prepare", "match", "row", "done", "failed" or "crashed"
    column,     \* the pattern Rasqal is working on
    match,      \* per column the iterator of its match, or NoMatch
    value,      \* the values of the variables, Unset if they have none
    rows,       \* the rows handed to the client
    ever,       \* history: what was stored at some time during the query
    at          \* history: the statement each column is at

queryVars == <<triples, writes, query, phase, column, match, value, rows, ever, at>>

\* A default rdf::Statement: none of its parts becomes a literal.
EmptyStatement == [s |-> Unset, p |-> Unset, o |-> Unset, c |-> Unset]

NoMatch == [open |-> FALSE, type |-> "spoc", rest |-> {}, parsed |-> FALSE,
            current |-> EmptyStatement]

Fields == {"s", "p", "o"}

Columns == 1 .. Len(query)

VarsOf(t) == {t[f] : f \in Fields} \cap Var

\* The variables of the patterns before pattern i of a query.
VarsBefore(q, i) == UNION {VarsOf(q[j]) : j \in 1 .. (i - 1)}

Before(i) == VarsBefore(query, i)

\* The variables of the query.
AllVars == UNION {VarsOf(query[i]) : i \in Columns}

\* The variables a column binds: those no column before it has bound.
Parts(i) == VarsOf(query[i]) \ Before(i)

-----------------------------------------------------------------------------
(***************************************************************************)
(* rasqal_model.cc.  AsLiteral hands a term to Rasqal, which keeps numbers,*)
(* booleans and dates as native values; ConvertValue writes them out again *)
(* in its own format, and drops literals of a type it does not know.       *)
(***************************************************************************)
ConvertResource(t) == IF t \in Uri \cup Blank THEN t ELSE Empty

ConvertURI(t) == IF t \in Uri THEN t ELSE Empty

ConvertValue(t) == IF t \in Literal THEN Native[t] ELSE t

Convert(f, t) ==
    CASE f = "s" -> ConvertResource(t)
      [] f = "p" -> ConvertURI(t)
      [] f = "o" -> ConvertValue(t)

\* Mutant: the value of a variable is not looked at.
FieldUnbound(f, t) == IF t \in Var THEN Unset ELSE Convert(f, t)

\* A constant, or a variable that has a value, is set in the pattern.
Field(f, t) ==
    IF t \notin Var THEN Convert(f, t)
    ELSE IF value[t] = Unset THEN Unset
    ELSE Convert(f, value[t])

PatternOf(t) ==
    [s |-> Field("s", t.s), p |-> Field("p", t.p), o |-> Field("o", t.o), c |-> t.c]

\* persistence->GetStatements: the range of the pattern, read in key order.
GetStatements(pat) == Scan(triples, pat)

\* Rasqal asks for a pattern without variables with triple_present.
Answer(t) ==
    LET pat == PatternOf(t)
        all == GetStatements(pat)
    IN  IF VarsOf(t) = {} /\ all # {} THEN {First(TypeOf(pat), all)} ELSE all

-----------------------------------------------------------------------------
QueryInit ==
    /\ triples \in {S \in SUBSET Statement : Cardinality(S) <= MaxStored}
    /\ writes = 0
    /\ query \in Queries
    /\ phase = "prepare"
    /\ column = 1
    /\ match = [i \in Columns |-> NoMatch]
    /\ value = [v \in Var |-> Unset]
    /\ rows = <<>>
    /\ ever = {}
    /\ at = [i \in Columns |-> EmptyStatement]

\* rasqal_query_prepare and rasqal_query_execute succeed, or TupleQuery throws.
Prepare ==
    /\ phase = "prepare"
    /\ phase' \in {"match", "failed"}
    /\ ever' = triples
    /\ UNCHANGED <<triples, writes, query, column, match, value, rows, at>>

\* A new iterator; WrapProtoStatementIterator does not initialise parsed.
init_triples_match ==
    /\ phase = "match" /\ ~match[column].open
    /\ \E b \in InitParsed :
        match' = [match EXCEPT ![column] =
            [open |-> TRUE, type |-> TypeOf(PatternOf(query[column])),
             rest |-> Answer(query[column]), parsed |-> b, current |-> EmptyStatement]]
    /\ UNCHANGED <<triples, writes, query, phase, column, value, rows, ever, at>>

\* operator->: the statement is moved out of the wrapped iterator on first use.
Current(m) == IF m.parsed THEN m.current ELSE First(m.type, m.rest)

\* What bind_match gives to a variable of the column.
BoundTo(x, v) == LET f == CHOOSE g \in Fields : query[column][g] = v IN x[f]

\* Mutant: operator++ leaves parsed set.
NextParsed(m, dereferenced) ==
    [m EXCEPT !.rest = @ \ {First(m.type, @)}, !.parsed = dereferenced \/ @,
              !.current = IF dereferenced THEN Current(m) ELSE @]

\* operator++ of the iterator, after it was dereferenced or not.
NextMatch(m, dereferenced) ==
    [m EXCEPT !.rest = @ \ {First(m.type, @)}, !.parsed = FALSE,
              !.current = IF dereferenced THEN Current(m) ELSE @]

\* Not is_end: bind_match, if the column has variables to bind, and next_match.
bind_match ==
    /\ phase = "match" /\ match[column].open
    /\ match[column].rest # {}
    /\ LET parts == Parts(column)
       IN  /\ value' = [v \in Var |-> IF v \in parts THEN BoundTo(Current(match[column]), v)
                                                     ELSE value[v]]
           /\ match' = [match EXCEPT ![column] = NextMatch(@, parts # {})]
    /\ at' = [at EXCEPT ![column] = First(match[column].type, match[column].rest)]
    /\ IF column < Len(query) THEN column' = column + 1 /\ phase' = phase
                              ELSE column' = column /\ phase' = "row"
    /\ UNCHANGED <<triples, writes, query, rows, ever>>

\* Mutant: the variables of a finished column keep their values.
FinishBound ==
    /\ phase = "match" /\ match[column].open
    /\ match[column].rest = {}
    /\ match' = [match EXCEPT ![column] = NoMatch]
    /\ IF column = 1 THEN column' = column /\ phase' = "done"
                     ELSE column' = column - 1 /\ phase' = phase
    /\ UNCHANGED <<triples, writes, query, value, rows, ever, at>>

\* Mutant: the end of the first column goes unnoticed.
FinishInner ==
    /\ phase = "match" /\ match[column].open
    /\ match[column].rest = {}
    /\ column > 1
    /\ match' = [match EXCEPT ![column] = NoMatch]
    /\ value' = [v \in Var |-> IF v \in Parts(column) THEN Unset ELSE value[v]]
    /\ column' = column - 1
    /\ UNCHANGED <<triples, writes, query, phase, rows, ever, at>>

\* is_end: the iterator is deleted.
finish ==
    /\ phase = "match" /\ match[column].open
    /\ match[column].rest = {}
    /\ match' = [match EXCEPT ![column] = NoMatch]
    /\ value' = [v \in Var |-> IF v \in Parts(column) THEN Unset ELSE value[v]]
    /\ IF column = 1 THEN column' = column /\ phase' = "done"
                     ELSE column' = column - 1 /\ phase' = phase
    /\ UNCHANGED <<triples, writes, query, rows, ever, at>>

\* The loop of TupleQuery: the row is converted and written.  A variable
\* without a value is a null pointer.
Row ==
    /\ phase = "row"
    /\ IF \E v \in AllVars : value[v] = Unset
       THEN phase' = "crashed" /\ rows' = rows
       ELSE /\ phase' = "match"
            /\ rows' = Append(rows, [v \in AllVars |-> ConvertValue(value[v])])
    /\ UNCHANGED <<triples, writes, query, column, match, value, ever, at>>

\* Other clients.
Write ==
    /\ writes < MaxWrites
    /\ writes' = writes + 1
    /\ \E x \in Statement : triples' \in {triples \cup {x}, triples \ {x}} /\ triples' # triples
    /\ ever' = ever \cup triples'
    /\ UNCHANGED <<query, phase, column, match, value, rows, at>>

Step == Prepare \/ init_triples_match \/ bind_match \/ finish \/ Row

QueryNext == Step \/ Write

\* The thread of the request keeps running.
QuerySpec == QueryInit /\ [][QueryNext]_queryVars /\ WF_queryVars(Step)

-----------------------------------------------------------------------------
\* The type of the state.  A column is only entered with the columns before it
\* open, and the variables that have values are those of the columns before it,
\* and of its own once a row is complete.
QueryTypeOK ==
    /\ triples \subseteq Statement
    /\ phase \in {"prepare", "match", "row", "done", "failed", "crashed"}
    /\ column \in Columns
    /\ \A i \in Columns : phase \in {"match", "row"} => (i < column => match[i].open)
                                                  /\ (i > column => ~match[i].open)
    /\ value \in [Var -> Term \cup {Unset}]
    /\ phase = "match" /\ ~match[column].open =>
        {v \in Var : value[v] # Unset} \subseteq Before(column)

\* A statement is an instance of a pattern of the query under a row.
InstanceOf(x, t, row) ==
    /\ \A f \in Fields : IF t[f] \in Var THEN ConvertValue(x[f]) = row[t[f]]
                                         ELSE x[f] = t[f]
    /\ t.c # Unset => x.c = t.c

\* Whatever other clients write, every row has for each pattern of the query a
\* statement that was stored at some time during the query: no value of an
\* earlier binding, and no statement of another column, ends up in a row.  It
\* holds for the patterns the indexes answer exactly.
RowsWereStored ==
    \A n \in DOMAIN rows : \A i \in Columns :
        \E x \in ever : InstanceOf(x, query[i], rows[n])

\* The solutions: the ways to choose a statement for each pattern with variables
\* so that a variable stands for one term and the other patterns are stored.
Agree(w) ==
    \A i \in Columns : \A f \in Fields :
        IF query[i][f] \in Var
        THEN \A j \in Columns : \A g \in Fields : query[j][g] = query[i][f] => w[j][g] = w[i][f]
        ELSE w[i][f] = query[i][f]

Chosen(w) == [i \in Columns |-> IF VarsOf(query[i]) = {} THEN EmptyStatement ELSE w[i]]

Solutions ==
    {Chosen(w) : w \in {u \in [Columns -> triples] :
        Agree(u) /\ \A i \in Columns : query[i].c \in {Unset, u[i].c}}}

\* Nothing was written meanwhile, and Rasqal's formats are those stored.
Settled == writes = 0 /\ \A x \in triples : ConvertValue(x.o) = x.o

\* If nothing was written meanwhile and Rasqal's formats are those stored, the
\* nested loops return each solution of the query, as one row.
JoinComplete ==
    phase = "done" /\ Settled
        => /\ Len(rows) = Cardinality(Solutions)
           /\ \A w \in Solutions : \E n \in DOMAIN rows : \A i \in Columns : \A f \in Fields :
                query[i][f] \in Var => rows[n][query[i][f]] = w[i][f]

\* Every query comes to its end: it is answered, rejected, or fails.
QueryEnds == <>(phase \in {"done", "failed", "crashed"})

\* "Dereference iterator, returning a pointer to the current element."
\* (util/iterator.h): no row is made of the empty statement an iterator holds
\* before its first one, so that each variable of a row has a value.
\* The code does not keep this: see the README.
NeverCrashes == phase # "crashed"

-----------------------------------------------------------------------------
(***************************************************************************)
(* What RowsWereStored and JoinComplete rest on.                           *)
(***************************************************************************)
\* The fields that are set when Rasqal asks for pattern i.
Outline(q, i) ==
    [f \in {"s", "p", "o", "c"} |->
        IF f \in Fields /\ q[i][f] \in Var \ VarsBefore(q, i) THEN Unset ELSE q[i][f]]

\* The constants of a query are terms that Rasqal leaves as they are, no pattern
\* has a variable twice, and an index answers its patterns exactly.
ExactQuery(q) ==
    \A i \in 1 .. Len(q) :
        /\ \A f \in Fields : q[i][f] \notin Var => q[i][f] \in Term /\ Convert(f, q[i][f]) = q[i][f]
        /\ \A f, g \in Fields : q[i][f] \in Var /\ q[i][g] = q[i][f] => f = g
        /\ PrefixPattern(Outline(q, i))

\* Subjects are resources and predicates are URIs, no term of a statement is an
\* empty message, and Rasqal keeps what it has written itself.
ExactTerms ==
    /\ Subject \subseteq Uri \cup Blank /\ Predicate \subseteq Uri
    /\ Empty \in Term \ (Subject \cup Predicate \cup Object)
    /\ \A t \in Literal : ConvertValue(ConvertValue(t)) = ConvertValue(t)

Exact == ExactTerms /\ \A q \in Queries : ExactQuery(q)

MatchType ==
    [open : BOOLEAN, type : StmtDB, rest : SUBSET Statement, parsed : BOOLEAN,
     current : Statement \cup {EmptyStatement}]

Running == phase \in {"match", "row"}

\* Column i is at a statement.
Entered(i) == Running /\ (i < column \/ (i = column /\ phase = "row"))

\* All the variables of V have values.
Valued(V) == \A v \in V : value[v] # Unset

\* The shape of the state, for any query.
QueryShape ==
    /\ QueryTypeOK
    /\ query \in Queries
    /\ match \in [Columns -> MatchType]
    /\ at \in [Columns -> Statement \cup {EmptyStatement}]
    /\ \A i \in Columns : match[i].parsed => match[i].current = EmptyStatement
    /\ writes \in Nat
    /\ phase = "prepare" =>
          /\ column = 1 /\ rows = <<>>
          /\ (\A i \in Columns : ~match[i].open) /\ (\A v \in Var : value[v] = Unset)
    /\ phase = "row" => column = Len(query) /\ match[column].open
    /\ Running =>
          {v \in Var : value[v] # Unset} \subseteq
              Before(IF match[column].open THEN column + 1 ELSE column)
    /\ ever \subseteq Statement
    /\ phase # "prepare" => triples \subseteq ever
    /\ phase # "prepare" /\ writes = 0 => triples = ever
    /\ \A i \in Columns : Running /\ match[i].open => match[i].rest \subseteq ever
    /\ \A i \in Columns : Entered(i) => at[i] \in ever

\* Statement x agrees with the constants of column i and the values found before it.
Candidate(x, i) ==
    /\ \A f \in Fields :
          IF query[i][f] \in Var
          THEN query[i][f] \in Before(i) => x[f] = Convert(f, value[query[i][f]])
          ELSE x[f] = query[i][f]
    /\ query[i].c # Unset => x.c = query[i].c

\* What the columns hold, for the queries the indexes answer exactly.
QuerySupport ==
    /\ \A i \in Columns : Running /\ match[i].open /\ Valued(Before(i)) =>
          \A x \in match[i].rest : Candidate(x, i)
    /\ \A i \in Columns : Entered(i) /\ Valued(Before(i + 1)) =>
          /\ Candidate(at[i], i)
          /\ \A f \in Fields : query[i][f] \in Parts(i) => value[query[i][f]] = at[i][f]
    /\ rows \in Seq([AllVars -> Term \cup {Empty}])

-----------------------------------------------------------------------------
\* The columns before i are at the statements of solution w.
Follows(w, i) == \A j \in 1 .. (i - 1) : VarsOf(query[j]) = {} \/ w[j] = at[j]

\* Column i has not come to the statement of solution w.
Ahead(w, i) ==
    \/ ~match[i].open
    \/ IF VarsOf(query[i]) = {} THEN match[i].rest # {} ELSE w[i] \in match[i].rest

\* Solution w has no row yet.
ToCome(w) ==
    /\ phase # "done"
    /\ \/ \E i \in 1 .. column : Follows(w, i) /\ Ahead(w, i)
       \/ phase = "row" /\ Follows(w, column + 1)

Found == {w \in Solutions : ~ToCome(w)}

HasRow(w) ==
    \E n \in DOMAIN rows : \A i \in Columns : \A f \in Fields :
        query[i][f] \in Var => rows[n][query[i][f]] = w[i][f]

\* No statement comes twice, and a value is a field of the statement that the
\* column of its variable is at.
QueryProgress ==
    /\ \A i \in Columns : Entered(i) => at[i] \notin match[i].rest
    /\ \A i \in Columns : Running /\ match[i].open /\ VarsOf(query[i]) = {} =>
          /\ \A x, y \in match[i].rest : x = y
          /\ Entered(i) => match[i].rest = {}
    /\ \A v \in Var : Running /\ value[v] # Unset =>
          \E i \in 1 .. column : \E f \in Fields :
              query[i][f] = v /\ v \in Parts(i) /\ value[v] = at[i][f]

\* The rows are those of the solutions found.
JoinProgress ==
    phase \notin {"failed", "crashed"} /\ Settled =>
        /\ IsFiniteSet(Found) /\ Cardinality(Found) = Len(rows)
        /\ \A w \in Found : HasRow(w)
=============================================================================
