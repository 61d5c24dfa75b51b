---------------------------- MODULE ServerProofs ----------------------------
(***************************************************************************)
(* Two parts of the server that work through several scans while others    *)
(* write.                                                                  *)
(*                                                                         *)
(* TupleQuery: what its rows hold and that none is missing, for any query, *)
(* store and number of writes by other clients.                            *)
(*                                                                         *)
(* Clear and Size go through their contexts one by one among other calls:  *)
(* what they delete and count, for any number of handlers, contexts and    *)
(* statements.                                                             *)
(***************************************************************************)
EXTENDS LevelDBService, SparqlQuery, StatementIndexProofs

\* The prover of a step that names no other, and its time.
USE ZenonT(30)

-----------------------------------------------------------------------------
(* The patterns of a query *)

LEMMA OneNumberMore ==
    ASSUME NEW k \in Nat
    PROVE  /\ \A i \in 1 .. (k + 1) : i \in 1 .. k \/ i = k + 1
           /\ 1 .. k \subseteq 1 .. (k + 1) /\ k + 1 \in 1 .. (k + 1) /\ k + 1 \notin 1 .. k
BY SMTT(30)

\* The place behind the last one.
LEMMA Appended ==
    ASSUME NEW S, NEW s \in Seq(S), NEW x
    PROVE  /\ Len(Append(s, x)) = Len(s) + 1
           /\ DOMAIN s \subseteq DOMAIN Append(s, x)
           /\ \A n \in DOMAIN s : Append(s, x)[n] = s[n]
           /\ Len(s) + 1 \in DOMAIN Append(s, x) /\ Append(s, x)[Len(s) + 1] = x
BY SMTT(30)

LEMMA PatternsOfQuery ==
    ASSUME NEW q \in Queries
    PROVE  /\ Len(q) \in Nat /\ Len(q) >= 1
           /\ \A i \in 1 .. Len(q) : /\ q[i] \in QueryPattern
                                     /\ \A f \in Fields : q[i][f] \in Term \cup Var
                                     /\ q[i].c \in Context \cup {Unset}
<1>1. q \in Seq(QueryPattern) /\ q # <<>>
  BY SparqlAssumption
<1>2. Len(q) \in Nat /\ Len(q) # 0 /\ \A i \in 1 .. Len(q) : q[i] \in QueryPattern
  BY <1>1, SMTT(30)
<1>3. \A t \in QueryPattern : /\ \A f \in Fields : t[f] \in Term \cup Var
                              /\ t.c \in Context \cup {Unset}
  BY DEF QueryPattern, Fields
<1> QED
  BY <1>2, <1>3, SMTT(30)

LEMMA VarsBeforeStep ==
    ASSUME NEW q, NEW i \in Nat \ {0}
    PROVE  VarsBefore(q, i + 1) = VarsBefore(q, i) \cup VarsOf(q[i])
<1>1. \A j : j \in 1 .. ((i + 1) - 1) <=> j \in 1 .. (i - 1) \/ j = i
  BY SMTT(30)
<1>2. ASSUME NEW v
      PROVE  /\ v \in VarsBefore(q, i + 1) <=> \E j \in 1 .. ((i + 1) - 1) : v \in VarsOf(q[j])
             /\ v \in VarsBefore(q, i) <=> \E j \in 1 .. (i - 1) : v \in VarsOf(q[j])
  BY DEF VarsBefore
<1> QED
  BY <1>1, <1>2

LEMMA VarsBeforeGrows ==
    ASSUME NEW q, NEW i \in Nat, NEW j \in Nat, j <= i
    PROVE  VarsBefore(q, j) \subseteq VarsBefore(q, i)
<1>1. 1 .. (j - 1) \subseteq 1 .. (i - 1)
  BY SMTT(30)
<1> QED
  BY <1>1 DEF VarsBefore

LEMMA VarsBeforeOf ==
    ASSUME NEW q, NEW i \in Nat, NEW j \in Nat, 1 <= j, j < i
    PROVE  VarsOf(q[j]) \subseteq VarsBefore(q, i)
<1>1. j \in 1 .. (i - 1)
  BY SMTT(30)
<1> QED
  BY <1>1 DEF VarsBefore

LEMMA FieldIsVar ==
    ASSUME NEW t, NEW v
    PROVE  v \in VarsOf(t) <=> v \in Var /\ \E f \in Fields : t[f] = v
BY DEF VarsOf

LEMMA ConvertType ==
    ASSUME NEW f \in Fields, NEW t \in Term
    PROVE  Convert(f, t) \in Term \cup {Empty}
<1>1. ConvertValue(t) \in Term \cup {Empty}
  BY SparqlAssumption DEF ConvertValue, Literal, Term
<1> QED
  BY <1>1 DEF Convert, ConvertResource, ConvertURI, Fields

LEMMA StatementField ==
    ASSUME NEW x \in Statement, NEW f \in Fields
    PROVE  x[f] \in Term
BY DEF Statement, Fields, Term

LEMMA AnswerStored ==
    ASSUME SetFacts, NEW t, triples \subseteq Statement
    PROVE  /\ Answer(t) \subseteq GetStatements(PatternOf(t))
           /\ Answer(t) \subseteq triples
           /\ VarsOf(t) = {} => \A x, y \in Answer(t) : x = y
<1> DEFINE all == GetStatements(PatternOf(t))
<1>1. all \subseteq triples
  BY DEF GetStatements, Scan
<1>2. all # {} => First(TypeOf(PatternOf(t)), all) \in all
  BY <1>1, FirstIsLeast, TypeOfType
<1>3. Answer(t) = IF VarsOf(t) = {} /\ all # {} THEN {First(TypeOf(PatternOf(t)), all)} ELSE all
  BY DEF Answer
<1> QED
  BY <1>1, <1>2, <1>3

\* bind_match gives a variable a field of the statement that it stands at.
LEMMA BoundField ==
    ASSUME NEW x, NEW v \in VarsOf(query[column])
    PROVE  \E f \in Fields : query[column][f] = v /\ BoundTo(x, v) = x[f]
<1>1. \E f \in Fields : query[column][f] = v
  BY FieldIsVar
<1> DEFINE g == CHOOSE f \in Fields : query[column][f] = v
<1>2. g \in Fields /\ query[column][g] = v
  BY <1>1
<1>3. BoundTo(x, v) = x[g]
  BY DEF BoundTo
<1> QED
  BY <1>2, <1>3

-----------------------------------------------------------------------------
(* The shape of the state *)
LEMMA ShapeInit ==
    ASSUME QueryInit
    PROVE  QueryShape
<1>1. query \in Queries /\ Len(query) \in Nat /\ Len(query) >= 1
  BY PatternsOfQuery DEF QueryInit
<1>2. NoMatch \in MatchType /\ NoMatch.open = FALSE /\ NoMatch.parsed = FALSE
  BY DEF NoMatch, MatchType, StmtDB
<1>3. match \in [Columns -> MatchType] /\ at \in [Columns -> Statement \cup {EmptyStatement}]
      /\ \A i \in Columns : match[i].open = FALSE /\ match[i].parsed = FALSE
  BY <1>2 DEF QueryInit
<1>4. column \in Columns /\ value \in [Var -> Term \cup {Unset}] /\ triples \subseteq Statement
  BY <1>1, SMTT(30) DEF QueryInit, Columns
<1>5. phase = "prepare" /\ ever = {} /\ writes = 0 /\ column = 1 /\ rows = <<>>
      /\ \A v \in Var : value[v] = Unset
  BY DEF QueryInit
<1> QED
  BY <1>1, <1>3, <1>4, <1>5 DEF QueryShape, QueryTypeOK, Running, Entered

\* Nothing that depends on the query changes.
LEMMA SameQuery ==
    ASSUME query' = query
    PROVE  /\ Columns' = Columns /\ AllVars' = AllVars
           /\ \A i : Before(i)' = Before(i)
           /\ \A i : Parts(i)' = Parts(i)
BY DEF Columns, AllVars, Before, Parts

LEMMA ShapePrepare ==
    ASSUME QueryShape, Prepare
    PROVE  QueryShape'
<1>1. UNCHANGED <<triples, query, column, match, value, rows, at, writes>>
      /\ phase = "prepare" /\ phase' \in {"match", "failed"} /\ ever' = triples
  BY DEF Prepare
<1>2. Columns' = Columns /\ \A i : Before(i)' = Before(i)
  BY <1>1, SameQuery
<1>3. column = 1 /\ (\A i \in Columns : ~match[i].open) /\ (\A v \in Var : value[v] = Unset)
      /\ column \in Columns /\ Len(query) \in Nat
  BY <1>1, PatternsOfQuery DEF QueryShape, QueryTypeOK
<1>4. QueryTypeOK'
  BY <1>1, <1>2, <1>3, SMTT(30) DEF QueryShape, QueryTypeOK, Columns
<1>5. \A i \in Columns : ~Entered(i)'
  BY <1>1, <1>3, SMTT(30) DEF Entered, Columns
<1> QED
  BY <1>1, <1>2, <1>3, <1>4, <1>5 DEF QueryShape, QueryTypeOK, Running

LEMMA ShapeInitMatch ==
    ASSUME SetFacts, QueryShape, init_triples_match
    PROVE  QueryShape'
<1> DEFINE pat == PatternOf(query[column])
<1>1. UNCHANGED <<triples, writes, query, phase, column, value, rows, ever, at>>
      /\ phase = "match" /\ ~match[column].open
  BY DEF init_triples_match
<1>2. PICK b \in InitParsed : match' = [match EXCEPT ![column] =
            [open |-> TRUE, type |-> TypeOf(pat),
             rest |-> Answer(query[column]), parsed |-> b, current |-> EmptyStatement]]
  BY DEF init_triples_match
<1>3. Columns' = Columns /\ \A i : Before(i)' = Before(i)
  BY <1>1, SameQuery
<1>4. b \in BOOLEAN /\ TypeOf(pat) \in StmtDB
      /\ Answer(query[column]) \subseteq triples /\ triples \subseteq ever /\ triples \subseteq Statement
  BY <1>1, AnswerStored, TypeOfType, SparqlAssumption DEF QueryShape, QueryTypeOK
<1>5. column \in Columns /\ match \in [Columns -> MatchType] /\ Len(query) \in Nat
      /\ column \in Nat /\ column >= 1
  BY PatternsOfQuery, SMTT(30) DEF QueryShape, QueryTypeOK, Columns
<1> HIDE DEF pat
<1>6. /\ match' \in [Columns -> MatchType]
      /\ \A i \in Columns : i # column => match'[i] = match[i]
      /\ match'[column].open = TRUE
      /\ match'[column].current = EmptyStatement
      /\ match'[column].rest \subseteq ever
  <2>1. [open |-> TRUE, type |-> TypeOf(pat),
             rest |-> Answer(query[column]), parsed |-> b, current |-> EmptyStatement] \in MatchType
    BY <1>4 DEF MatchType
  <2> QED
    BY <1>2, <1>4, <1>5, <2>1
<1>7. Before(column) \subseteq Before(column + 1)
  BY <1>5, VarsBeforeGrows, SMTT(30) DEF Before
<1>8. QueryTypeOK'
  BY <1>1, <1>3, <1>5, <1>6 DEF QueryShape, QueryTypeOK, Columns
<1>9. \A i \in Columns : Entered(i)' = Entered(i)
  BY <1>1 DEF Entered, Running
<1>10. \A i \in Columns : /\ match'[i].parsed => match'[i].current = EmptyStatement
                          /\ Running' /\ match'[i].open => match'[i].rest \subseteq ever
                          /\ Entered(i)' => at[i] \in ever
  BY <1>1, <1>5, <1>6, <1>9 DEF QueryShape, Running
<1>11. {v \in Var : value[v] # Unset} \subseteq Before(column + 1)
  BY <1>1, <1>5, <1>7 DEF QueryShape, QueryTypeOK
<1> QED
  BY <1>1, <1>3, <1>5, <1>6, <1>8, <1>10, <1>11 DEF QueryShape, QueryTypeOK, Running

LEMMA BindFacts ==
    ASSUME SetFacts, QueryShape, bind_match
    PROVE  /\ First(match[column].type, match[column].rest) \in match[column].rest
           /\ match' \in [Columns -> MatchType]
           /\ \A i \in Columns : i # column => match'[i] = match[i]
           /\ match'[column].open = TRUE /\ match'[column].parsed = FALSE
           /\ match'[column].rest =
                 match[column].rest \ {First(match[column].type, match[column].rest)}
           /\ at' = [at EXCEPT ![column] = First(match[column].type, match[column].rest)]
           /\ Current(match[column]) \in Statement \cup {EmptyStatement}
           /\ \A v \in Var : value'[v] = IF v \in Parts(column)
                                          THEN BoundTo(Current(match[column]), v) ELSE value[v]
           /\ value' \in [Var -> Term \cup {Unset}]
<1> DEFINE m == match[column]
           x == First(m.type, m.rest)
           b == Parts(column) # {}
<1>1. m \in MatchType /\ m.rest # {} /\ m.open /\ column \in Columns
  BY DEF QueryShape, QueryTypeOK, bind_match
<1>2. m.type \in StmtDB /\ m.rest \in SUBSET Statement /\ m.parsed \in BOOLEAN
      /\ m.current \in Statement \cup {EmptyStatement}
  BY <1>1 DEF MatchType
<1>3. x \in m.rest
  BY <1>1, <1>2, FirstIsLeast
<1>4. Current(m) \in Statement \cup {EmptyStatement}
  BY <1>2, <1>3 DEF Current
<1>5. match' = [match EXCEPT ![column] = NextMatch(m, b)]
  BY DEF bind_match
<1>6. NextMatch(m, b) = [m EXCEPT !.rest = m.rest \ {x}, !.parsed = FALSE,
                                  !.current = IF b THEN Current(m) ELSE m.current]
  BY DEF NextMatch
<1>7. NextMatch(m, b) = [open |-> m.open, type |-> m.type, rest |-> m.rest \ {x}, parsed |-> FALSE,
                         current |-> IF b THEN Current(m) ELSE m.current]
  <2> HIDE DEF x, b
  <2> QED
    BY <1>1, <1>6 DEF MatchType
<1>8. match \in [Columns -> MatchType]
  BY DEF QueryShape
<1>9. NextMatch(m, b) \in MatchType /\ NextMatch(m, b).open /\ ~NextMatch(m, b).parsed
      /\ NextMatch(m, b).rest = m.rest \ {x}
  <2> HIDE DEF x, b
  <2> QED
    BY <1>1, <1>2, <1>4, <1>7, SMTT(30) DEF MatchType
<1>10. value' = [v \in Var |-> IF v \in Parts(column) THEN BoundTo(Current(m), v) ELSE value[v]]
  BY DEF bind_match
<1>11. ASSUME NEW v \in Parts(column)
       PROVE  BoundTo(Current(m), v) \in Term \cup {Unset}
  <2>1. PICK f \in Fields : BoundTo(Current(m), v) = Current(m)[f]
    BY BoundField DEF Parts
  <2>2. EmptyStatement[f] = Unset
    BY SMTT(30) DEF EmptyStatement, Fields
  <2> QED
    BY <1>4, <2>1, <2>2, StatementField
<1>12. at' = [at EXCEPT ![column] = x]
  BY DEF bind_match
<1>13. value \in [Var -> Term \cup {Unset}]
  BY DEF QueryShape, QueryTypeOK
<1> HIDE DEF b
<1>14. match' \in [Columns -> MatchType] /\ (\A i \in Columns : i # column => match'[i] = match[i])
       /\ match'[column] = NextMatch(m, b)
  BY <1>1, <1>5, <1>8, <1>9
<1>15. value' \in [Var -> Term \cup {Unset}]
  BY <1>10, <1>11, <1>13
<1> QED
  BY <1>3, <1>4, <1>9, <1>10, <1>12, <1>14, <1>15, SMTT(30)

LEMMA ShapeBind ==
    ASSUME SetFacts, QueryShape, bind_match
    PROVE  QueryShape'
<1> DEFINE x == First(match[column].type, match[column].rest)
<1>1. /\ UNCHANGED <<triples, writes, query, rows, ever>>
      /\ phase = "match" /\ match[column].open
      /\ IF column < Len(query) THEN column' = column + 1 /\ phase' = phase
                                ELSE column' = column /\ phase' = "row"
  BY DEF bind_match
<1>2. Columns' = Columns /\ \A i : Before(i)' = Before(i)
  BY <1>1, SameQuery
<1>3. column \in Columns /\ Len(query) \in Nat /\ column \in Nat /\ column >= 1
      /\ column <= Len(query) /\ at \in [Columns -> Statement \cup {EmptyStatement}]
      /\ ever \subseteq Statement /\ match[column].rest \subseteq ever
  BY <1>1, PatternsOfQuery, SMTT(30) DEF QueryShape, QueryTypeOK, Columns, Running
<1>4. x \in match[column].rest /\ at' = [at EXCEPT ![column] = x]
  BY BindFacts
<1>5. /\ match' \in [Columns -> MatchType]
      /\ \A i \in Columns : i # column => match'[i] = match[i]
      /\ match'[column].open = TRUE /\ match'[column].parsed = FALSE
      /\ match'[column].rest = match[column].rest \ {x}
      /\ value' \in [Var -> Term \cup {Unset}]
      /\ \A v \in Var : v \notin Parts(column) => value'[v] = value[v]
  BY BindFacts
<1> HIDE DEF x
<1>6. at' \in [Columns -> Statement \cup {EmptyStatement}] /\ at'[column] \in ever
      /\ \A i \in Columns : i # column => at'[i] = at[i]
  BY <1>3, <1>4
<1>7. {v \in Var : value'[v] # Unset} \subseteq Before(column + 1)
  <2>1. VarsOf(query[column]) \subseteq Before(column + 1)
    BY <1>3, VarsBeforeOf, SMTT(30) DEF Before
  <2>2. {v \in Var : value[v] # Unset} \subseteq Before(column + 1)
    BY <1>1 DEF QueryShape, Running
  <2> QED
    BY <1>5, <2>1, <2>2 DEF Parts
<1>8. column' \in Columns /\ phase' \in {"match", "row"}
      /\ \A i \in Columns : (i < column' => match'[i].open) /\ (i > column' => ~match'[i].open)
  BY <1>1, <1>3, <1>5, SMTT(30) DEF QueryShape, QueryTypeOK, Columns
<1>9. phase' = "match" => ~match'[column'].open /\ column' = column + 1
  BY <1>1, <1>3, <1>5, SMTT(30) DEF QueryShape, QueryTypeOK, Columns
<1>10. phase' = "row" => match'[column'].open /\ column' = column /\ column = Len(query)
  BY <1>1, <1>3, <1>5, SMTT(30)
<1>11. QueryTypeOK'
  BY <1>1, <1>2, <1>5, <1>7, <1>8, <1>9 DEF QueryShape, QueryTypeOK
<1>12. \A i \in Columns : /\ match'[i].parsed => match'[i].current = EmptyStatement
                          /\ match'[i].open => match'[i].rest \subseteq ever
  BY <1>1, <1>3, <1>5 DEF QueryShape, Running
<1>13. \A i \in Columns : Entered(i)' => at'[i] \in ever
  BY <1>1, <1>3, <1>6, SMTT(30) DEF QueryShape, Running, Entered, Columns
<1>14. {v \in Var : value'[v] # Unset} \subseteq
              Before(IF match'[column'].open THEN column' + 1 ELSE column')
  BY <1>7, <1>8, <1>9, <1>10
<1> QED
  BY <1>1, <1>2, <1>5, <1>6, <1>8, <1>10, <1>11, <1>12, <1>13, <1>14 DEF QueryShape, QueryTypeOK, Running

LEMMA ShapeFinish ==
    ASSUME QueryShape, finish
    PROVE  QueryShape'
<1>1. /\ UNCHANGED <<triples, writes, query, rows, ever, at>>
      /\ phase = "match" /\ match[column].open
      /\ IF column = 1 THEN column' = column /\ phase' = "done"
                       ELSE column' = column - 1 /\ phase' = phase
      /\ match' = [match EXCEPT ![column] = NoMatch]
      /\ value' = [v \in Var |-> IF v \in Parts(column) THEN Unset ELSE value[v]]
  BY DEF finish
<1>2. Columns' = Columns /\ \A i : Before(i)' = Before(i)
  BY <1>1, SameQuery
<1>3. column \in Columns /\ Len(query) \in Nat /\ column \in Nat /\ column >= 1
      /\ column <= Len(query) /\ match \in [Columns -> MatchType]
  BY PatternsOfQuery, SMTT(30) DEF QueryShape, QueryTypeOK, Columns
<1>4. NoMatch \in MatchType /\ NoMatch.open = FALSE /\ NoMatch.parsed = FALSE
  BY DEF NoMatch, MatchType, StmtDB
<1>5. /\ match' \in [Columns -> MatchType]
      /\ \A i \in Columns : i # column => match'[i] = match[i]
      /\ match'[column].open = FALSE /\ match'[column].parsed = FALSE
  BY <1>1, <1>3, <1>4
<1>6. value' \in [Var -> Term \cup {Unset}]
  BY <1>1 DEF QueryShape, QueryTypeOK
<1>7. {v \in Var : value'[v] # Unset} \subseteq Before(column)
  <2>1. Before(column + 1) = Before(column) \cup VarsOf(query[column])
    BY <1>3, VarsBeforeStep, SMTT(30) DEF Before
  <2>2. {v \in Var : value[v] # Unset} \subseteq Before(column + 1)
    BY <1>1 DEF QueryShape, Running
  <2> QED
    BY <1>1, <2>1, <2>2 DEF Parts
<1>8. /\ column' \in Columns /\ phase' \in {"match", "done"}
      /\ phase' = "match" =>
            /\ \A i \in Columns : (i < column' => match'[i].open) /\ (i > column' => ~match'[i].open)
            /\ match'[column'].open /\ column' + 1 = column
  BY <1>1, <1>3, <1>5, SMTT(30) DEF QueryShape, QueryTypeOK, Columns
<1>9. QueryTypeOK'
  BY <1>1, <1>2, <1>6, <1>8 DEF QueryShape, QueryTypeOK
<1>10. \A i \in Columns : /\ match'[i].parsed => match'[i].current = EmptyStatement
                          /\ match'[i].open => match'[i].rest \subseteq ever
  BY <1>1, <1>3, <1>5 DEF QueryShape, Running
<1>11. \A i \in Columns : Entered(i)' => at[i] \in ever
  BY <1>1, <1>3, SMTT(30) DEF QueryShape, Running, Entered, Columns
<1>12. phase' = "match" => {v \in Var : value'[v] # Unset} \subseteq
              Before(IF match'[column'].open THEN column' + 1 ELSE column')
  BY <1>7, <1>8
<1> QED
  BY <1>1, <1>2, <1>5, <1>8, <1>9, <1>10, <1>11, <1>12 DEF QueryShape, QueryTypeOK, Running

LEMMA ShapeRow ==
    ASSUME QueryShape, Row
    PROVE  QueryShape'
<1>1. UNCHANGED <<triples, writes, query, column, match, value, ever, at>>
      /\ phase = "row" /\ phase' \in {"match", "crashed"}
  BY DEF Row
<1>2. Columns' = Columns /\ \A i : Before(i)' = Before(i)
  BY <1>1, SameQuery
<1>3. column = Len(query) /\ match[column].open
  BY <1>1 DEF QueryShape
<1>4. QueryTypeOK'
  BY <1>1, <1>2, <1>3 DEF QueryShape, QueryTypeOK
<1>5. \A i \in Columns : /\ Running' => Running
                         /\ Entered(i)' => Entered(i)
  BY <1>1 DEF Entered, Running
<1> QED
  BY <1>1, <1>2, <1>4, <1>5 DEF QueryShape, Running

LEMMA ShapeWrite ==
    ASSUME QueryShape, Write
    PROVE  QueryShape'
<1>1. UNCHANGED <<query, phase, column, match, value, rows, at>>
      /\ writes' = writes + 1 /\ ever' = ever \cup triples'
  BY DEF Write
<1>2. triples' \subseteq Statement
  BY DEF Write, QueryShape, QueryTypeOK
<1>3. Columns' = Columns /\ \A i : Before(i)' = Before(i)
  BY <1>1, SameQuery
<1>4. QueryTypeOK'
  BY <1>1, <1>2, <1>3 DEF QueryShape, QueryTypeOK
<1>5. (Running' <=> Running) /\ \A i \in Columns : Entered(i)' <=> Entered(i)
  BY <1>1 DEF Entered, Running
<1>6. writes' \in Nat \ {0}
  BY <1>1, SMTT(30) DEF QueryShape
<1> QED
  BY <1>1, <1>2, <1>3, <1>4, <1>5, <1>6 DEF QueryShape

LEMMA ShapeStep ==
    ASSUME SetFacts, QueryShape, [QueryNext]_queryVars
    PROVE  QueryShape'
<1>1. CASE UNCHANGED queryVars
  <2>1. UNCHANGED <<triples, writes, query, phase, column, match, value, rows, ever, at>>
    BY <1>1 DEF queryVars
  <2>2. Columns' = Columns /\ \A i : Before(i)' = Before(i)
    BY <2>1, SameQuery
  <2>3. QueryTypeOK' /\ (Running' <=> Running) /\ \A i \in Columns : Entered(i)' <=> Entered(i)
    BY <2>1, <2>2 DEF QueryShape, QueryTypeOK, Running, Entered
  <2> QED
    BY <2>1, <2>2, <2>3 DEF QueryShape
<1> QED
  BY <1>1, ShapePrepare, ShapeInitMatch, ShapeBind, ShapeFinish, ShapeRow, ShapeWrite
  DEF QueryNext, Step

-----------------------------------------------------------------------------
(* Every row comes from statements that were stored *)

\* The fields of the pattern that the adapter hands to GetStatements.
LEMMA PatternFields ==
    ASSUME NEW t
    PROVE  /\ \A f \in Fields : PatternOf(t)[f] = Field(f, t[f])
           /\ PatternOf(t)["c"] = t.c
<1>1. /\ PatternOf(t)["s"] = Field("s", t.s) /\ PatternOf(t)["p"] = Field("p", t.p)
      /\ PatternOf(t)["o"] = Field("o", t.o) /\ PatternOf(t)["c"] = t.c
  BY DEF PatternOf
<1> QED
  BY <1>1 DEF Fields

\* Whether a pattern is answered exactly depends on which of its fields are set.
LEMMA SameOutline ==
    ASSUME NEW a, NEW b, \A f \in {"s", "p", "o", "c"} : a[f] = Unset <=> b[f] = Unset,
           PrefixPattern(a)
    PROVE  PrefixPattern(b)
<1>1. a.s = a["s"] /\ a.p = a["p"] /\ a.o = a["o"] /\ a.c = a["c"]
      /\ b.s = b["s"] /\ b.p = b["p"] /\ b.o = b["o"] /\ b.c = b["c"]
  OBVIOUS
<1>2. TypeOf(b) = TypeOf(a)
  BY <1>1 DEF TypeOf
<1>3. \A i \in 1 .. 4 : PatternOrder[TypeOf(a)][i] \in {"s", "p", "o", "c"}
  BY TypeOfType, Orders
<1>4. \A i \in 1 .. 4 : Bound(TypeOf(a), a, i) <=> Bound(TypeOf(a), b, i)
  BY <1>3, SMTT(30) DEF Bound
<1> QED
  BY <1>2, <1>3, <1>4 DEF PrefixPattern

LEMMA AnswerExact ==
    ASSUME SetFacts, Exact, QueryShape, phase = "match", ~match[column].open, Valued(Before(column)),
           NEW x \in Answer(query[column])
    PROVE  Candidate(x, column)
<1> DEFINE t == query[column]
           pat == PatternOf(t)
           out == Outline(query, column)
<1>1. query \in Queries /\ column \in 1 .. Len(query) /\ triples \subseteq Statement
      /\ value \in [Var -> Term \cup {Unset}] /\ {v \in Var : value[v] # Unset} \subseteq Before(column)
  BY DEF QueryShape, QueryTypeOK, Columns
<1>2. /\ \A f \in Fields : t[f] \notin Var => t[f] \in Term /\ Convert(f, t[f]) = t[f]
      /\ PrefixPattern(out)
  BY <1>1 DEF Exact, ExactQuery
<1>3. \A f \in Fields : pat[f] = Field(f, t[f])
  BY PatternFields
<1>4. pat["c"] = t.c /\ t.c \in Context \cup {Unset}
  BY <1>1, PatternFields, PatternsOfQuery
<1>5. Empty \in Term /\ Unset \notin Term
  BY UnsetAssumption DEF Exact, ExactTerms
<1>6. ASSUME NEW f \in Fields
      PROVE  /\ t[f] \notin Var => pat[f] = t[f] /\ pat[f] \in Term
             /\ t[f] \in Var /\ t[f] \in Before(column) =>
                    pat[f] = Convert(f, value[t[f]]) /\ pat[f] \in Term
             /\ t[f] \in Var /\ t[f] \notin Before(column) => pat[f] = Unset
  <2>1. t[f] \notin Var => pat[f] = t[f] /\ pat[f] \in Term
    BY <1>2, <1>3 DEF Field
  <2>2. ASSUME t[f] \in Var, t[f] \in Before(column)
        PROVE  pat[f] = Convert(f, value[t[f]]) /\ pat[f] \in Term
    <3>1. value[t[f]] # Unset
      BY <2>2 DEF Valued
    <3>2. value[t[f]] \in Term
      BY <1>1, <2>2, <3>1
    <3>3. Convert(f, value[t[f]]) \in Term
      BY <1>5, <3>2, ConvertType
    <3> QED
      BY <1>3, <2>2, <3>1, <3>3 DEF Field
  <2>3. t[f] \in Var /\ t[f] \notin Before(column) => pat[f] = Unset
    BY <1>1, <1>3 DEF Field
  <2> QED
    BY <2>1, <2>2, <2>3
<1>7. \A f \in Fields : out[f] = IF t[f] \in Var \ Before(column) THEN Unset ELSE t[f]
  BY DEF Outline, Before, Fields
<1>8. out["c"] = t.c
  BY DEF Outline, Fields
<1>9. \A f \in Fields : t[f] \in Term \cup Var
  BY <1>1, PatternsOfQuery
<1>10. Unset \notin Var
  BY SparqlAssumption
<1>11. Context \subseteq Term
  BY DEF Term
<1> HIDE DEF t, pat, out
<1>12. \A f \in {"s", "p", "o", "c"} : pat[f] \in Term \cup {Unset}
  BY <1>4, <1>6, <1>11 DEF Fields
<1>13. \A f \in {"s", "p", "o", "c"} : out[f] = Unset <=> pat[f] = Unset
  <2>1. \A f \in Fields : out[f] = Unset <=> pat[f] = Unset
    BY <1>5, <1>6, <1>7, <1>9, <1>10
  <2> QED
    BY <1>4, <1>8, <2>1 DEF Fields
<1>14. PrefixPattern(pat)
  BY <1>2, <1>13, SameOutline
<1>15. x \in triples /\ InRange(TypeOf(pat), pat, x) /\ x \in Statement
  <2>1. x \in GetStatements(pat)
    BY <1>1, AnswerStored DEF t, pat
  <2> QED
    BY <1>1, <2>1 DEF GetStatements, Scan
<1>16. matches(x, pat)
  BY <1>12, <1>14, <1>15, PrefixOfTerms
<1>17. \A f \in Fields : pat[f] # Unset => x[f] = pat[f]
  BY <1>16 DEF matches, Fields
<1>18. t.c # Unset => x.c = t.c
  BY <1>4, <1>16 DEF matches
<1>19. \A f \in Fields : IF t[f] \in Var
                         THEN t[f] \in Before(column) => x[f] = Convert(f, value[t[f]])
                         ELSE x[f] = t[f]
  BY <1>5, <1>6, <1>17
<1> QED
  BY <1>18, <1>19 DEF Candidate, t

\* A statement that agrees with a value as Rasqal has converted it makes the same
\* cell of a row.
LEMMA ConvertStored ==
    ASSUME ExactTerms, NEW x \in Statement, NEW f \in Fields, NEW t \in Term, x[f] = Convert(f, t)
    PROVE  /\ ConvertValue(x[f]) = ConvertValue(t)
           /\ f # "o" => x[f] = t
<1>1. x.s \in Subject /\ x.p \in Predicate /\ x.o \in Object
  BY DEF Statement
<1>2. CASE f = "s"
  BY <1>1, <1>2 DEF Convert, ConvertResource, ExactTerms
<1>3. CASE f = "p"
  BY <1>1, <1>3 DEF Convert, ConvertURI, ExactTerms
<1>4. CASE f = "o"
  <2>1. x[f] = ConvertValue(t)
    BY <1>4 DEF Convert
  <2>2. t \notin Literal => ConvertValue(t) = t
    BY DEF ConvertValue
  <2>3. t \in Literal => ConvertValue(ConvertValue(t)) = ConvertValue(t)
    BY DEF ExactTerms
  <2> QED
    BY <1>4, <2>1, <2>2, <2>3
<1> QED
  BY <1>2, <1>3, <1>4 DEF Fields

\* What a column may be at depends on the values found before it only.
LEMMA SameValues ==
    ASSUME query' = query, NEW i, \A v \in Before(i) : value'[v] = value[v]
    PROVE  /\ \A x : Candidate(x, i)' <=> Candidate(x, i)
           /\ Valued(Before(i))' <=> Valued(Before(i))
<1>1. Before(i)' = Before(i)
  BY SameQuery
<1>2. Valued(Before(i))' <=> Valued(Before(i))
  BY <1>1 DEF Valued
<1>3. ASSUME NEW x, NEW f \in Fields
      PROVE  (IF query'[i][f] \in Var
              THEN query'[i][f] \in Before(i)' => x[f] = Convert(f, value'[query'[i][f]])
              ELSE x[f] = query'[i][f])
             <=> (IF query[i][f] \in Var
              THEN query[i][f] \in Before(i) => x[f] = Convert(f, value[query[i][f]])
              ELSE x[f] = query[i][f])
  BY <1>1, SMTT(30)
<1>4. \A x : Candidate(x, i)' <=> Candidate(x, i)
  BY <1>3 DEF Candidate
<1> QED
  BY <1>2, <1>4

\* The columns that are not the one a step works on.
LEMMA SupportOthers ==
    ASSUME QueryShape, QuerySupport, query' = query, NEW i \in Columns,
           \A v \in Before(i + 1) : value'[v] = value[v], at'[i] = at[i]
    PROVE  /\ Running /\ match[i].open /\ Valued(Before(i))' =>
                \A x \in match[i].rest : Candidate(x, i)'
           /\ Entered(i) /\ Valued(Before(i + 1))' =>
                /\ Candidate(at[i], i)'
                /\ \A f \in Fields : query'[i][f] \in Parts(i)' => value'[query'[i][f]] = at'[i][f]
<1>1. i \in Nat /\ i >= 1 /\ i + 1 \in Nat
  BY PatternsOfQuery, SMTT(30) DEF QueryShape, Columns
<1>2. Before(i) \subseteq Before(i + 1)
  BY <1>1, VarsBeforeGrows, SMTT(30) DEF Before
<1>3. Parts(i) \subseteq Before(i + 1)
  BY <1>1, VarsBeforeStep, SMTT(30) DEF Before, Parts
<1>4. \A v \in Before(i) : value'[v] = value[v]
  BY <1>2
<1>5. /\ \A x : Candidate(x, i)' <=> Candidate(x, i)
      /\ Valued(Before(i))' <=> Valued(Before(i))
      /\ Valued(Before(i + 1))' <=> Valued(Before(i + 1))
  BY <1>4, SameValues
<1>6. Parts(i)' = Parts(i)
  BY SameQuery
<1>7. \A f \in Fields : query[i][f] \in Parts(i) => value'[query[i][f]] = value[query[i][f]]
  BY <1>3
<1>8. Running /\ match[i].open /\ Valued(Before(i)) => \A x \in match[i].rest : Candidate(x, i)
  BY DEF QuerySupport
<1>9. Entered(i) /\ Valued(Before(i + 1)) =>
          /\ Candidate(at[i], i)
          /\ \A f \in Fields : query[i][f] \in Parts(i) => value[query[i][f]] = at[i][f]
  BY DEF QuerySupport
<1>10. Running /\ match[i].open /\ Valued(Before(i))' => \A x \in match[i].rest : Candidate(x, i)'
  BY <1>5, <1>8
<1>11. Entered(i) /\ Valued(Before(i + 1))' => Candidate(at[i], i)'
  <2>1. Entered(i) /\ Valued(Before(i + 1)) => Candidate(at'[i], i)
    BY <1>9
  <2> QED
    BY <1>5, <2>1
<1>12. ASSUME Entered(i), Valued(Before(i + 1))', NEW f \in Fields, query'[i][f] \in Parts(i)'
       PROVE  value'[query'[i][f]] = at'[i][f]
  <2>1. query[i][f] \in Parts(i)
    BY <1>6, <1>12
  <2>2. value[query[i][f]] = at[i][f]
    BY <1>5, <1>9, <1>12, <2>1
  <2> QED
    BY <1>7, <2>1, <2>2
<1> QED
  BY <1>10, <1>11, <1>12

\* What was stored stays in ever, so that the rows keep their statements.
LEMMA RowsStay ==
    ASSUME RowsWereStored, query' = query, rows' = rows, ever \subseteq ever'
    PROVE  RowsWereStored'
<1>1. Columns' = Columns
  BY SameQuery
<1> QED
  BY <1>1 DEF RowsWereStored

LEMMA SupportInit ==
    ASSUME QueryInit
    PROVE  QuerySupport /\ RowsWereStored
<1>1. phase = "prepare" /\ rows = <<>>
  BY DEF QueryInit
<1>2. rows \in Seq([AllVars -> Term \cup {Empty}]) /\ DOMAIN rows = {}
  BY <1>1, SMTT(30)
<1>3. ~Running /\ \A i : ~Entered(i)
  BY <1>1 DEF Running, Entered
<1> QED
  BY <1>2, <1>3 DEF QuerySupport, RowsWereStored

LEMMA SupportPrepare ==
    ASSUME QueryShape, QueryShape', QuerySupport, RowsWereStored, Prepare
    PROVE  QuerySupport' /\ RowsWereStored'
<1>1. UNCHANGED <<query, column, match, rows>> /\ phase = "prepare" /\ phase' \in {"match", "failed"}
  BY DEF Prepare
<1>2. Columns' = Columns /\ AllVars' = AllVars
  BY <1>1, SameQuery
<1>3. column = 1 /\ (\A i \in Columns : ~match[i].open) /\ DOMAIN rows = {}
  BY <1>1, SMTT(30) DEF QueryShape
<1>4. \A i \in Columns : ~Entered(i)'
  BY <1>1, <1>3, SMTT(30) DEF Entered, Columns
<1> QED
  BY <1>1, <1>2, <1>3, <1>4 DEF QuerySupport, RowsWereStored

\* The columns a step leaves alone, when it changes no value.
LEMMA SupportSame ==
    ASSUME QueryShape, QuerySupport, query' = query, value' = value, at' = at, NEW i \in Columns
    PROVE  /\ Running /\ match[i].open /\ Valued(Before(i))' =>
                \A x \in match[i].rest : Candidate(x, i)'
           /\ Entered(i) /\ Valued(Before(i + 1))' =>
                /\ Candidate(at[i], i)'
                /\ \A f \in Fields : query'[i][f] \in Parts(i)' => value'[query'[i][f]] = at'[i][f]
<1>1. \A v \in Before(i + 1) : value'[v] = value[v]
  OBVIOUS
<1>2. at'[i] = at[i]
  OBVIOUS
<1> QED
  BY <1>1, <1>2, SupportOthers

LEMMA SupportInitMatch ==
    ASSUME SetFacts, Exact, QueryShape, QueryShape', QuerySupport, RowsWereStored, init_triples_match
    PROVE  QuerySupport' /\ RowsWereStored'
<1>1. UNCHANGED <<triples, writes, query, phase, column, value, rows, ever, at>>
      /\ phase = "match" /\ ~match[column].open
  BY DEF init_triples_match
<1>2. Columns' = Columns /\ AllVars' = AllVars
  BY <1>1, SameQuery
<1>3. /\ column \in Columns
      /\ match'[column].rest = Answer(query[column])
      /\ \A i \in Columns : i # column => match'[i] = match[i]
  BY SMTT(30) DEF init_triples_match, QueryShape, QueryTypeOK
<1>4. RowsWereStored'
  BY <1>1, RowsStay
<1>5. (Running' <=> Running) /\ \A i : Entered(i)' <=> Entered(i)
  BY <1>1 DEF Running, Entered
<1>6. ASSUME Valued(Before(column))', NEW x \in match'[column].rest
      PROVE  Candidate(x, column)'
  <2>1. /\ Candidate(x, column)' <=> Candidate(x, column)
        /\ Valued(Before(column))' <=> Valued(Before(column))
    BY <1>1, SameValues
  <2> QED
    BY <1>1, <1>3, <1>6, <2>1, AnswerExact
<1>7. ASSUME NEW i \in Columns, Running', match'[i].open, Valued(Before(i))', NEW x \in match'[i].rest
      PROVE  Candidate(x, i)'
  <2>1. CASE i = column
    BY <1>6, <1>7, <2>1, <1>1
  <2>2. CASE i # column
    BY <1>1, <1>3, <1>5, <1>7, <2>2, SupportSame
  <2> QED
    BY <2>1, <2>2
<1>8. ASSUME NEW i \in Columns, Entered(i)', Valued(Before(i + 1))'
      PROVE  /\ Candidate(at[i], i)'
             /\ \A f \in Fields : query'[i][f] \in Parts(i)' => value'[query'[i][f]] = at'[i][f]
  BY <1>1, <1>5, <1>8, SupportSame
<1> QED
  BY <1>1, <1>2, <1>4, <1>7, <1>8 DEF QuerySupport

LEMMA SupportWrite ==
    ASSUME QueryShape, QueryShape', QuerySupport, RowsWereStored, Write
    PROVE  QuerySupport' /\ RowsWereStored'
<1>1. UNCHANGED <<query, phase, column, match, value, rows, at>> /\ ever \subseteq ever'
  BY DEF Write
<1>2. Columns' = Columns /\ AllVars' = AllVars
  BY <1>1, SameQuery
<1>3. RowsWereStored'
  BY <1>1, RowsStay
<1>4. (Running' <=> Running) /\ \A i : Entered(i)' <=> Entered(i)
  BY <1>1 DEF Running, Entered
<1>5. ASSUME NEW i \in Columns
      PROVE  /\ Running' /\ match'[i].open /\ Valued(Before(i))' =>
                  \A x \in match'[i].rest : Candidate(x, i)'
             /\ Entered(i)' /\ Valued(Before(i + 1))' =>
                  /\ Candidate(at[i], i)'
                  /\ \A f \in Fields : query'[i][f] \in Parts(i)' => value'[query'[i][f]] = at'[i][f]
  BY <1>1, <1>4, SupportSame
<1> QED
  BY <1>1, <1>2, <1>3, <1>5 DEF QuerySupport

LEMMA SupportFinish ==
    ASSUME QueryShape, QueryShape', QuerySupport, RowsWereStored, finish
    PROVE  QuerySupport' /\ RowsWereStored'
<1>1. /\ UNCHANGED <<triples, writes, query, rows, ever, at>>
      /\ phase = "match" /\ match[column].open
      /\ IF column = 1 THEN column' = column /\ phase' = "done"
                       ELSE column' = column - 1 /\ phase' = phase
      /\ match' = [match EXCEPT ![column] = NoMatch]
      /\ value' = [v \in Var |-> IF v \in Parts(column) THEN Unset ELSE value[v]]
  BY DEF finish
<1>2. Columns' = Columns /\ AllVars' = AllVars
  BY <1>1, SameQuery
<1>3. column \in Columns /\ Len(query) \in Nat /\ column \in Nat /\ column >= 1
      /\ match \in [Columns -> MatchType] /\ value \in [Var -> Term \cup {Unset}]
  BY PatternsOfQuery, SMTT(30) DEF QueryShape, QueryTypeOK, Columns
<1>4. RowsWereStored'
  BY <1>1, RowsStay
<1>5. ASSUME NEW i \in Columns, i < column
      PROVE  \A v \in Before(i + 1) : value'[v] = value[v]
  <2>1. i \in Nat /\ i + 1 \in Nat /\ i + 1 <= column
    BY <1>3, <1>5, SMTT(30) DEF Columns
  <2>2. Before(i + 1) \subseteq Before(column)
    BY <1>3, <2>1, VarsBeforeGrows DEF Before
  <2>3. Before(i + 1) \subseteq Var
    BY DEF Before, VarsBefore, VarsOf
  <2> QED
    BY <1>1, <2>2, <2>3 DEF Parts
<1>6. ASSUME NEW i \in Columns, Running', match'[i].open
      PROVE  i < column /\ match'[i] = match[i] /\ Running
  <2>1. NoMatch.open = FALSE
    BY DEF NoMatch
  <2> QED
    BY <1>1, <1>3, <1>6, <2>1, SMTT(30) DEF QueryShape, QueryTypeOK, Columns, Running
<1>7. \A i \in Columns : Entered(i)' => i < column /\ Entered(i)
  BY <1>1, <1>3, SMTT(30) DEF Entered, Columns, Running
<1>8. ASSUME NEW i \in Columns
      PROVE  /\ Running' /\ match'[i].open /\ Valued(Before(i))' =>
                  \A x \in match'[i].rest : Candidate(x, i)'
             /\ Entered(i)' /\ Valued(Before(i + 1))' =>
                  /\ Candidate(at[i], i)'
                  /\ \A f \in Fields : query'[i][f] \in Parts(i)' => value'[query'[i][f]] = at'[i][f]
  <2>1. CASE i < column
    <3>1. \A v \in Before(i + 1) : value'[v] = value[v]
      BY <1>5, <2>1
    <3>2. at'[i] = at[i]
      BY <1>1
    <3> QED
      BY <1>1, <1>6, <1>7, <3>1, <3>2, SupportOthers
  <2>2. CASE ~(i < column)
    BY <1>6, <1>7, <2>2
  <2> QED
    BY <2>1, <2>2
<1> QED
  BY <1>1, <1>2, <1>4, <1>8 DEF QuerySupport

\* A column that has bound its variables is at the first statement of its match,
\* unless the iterator still held the statement it was made with.
LEMMA BindValues ==
    ASSUME SetFacts, Exact, QueryShape, bind_match, NEW f \in Fields, query[column][f] \in Parts(column)
    PROVE  value'[query[column][f]] \in
              {Unset, First(match[column].type, match[column].rest)[f]}
<1> DEFINE m == match[column]
           v == query[column][f]
<1>1. query \in Queries /\ column \in 1 .. Len(query) /\ m.parsed \in BOOLEAN
      /\ (m.parsed => m.current = EmptyStatement)
  <2>1. m \in MatchType
    BY DEF QueryShape, QueryTypeOK
  <2> QED
    BY <2>1 DEF QueryShape, QueryTypeOK, Columns, MatchType
<1>2. v \in Var /\ v \in VarsOf(query[column])
  BY DEF Parts, VarsOf
<1>3. value'[v] = BoundTo(Current(m), v)
  BY <1>2, BindFacts
<1>4. PICK g \in Fields : query[column][g] = v /\ BoundTo(Current(m), v) = Current(m)[g]
  BY <1>2, BoundField
<1>5. g = f
  BY <1>1, <1>2, <1>4 DEF Exact, ExactQuery
<1>6. EmptyStatement[f] = Unset
  BY SMTT(30) DEF EmptyStatement, Fields
<1>7. Current(m) = IF m.parsed THEN m.current ELSE First(m.type, m.rest)
  BY DEF Current
<1> QED
  BY <1>1, <1>3, <1>4, <1>5, <1>6, <1>7

LEMMA SupportBind ==
    ASSUME SetFacts, Exact, QueryShape, QueryShape', QuerySupport, RowsWereStored, bind_match
    PROVE  QuerySupport' /\ RowsWereStored'
<1> DEFINE x0 == First(match[column].type, match[column].rest)
<1>1. /\ UNCHANGED <<triples, writes, query, rows, ever>>
      /\ phase = "match" /\ match[column].open
      /\ IF column < Len(query) THEN column' = column + 1 /\ phase' = phase
                                ELSE column' = column /\ phase' = "row"
  BY DEF bind_match
<1>2. Columns' = Columns /\ AllVars' = AllVars /\ \A i : Parts(i)' = Parts(i)
  BY <1>1, SameQuery
<1>3. column \in Columns /\ Len(query) \in Nat /\ column \in Nat /\ column >= 1
      /\ column <= Len(query) /\ at \in [Columns -> Statement \cup {EmptyStatement}]
  BY PatternsOfQuery, SMTT(30) DEF QueryShape, QueryTypeOK, Columns
<1>4. x0 \in match[column].rest /\ at' = [at EXCEPT ![column] = x0]
  BY BindFacts
<1>5. /\ \A i \in Columns : i # column => match'[i] = match[i]
      /\ match'[column].rest = match[column].rest \ {x0}
      /\ \A v \in Var : v \notin Parts(column) => value'[v] = value[v]
  BY BindFacts
<1>6. \A f \in Fields : query[column][f] \in Parts(column) => value'[query[column][f]] \in {Unset, x0[f]}
  BY BindValues
<1> HIDE DEF x0
<1>7. at'[column] = x0 /\ \A i \in Columns : i # column => at'[i] = at[i]
  BY <1>3, <1>4
<1>8. RowsWereStored'
  BY <1>1, RowsStay
<1>9. \A i : Before(i) \subseteq Var
  BY DEF Before, VarsBefore, VarsOf
<1>10. ASSUME NEW i \in Columns, i < column
       PROVE  \A v \in Before(i + 1) : value'[v] = value[v]
  <2>1. i \in Nat /\ i + 1 \in Nat /\ i + 1 <= column
    BY <1>3, <1>10, SMTT(30) DEF Columns
  <2>2. Before(i + 1) \subseteq Before(column)
    BY <1>3, <2>1, VarsBeforeGrows DEF Before
  <2> QED
    BY <1>5, <1>9, <2>2 DEF Parts
<1>11. PICK c \in Columns : c = column
  BY <1>3
<1>12. \A v \in Before(c) : value'[v] = value[v]
  BY <1>5, <1>9, <1>11 DEF Parts
<1>13. /\ \A x : Candidate(x, c)' <=> Candidate(x, c)
       /\ Valued(Before(c))' <=> Valued(Before(c))
  BY <1>1, <1>12, SameValues
<1>14. Valued(Before(c)) => \A x \in match[c].rest : Candidate(x, c)
  BY <1>1, <1>11 DEF QuerySupport, Running
<1>15. \A i \in Columns : Running' /\ match'[i].open => i = c \/ i < column
  BY <1>1, <1>3, <1>5, <1>11, SMTT(30) DEF QueryShape, QueryTypeOK, Columns
<1>16. Running /\ \A i \in Columns : Entered(i)' => i = c \/ (i < column /\ Entered(i))
  BY <1>1, <1>3, <1>11, SMTT(30) DEF Entered, Columns, Running
<1>17. ASSUME NEW i \in Columns, i < column
       PROVE  /\ Running' /\ match'[i].open /\ Valued(Before(i))' =>
                  \A x \in match'[i].rest : Candidate(x, i)'
              /\ Entered(i)' /\ Valued(Before(i + 1))' =>
                  /\ Candidate(at[i], i)'
                  /\ \A f \in Fields : query'[i][f] \in Parts(i)' => value'[query'[i][f]] = at'[i][f]
  <2>1. \A v \in Before(i + 1) : value'[v] = value[v]
    BY <1>10, <1>17
  <2>2. at'[i] = at[i] /\ match'[i] = match[i] /\ i # column
    BY <1>3, <1>5, <1>7, <1>17, SMTT(30) DEF Columns
  <2>3. Entered(i)' => Entered(i)
    BY <1>11, <1>16, <2>2
  <2> QED
    BY <1>1, <1>16, <2>1, <2>2, <2>3, SupportOthers
<1>18. Valued(Before(c))' => \A x \in match'[c].rest : Candidate(x, c)'
  <2>1. match'[c].rest \subseteq match[c].rest
    BY <1>5, <1>11
  <2> QED
    BY <1>13, <1>14, <2>1
<1>19. ASSUME Valued(Before(c + 1))'
       PROVE  /\ Candidate(at[c], c)'
              /\ \A f \in Fields : query'[c][f] \in Parts(c)' => value'[query'[c][f]] = at'[c][f]
  <2>1. Before(c + 1) = Before(c) \cup VarsOf(query[c])
    BY <1>3, <1>11, VarsBeforeStep, SMTT(30) DEF Before
  <2>2. \A v \in Before(c + 1) : value'[v] # Unset
    <3>1. Before(c + 1)' = Before(c + 1)
      BY <1>1, SameQuery
    <3> QED
      BY <1>19, <3>1 DEF Valued
  <2>3. Valued(Before(c))
    BY <1>12, <2>1, <2>2 DEF Valued
  <2>4. Candidate(at'[c], c)
    BY <1>4, <1>7, <1>11, <1>14, <2>3
  <2>5. Candidate(at[c], c)'
    BY <1>13, <2>4
  <2>6. ASSUME NEW f \in Fields, query'[c][f] \in Parts(c)'
        PROVE  value'[query'[c][f]] = at'[c][f]
    <3>1. query[c][f] \in Parts(c)
      BY <1>1, <1>2, <2>6
    <3>2. query[c][f] \in Before(c + 1)
      BY <2>1, <3>1 DEF Parts
    <3>3. value'[query[c][f]] = x0[f]
      BY <1>6, <1>11, <2>2, <3>1, <3>2
    <3> QED
      BY <1>1, <1>7, <1>11, <3>3
  <2> QED
    BY <2>5, <2>6
<1>20. ASSUME NEW i \in Columns
       PROVE  /\ Running' /\ match'[i].open /\ Valued(Before(i))' =>
                  \A x \in match'[i].rest : Candidate(x, i)'
              /\ Entered(i)' /\ Valued(Before(i + 1))' =>
                  /\ Candidate(at[i], i)'
                  /\ \A f \in Fields : query'[i][f] \in Parts(i)' => value'[query'[i][f]] = at'[i][f]
  <2>1. CASE i < column
    BY <1>17, <2>1
  <2>2. CASE i = c
    BY <1>18, <1>19, <2>2
  <2> QED
    BY <1>15, <1>16, <2>1, <2>2
<1> QED
  BY <1>1, <1>2, <1>8, <1>20 DEF QuerySupport

LEMMA SupportRow ==
    ASSUME Exact, QueryShape, QueryShape', QuerySupport, RowsWereStored, Row
    PROVE  QuerySupport' /\ RowsWereStored'
<1>1. UNCHANGED <<triples, writes, query, column, match, value, ever, at>>
      /\ phase = "row" /\ phase' \in {"match", "crashed"}
  BY DEF Row
<1>2. Columns' = Columns /\ AllVars' = AllVars
  BY <1>1, SameQuery
<1>3. \A i \in Columns : /\ Running' => Running
                         /\ Entered(i)' => Entered(i)
  BY <1>1 DEF Entered, Running
<1>4. ASSUME NEW i \in Columns
      PROVE  /\ Running' /\ match'[i].open /\ Valued(Before(i))' =>
                  \A x \in match'[i].rest : Candidate(x, i)'
             /\ Entered(i)' /\ Valued(Before(i + 1))' =>
                  /\ Candidate(at[i], i)'
                  /\ \A f \in Fields : query'[i][f] \in Parts(i)' => value'[query'[i][f]] = at'[i][f]
  BY <1>1, <1>3, SupportSame
<1>5. CASE rows' = rows
  BY <1>1, <1>2, <1>4, <1>5, RowsStay DEF QuerySupport
<1>6. CASE rows' # rows
  <2> DEFINE row == [v \in AllVars |-> ConvertValue(value[v])]
  <2>1. Valued(AllVars) /\ rows' = Append(rows, row)
    BY <1>6 DEF Row, Valued
  <2>2. AllVars \subseteq Var /\ value \in [Var -> Term \cup {Unset}]
    BY SMTT(30) DEF AllVars, VarsOf, QueryShape, QueryTypeOK
  <2>3. \A v \in AllVars : value[v] \in Term
    BY <2>1, <2>2 DEF Valued
  <2>4. row \in [AllVars -> Term \cup {Empty}]
    <3>1. \A t \in Term : ConvertValue(t) \in Term \cup {Empty}
      BY SparqlAssumption DEF ConvertValue, Literal, Term
    <3> QED
      BY <2>3, <3>1
  <2>5. rows \in Seq([AllVars -> Term \cup {Empty}])
    BY DEF QuerySupport
  <2>6. ASSUME NEW i \in Columns
        PROVE  \E x \in ever : InstanceOf(x, query[i], row)
    <3>1. column = Len(query) /\ Len(query) \in Nat /\ query \in Queries
      BY <1>1, PatternsOfQuery DEF QueryShape
    <3>2. i \in Nat /\ i >= 1 /\ i <= Len(query) /\ Entered(i)
      BY <1>1, <3>1, SMTT(30) DEF Columns, Entered, Running
    <3>3. VarsOf(query[i]) \subseteq AllVars
      BY DEF AllVars
    <3>4. Before(i + 1) \subseteq AllVars
      <4>1. 1 .. ((i + 1) - 1) \subseteq Columns
        BY <3>1, <3>2, SMTT(30) DEF Columns
      <4> QED
        BY <4>1 DEF Before, VarsBefore, AllVars
    <3>5. Valued(Before(i + 1))
      BY <2>1, <3>4 DEF Valued
    <3>6. Candidate(at[i], i) /\ at[i] \in ever /\ at[i] \in Statement
          /\ \A f \in Fields : query[i][f] \in Parts(i) => value[query[i][f]] = at[i][f]
      BY <3>2, <3>5 DEF QuerySupport, QueryShape
    <3>7. ASSUME NEW f \in Fields, query[i][f] \in Var
          PROVE  ConvertValue(at[i][f]) = row[query[i][f]]
      <4>1. query[i][f] \in AllVars
        BY <3>3, <3>7, FieldIsVar
      <4>2. row[query[i][f]] = ConvertValue(value[query[i][f]])
        BY <4>1
      <4>3. CASE query[i][f] \in Before(i)
        <5>1. at[i][f] = Convert(f, value[query[i][f]])
          BY <3>6, <3>7, <4>3 DEF Candidate
        <5> QED
          BY <2>3, <3>6, <4>1, <4>2, <5>1, ConvertStored, SMTT(30) DEF Exact
      <4>4. CASE query[i][f] \notin Before(i)
        <5>1. query[i][f] \in Parts(i)
          BY <3>7, <4>4, FieldIsVar DEF Parts
        <5> QED
          BY <3>6, <4>2, <5>1
      <4> QED
        BY <4>3, <4>4
    <3>8. \A f \in Fields : query[i][f] \notin Var => at[i][f] = query[i][f]
      BY <3>6 DEF Candidate
    <3>9. query[i].c # Unset => at[i].c = query[i].c
      BY <3>6 DEF Candidate
    <3> HIDE DEF row
    <3>10. InstanceOf(at[i], query[i], row)
      BY <3>7, <3>8, <3>9 DEF InstanceOf
    <3> QED
      BY <3>6, <3>10
  <2> HIDE DEF row
  <2>7. rows' \in Seq([AllVars -> Term \cup {Empty}])
        /\ \A n \in DOMAIN rows' : rows'[n] = row \/ (n \in DOMAIN rows /\ rows'[n] = rows[n])
    BY <2>1, <2>4, <2>5, SMTT(30)
  <2>8. RowsWereStored'
    BY <1>1, <1>2, <2>6, <2>7 DEF RowsWereStored
  <2> QED
    BY <1>1, <1>2, <1>4, <2>7, <2>8 DEF QuerySupport
<1> QED
  BY <1>5, <1>6

LEMMA SupportStep ==
    ASSUME SetFacts, Exact, QueryShape, QueryShape', QuerySupport, RowsWereStored, [QueryNext]_queryVars
    PROVE  QuerySupport' /\ RowsWereStored'
<1>1. CASE UNCHANGED queryVars
  <2>1. UNCHANGED <<triples, writes, query, phase, column, match, value, rows, ever, at>>
    BY <1>1 DEF queryVars
  <2>2. Columns' = Columns /\ AllVars' = AllVars
    BY <2>1, SameQuery
  <2>3. (Running' <=> Running) /\ \A i : Entered(i)' <=> Entered(i)
    BY <2>1 DEF Running, Entered
  <2>4. ASSUME NEW i \in Columns
        PROVE  /\ Running' /\ match'[i].open /\ Valued(Before(i))' =>
                    \A x \in match'[i].rest : Candidate(x, i)'
               /\ Entered(i)' /\ Valued(Before(i + 1))' =>
                    /\ Candidate(at[i], i)'
                    /\ \A f \in Fields : query'[i][f] \in Parts(i)' => value'[query'[i][f]] = at'[i][f]
    BY <2>1, <2>3, SupportSame
  <2>5. RowsWereStored'
    BY <2>1, RowsStay
  <2> QED
    BY <2>1, <2>2, <2>4, <2>5 DEF QuerySupport
<1> QED
  BY <1>1, SupportPrepare, SupportInitMatch, SupportBind, SupportFinish, SupportRow, SupportWrite
  DEF QueryNext, Step

-----------------------------------------------------------------------------
(* No statement comes twice *)
LEMMA ProgressInit ==
    ASSUME QueryInit
    PROVE  QueryProgress
<1>1. ~Running /\ \A i : ~Entered(i)
  BY DEF QueryInit, Running, Entered
<1> QED
  BY <1>1 DEF QueryProgress

LEMMA ProgressPrepare ==
    ASSUME QueryShape, Prepare
    PROVE  QueryProgress'
<1>1. UNCHANGED <<query, column, match, value>> /\ phase = "prepare"
      /\ phase' \in {"match", "failed"}
  BY DEF Prepare
<1>2. column = 1 /\ (\A i \in Columns : ~match[i].open) /\ (\A v \in Var : value[v] = Unset)
  BY <1>1 DEF QueryShape
<1>3. Columns' = Columns
  BY <1>1, SameQuery
<1>4. \A i \in Columns : ~Entered(i)'
  BY <1>1, <1>2, SMTT(30) DEF Entered, Columns
<1> QED
  BY <1>1, <1>2, <1>3, <1>4 DEF QueryProgress

\* A step that changes neither a value nor a match.
LEMMA ProgressSame ==
    ASSUME QueryShape, QueryProgress, UNCHANGED <<query, column, match, value, at>>,
           phase' = phase \/ (phase = "row" /\ phase' \in {"match", "crashed"})
    PROVE  QueryProgress'
<1>1. Columns' = Columns /\ \A i : Parts(i)' = Parts(i)
  BY SameQuery
<1>2. (Running' => Running) /\ \A i : Entered(i)' => Entered(i)
  BY DEF Running, Entered
<1>3. ASSUME NEW i \in Columns
      PROVE  /\ Entered(i)' => at'[i] \notin match'[i].rest
             /\ Running' /\ match'[i].open /\ VarsOf(query'[i]) = {} =>
                  /\ \A x, y \in match'[i].rest : x = y
                  /\ Entered(i)' => match'[i].rest = {}
  BY <1>2 DEF QueryProgress
<1>4. ASSUME NEW v \in Var, Running', value'[v] # Unset
      PROVE  \E i \in 1 .. column' : \E f \in Fields :
                query'[i][f] = v /\ v \in Parts(i)' /\ value'[v] = at'[i][f]
  BY <1>1, <1>2, <1>4, SMTT(30) DEF QueryProgress
<1> QED
  BY <1>1, <1>3, <1>4 DEF QueryProgress

LEMMA ProgressInitMatch ==
    ASSUME SetFacts, QueryShape, QueryProgress, init_triples_match
    PROVE  QueryProgress'
<1>1. UNCHANGED <<query, phase, column, value, at>>
      /\ phase = "match" /\ ~match[column].open
  BY DEF init_triples_match
<1>2. Columns' = Columns /\ \A i : Parts(i)' = Parts(i)
  BY <1>1, SameQuery
<1>3. /\ column \in Columns /\ triples \subseteq Statement
      /\ match'[column].rest = Answer(query[column])
      /\ \A i \in Columns : i # column => match'[i] = match[i]
  BY SMTT(30) DEF init_triples_match, QueryShape, QueryTypeOK
<1>4. Running' /\ Running /\ ~Entered(column) /\ ~Entered(column)' /\ \A i : Entered(i)' <=> Entered(i)
  BY <1>1, <1>3, SMTT(30) DEF Running, Entered, Columns
<1>5. ASSUME NEW i \in Columns
      PROVE  /\ Entered(i)' => at'[i] \notin match'[i].rest
             /\ Running' /\ match'[i].open /\ VarsOf(query'[i]) = {} =>
                  /\ \A x, y \in match'[i].rest : x = y
                  /\ Entered(i)' => match'[i].rest = {}
  <2>1. CASE i = column
    BY <1>1, <1>3, <1>4, <2>1, AnswerStored, SMTT(30)
  <2>2. CASE i # column
    BY <1>1, <1>3, <1>4, <2>2, SMTT(30) DEF QueryProgress
  <2> QED
    BY <2>1, <2>2
<1>6. ASSUME NEW v \in Var, Running', value'[v] # Unset
      PROVE  \E i \in 1 .. column' : \E f \in Fields :
                query'[i][f] = v /\ v \in Parts(i)' /\ value'[v] = at'[i][f]
  BY <1>1, <1>2, <1>4, <1>6, SMTT(30) DEF QueryProgress
<1> QED
  BY <1>2, <1>5, <1>6 DEF QueryProgress

LEMMA ProgressBind ==
    ASSUME SetFacts, Exact, QueryShape, QueryProgress, bind_match
    PROVE  QueryProgress'
<1> DEFINE x0 == First(match[column].type, match[column].rest)
<1>1. /\ UNCHANGED <<query>>
      /\ phase = "match" /\ match[column].open
      /\ IF column < Len(query) THEN column' = column + 1 /\ phase' = phase
                                ELSE column' = column /\ phase' = "row"
  BY DEF bind_match
<1>2. Columns' = Columns /\ \A i : Parts(i)' = Parts(i)
  BY <1>1, SameQuery
<1>3. column \in Columns /\ Len(query) \in Nat /\ column \in Nat /\ column >= 1
      /\ column <= Len(query) /\ at \in [Columns -> Statement \cup {EmptyStatement}]
  BY PatternsOfQuery, SMTT(30) DEF QueryShape, QueryTypeOK, Columns
<1>4. x0 \in match[column].rest /\ at' = [at EXCEPT ![column] = x0]
  BY BindFacts
<1>5. /\ \A i \in Columns : i # column => match'[i] = match[i]
      /\ match'[column].rest = match[column].rest \ {x0}
      /\ \A v \in Var : v \notin Parts(column) => value'[v] = value[v]
  BY BindFacts
<1>6. \A f \in Fields : query[column][f] \in Parts(column) => value'[query[column][f]] \in {Unset, x0[f]}
  BY BindValues
<1> HIDE DEF x0
<1>7. at'[column] = x0 /\ \A i \in Columns : i # column => at'[i] = at[i]
  BY <1>3, <1>4
<1>8. Running /\ \A i \in Columns : Entered(i)' => i = column \/ (i < column /\ Entered(i))
  BY <1>1, <1>3, SMTT(30) DEF Entered, Columns, Running
<1>9. \A i \in Columns : Running' /\ match'[i].open => i = column \/ match[i].open
  BY <1>5
<1>10. ASSUME NEW i \in Columns
      PROVE  /\ Entered(i)' => at'[i] \notin match'[i].rest
             /\ Running' /\ match'[i].open /\ VarsOf(query'[i]) = {} =>
                  /\ \A x, y \in match'[i].rest : x = y
                  /\ Entered(i)' => match'[i].rest = {}
  <2>1. CASE i = column
    <3>1. VarsOf(query[i]) = {} => \A x, y \in match[i].rest : x = y
      BY <1>1, <1>8, <2>1 DEF QueryProgress
    <3> QED
      BY <1>1, <1>4, <1>5, <1>7, <2>1, <3>1
  <2>2. CASE i # column
    BY <1>1, <1>5, <1>7, <1>8, <2>2, SMTT(30) DEF QueryProgress
  <2> QED
    BY <2>1, <2>2
<1>11. ASSUME NEW v \in Var, Running', value'[v] # Unset
      PROVE  \E i \in 1 .. column' : \E f \in Fields :
                query'[i][f] = v /\ v \in Parts(i)' /\ value'[v] = at'[i][f]
  <2>1. CASE v \in Parts(column)
    <3>1. PICK f \in Fields : query[column][f] = v
      BY <2>1, FieldIsVar DEF Parts
    <3>2. value'[v] = at'[column][f]
      BY <1>6, <1>7, <1>11, <2>1, <3>1
    <3>3. column \in 1 .. column'
      BY <1>1, <1>3, SMTT(30)
    <3> QED
      BY <1>1, <1>2, <2>1, <3>1, <3>2, <3>3
  <2>2. CASE v \notin Parts(column)
    <3>1. value'[v] = value[v]
      BY <1>5, <2>2
    <3>2. PICK i \in 1 .. column, f \in Fields : query[i][f] = v /\ v \in Parts(i) /\ value[v] = at[i][f]
      BY <1>8, <1>11, <3>1 DEF QueryProgress
    <3>3. i # column /\ i \in Columns /\ i \in 1 .. column'
      BY <1>1, <1>3, <2>2, <3>2, SMTT(30) DEF Columns
    <3>4. at'[i] = at[i]
      BY <1>7, <3>3
    <3> QED
      BY <1>1, <1>2, <3>1, <3>2, <3>3, <3>4
  <2> QED
    BY <2>1, <2>2
<1> QED
  BY <1>2, <1>10, <1>11 DEF QueryProgress

LEMMA ProgressFinish ==
    ASSUME QueryShape, QueryProgress, finish
    PROVE  QueryProgress'
<1>1. /\ UNCHANGED <<query, at>>
      /\ phase = "match" /\ match[column].open
      /\ IF column = 1 THEN column' = column /\ phase' = "done"
                       ELSE column' = column - 1 /\ phase' = phase
      /\ match' = [match EXCEPT ![column] = NoMatch]
      /\ value' = [v \in Var |-> IF v \in Parts(column) THEN Unset ELSE value[v]]
  BY DEF finish
<1>2. Columns' = Columns /\ \A i : Parts(i)' = Parts(i)
  BY <1>1, SameQuery
<1>3. column \in Columns /\ Len(query) \in Nat /\ column \in Nat /\ column >= 1
      /\ match \in [Columns -> MatchType]
  BY PatternsOfQuery, SMTT(30) DEF QueryShape, QueryTypeOK, Columns
<1>4. NoMatch.open = FALSE
  BY DEF NoMatch
<1>5. Running /\ \A i \in Columns : /\ Entered(i)' => i # column /\ Entered(i)
                                    /\ i # column => match'[i] = match[i]
                                    /\ match'[i].open => i # column
  BY <1>1, <1>3, <1>4, SMTT(30) DEF Entered, Columns, Running
<1>6. ASSUME NEW i \in Columns
      PROVE  /\ Entered(i)' => at'[i] \notin match'[i].rest
             /\ Running' /\ match'[i].open /\ VarsOf(query'[i]) = {} =>
                  /\ \A x, y \in match'[i].rest : x = y
                  /\ Entered(i)' => match'[i].rest = {}
  BY <1>1, <1>5, SMTT(30) DEF QueryProgress
<1>7. ASSUME NEW v \in Var, Running', value'[v] # Unset
      PROVE  \E i \in 1 .. column' : \E f \in Fields :
                query'[i][f] = v /\ v \in Parts(i)' /\ value'[v] = at'[i][f]
  <2>1. v \notin Parts(column) /\ value'[v] = value[v]
    BY <1>1, <1>7
  <2>2. PICK i \in 1 .. column, f \in Fields : query[i][f] = v /\ v \in Parts(i) /\ value[v] = at[i][f]
    BY <1>5, <1>7, <2>1 DEF QueryProgress
  <2>3. i \in 1 .. column'
    BY <1>1, <1>3, <1>7, <2>1, <2>2, SMTT(30) DEF Running
  <2> QED
    BY <1>1, <1>2, <2>1, <2>2, <2>3
<1> QED
  BY <1>2, <1>6, <1>7 DEF QueryProgress

LEMMA ProgressStep ==
    ASSUME SetFacts, Exact, QueryShape, QueryProgress, [QueryNext]_queryVars
    PROVE  QueryProgress'
<1>1. UNCHANGED queryVars \/ Row \/ Write =>
          /\ UNCHANGED <<query, column, match, value, at>>
          /\ phase' = phase \/ (phase = "row" /\ phase' \in {"match", "crashed"})
  BY DEF queryVars, Row, Write
<1>2. UNCHANGED queryVars \/ Row \/ Write => QueryProgress'
  BY <1>1, ProgressSame
<1> QED
  BY <1>2, ProgressPrepare, ProgressInitMatch, ProgressBind, ProgressFinish
  DEF QueryNext, Step

-----------------------------------------------------------------------------
(* Every solution of an undisturbed query has one row *)
LEMMA SameSolutions ==
    ASSUME query' = query, triples' = triples
    PROVE  Solutions' = Solutions
<1>1. Columns' = Columns
  BY SameQuery
<1>2. \A u : Agree(u)' <=> Agree(u)
  BY <1>1, SMTT(30) DEF Agree
<1>3. \A u : Chosen(u)' = Chosen(u)
  BY <1>1 DEF Chosen
<1> QED
  BY <1>1, <1>2, <1>3 DEF Solutions

\* A solution comes from statements that agree with the query.
LEMMA SolutionOf ==
    ASSUME NEW w \in Solutions
    PROVE  \E u \in [Columns -> triples] :
              /\ Agree(u) /\ \A i \in Columns : query[i].c \in {Unset, u[i].c}
              /\ \A i \in Columns : w[i] = IF VarsOf(query[i]) = {} THEN EmptyStatement ELSE u[i]
              /\ w = Chosen(u)
<1>1. PICK u \in [Columns -> triples] :
          Agree(u) /\ (\A i \in Columns : query[i].c \in {Unset, u[i].c}) /\ w = Chosen(u)
  BY DEF Solutions
<1>2. \A i \in Columns : w[i] = IF VarsOf(query[i]) = {} THEN EmptyStatement ELSE u[i]
  BY <1>1 DEF Chosen
<1> QED
  BY <1>1, <1>2

\* Rasqal leaves the terms of the statements stored as they are.
LEMMA StoredTerms ==
    ASSUME ExactTerms, Settled, triples \subseteq Statement, NEW x \in triples, NEW f \in Fields
    PROVE  Convert(f, x[f]) = x[f] /\ ConvertValue(x[f]) = x[f]
<1>1. x.s \in Subject /\ x.p \in Predicate /\ ConvertValue(x.o) = x.o
  BY DEF Statement, Settled
<1>2. x.s \in Uri \cup Blank /\ x.p \in Uri
  BY <1>1 DEF ExactTerms
<1>3. ConvertValue(x.s) = x.s /\ ConvertValue(x.p) = x.p
  BY <1>2 DEF ConvertValue, Literal
<1> QED
  BY <1>1, <1>2, <1>3 DEF Fields, Convert, ConvertResource, ConvertURI

\* A match that is opened for a column returns the statement of every solution
\* that agrees with the columns before it.
LEMMA AnswerComplete ==
    ASSUME Exact, QueryShape, QueryProgress, Settled, phase = "match", ~match[column].open,
           NEW w \in Solutions, Follows(w, column)
    PROVE  IF VarsOf(query[column]) = {} THEN Answer(query[column]) # {}
                                         ELSE w[column] \in Answer(query[column])
<1> DEFINE t == query[column]
           pat == PatternOf(t)
<1>1. query \in Queries /\ column \in Columns /\ triples \subseteq Statement
      /\ value \in [Var -> Term \cup {Unset}] /\ {v \in Var : value[v] # Unset} \subseteq Before(column)
      /\ column \in Nat /\ Len(query) \in Nat /\ column >= 1
  BY PatternsOfQuery, SMTT(30) DEF QueryShape, QueryTypeOK, Columns
<1>2. PICK u \in [Columns -> triples] :
          /\ Agree(u) /\ \A i \in Columns : query[i].c \in {Unset, u[i].c}
          /\ \A i \in Columns : w[i] = IF VarsOf(query[i]) = {} THEN EmptyStatement ELSE u[i]
  BY SolutionOf
<1> DEFINE x == u[column]
<1>3. x \in triples /\ x \in Statement
  BY <1>1, <1>2
<1>4. \A f \in Fields : pat[f] = Field(f, t[f])
  BY PatternFields
<1>5. pat["c"] = t.c /\ t.c \in {Unset, x.c}
  BY <1>1, <1>2, PatternFields
<1>6. ASSUME NEW f \in Fields
      PROVE  pat[f] \in {Unset, x[f]}
  <2>1. Convert(f, x[f]) = x[f]
    BY <1>1, <1>3, StoredTerms DEF Exact
  <2>2. CASE t[f] \notin Var
    <3>1. x[f] = t[f]
      BY <1>1, <1>2, <2>2 DEF Agree
    <3> QED
      BY <1>4, <2>1, <2>2, <3>1 DEF Field
  <2>3. CASE t[f] \in Var /\ value[t[f]] = Unset
    BY <1>4, <2>3 DEF Field
  <2>4. CASE t[f] \in Var /\ value[t[f]] # Unset
    <3>1. PICK j \in 1 .. column, g \in Fields :
              query[j][g] = t[f] /\ t[f] \in Parts(j) /\ value[t[f]] = at[j][g]
      BY <2>4 DEF QueryProgress, Running
    <3>2. j # column /\ j \in Columns /\ j \in 1 .. (column - 1)
      BY <1>1, <2>4, <3>1, SMTT(30) DEF Parts, Columns
    <3>3. VarsOf(query[j]) # {}
      BY <3>1 DEF Parts
    <3>4. w[j] = at[j] /\ w[j] = u[j]
      BY <1>2, <3>2, <3>3 DEF Follows
    <3>5. u[j][g] = x[f]
      BY <1>1, <1>2, <2>4, <3>1, <3>2, SMTT(30) DEF Agree
    <3>6. value[t[f]] = x[f]
      BY <3>1, <3>4, <3>5
    <3> QED
      BY <1>4, <2>1, <2>4, <3>6 DEF Field
  <2> QED
    BY <2>2, <2>3, <2>4
<1>7. \A f \in {"s", "p", "o", "c"} : x[f] \in Term
  BY <1>3 DEF Statement, Term
<1> HIDE DEF x, pat
<1>8. \A f \in {"s", "p", "o", "c"} : pat[f] \in {Unset, x[f]}
  BY <1>5, <1>6 DEF Fields
<1>9. matches(x, pat) /\ \A f \in {"s", "p", "o", "c"} : pat[f] \in Term \cup {Unset}
  BY <1>7, <1>8 DEF matches
<1>10. x \in GetStatements(pat)
  BY <1>3, <1>9, MatchesOfTerms DEF GetStatements, Scan
<1>11. Answer(t) = IF VarsOf(t) = {} /\ GetStatements(pat) # {}
                   THEN {First(TypeOf(pat), GetStatements(pat))} ELSE GetStatements(pat)
  BY DEF Answer, pat
<1>12. VarsOf(t) # {} => w[column] = x
  BY <1>1, <1>2 DEF x
<1> QED
  BY <1>10, <1>11, <1>12

\* A step that finds no solution.
LEMMA JoinSame ==
    ASSUME QueryShape, JoinProgress, UNCHANGED <<query, triples, writes, rows>>,
           phase \notin {"failed", "crashed"},
           Settled => \A w \in Solutions : ToCome(w)' <=> ToCome(w)
    PROVE  JoinProgress'
<1>1. Solutions' = Solutions
  BY SameSolutions
<1>2. Settled' <=> Settled
  BY DEF Settled
<1>3. Settled => Found' = Found
  BY <1>1 DEF Found
<1>4. Columns' = Columns
  BY SameQuery
<1>5. \A w : HasRow(w)' <=> HasRow(w)
  BY <1>4, SMTT(30) DEF HasRow
<1> QED
  BY <1>2, <1>3, <1>5 DEF JoinProgress

LEMMA JoinPrepare ==
    ASSUME QueryShape, JoinProgress, Prepare
    PROVE  JoinProgress'
<1>1. UNCHANGED <<triples, writes, query, column, match, value, rows, at>>
      /\ phase = "prepare" /\ phase' \in {"match", "failed"}
  BY DEF Prepare
<1>2. ASSUME NEW w
      PROVE  ToCome(w)' <=> ToCome(w)
  <2>1. \A i : (Follows(w, i)' <=> Follows(w, i)) /\ (Ahead(w, i)' <=> Ahead(w, i))
    BY <1>1 DEF Follows, Ahead
  <2> QED
    BY <1>1, <2>1 DEF ToCome
<1> QED
  BY <1>1, <1>2, JoinSame

LEMMA JoinInitMatch ==
    ASSUME Exact, QueryShape, QueryProgress, JoinProgress, init_triples_match
    PROVE  JoinProgress'
<1>1. UNCHANGED <<triples, writes, query, phase, column, value, rows, ever, at>>
      /\ phase = "match" /\ ~match[column].open
  BY DEF init_triples_match
<1>2. /\ column \in Columns /\ column \in Nat /\ column >= 1 /\ Len(query) \in Nat
      /\ match'[column].rest = Answer(query[column])
      /\ \A i \in Columns : i # column => match'[i] = match[i]
  BY PatternsOfQuery, SMTT(30) DEF init_triples_match, QueryShape, QueryTypeOK, Columns
<1>3. ASSUME Settled, NEW w \in Solutions
      PROVE  ToCome(w)' <=> ToCome(w)
  <2>1. \A i : Follows(w, i)' <=> Follows(w, i)
    BY <1>1 DEF Follows
  <2>2. \A i \in Columns : i # column => (Ahead(w, i)' <=> Ahead(w, i))
    BY <1>1, <1>2 DEF Ahead
  <2>3. Ahead(w, column)
    BY <1>1 DEF Ahead
  <2>4. Follows(w, column) => Ahead(w, column)'
    BY <1>1, <1>2, <1>3, AnswerComplete DEF Ahead
  <2>5. \A i \in 1 .. column : i \in Columns
    BY <1>2, SMTT(30) DEF Columns
  <2>6. \A i \in 1 .. column : (Follows(w, i)' /\ Ahead(w, i)') <=> (Follows(w, i) /\ Ahead(w, i))
    BY <1>1, <2>1, <2>2, <2>3, <2>4, <2>5
  <2> QED
    BY <1>1, <2>6 DEF ToCome
<1> QED
  BY <1>1, <1>3, JoinSame

LEMMA JoinBind ==
    ASSUME SetFacts, QueryShape, JoinProgress, bind_match
    PROVE  JoinProgress'
<1> DEFINE x0 == First(match[column].type, match[column].rest)
<1>1. /\ UNCHANGED <<triples, writes, query, rows, ever>>
      /\ phase = "match" /\ match[column].open
      /\ IF column < Len(query) THEN column' = column + 1 /\ phase' = phase
                                ELSE column' = column /\ phase' = "row"
  BY DEF bind_match
<1>2. PICK c \in Columns : c = column
  BY DEF QueryShape, QueryTypeOK
<1>3. Len(query) \in Nat /\ c \in Nat /\ c >= 1 /\ c <= Len(query)
      /\ at \in [Columns -> Statement \cup {EmptyStatement}]
  BY PatternsOfQuery, SMTT(30) DEF QueryShape, Columns
<1>4. x0 \in match[c].rest /\ at' = [at EXCEPT ![c] = x0]
  BY <1>2, BindFacts
<1>5. /\ \A i \in Columns : i # c => match'[i] = match[i]
      /\ match'[c].rest = match[c].rest \ {x0} /\ match'[c].open
  BY <1>2, BindFacts
<1> HIDE DEF x0
<1>6. at'[c] = x0 /\ \A i \in Columns : i # c => at'[i] = at[i]
  BY <1>3, <1>4
<1>7. ASSUME NEW w
      PROVE  ToCome(w)' <=> ToCome(w)
  <2> DEFINE taken == VarsOf(query[c]) = {} \/ w[c] = x0
  <2>1. \A i \in 1 .. c : Follows(w, i)' <=> Follows(w, i)
    <3>1. \A i \in 1 .. c : \A j \in 1 .. (i - 1) : at'[j] = at[j]
      BY <1>3, <1>6, SMTT(30) DEF Columns
    <3> QED
      BY <1>1, <3>1 DEF Follows
  <2>2. Follows(w, c + 1)' <=> Follows(w, c) /\ taken
    <3>1. \A j : j \in 1 .. ((c + 1) - 1) <=> j \in 1 .. (c - 1) \/ j = c
      BY <1>3, SMTT(30)
    <3>2. \A j \in 1 .. (c - 1) : at'[j] = at[j]
      BY <1>3, <1>6, SMTT(30) DEF Columns
    <3> QED
      BY <1>1, <1>6, <3>1, <3>2 DEF Follows
  <2>3. \A i \in 1 .. (c - 1) : Ahead(w, i)' <=> Ahead(w, i)
    <3>1. \A i \in 1 .. (c - 1) : match'[i] = match[i]
      BY <1>3, <1>5, SMTT(30) DEF Columns
    <3> QED
      BY <1>1, <3>1 DEF Ahead
  <2>4. Ahead(w, c) <=> Ahead(w, c)' \/ taken
    BY <1>1, <1>2, <1>4, <1>5 DEF Ahead
  <2>5. c < Len(query) => Ahead(w, c + 1)'
    <3>1. c < Len(query) => c + 1 \in Columns /\ c + 1 # c /\ c + 1 > column
      BY <1>2, <1>3, SMTT(30) DEF Columns
    <3>2. c < Len(query) => ~match'[c + 1].open
      BY <1>1, <1>5, <3>1 DEF QueryShape, QueryTypeOK
    <3> QED
      BY <3>2 DEF Ahead
  <2>6. ToCome(w) <=> \E i \in 1 .. c : Follows(w, i) /\ Ahead(w, i)
    BY <1>1, <1>2 DEF ToCome
  <2> HIDE DEF taken
  <2>7. ToCome(w) <=> \/ \E i \in 1 .. (c - 1) : Follows(w, i) /\ Ahead(w, i)
                      \/ Follows(w, c) /\ (Ahead(w, c)' \/ taken)
    <3>1. \A i : i \in 1 .. c <=> i \in 1 .. (c - 1) \/ i = c
      BY <1>3, SMTT(30)
    <3> QED
      BY <2>4, <2>6, <3>1
  <2>8. (\E i \in 1 .. c : Follows(w, i)' /\ Ahead(w, i)') <=>
            \/ \E i \in 1 .. (c - 1) : Follows(w, i) /\ Ahead(w, i)
            \/ Follows(w, c) /\ Ahead(w, c)'
    <3>1. \A i : i \in 1 .. c <=> i \in 1 .. (c - 1) \/ i = c
      BY <1>3, SMTT(30)
    <3> QED
      BY <2>1, <2>3, <3>1
  <2>9. CASE c < Len(query)
    <3>1. ToCome(w)' <=> \E i \in 1 .. (c + 1) : Follows(w, i)' /\ Ahead(w, i)'
      BY <1>1, <1>2, <2>9 DEF ToCome
    <3>2. \A i : i \in 1 .. (c + 1) <=> i \in 1 .. c \/ i = c + 1
      BY <1>3, SMTT(30)
    <3>3. ToCome(w)' <=> (\E i \in 1 .. c : Follows(w, i)' /\ Ahead(w, i)') \/ Follows(w, c + 1)'
      BY <2>5, <2>9, <3>1, <3>2
    <3> QED
      BY <2>2, <2>7, <2>8, <3>3
  <2>10. CASE ~(c < Len(query))
    <3>1. ToCome(w)' <=> (\E i \in 1 .. c : Follows(w, i)' /\ Ahead(w, i)') \/ Follows(w, c + 1)'
      BY <1>1, <1>2, <2>10 DEF ToCome
    <3> QED
      BY <2>2, <2>7, <2>8, <3>1
  <2> QED
    BY <2>9, <2>10
<1> QED
  BY <1>1, <1>7, JoinSame

LEMMA JoinFinish ==
    ASSUME QueryShape, JoinProgress, finish
    PROVE  JoinProgress'
<1>1. /\ UNCHANGED <<triples, writes, query, rows, ever, at>>
      /\ phase = "match" /\ match[column].open /\ match[column].rest = {}
      /\ IF column = 1 THEN column' = column /\ phase' = "done"
                       ELSE column' = column - 1 /\ phase' = phase
      /\ match' = [match EXCEPT ![column] = NoMatch]
  BY DEF finish
<1>2. column \in Columns /\ Len(query) \in Nat /\ column \in Nat /\ column >= 1
      /\ match \in [Columns -> MatchType]
  BY PatternsOfQuery, SMTT(30) DEF QueryShape, QueryTypeOK, Columns
<1>3. ASSUME NEW w
      PROVE  ToCome(w)' <=> ToCome(w)
  <2>1. \A i : Follows(w, i)' <=> Follows(w, i)
    BY <1>1 DEF Follows
  <2>2. \A i \in 1 .. (column - 1) : Ahead(w, i)' <=> Ahead(w, i)
    <3>1. \A i \in 1 .. (column - 1) : match'[i] = match[i]
      BY <1>1, <1>2, SMTT(30) DEF Columns
    <3> QED
      BY <1>1, <3>1 DEF Ahead
  <2>3. ~Ahead(w, column)
    BY <1>1 DEF Ahead
  <2>4. ToCome(w) <=> \E i \in 1 .. (column - 1) : Follows(w, i) /\ Ahead(w, i)
    <3>1. \A i : i \in 1 .. column <=> i \in 1 .. (column - 1) \/ i = column
      BY <1>2, SMTT(30)
    <3> QED
      BY <1>1, <2>3, <3>1 DEF ToCome
  <2>5. CASE column = 1
    <3>1. 1 .. (column - 1) = {}
      BY <2>5, SMTT(30)
    <3> QED
      BY <1>1, <2>4, <2>5, <3>1 DEF ToCome
  <2>6. CASE column # 1
    <3>1. ToCome(w)' <=> \E i \in 1 .. (column - 1) : Follows(w, i)' /\ Ahead(w, i)'
      BY <1>1, <2>6 DEF ToCome
    <3> QED
      BY <2>1, <2>2, <2>4, <3>1
  <2> QED
    BY <2>5, <2>6
<1> QED
  BY <1>1, <1>3, JoinSame

\* When a row is complete, its variables have the terms of the statements that the
\* columns are at.
LEMMA RowCells ==
    ASSUME Exact, QueryShape, QuerySupport, QueryProgress, Settled, phase = "row", Valued(AllVars),
           NEW i \in Columns
    PROVE  /\ at[i] \in triples
           /\ query[i].c \in {Unset, at[i].c}
           /\ \A f \in Fields :
                IF query[i][f] \in Var
                THEN value[query[i][f]] = at[i][f] /\ ConvertValue(at[i][f]) = at[i][f]
                ELSE at[i][f] = query[i][f]
<1>1. column = Len(query) /\ Len(query) \in Nat /\ query \in Queries /\ triples = ever
      /\ triples \subseteq Statement /\ value \in [Var -> Term \cup {Unset}]
  BY PatternsOfQuery DEF QueryShape, QueryTypeOK, Settled
<1>2. \A j \in Columns : j \in Nat /\ j >= 1 /\ j <= Len(query) /\ Entered(j)
  BY <1>1, SMTT(30) DEF Columns, Entered, Running
<1>3. \A j \in Columns : at[j] \in triples
  BY <1>1, <1>2 DEF QueryShape
<1>4. Before(i + 1) \subseteq AllVars
  <2>1. 1 .. ((i + 1) - 1) \subseteq Columns
    BY <1>1, <1>2, SMTT(30) DEF Columns
  <2> QED
    BY <2>1 DEF Before, VarsBefore, AllVars
<1>5. Valued(Before(i + 1))
  BY <1>4 DEF Valued
<1>6. Candidate(at[i], i)
      /\ \A f \in Fields : query[i][f] \in Parts(i) => value[query[i][f]] = at[i][f]
  BY <1>2, <1>5 DEF QuerySupport
<1>7. query[i].c \in {Unset, at[i].c} /\ at[i] \in Statement
  BY <1>1, <1>3, <1>6 DEF Candidate
<1>8. ASSUME NEW f \in Fields, query[i][f] \in Var
      PROVE  value[query[i][f]] = at[i][f]
  <2> DEFINE v == query[i][f]
  <2>1. v \in VarsOf(query[i]) /\ v \in AllVars
    BY <1>8, FieldIsVar DEF AllVars
  <2>2. value[v] # Unset /\ value[v] \in Term
    BY <1>1, <1>8, <2>1 DEF Valued
  <2>3. CASE v \in Before(i)
    <3>1. at[i][f] = Convert(f, value[v])
      BY <1>6, <1>8, <2>3 DEF Candidate
    <3>2. f # "o" => at[i][f] = value[v]
      <4>1. ExactTerms
        BY DEF Exact
      <4> HIDE DEF v
      <4> QED
        BY <1>7, <1>8, <2>2, <3>1, <4>1, ConvertStored
    <3>3. PICK j \in 1 .. column, g \in Fields : value[v] = at[j][g]
      BY <1>8, <2>2, SMTT(30) DEF QueryProgress, Running
    <3>4. at[j] \in triples
      BY <1>1, <1>3, <3>3 DEF Columns
    <3>5. ConvertValue(value[v]) = value[v]
      BY <1>1, <3>3, <3>4, StoredTerms DEF Exact
    <3>6. f = "o" => at[i][f] = ConvertValue(value[v])
      BY <3>1 DEF Convert
    <3> QED
      BY <3>2, <3>5, <3>6
  <2>4. CASE v \notin Before(i)
    BY <1>6, <2>1, <2>4 DEF Parts
  <2> QED
    BY <2>3, <2>4
<1>9. \A f \in Fields : ConvertValue(at[i][f]) = at[i][f]
  BY <1>1, <1>3, StoredTerms DEF Exact
<1>10. \A f \in Fields : query[i][f] \notin Var => at[i][f] = query[i][f]
  BY <1>6 DEF Candidate
<1> QED
  BY <1>3, <1>7, <1>8, <1>9, <1>10

\* The statements the columns are at are a solution, the only one to come that
\* agrees with all of them.
LEMMA RowIsSolution ==
    ASSUME Exact, QueryShape, QuerySupport, QueryProgress, Settled, phase = "row", Valued(AllVars)
    PROVE  /\ Chosen(at) \in Solutions
           /\ Follows(Chosen(at), column + 1)
           /\ \A i \in 1 .. column : ~Ahead(Chosen(at), i)
           /\ \A w \in Solutions : Follows(w, column + 1) => w = Chosen(at)
<1>1. column = Len(query) /\ Len(query) \in Nat /\ at \in [Columns -> Statement \cup {EmptyStatement}]
      /\ match[column].open /\ \A i \in Columns : i < column => match[i].open
  BY PatternsOfQuery DEF QueryShape, QueryTypeOK
<1>2. \A i \in Columns : /\ at[i] \in triples
           /\ query[i].c \in {Unset, at[i].c}
           /\ \A f \in Fields :
                IF query[i][f] \in Var THEN value[query[i][f]] = at[i][f] ELSE at[i][f] = query[i][f]
  BY RowCells
<1>3. at \in [Columns -> triples]
  BY <1>1, <1>2
<1>4. Agree(at)
  BY <1>2, SMTT(30) DEF Agree
<1>5. Chosen(at) \in Solutions
  BY <1>2, <1>3, <1>4 DEF Solutions
<1>6. \A i \in Columns : Chosen(at)[i] = IF VarsOf(query[i]) = {} THEN EmptyStatement ELSE at[i]
  BY DEF Chosen
<1>7. (\A i \in 1 .. column : i \in Columns) /\ \A i \in 1 .. ((column + 1) - 1) : i \in Columns
  BY <1>1, SMTT(30) DEF Columns
<1>8. Follows(Chosen(at), column + 1)
  BY <1>6, <1>7 DEF Follows
<1>9. ASSUME NEW i \in 1 .. column
      PROVE  ~Ahead(Chosen(at), i)
  <2>1. i \in Columns /\ Entered(i) /\ Running /\ match[i].open
    BY <1>1, <1>7, SMTT(30) DEF Entered, Running
  <2>2. at[i] \notin match[i].rest /\ (VarsOf(query[i]) = {} => match[i].rest = {})
    BY <2>1 DEF QueryProgress
  <2> QED
    BY <1>6, <2>1, <2>2 DEF Ahead
<1>10. ASSUME NEW w \in Solutions, Follows(w, column + 1)
       PROVE  w = Chosen(at)
  <2>1. PICK u \in [Columns -> triples] :
            /\ \A i \in Columns : w[i] = IF VarsOf(query[i]) = {} THEN EmptyStatement ELSE u[i]
            /\ w = Chosen(u)
    BY SolutionOf
  <2>2. \A i \in Columns : VarsOf(query[i]) = {} \/ w[i] = at[i]
    <3>1. \A i \in Columns : i \in 1 .. ((column + 1) - 1)
      BY <1>1, SMTT(30) DEF Columns
    <3> QED
      BY <1>10, <3>1 DEF Follows
  <2>3. \A i \in Columns : (IF VarsOf(query[i]) = {} THEN EmptyStatement ELSE u[i])
                             = IF VarsOf(query[i]) = {} THEN EmptyStatement ELSE at[i]
    BY <2>1, <2>2
  <2> QED
    BY <2>1, <2>3 DEF Chosen
<1> QED
  BY <1>5, <1>8, <1>9, <1>10

LEMMA JoinInit ==
    ASSUME SetFacts, QueryInit
    PROVE  JoinProgress
<1>1. QueryShape
  BY ShapeInit
<1>2. phase = "prepare" /\ column = 1 /\ rows = <<>> /\ 1 \in Columns /\ ~match[1].open
  BY <1>1 DEF QueryInit, QueryShape, QueryTypeOK
<1>3. ASSUME NEW w
      PROVE  ToCome(w)
  <2>1. 1 .. (1 - 1) = {}
    BY SMTT(30)
  <2>2. Follows(w, 1) /\ Ahead(w, 1)
    BY <1>2, <2>1 DEF Follows, Ahead
  <2>3. 1 \in 1 .. column
    BY <1>2, SMTT(30)
  <2> QED
    BY <1>2, <2>2, <2>3 DEF ToCome
<1>4. Found = {}
  BY <1>3 DEF Found
<1>5. Len(rows) = 0
  BY <1>2
<1> QED
  BY <1>4, <1>5, EmptyFinite DEF JoinProgress

LEMMA JoinRow ==
    ASSUME SetFacts, Exact, QueryShape, QuerySupport, QueryProgress, JoinProgress, Row
    PROVE  JoinProgress'
<1>1. UNCHANGED <<triples, writes, query, column, match, value, ever, at>>
      /\ phase = "row" /\ phase' \in {"match", "crashed"}
  BY DEF Row
<1>2. SUFFICES ASSUME phase' = "match", Settled'
               PROVE  /\ IsFiniteSet(Found') /\ Cardinality(Found') = Len(rows')
                      /\ \A w \in Found' : HasRow(w)'
  BY <1>1 DEF JoinProgress
<1> DEFINE row == [v \in AllVars |-> ConvertValue(value[v])]
<1>3. Valued(AllVars) /\ rows' = Append(rows, row)
  BY <1>1, <1>2 DEF Row, Valued
<1>4. Settled
  BY <1>1, <1>2 DEF Settled
<1>5. Solutions' = Solutions /\ Columns' = Columns
  BY <1>1, SameSolutions, SameQuery
<1>6. PICK w0 \in Solutions :
      /\ w0 = Chosen(at) /\ Follows(w0, column + 1)
      /\ \A i \in 1 .. column : ~Ahead(w0, i)
      /\ \A w \in Solutions : Follows(w, column + 1) => w = w0
  BY <1>1, <1>3, <1>4, RowIsSolution
<1>7. \A w, i : (Follows(w, i)' <=> Follows(w, i)) /\ (Ahead(w, i)' <=> Ahead(w, i))
  BY <1>1 DEF Follows, Ahead
<1>8. \A w : ToCome(w)' <=> \E i \in 1 .. column : Follows(w, i) /\ Ahead(w, i)
  BY <1>1, <1>2, <1>7 DEF ToCome
<1>9. \A w : ToCome(w) <=> (\E i \in 1 .. column : Follows(w, i) /\ Ahead(w, i)) \/ Follows(w, column + 1)
  BY <1>1 DEF ToCome
<1>10. ToCome(w0) /\ ~ToCome(w0)' /\ \A w \in Solutions : w # w0 => (ToCome(w)' <=> ToCome(w))
  BY <1>6, <1>8, <1>9
<1>11. Found' = Found \cup {w0} /\ w0 \notin Found
  BY <1>5, <1>6, <1>10 DEF Found
<1>12. IsFiniteSet(Found) /\ Cardinality(Found) = Len(rows) /\ \A w \in Found : HasRow(w)
  BY <1>1, <1>4 DEF JoinProgress
<1>13. IsFiniteSet(Found') /\ Cardinality(Found') = Cardinality(Found) + 1
  BY <1>11, <1>12, OneElementMore
<1>14. rows \in Seq([AllVars -> Term \cup {Empty}])
  BY DEF QuerySupport
<1> HIDE DEF row
<1>15. /\ Len(rows') = Len(rows) + 1
       /\ DOMAIN rows \subseteq DOMAIN rows' /\ \A n \in DOMAIN rows : rows'[n] = rows[n]
       /\ Len(rows) + 1 \in DOMAIN rows' /\ rows'[Len(rows) + 1] = row
  <2>1. /\ Len(Append(rows, row)) = Len(rows) + 1
        /\ DOMAIN rows \subseteq DOMAIN Append(rows, row)
        /\ \A n \in DOMAIN rows : Append(rows, row)[n] = rows[n]
        /\ Len(rows) + 1 \in DOMAIN Append(rows, row) /\ Append(rows, row)[Len(rows) + 1] = row
    BY <1>14, Appended
  <2> QED
    BY <1>3, <2>1
<1>16. \A w : HasRow(w) => HasRow(w)'
  BY <1>1, <1>5, <1>15, SMTT(30) DEF HasRow
<1>17. HasRow(w0)'
  <2>1. ASSUME NEW i \in Columns, NEW f \in Fields, query[i][f] \in Var
        PROVE  row[query[i][f]] = w0[i][f]
    <3>1. query[i][f] \in VarsOf(query[i]) /\ query[i][f] \in AllVars
      BY <2>1, FieldIsVar DEF AllVars
    <3>2. row[query[i][f]] = ConvertValue(value[query[i][f]])
      BY <3>1 DEF row
    <3>3. value[query[i][f]] = at[i][f] /\ ConvertValue(at[i][f]) = at[i][f]
      BY <1>1, <1>3, <1>4, <2>1, RowCells
    <3>4. w0[i] = at[i]
      BY <1>6, <3>1 DEF Chosen
    <3> QED
      BY <3>2, <3>3, <3>4
  <2> QED
    BY <1>1, <1>5, <1>15, <2>1 DEF HasRow
<1> QED
  BY <1>11, <1>12, <1>13, <1>15, <1>16, <1>17

LEMMA JoinStep ==
    ASSUME SetFacts, Exact, QueryShape, QuerySupport, QueryProgress, JoinProgress, [QueryNext]_queryVars
    PROVE  JoinProgress'
<1>1. CASE UNCHANGED queryVars
  <2>1. UNCHANGED <<triples, writes, query, phase, column, match, value, rows, ever, at>>
    BY <1>1 DEF queryVars
  <2>2. \A w : ToCome(w)' <=> ToCome(w)
    <3>1. \A w, i : (Follows(w, i)' <=> Follows(w, i)) /\ (Ahead(w, i)' <=> Ahead(w, i))
      BY <2>1 DEF Follows, Ahead
    <3> QED
      BY <2>1, <3>1 DEF ToCome
  <2>3. CASE phase \in {"failed", "crashed"}
    BY <2>1, <2>3 DEF JoinProgress
  <2>4. CASE phase \notin {"failed", "crashed"}
    BY <2>1, <2>2, <2>4, JoinSame
  <2> QED
    BY <2>3, <2>4
<1>2. ASSUME Write
      PROVE  ~Settled'
  <2>1. writes' \in Nat \ {0}
    BY <1>2, SMTT(30) DEF Write, QueryShape
  <2> QED
    BY <2>1 DEF Settled
<1>3. Write => JoinProgress'
  BY <1>2 DEF JoinProgress
<1> QED
  BY <1>1, <1>3, JoinPrepare, JoinInitMatch, JoinBind, JoinFinish, JoinRow
  DEF QueryNext, Step

\* The invariant of the queries the indexes answer exactly.
JoinInvariant == QueryShape /\ QuerySupport /\ RowsWereStored /\ QueryProgress /\ JoinProgress

LEMMA JoinInvariantInit ==
    ASSUME SetFacts, QueryInit
    PROVE  JoinInvariant
  BY ShapeInit, SupportInit, ProgressInit, JoinInit DEF JoinInvariant

LEMMA JoinInvariantStep ==
    ASSUME SetFacts, Exact, JoinInvariant, [QueryNext]_queryVars
    PROVE  JoinInvariant'
  BY ShapeStep, SupportStep, ProgressStep, JoinStep DEF JoinInvariant

LEMMA CompleteFollows ==
    ASSUME JoinInvariant
    PROVE  JoinComplete
<1>1. phase = "done" => Found = Solutions
  BY DEF Found, ToCome
<1> QED
  BY <1>1 DEF JoinInvariant, JoinProgress, JoinComplete, HasRow

-----------------------------------------------------------------------------
(* Clear and Size *)

USE ServiceAssumption

\* The patterns of Clear and Size set the context or nothing.
LEMMA RequestPatterns ==
    ASSUME NEW patterns \in Requests
    PROVE  /\ patterns \in Seq(Pattern) /\ Len(patterns) >= 1
           /\ \A i \in 1 .. Len(patterns) :
                \/ patterns = <<AnyStatement>> /\ patterns[i] = AnyStatement
                \/ \E c \in Context : patterns[i] = InContext(c)
<1>1. AnyStatement \in Pattern /\ \A c \in Context : InContext(c) \in Pattern
  BY DEF AnyStatement, InContext, Pattern
<1>2. CASE patterns = <<AnyStatement>>
  <2>1. Len(patterns) = 1 /\ patterns[1] = AnyStatement /\ patterns \in Seq(Pattern)
    BY <1>1, <1>2, SMTT(30)
  <2>2. \A i \in 1 .. 1 : i = 1
    BY SMTT(30)
  <2> QED
    BY <1>2, <2>1, <2>2, SMTT(30)
<1>3. ASSUME NEW n \in 1 .. MaxContexts, NEW l \in [1 .. n -> Context],
             patterns = [i \in DOMAIN l |-> InContext(l[i])]
      PROVE  /\ patterns \in Seq(Pattern) /\ Len(patterns) >= 1
             /\ \A i \in 1 .. Len(patterns) : \E c \in Context : patterns[i] = InContext(c)
  <2>1. n \in Nat /\ n >= 1 /\ DOMAIN l = 1 .. n
    BY SMTT(30)
  <2>2. patterns \in [1 .. n -> Pattern]
    BY <1>1, <1>3, <2>1
  <2>3. patterns \in Seq(Pattern) /\ Len(patterns) = n
    BY <2>1, <2>2, SMTT(30)
  <2>4. \A i \in 1 .. n : patterns[i] = InContext(l[i]) /\ l[i] \in Context
    BY <1>3, <2>1
  <2> QED
    BY <2>1, <2>3, <2>4
<1> QED
  BY <1>2, <1>3 DEF Requests

\* A statement matches them if it is in the context, and their scan is exact.
LEMMA ContextScan ==
    ASSUME NEW c \in Context, NEW x \in Statement
    PROVE  /\ matches(x, InContext(c)) <=> x.c = c
           /\ InRange(TypeOf(InContext(c)), InContext(c), x) <=> matches(x, InContext(c))
<1>1. c \in Term /\ c # Unset
  BY UnsetAssumption DEF Term
<1>2. /\ InContext(c) \in Pattern
      /\ InContext(c).s = Unset /\ InContext(c).p = Unset /\ InContext(c).o = Unset
      /\ InContext(c).c = c
  BY DEF AnyStatement, InContext, Pattern
<1>3. matches(x, InContext(c)) <=> x.c = c
  BY <1>1, <1>2 DEF matches
<1>4. PrefixPattern(InContext(c))
  BY <1>1, <1>2, SMTT(30) DEF PrefixPattern, TypeOf, Bound, KeyOrder, PatternOrder
<1> QED
  BY <1>2, <1>3, <1>4, PrefixScanExact

LEMMA AnyScan ==
    ASSUME NEW x \in Statement
    PROVE  /\ matches(x, AnyStatement)
           /\ InRange(TypeOf(AnyStatement), AnyStatement, x)
<1>1. AnyStatement \in Pattern /\ matches(x, AnyStatement)
  BY SMTT(30) DEF AnyStatement, Pattern, matches
<1> QED
  BY <1>1, MatchesInRange

LEMMA ScanType ==
    ASSUME NEW S \in SUBSET Statement, NEW pat
    PROVE  Scan(S, pat) \in SUBSET S
BY DEF Scan

LEMMA HeadTail ==
    ASSUME NEW t \in Seq(Pattern), t # <<>>
    PROVE  /\ Head(t) = t[1] /\ Head(t) \in Pattern /\ Tail(t) \in Seq(Pattern)
           /\ Len(t) \in Nat /\ Len(t) >= 1 /\ Len(Tail(t)) = Len(t) - 1
           /\ \A i \in 1 .. Len(Tail(t)) : Tail(t)[i] = t[i + 1]
BY SMTT(30)

\* A handler that does nothing while the store shrinks.
LEMMA OthersSound ==
    ASSUME NEW g \in Handler, Sound(g), store' \subseteq store,
           pc'[g] = pc[g], method'[g] = method[g], todo'[g] = todo[g], found'[g] = found[g],
           count'[g] = count[g], before'[g] = before[g], again'[g] = again[g],
           asked'[g] = asked[g]
    PROVE  Sound(g)'
<1>1. Through(g)' = Through(g)
  BY DEF Through
<1>2. InTurn(g)'
  BY <1>1 DEF Sound, InTurn
<1>3. Cleared(g)'
  <2>1. before'[g] \cap store' \subseteq before[g] \cap store
    OBVIOUS
  <2> QED
    BY <1>1, <2>1 DEF Sound, Cleared
<1>4. FoundAsked(g)'
  BY <1>1 DEF Sound, FoundAsked
<1>5. Counts(g)'
  <2>1. ASSUME pc[g] # "idle", again[g] = {}, store' = before[g]
        PROVE  store' = store /\ Passed(g)' = Passed(g)
    <3>1. store' = store
      BY <2>1 DEF Sound, Counts
    <3> QED
      BY <1>1, <3>1 DEF Passed
  <2> QED
    BY <2>1 DEF Sound, Counts
<1> QED
  BY <1>2, <1>3, <1>4, <1>5 DEF Sound

LEMMA AddSound ==
    ASSUME TypeOK, NEW g \in Handler, Sound(g), NEW x \in Statement, Add(x)
    PROVE  Sound(g)'
<1>1. /\ UNCHANGED <<pc, method, todo, found, count, before, asked>>
      /\ store' = store \cup {x}
      /\ again'[g] = IF pc[g] = "idle" THEN {} ELSE again[g] \cup {x}
      /\ Through(g)' = Through(g)
  BY DEF Add, Through
<1>2. InTurn(g)'
  BY <1>1 DEF Sound, InTurn
<1>3. Cleared(g)'
  BY <1>1 DEF Sound, Cleared
<1>4. FoundAsked(g)'
  BY <1>1 DEF Sound, FoundAsked
<1>5. Counts(g)'
  BY <1>1 DEF Counts
<1> QED
  BY <1>2, <1>3, <1>4, <1>5 DEF Sound

\* The next pattern is taken up.
LEMMA TakesNext ==
    ASSUME TypeOK, NEW h \in Handler, InTurn(h), pc[h] = "next", todo[h] # <<>>,
           todo' = [todo EXCEPT ![h] = Tail(@)], asked' = asked
    PROVE  /\ Through(h) \in Nat /\ Through(h)' = Through(h) + 1
           /\ Through(h) + 1 <= Len(asked[h])
           /\ Head(todo[h]) = asked[h][Through(h) + 1] /\ Head(todo[h]) \in Pattern
           /\ Len(todo'[h]) <= Len(asked'[h])
           /\ \A i \in 1 .. Len(todo'[h]) : todo'[h][i] = asked'[h][Through(h)' + i]
<1> DEFINE t == todo[h]
           k == Through(h)
<1>1. t \in Seq(Pattern) /\ asked[h] \in Seq(Pattern) /\ todo'[h] = Tail(t)
  BY DEF TypeOK
<1>2. /\ Head(t) = t[1] /\ Head(t) \in Pattern
      /\ Len(t) \in Nat /\ Len(t) >= 1 /\ Len(Tail(t)) = Len(t) - 1
      /\ \A i \in 1 .. Len(Tail(t)) : Tail(t)[i] = t[i + 1]
  BY <1>1, HeadTail
<1>3. Len(asked[h]) \in Nat /\ Len(t) <= Len(asked[h])
  BY <1>1, SMTT(30) DEF InTurn
<1>4. \A i \in 1 .. Len(t) : t[i] = asked[h][k + i]
  BY DEF InTurn
<1>5. k = Len(asked[h]) - Len(t) /\ Through(h)' = Len(asked[h]) - Len(Tail(t))
  BY <1>1 DEF Through
<1> HIDE DEF k, t
<1>6. k \in Nat /\ Through(h)' = k + 1 /\ k + 1 <= Len(asked[h])
  <2>1. \A a, b \in Nat : b <= a /\ b >= 1
           => a - b \in Nat /\ a - (b - 1) = (a - b) + 1 /\ (a - b) + 1 <= a
    BY SMTT(30)
  <2>2. Through(h)' = Len(asked[h]) - (Len(t) - 1)
    BY <1>2, <1>5
  <2> QED
    BY <1>2, <1>3, <1>5, <2>1, <2>2
<1>7. Head(t) = asked[h][k + 1]
  BY <1>2, <1>4, SMTT(30)
<1>8. ASSUME NEW i \in 1 .. Len(Tail(t)) PROVE Tail(t)[i] = asked[h][(k + 1) + i]
  <2>1. Tail(t)[i] = t[i + 1] /\ i + 1 \in 1 .. Len(t) /\ i \in Nat
    BY <1>2, SMTT(30)
  <2>2. k + (i + 1) = (k + 1) + i
    BY <1>6, <2>1, SMTT(30)
  <2> QED
    BY <1>4, <2>1, <2>2
<1>9. Len(Tail(t)) <= Len(asked[h])
  BY <1>2, <1>3, SMTT(30)
<1>10. /\ Through(h) = k /\ todo[h] = t /\ todo'[h] = Tail(t) /\ asked' = asked
  BY <1>1 DEF k, t
<1> QED
  BY <1>2, <1>6, <1>7, <1>8, <1>9, <1>10

LEMMA FindSound ==
    ASSUME TypeOK, NEW h \in Handler, Sound(h), Find(h)
    PROVE  Sound(h)'
<1>1. /\ pc[h] = "next" /\ method[h] # "Size" /\ todo[h] # <<>> /\ pc'[h] = "write"
      /\ todo' = [todo EXCEPT ![h] = Tail(@)] /\ found'[h] = Scan(store, Head(todo[h]))
      /\ UNCHANGED <<store, method, count, before, again, asked>>
  BY DEF Find, TypeOK, history
<1> DEFINE k == Through(h)
           pat == Head(todo[h])
<1>2. /\ k \in Nat /\ Through(h)' = k + 1 /\ k + 1 <= Len(asked[h])
      /\ pat = asked[h][k + 1] /\ pat \in Pattern
      /\ Len(todo'[h]) <= Len(asked'[h])
      /\ \A i \in 1 .. Len(todo'[h]) : todo'[h][i] = asked'[h][Through(h)' + i]
  BY <1>1, TakesNext DEF Sound
<1>3. k + 1 >= 1 /\ Len(asked[h]) \in Nat /\ store \in SUBSET Statement
  BY <1>2, SMTT(30) DEF TypeOK
<1>4. InTurn(h)'
  BY <1>1, <1>2, <1>3 DEF InTurn, Sound
<1>5. ASSUME NEW x \in before[h] \cap store, NEW i \in 1 .. (k + 1), matches(x, asked[h][i])
      PROVE  x \in again[h] \/ (i = k + 1 /\ x \in Scan(store, pat))
  <2>1. CASE i = k + 1
    <3>1. InRange(TypeOf(pat), pat, x)
      BY <1>2, <1>3, <1>5, <2>1, MatchesInRange
    <3> QED
      BY <2>1, <3>1 DEF Scan
  <2>2. CASE i # k + 1
    <3>1. i \in 1 .. k
      BY <1>2, <2>2, SMTT(30)
    <3> QED
      BY <1>1, <1>5, <3>1 DEF Sound, Cleared
  <2> QED
    BY <2>1, <2>2
<1>6. Cleared(h)'
  BY <1>1, <1>2, <1>5 DEF Cleared
<1>7. ASSUME method[h] = "Clear", NEW x \in Scan(store, pat) PROVE matches(x, pat)
  <2>1. x \in Statement /\ InRange(TypeOf(pat), pat, x)
    BY <1>3 DEF Scan
  <2>2. asked[h] \in Requests /\ k + 1 \in 1 .. Len(asked[h])
    BY <1>1, <1>2, <1>3, <1>7, SMTT(30) DEF Sound, InTurn
  <2>3. pat = AnyStatement \/ \E c \in Context : pat = InContext(c)
    BY <1>2, <2>2, RequestPatterns
  <2> QED
    BY <2>1, <2>3, AnyScan, ContextScan, SMTT(30)
<1>8. FoundAsked(h)'
  BY <1>1, <1>2, <1>7 DEF FoundAsked
<1>9. Counts(h)'
  BY <1>1 DEF Sound, Counts
<1> QED
  BY <1>4, <1>6, <1>8, <1>9 DEF Sound

LEMMA DeleteSound ==
    ASSUME TypeOK, NEW h \in Handler, Sound(h), Delete(h)
    PROVE  Sound(h)'
<1>1. /\ pc[h] = "write" /\ pc'[h] = "next" /\ store' = store \ found[h]
      /\ UNCHANGED <<method, todo, before, again, asked>>
      /\ Through(h)' = Through(h)
  BY DEF Delete, TypeOK, history, Through
<1>2. method[h] # "Size" /\ InTurn(h)'
  BY <1>1 DEF Sound, InTurn
<1>3. Cleared(h)'
  BY <1>1 DEF Sound, Cleared
<1>4. FoundAsked(h)'
  BY <1>1 DEF FoundAsked
<1>5. Counts(h)'
  BY <1>1, <1>2 DEF Sound, Counts
<1> QED
  BY <1>2, <1>3, <1>4, <1>5 DEF Sound

\* What the patterns of Size have in common with each other, if they are different.
LEMMA DifferentContexts ==
    ASSUME NEW patterns \in Requests, IsInjective(patterns),
           NEW i \in 1 .. Len(patterns), NEW j \in 1 .. Len(patterns), i # j,
           NEW x \in Statement, matches(x, patterns[i]), matches(x, patterns[j])
    PROVE  FALSE
<1>1. patterns \in Seq(Pattern) /\ DOMAIN patterns = 1 .. Len(patterns)
  BY RequestPatterns, SMTT(30)
<1>2. patterns[i] # patterns[j]
  BY <1>1 DEF IsInjective
<1>3. CASE patterns = <<AnyStatement>>
  BY <1>3, SMTT(30)
<1>4. CASE patterns # <<AnyStatement>>
  <2>1. PICK c \in Context : patterns[i] = InContext(c)
    BY <1>4, RequestPatterns
  <2>2. PICK d \in Context : patterns[j] = InContext(d)
    BY <1>4, RequestPatterns
  <2>3. x.c = c /\ x.c = d
    BY <2>1, <2>2, ContextScan
  <2> QED
    BY <1>2, <2>1, <2>2, <2>3
<1> QED
  BY <1>3, <1>4

LEMMA ReturnSound ==
    ASSUME TypeOK, NEW h \in Handler, Return(h)
    PROVE  Sound(h)'
<1>1. pc'[h] = "idle" /\ count'[h] = 0 /\ again'[h] = {}
  BY DEF Return, TypeOK
<1> QED
  BY <1>1 DEF Sound, InTurn, Cleared, FoundAsked, Counts

-----------------------------------------------------------------------------
(* Types, and what Size counts *)

LEMMA InitService ==
    ASSUME SetFacts, Init
    PROVE  ServiceInvariant
<1>1. IsFiniteSet({}) /\ <<>> \in Seq(Pattern)
  BY EmptyFinite, SMTT(30)
<1>2. TypeOK
  BY <1>1 DEF Init, TypeOK
<1>3. \A h \in Handler : Sound(h)
  BY DEF Init, Sound, InTurn, Cleared, FoundAsked, Counts
<1> QED
  BY <1>2, <1>3 DEF ServiceInvariant

LEMMA NextType ==
    ASSUME SetFacts, TypeOK, [Next]_vars
    PROVE  TypeOK'
<1> USE DEF TypeOK
<1>1. CASE UNCHANGED vars
  BY <1>1 DEF vars, history
<1>2. ASSUME NEW x \in Statement, Add(x) PROVE TypeOK'
  <2>1. IsFiniteSet(store \cup {x})
    BY OneElementMore
  <2> QED
    BY <1>2, <2>1, SMTT(30) DEF Add
<1>3. ASSUME NEW h \in Handler, NEW m \in {"Clear", "Size", "RemoveStatements"},
             NEW patterns \in Seq(Pattern), Call(h, m, patterns)
      PROVE  TypeOK'
  BY <1>3 DEF Call
<1>4. ASSUME NEW h \in Handler, Count(h) PROVE TypeOK'
  <2>1. Tail(todo[h]) \in Seq(Pattern)
    BY <1>4, HeadTail DEF Count
  <2>2. Cardinality(Scan(store, Head(todo[h]))) \in Nat
    BY ScanType, SubsetFinite, CardinalityType
  <2>3. count[h] + Cardinality(Scan(store, Head(todo[h]))) \in Nat
    BY <2>2, SMTT(30)
  <2> QED
    BY <1>4, <2>1, <2>3 DEF Count, history
<1>5. ASSUME NEW h \in Handler, Find(h) PROVE TypeOK'
  <2>1. Tail(todo[h]) \in Seq(Pattern)
    BY <1>5, HeadTail DEF Find
  <2>2. /\ Scan(store, Head(todo[h])) \in SUBSET Statement
        /\ IsFiniteSet(Scan(store, Head(todo[h])))
    BY ScanType, SubsetFinite
  <2> QED
    BY <1>5, <2>1, <2>2 DEF Find, history
<1>6. ASSUME NEW h \in Handler, Delete(h) PROVE TypeOK'
  <2>1. IsFiniteSet(store \ found[h]) /\ IsFiniteSet({})
    BY SubsetFinite, EmptyFinite
  <2>2. Cardinality(found[h]) \in Nat
    BY CardinalityType
  <2>3. count[h] + Cardinality(found[h]) \in Nat
    BY <2>2, SMTT(30)
  <2> QED
    BY <1>6, <2>1, <2>3 DEF Delete, history
<1>7. ASSUME NEW h \in Handler, Return(h) PROVE TypeOK'
  <2>1. <<>> \in Seq(Pattern) /\ deleted + count[h] \in Nat
    BY SMTT(30)
  <2> QED
    BY <1>7, <2>1 DEF Return
<1>8. \A pat \in Removals : <<pat>> \in Seq(Pattern)
  BY SMTT(30)
<1>9. \A patterns \in Requests : patterns \in Seq(Pattern)
  BY RequestPatterns
<1> QED
  BY <1>1, <1>2, <1>3, <1>4, <1>5, <1>6, <1>7, <1>8, <1>9
  DEF Next, Clear, Size, RemoveStatements

LEMMA CallSound ==
    ASSUME SetFacts, TypeOK, NEW h \in Handler, Sound(h),
           NEW m \in {"Clear", "Size", "RemoveStatements"}, NEW patterns \in Seq(Pattern),
           m # "RemoveStatements" => patterns \in Requests, Call(h, m, patterns)
    PROVE  Sound(h)'
<1>1. /\ pc[h] = "idle" /\ pc'[h] = "next" /\ method'[h] = m
      /\ todo'[h] = patterns /\ asked'[h] = patterns /\ before'[h] = store
      /\ store' = store /\ count'[h] = 0 /\ again'[h] = {}
  BY DEF Call, TypeOK, Sound, InTurn
<1>2. Len(patterns) \in Nat /\ Through(h)' = 0
  BY <1>1, SMTT(30) DEF Through
<1>3. 1 .. 0 = {}
  BY SMTT(30)
<1>4. Passed(h)' = {} /\ Cardinality({}) = 0
  BY <1>2, <1>3, EmptyFinite DEF Passed
<1>5. InTurn(h)'
  BY <1>1, <1>2, SMTT(30) DEF InTurn
<1>6. Cleared(h)'
  BY <1>2, <1>3 DEF Cleared
<1>7. FoundAsked(h)'
  BY <1>1 DEF FoundAsked
<1>8. Counts(h)'
  BY <1>1, <1>4 DEF Counts
<1> QED
  BY <1>5, <1>6, <1>7, <1>8 DEF Sound

LEMMA CountSound ==
    ASSUME SetFacts, TypeOK, NEW h \in Handler, Sound(h), Count(h)
    PROVE  Sound(h)'
<1>1. /\ pc[h] = "next" /\ method[h] = "Size" /\ todo[h] # <<>>
      /\ todo' = [todo EXCEPT ![h] = Tail(@)]
      /\ count'[h] = count[h] + Cardinality(Scan(store, Head(todo[h])))
      /\ UNCHANGED <<store, pc, method, found, before, again, asked>>
  BY DEF Count, TypeOK, history
<1> DEFINE k == Through(h)
           pat == Head(todo[h])
<1>2. /\ k \in Nat /\ Through(h)' = k + 1 /\ k + 1 <= Len(asked[h])
      /\ pat = asked[h][k + 1] /\ pat \in Pattern
      /\ Len(todo'[h]) <= Len(asked'[h])
      /\ \A i \in 1 .. Len(todo'[h]) : todo'[h][i] = asked'[h][Through(h)' + i]
  BY <1>1, TakesNext DEF Sound
<1>3. /\ asked[h] \in Requests /\ Len(asked[h]) \in Nat
      /\ k + 1 \in 1 .. Len(asked[h]) /\ 1 .. k \subseteq 1 .. Len(asked[h]) /\ k + 1 \notin 1 .. k
      /\ store \in SUBSET Statement /\ IsFiniteSet(store)
  BY <1>1, <1>2, SMTT(30) DEF Sound, InTurn, TypeOK
<1>4. InTurn(h)'
  BY <1>1, <1>2 DEF InTurn, Sound
<1>5. ASSUME again[h] = {}, store = before[h], IsInjective(asked[h])
      PROVE  count'[h] = Cardinality(Passed(h)')
  <2> DEFINE new == Scan(store, pat)
             old == Passed(h)
  <2>1. count[h] = Cardinality(old)
    BY <1>1, <1>5 DEF Sound, Counts
  <2>2. ASSUME NEW x \in store PROVE x \in new <=> matches(x, pat)
    <3>1. pat = AnyStatement \/ \E c \in Context : pat = InContext(c)
      BY <1>2, <1>3, RequestPatterns
    <3>2. x \in Statement
      BY <1>3, <2>2
    <3> HIDE DEF pat
    <3>3. InRange(TypeOf(pat), pat, x) <=> matches(x, pat)
      BY <3>1, <3>2, AnyScan, ContextScan
    <3> QED
      BY <2>2, <3>3 DEF Scan
  <2>3. old \subseteq store /\ new \subseteq store
    BY DEF Passed, Scan
  <2>4. Passed(h)' = {x \in store : \E i \in 1 .. (k + 1) : matches(x, asked[h][i])}
    BY <1>1, <1>2 DEF Passed
  <2>5. \A x \in store : x \in old <=> \E i \in 1 .. k : matches(x, asked[h][i])
    BY DEF Passed
  <2>6. /\ \A i \in 1 .. (k + 1) : i \in 1 .. k \/ i = k + 1
        /\ 1 .. k \subseteq 1 .. (k + 1) /\ k + 1 \in 1 .. (k + 1)
    BY <1>2, OneNumberMore
  <2> HIDE DEF new, old, pat, k
  <2>8. Passed(h)' = old \cup new
    BY <1>2, <2>2, <2>3, <2>4, <2>5, <2>6
  <2>9. old \cap new = {}
    <3> SUFFICES ASSUME NEW x \in old, x \in new PROVE FALSE
      OBVIOUS
    <3>1. x \in store /\ x \in Statement /\ matches(x, pat)
      BY <1>3, <2>2, <2>3
    <3>2. PICK i \in 1 .. k : matches(x, asked[h][i])
      BY <2>5, <3>1
    <3>3. i \in 1 .. Len(asked[h]) /\ i # k + 1
      BY <1>3
    <3> QED
      BY <1>2, <1>3, <1>5, <3>1, <3>2, <3>3, DifferentContexts
  <2>10. IsFiniteSet(old) /\ IsFiniteSet(new)
    BY <1>3, <2>3, SubsetFinite
  <2>11. Cardinality(old \cup new) = Cardinality(old) + Cardinality(new)
    BY <2>9, <2>10, UnionFinite
  <2>12. count'[h] = count[h] + Cardinality(new)
    BY <1>1 DEF new, pat
  <2> QED
    BY <2>1, <2>8, <2>11, <2>12
<1>6. Counts(h)'
  BY <1>1, <1>5 DEF Sound, Counts
<1>7. Cleared(h)' /\ FoundAsked(h)'
  BY <1>1 DEF Cleared, FoundAsked
<1> QED
  BY <1>4, <1>6, <1>7 DEF Sound

LEMMA NextSound ==
    ASSUME SetFacts, ServiceInvariant, [Next]_vars, NEW g \in Handler
    PROVE  Sound(g)'
<1>1. TypeOK /\ Sound(g)
  BY DEF ServiceInvariant
<1>2. CASE UNCHANGED vars
  BY <1>1, <1>2, OthersSound DEF vars, history
<1>3. ASSUME NEW x \in Statement, Add(x) PROVE Sound(g)'
  BY <1>1, <1>3, AddSound
<1>4. ASSUME NEW h \in Handler, NEW m \in {"Clear", "Size", "RemoveStatements"},
             NEW patterns \in Seq(Pattern), m # "RemoveStatements" => patterns \in Requests,
             Call(h, m, patterns)
      PROVE  Sound(g)'
  <2>1. CASE g = h
    BY <1>1, <1>4, <2>1, CallSound
  <2>2. CASE g # h
    BY <1>1, <1>4, <2>2, OthersSound DEF Call, TypeOK
  <2> QED
    BY <2>1, <2>2
<1>5. ASSUME NEW h \in Handler, Count(h) PROVE Sound(g)'
  <2>1. CASE g = h
    BY <1>1, <1>5, <2>1, CountSound
  <2>2. CASE g # h
    BY <1>1, <1>5, <2>2, OthersSound DEF Count, TypeOK, history
  <2> QED
    BY <2>1, <2>2
<1>6. ASSUME NEW h \in Handler, Find(h) PROVE Sound(g)'
  <2>1. CASE g = h
    BY <1>1, <1>6, <2>1, FindSound
  <2>2. CASE g # h
    BY <1>1, <1>6, <2>2, OthersSound DEF Find, TypeOK, history
  <2> QED
    BY <2>1, <2>2
<1>7. ASSUME NEW h \in Handler, Delete(h) PROVE Sound(g)'
  <2>1. CASE g = h
    BY <1>1, <1>7, <2>1, DeleteSound
  <2>2. CASE g # h
    BY <1>1, <1>7, <2>2, OthersSound DEF Delete, TypeOK, history
  <2> QED
    BY <2>1, <2>2
<1>8. ASSUME NEW h \in Handler, Return(h) PROVE Sound(g)'
  <2>1. CASE g = h
    BY <1>1, <1>8, <2>1, ReturnSound
  <2>2. CASE g # h
    BY <1>1, <1>8, <2>2, OthersSound DEF Return, TypeOK
  <2> QED
    BY <2>1, <2>2
<1>9. /\ \A pat \in Removals : <<pat>> \in Seq(Pattern)
      /\ \A patterns \in Requests : patterns \in Seq(Pattern)
  BY RequestPatterns, SMTT(30)
<1> QED
  BY <1>2, <1>3, <1>4, <1>5, <1>6, <1>7, <1>8, <1>9 DEF Next, Clear, Size, RemoveStatements

LEMMA NextService ==
    ASSUME SetFacts, ServiceInvariant, [Next]_vars
    PROVE  ServiceInvariant'
  BY NextType, NextSound DEF ServiceInvariant

\* A handler of Clear that is through has cleared the patterns it was asked for.
LEMMA ClearedFollows ==
    ASSUME ServiceInvariant
    PROVE  ClearedAll
<1> SUFFICES ASSUME NEW h \in Handler, Done(h), method[h] = "Clear",
                    NEW x \in before[h] \cap store,
                    NEW i \in DOMAIN asked[h], matches(x, asked[h][i])
             PROVE  x \in again[h]
  BY DEF ClearedAll, Asked
<1>1. asked[h] \in Seq(Pattern) /\ todo[h] = <<>> /\ pc[h] = "next"
  BY DEF ServiceInvariant, TypeOK, Done
<1>2. Through(h) = Len(asked[h]) /\ i \in 1 .. Len(asked[h])
  BY <1>1, SMTT(30) DEF Through
<1> QED
  BY <1>1, <1>2 DEF ServiceInvariant, Sound, Cleared

\* What it deletes matches the pattern that it is at.
LEMMA DeletesAsked ==
    ASSUME ServiceInvariant, NEW h \in Handler, method[h] = "Clear", Delete(h),
           NEW x \in store \ store'
    PROVE  Asked(h, x)
<1>1. pc[h] = "write" /\ x \in found[h] /\ Sound(h)
  BY DEF Delete, ServiceInvariant
<1>2. asked[h] \in Seq(Pattern) /\ todo[h] \in Seq(Pattern)
  BY DEF ServiceInvariant, TypeOK
<1>3. Through(h) \in 1 .. Len(asked[h])
  <2>1. Through(h) >= 1 /\ Through(h) = Len(asked[h]) - Len(todo[h])
    BY <1>1 DEF Sound, InTurn, Through
  <2>2. Len(asked[h]) \in Nat /\ Len(todo[h]) \in Nat
    BY <1>2, SMTT(30)
  <2>3. \A a, b \in Nat : a - b >= 1 => a - b \in 1 .. a
    BY SMTT(30)
  <2> QED
    BY <2>1, <2>2, <2>3
<1>4. matches(x, asked[h][Through(h)])
  BY <1>1 DEF Sound, FoundAsked
<1> QED
  BY <1>2, <1>3, <1>4, SMTT(30) DEF Asked

LEMMA ClearStep ==
    ASSUME ServiceInvariant
    PROVE  \A h \in Handler : method[h] = "Clear" /\ Delete(h)
              => \A x \in store \ store' : Asked(h, x)
  BY DeletesAsked

\* A handler of Size that is through has counted what its patterns match.
LEMMA SizeFollows ==
    ASSUME ServiceInvariant
    PROVE  SizeExact
<1> SUFFICES ASSUME NEW h \in Handler, Done(h), method[h] = "Size", Undisturbed(h),
                    IsInjective(asked[h])
             PROVE  count[h] = Cardinality({x \in store : Asked(h, x)})
  BY DEF SizeExact
<1>1. asked[h] \in Seq(Pattern) /\ todo[h] = <<>> /\ pc[h] = "next" /\ Sound(h)
  BY DEF ServiceInvariant, TypeOK, Done
<1>2. Through(h) = Len(asked[h]) /\ DOMAIN asked[h] = 1 .. Len(asked[h])
  BY <1>1, SMTT(30) DEF Through
<1>3. Passed(h) = {x \in store : Asked(h, x)}
  BY <1>2 DEF Passed, Asked
<1>4. count[h] = Cardinality(Passed(h))
  BY <1>1 DEF Sound, Counts, Undisturbed
<1> QED
  BY <1>3, <1>4

-----------------------------------------------------------------------------
(* The theorems *)

INSTANCE FiniteSetTheorems

\* The library proves the facts about sets that the lemmas above assume.
LEMMA Library == SetFacts
<1>1. ASSUME NEW T \in SUBSET Nat, T # {} PROVE \E m \in T : \A n \in T : m <= n
  <2> DEFINE R == {ss \in Nat \X Nat : ss[1] < ss[2]}
  <2>1. IsWellFoundedOn(R, Nat)
    BY NatLessThanWellFounded DEF OpToRel
  <2> HIDE DEF R
  <2>2. PICK m \in T : \A n \in T : ~(<<n, m>> \in R)
    BY <1>1, <2>1, WFMin
  <2>3. ASSUME NEW n \in T PROVE m <= n
    <3>1. m \in Nat /\ n \in Nat /\ ~(<<n, m>> \in R)
      BY <2>2
    <3>2. ~(n < m)
      BY <3>1 DEF R
    <3> QED
      BY <3>1, <3>2, SMTT(30)
  <2> QED
    BY <2>3
<1>2. IsFiniteSet({}) /\ Cardinality({}) = 0
  BY FS_EmptySet
<1>3. \A n \in Nat : IsFiniteSet(1 .. n)
  BY FS_Interval, SMTT(30)
<1>4. \A S : IsFiniteSet(S) => Cardinality(S) \in Nat
  BY FS_CardinalityType
<1>5. \A S : IsFiniteSet(S) => \A T \in SUBSET S : IsFiniteSet(T)
  BY FS_Subset
<1>6. ASSUME NEW S, NEW x, IsFiniteSet(S)
      PROVE  /\ IsFiniteSet(S \cup {x})
             /\ x \notin S => Cardinality(S \cup {x}) = Cardinality(S) + 1
  BY <1>6, FS_AddElement
<1>7. ASSUME NEW S, NEW T, IsFiniteSet(S), IsFiniteSet(T), S \cap T = {}
      PROVE  /\ IsFiniteSet(S \cup T)
             /\ Cardinality(S \cup T) = Cardinality(S) + Cardinality(T)
  <2>1. /\ IsFiniteSet(S \cup T)
        /\ Cardinality(S \cup T) = Cardinality(S) + Cardinality(T) - Cardinality(S \cap T)
    BY <1>7, FS_Union
  <2>2. Cardinality(S \cap T) = 0
    BY <1>2, <1>7
  <2>3. Cardinality(S) \in Nat /\ Cardinality(T) \in Nat
    BY <1>4, <1>7
  <2> QED
    BY <2>1, <2>2, <2>3, SMTT(30)
<1> QED
  BY <1>1, <1>2, <1>3, <1>4, <1>5, <1>6, <1>7 DEF SetFacts

\* The type of the state of TupleQuery, for any store, queries and other clients:
\* a column is entered with the columns before it open and those after it closed,
\* and with no variable set that a column before it has not bound.
THEOREM QueryTypes == QuerySpec => []QueryTypeOK
<1>1. QueryShape => QueryTypeOK
  BY DEF QueryShape
<1> QED
  BY <1>1, Library, ShapeInit, ShapeStep, PTL DEF QuerySpec

\* For queries the indexes answer exactly, whatever other clients write: every row
\* TupleQuery hands out has for each pattern of the query a statement that was
\* stored at some time during the query.
THEOREM RowsAreStored ==
    ASSUME Exact
    PROVE  QuerySpec => []RowsWereStored
<1>1. JoinInvariant => RowsWereStored
  BY DEF JoinInvariant
<1> QED
  BY <1>1, Library, JoinInvariantInit, JoinInvariantStep, PTL DEF QuerySpec

\* For queries the indexes answer exactly: when TupleQuery is done, nothing was
\* written meanwhile and Rasqal's formats are those stored, it has handed out each
\* solution of the query, as one row.
THEOREM JoinsAreComplete ==
    ASSUME Exact
    PROVE  QuerySpec => []JoinComplete
  BY Library, JoinInvariantInit, JoinInvariantStep, CompleteFollows, PTL DEF QuerySpec

\* How far each handler is, what it has found and counted: LevelDBService's loops
\* over contexts, for any number of handlers and contexts.
THEOREM ServiceInvariantHolds == Spec => []ServiceInvariant
  BY Library, InitService, NextService, PTL DEF Spec

\* When Clear returns, nothing is left of what its contexts held when it was called
\* but what was added again since, whatever the other handlers do in between.
THEOREM ClearClearsAll == Spec => []ClearedAll
  BY ClearedFollows, ServiceInvariantHolds, PTL

\* Clear deletes nothing outside of the contexts that it was asked to clear.
THEOREM ClearTakesOnlyAsked == Spec => ClearsOnlyAsked
  BY ClearStep, ServiceInvariantHolds, PTL DEF ClearsOnlyAsked

\* If nothing was written meanwhile, Size of different contexts is the number of
\* statements in them, for any number of contexts.
THEOREM SizeCountsExactly == Spec => []SizeExact
  BY SizeFollows, ServiceInvariantHolds, PTL
=============================================================================
