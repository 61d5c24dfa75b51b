----------------------------- MODULE RdfModel -------------------------------
(***************************************************************************)
(* The C++ model classes.  URI, BNode, StringLiteral and DatatypeLiteral   *)
(* (here: leaves) wrap one message; Value and Resource wrap a message that *)
(* holds one of several leaves, and say in a member of their own, type,    *)
(* which; Statement wraps the messages of its parts.  Copying assignments  *)
(* and setters are written with MergeFrom, moving ones with Swap.          *)
(*                                                                         *)
(* A step is one call by a program that uses the classes.  Subject and     *)
(* predicate of a statement are handled like its object and are left out.  *)
(***************************************************************************)
EXTENDS Naturals

CONSTANTS
    Leaf, Val, Res, Stmt,   \* the objects: leaves, Values, Resources, Statements
    Kind,                   \* the class of each leaf
    Content, Tag            \* strings: contents, and languages or datatypes

\* The strings include the empty string, the default of every field.
ASSUME ModelAssumption ==
    /\ \A l \in Leaf : Kind[l] \in {"URI", "BNODE", "STRING_LITERAL", "DATATYPE_LITERAL"}
    /\ Val \cap Res = {}
    /\ "" \in Content /\ "" \in Tag

VARIABLES
    leaf,   \* per leaf, the fields of its message
    val,    \* per Value and Resource, its type and the message it wraps
    stmt    \* per Statement, its object and its context

modelVars == <<leaf, val, stmt>>

\* URIs and blank nodes have a single field.
Text(k) == [content : Content, tag : IF k \in {"URI", "BNODE"} THEN {""} ELSE Tag]

EmptyText == [content |-> "", tag |-> ""]

\* A message that holds one leaf, or none.
Holds(k, text) == [case |-> k, text |-> text]

EmptyMessage == Holds("NONE", EmptyText)

AllKinds == {"URI", "BNODE", "STRING_LITERAL", "DATATYPE_LITERAL"}

Resources == {"URI", "BNODE"}

Kinds(v) == IF v \in Res THEN Resources ELSE AllKinds

\* The messages that hold a leaf of one of the kinds K, or none.
Messages(K) == {EmptyMessage} \cup UNION {{Holds(k, t) : t \in Text(k)} : k \in K}

\* MergeFrom on the fields: an empty string is a field that is not set.
MergeText(a, b) ==
    [content |-> IF b.content # "" THEN b.content ELSE a.content,
     tag |-> IF b.tag # "" THEN b.tag ELSE a.tag]

\* mutable_...: the leaf of kind k, emptied if the message held another one.
Mutable(m, k) == IF m.case = k THEN m.text ELSE EmptyText

\* MergeFrom on messages that hold one of several leaves.
Merge(m, n) ==
    IF n.case = "NONE" THEN m ELSE Holds(n.case, MergeText(Mutable(m, n.case), n.text))

Absent == [set |-> FALSE, msg |-> EmptyMessage]

Present(m) == [set |-> TRUE, msg |-> m]

\* MergeFrom on the parts of a statement.
MergePart(a, b) == IF b.set THEN Present(Merge(a.msg, b.msg)) ELSE a

EmptyStatement == [o |-> Absent, c |-> Absent]

ModelInit ==
    /\ leaf = [l \in Leaf |-> EmptyText]
    /\ val = [v \in Val \cup Res |-> [type |-> "NONE", msg |-> EmptyMessage]]
    /\ stmt = [s \in Stmt |-> EmptyStatement]

-----------------------------------------------------------------------------
\* The constructors and setters of a leaf.
SetLeaf(l) ==
    /\ \E t \in Text(Kind[l]) : leaf' = [leaf EXCEPT ![l] = t]
    /\ UNCHANGED <<val, stmt>>

LeafCopy(l, m) ==
    /\ Kind[l] = Kind[m]
    /\ leaf' = [leaf EXCEPT ![l] = MergeText(@, leaf[m])]
    /\ UNCHANGED <<val, stmt>>

LeafMove(l, m) ==
    /\ Kind[l] = Kind[m] /\ l # m
    /\ leaf' = [leaf EXCEPT ![l] = leaf[m], ![m] = leaf[l]]
    /\ UNCHANGED <<val, stmt>>

\* The constructors of Value and Resource from a leaf, copied or moved.
Construct(v, l) ==
    /\ Kind[l] \in Kinds(v)
    /\ val' = [val EXCEPT ![v] = [type |-> Kind[l], msg |-> Holds(Kind[l], leaf[l])]]
    /\ leaf' \in {leaf, [leaf EXCEPT ![l] = EmptyText]}
    /\ UNCHANGED stmt

\* Mutant: the type is left as it was.
AssignTypeless(v, l) ==
    /\ Kind[l] \in Kinds(v)
    /\ val' = [val EXCEPT ![v].msg = Merge(@, Holds(Kind[l], leaf[l]))]
    /\ UNCHANGED <<leaf, stmt>>

\* operator=(const URI&) and its like.
AssignCopy(v, l) ==
    /\ Kind[l] \in Kinds(v)
    /\ val' = [val EXCEPT ![v] =
            [type |-> Kind[l], msg |-> Merge(@.msg, Holds(Kind[l], leaf[l]))]]
    /\ UNCHANGED <<leaf, stmt>>

\* operator=(URI&&) and its like.
AssignMove(v, l) ==
    /\ Kind[l] \in Kinds(v)
    /\ val' = [val EXCEPT ![v] = [type |-> Kind[l], msg |-> Holds(Kind[l], leaf[l])]]
    /\ leaf' = [leaf EXCEPT ![l] = Mutable(val[v].msg, Kind[l])]
    /\ UNCHANGED stmt

\* The assignments the compiler writes.
AssignValue(v, w) ==
    /\ v \in Res <=> w \in Res
    /\ val' = [val EXCEPT ![v] = val[w]]
    /\ UNCHANGED <<leaf, stmt>>

\* The constructors of Statement without and with a context.  The ones that move
\* leave the types of their arguments alone.
NewStatement(s, v, r) ==
    /\ \E c \in {Absent, Present(val[r].msg)} :
        /\ stmt' = [stmt EXCEPT ![s] = [o |-> Present(val[v].msg), c |-> c]]
        /\ \/ val' = val
           \/ val' = [val EXCEPT ![v].msg = EmptyMessage,
                                 ![r].msg = IF c.set THEN EmptyMessage ELSE @]
    /\ UNCHANGED leaf

setObject(s, v) ==
    /\ stmt' = [stmt EXCEPT ![s].o = MergePart(@, Present(val[v].msg))]
    /\ UNCHANGED <<leaf, val>>

setContext(s, r) ==
    /\ stmt' = [stmt EXCEPT ![s].c = MergePart(@, Present(val[r].msg))]
    /\ UNCHANGED <<leaf, val>>

StatementCopy(s, t) ==
    /\ stmt' = [stmt EXCEPT ![s] =
            [o |-> MergePart(@.o, stmt[t].o), c |-> MergePart(@.c, stmt[t].c)]]
    /\ UNCHANGED <<leaf, val>>

StatementMove(s, t) ==
    /\ s # t
    /\ stmt' = [stmt EXCEPT ![s] = stmt[t], ![t] = stmt[s]]
    /\ UNCHANGED <<leaf, val>>

\* Value(const proto::Value&) and Resource(const proto::Resource&).
FromMessage(m) == [type |-> m.case, msg |-> m]

getObject(v, s) ==
    /\ val' = [val EXCEPT ![v] = FromMessage(stmt[s].o.msg)]
    /\ UNCHANGED <<leaf, stmt>>

getContext(r, s) ==
    /\ val' = [val EXCEPT ![r] = FromMessage(stmt[s].c.msg)]
    /\ UNCHANGED <<leaf, stmt>>

-----------------------------------------------------------------------------
ModelNext ==
    \/ \E l \in Leaf : SetLeaf(l)
    \/ \E l, m \in Leaf : LeafCopy(l, m) \/ LeafMove(l, m)
    \/ \E v \in Val \cup Res, l \in Leaf : Construct(v, l) \/ AssignCopy(v, l) \/ AssignMove(v, l)
    \/ \E v, w \in Val \cup Res : AssignValue(v, w)
    \/ \E s \in Stmt, v \in Val, r \in Res :
        \/ NewStatement(s, v, r)
        \/ setObject(s, v) \/ getObject(v, s)
        \/ setContext(s, r) \/ getContext(r, s)
    \/ \E s, t \in Stmt : StatementCopy(s, t) \/ StatementMove(s, t)

ModelSpec == ModelInit /\ [][ModelNext]_modelVars

-----------------------------------------------------------------------------
\* Value::stringValue and Resource::stringValue switch on type.
stringValue(v) == Mutable(v.msg, v.type).content

\* Mutant: literals are equal if their contents are.
SameContent(k, a, b) == a.content = b.content

\* operator== of the leaves of kind k.
SameText(k, a, b) == a.content = b.content /\ (k \notin Resources => a.tag = b.tag)

\* operator== looks at the messages, and nothing is equal to an empty one.
Equal(m, n) == m.case = n.case /\ m.case # "NONE" /\ SameText(m.case, m.text, n.text)

\* as_turtle goes by the message: the delimiters, the content and the suffix.
as_turtle(m) ==
    CASE m.case = "NONE" -> <<>>
      [] m.case = "URI" -> <<"<>", m.text.content>>
      [] m.case = "BNODE" -> <<"_:", m.text.content>>
      [] m.case = "STRING_LITERAL" /\ m.text.tag = "" -> <<"''", m.text.content>>
      [] m.case = "STRING_LITERAL" /\ m.text.tag # "" -> <<"''@", m.text.content, m.text.tag>>
      [] m.case = "DATATYPE_LITERAL" -> <<"''^^", m.text.content, m.text.tag>>

\* Every message is one that its protobuf type allows: a oneof holds the fields of
\* its case only, and a Resource or a context holds no literal.
ModelTypeOK ==
    /\ leaf \in [Leaf -> [content : Content, tag : Tag]]
    /\ \A l \in Leaf : leaf[l] \in Text(Kind[l])
    /\ val \in [Val \cup Res -> [type : AllKinds \cup {"NONE"}, msg : Messages(AllKinds)]]
    /\ \A r \in Res : val[r].msg \in Messages(Resources)
    /\ stmt \in [Stmt -> [o : [set : BOOLEAN, msg : Messages(AllKinds)],
                          c : [set : BOOLEAN, msg : Messages(Resources)]]]

\* The type of a Value or Resource names the leaf that its message holds, after
\* any sequence of constructions, assignments, moves and reads from statements.
\* An object whose message was moved away is empty, whatever its type says.
TypeIsCase ==
    \A v \in Val \cup Res : val[v].msg.case # "NONE" => val[v].type = val[v].msg.case

\* The values and resources of the program, and those its statements give out.
Terms == {val[v] : v \in Val \cup Res} \cup {FromMessage(stmt[s][f].msg) : s \in Stmt, f \in {"o", "c"}}

\* Values that operator== finds equal, by their messages, print alike, by their
\* types and by their messages: they stand for one RDF term.
EqualPrintAlike ==
    \A a, b \in Terms : Equal(a.msg, b.msg) =>
        /\ stringValue(a) = stringValue(b)
        /\ as_turtle(a.msg) = as_turtle(b.msg)

\* "All objects implement copy as well as efficient move operations for
\* constructors and assignment operators." (rdf_model.h): after an assignment
\* s = t the two statements have the same object and context.
\* The code does not keep this: see the README.
AssignmentCopies ==
    [][\A s, t \in Stmt : StatementCopy(s, t) => stmt'[s] = stmt[t]]_modelVars
=============================================================================
