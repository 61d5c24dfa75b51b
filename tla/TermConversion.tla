--------------------------- MODULE TermConversion ---------------------------
(***************************************************************************)
(* The ways of a term out of its message and back: through raptor (the     *)
(* serializer writes what the parser reads) and through Sesame (the Java   *)
(* model hands out objects and builds messages from them).  The messages   *)
(* are those that programs of RdfModel come by.                            *)
(*                                                                         *)
(* A term of a library is its type, its string, and the language and the   *)
(* datatype of a literal, which may be Null.                               *)
(***************************************************************************)
EXTENDS RdfModel

CONSTANT Null       \* a NULL pointer or null reference

\* It is none of the strings, and no term.
ASSUME NullAssumption ==
    /\ Null \notin Content \cup Tag
    /\ Null \notin [type : {"URI", "BLANK", "BNode", "LITERAL", "Literal"}, string : Content,
                     language : Tag \cup {Null}, datatype : Tag \cup {Null}]

Term(type, string, language, datatype) ==
    [type |-> type, string |-> string, language |-> language, datatype |-> datatype]

OrNull(string) == IF string = "" THEN Null ELSE string

OrEmpty(string) == IF string = Null THEN "" ELSE string

(***************************************************************************)
(* raptor                                                                  *)
(***************************************************************************)
\* raptor makes no URI of the empty string.
raptorUri(string) == IF string = "" THEN Null ELSE Term("URI", string, Null, Null)

\* raptor takes an empty language for none.
raptorLiteral(string, language, datatype) == Term("LITERAL", string, OrNull(language), datatype)

\* Mutant: the language of a literal is not passed on.
serializeTermPlain(m) ==
    CASE m.case = "URI" -> raptorUri(m.text.content)
      [] m.case = "BNODE" -> Term("BLANK", m.text.content, Null, Null)
      [] m.case = "STRING_LITERAL" -> raptorLiteral(m.text.content, "", Null)
      [] m.case = "DATATYPE_LITERAL" -> raptorLiteral(m.text.content, "", OrNull(m.text.tag))

\* RaptorSerializer::serialize, for an object and (the first two) for a context.
serializeTerm(m) ==
    CASE m.case = "URI" -> raptorUri(m.text.content)
      [] m.case = "BNODE" -> Term("BLANK", m.text.content, Null, Null)
      [] m.case = "STRING_LITERAL" -> raptorLiteral(m.text.content, m.text.tag, Null)
      [] m.case = "DATATYPE_LITERAL" -> raptorLiteral(m.text.content, "", OrNull(m.text.tag))

\* raptor_stmt_handler, for an object.
parseObject(t) ==
    CASE t.type = "URI" -> Holds("URI", [content |-> t.string, tag |-> ""])
      [] t.type = "BLANK" -> Holds("BNODE", [content |-> t.string, tag |-> ""])
      [] t.type = "LITERAL" /\ t.language # Null ->
            Holds("STRING_LITERAL", [content |-> t.string, tag |-> t.language])
      [] t.type = "LITERAL" /\ t.language = Null /\ t.datatype # Null ->
            Holds("DATATYPE_LITERAL", [content |-> t.string, tag |-> t.datatype])
      [] t.type = "LITERAL" /\ t.language = Null /\ t.datatype = Null ->
            Holds("STRING_LITERAL", [content |-> t.string, tag |-> ""])

\* Its end: a statement that is in no graph gets the context rdf::URI().
parseGraph(t) == IF t = Null THEN Holds("URI", EmptyText) ELSE parseObject(t)

(***************************************************************************)
(* Sesame                                                                  *)
(***************************************************************************)
\* ProtoStatement.getObject and getContext, with the accessors of the classes.
ToSesame(m) ==
    CASE m.case = "NONE" -> Null
      [] m.case = "URI" -> Term("URI", m.text.content, Null, Null)
      [] m.case = "BNODE" -> Term("BNode", m.text.content, Null, Null)
      [] m.case = "STRING_LITERAL" -> Term("Literal", m.text.content, OrNull(m.text.tag), Null)
      [] m.case = "DATATYPE_LITERAL" -> Term("Literal", m.text.content, Null, m.text.tag)

\* The constructor of ProtoStatement, for objects of other classes than its own.
FromSesame(t) ==
    CASE t.type = "URI" -> Holds("URI", [content |-> t.string, tag |-> ""])
      [] t.type = "BNode" -> Holds("BNODE", [content |-> t.string, tag |-> ""])
      [] t.type = "Literal" /\ t.datatype # Null ->
            Holds("DATATYPE_LITERAL", [content |-> t.string, tag |-> t.datatype])
      [] t.type = "Literal" /\ t.datatype = Null ->
            Holds("STRING_LITERAL", [content |-> t.string, tag |-> OrEmpty(t.language)])

\* ProtoURI, ProtoBNode and ProtoLiteralBase: t.equals(w).
equals(t, w) ==
    /\ t.type = w.type
    /\ t.string = w.string
    /\ t.language # Null => t.language = w.language
    /\ t.datatype = w.datatype

\* convert in directTupleQuery: a URI falls through to the case of a blank node,
\* and a string literal to the case of a datatype literal.
BindingToSesame(m) ==
    CASE m.case = "NONE" -> Null
      [] m.case = "URI" -> Term("BNode", "", Null, Null)
      [] m.case = "BNODE" -> Term("BNode", m.text.content, Null, Null)
      [] m.case = "STRING_LITERAL" -> Term("Literal", "", Null, Null)
      [] m.case = "DATATYPE_LITERAL" -> Term("Literal", m.text.content, Null, m.text.tag)

-----------------------------------------------------------------------------
\* A term that RDF knows: a URI, an identifier or a datatype is not empty.
Proper(m) ==
    /\ m.case # "NONE"
    /\ m.case \in {"URI", "BNODE"} => m.text.content # ""
    /\ m.case = "DATATYPE_LITERAL" => m.text.tag # ""

\* It comes back as it went.
Returns(m) == parseGraph(serializeTerm(m)) = m /\ FromSesame(ToSesame(m)) = m

AllReturn == \A m \in Messages(AllKinds) : Proper(m) => Returns(m)

\* What the client or the Java frontend writes out, it reads in as the same term,
\* for every term and whatever assignments made of it: the kinds of literals are
\* not confused although the libraries do not have them.  The default graph of a
\* document is the context with an empty URI, on both ways.
RoundTrip ==
    /\ AllReturn
    /\ Returns(Holds("URI", EmptyText))
    /\ \A s \in Stmt, f \in {"o", "c"} : Proper(stmt[s][f].msg) => Returns(stmt[s][f].msg)

\* Terms of the Java model are equal exactly if those of the C++ model are.
\* The code does not keep this: see the README.
EqualsAgree ==
    \A a, b \in Terms : (Proper(a.msg) /\ Proper(b.msg)) =>
        (equals(ToSesame(a.msg), ToSesame(b.msg)) <=> Equal(a.msg, b.msg))

\* The binding of a variable in a SPARQL result is the term that was found.
\* The code does not keep this: see the README.
BindingKeepsTerm == \A a \in Terms : BindingToSesame(a.msg) = ToSesame(a.msg)
=============================================================================
