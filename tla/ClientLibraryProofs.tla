------------------------ MODULE ClientLibraryProofs -------------------------
(***************************************************************************)
(* What client programs are built from: the classes for RDF terms with     *)
(* their conversions, and the Java client's connection to a server.        *)
(***************************************************************************)
EXTENDS TermConversion, SailConnection, TLAPS

\* The time the provers have for a step.
USE SMTT(30), ZenonT(30)

-----------------------------------------------------------------------------
(* RdfModel and TermConversion: types, equality and conversions agree, for *)
(* any number of objects and any strings.                                  *)

\* The texts of a kind, with the empty one and merges among them.
LEMMA TextClosed ==
    ASSUME NEW k
    PROVE  /\ EmptyText \in Text(k)
           /\ \A a, b \in Text(k) : MergeText(a, b) \in Text(k)
<1>1. "" \in Content /\ "" \in Tag
  BY ModelAssumption, ZenonT(30)
<1>2. CASE k \in {"URI", "BNODE"}
  BY <1>1, <1>2, ZenonT(30) DEF Text, EmptyText, MergeText
<1>3. CASE k \notin {"URI", "BNODE"}
  BY <1>1, <1>3, ZenonT(30) DEF Text, EmptyText, MergeText
<1> QED
  BY <1>2, <1>3

\* A message holds a text of its kind, and its kind is not "NONE" if it holds one.
LEMMA MessageCases ==
    ASSUME NEW K \in SUBSET AllKinds, NEW m \in Messages(K)
    PROVE  /\ m = Holds(m.case, m.text)
           /\ m.case = "NONE" => m = EmptyMessage
           /\ m.case # "NONE" => m.case \in K /\ m.text \in Text(m.case)
<1>1. CASE m = EmptyMessage
  BY <1>1 DEF EmptyMessage, Holds
<1>2. CASE m # EmptyMessage
  <2>0. PICK k \in K : \E t \in Text(k) : m = Holds(k, t)
    BY <1>2 DEF Messages
  <2>1. PICK t \in Text(k) : m = Holds(k, t)
    BY <2>0
  <2>2. m.case = k /\ m.text = t
    BY <2>1 DEF Holds
  <2>3. k # "NONE"
    BY DEF AllKinds
  <2> QED
    BY <2>1, <2>2, <2>3
<1> QED
  BY <1>1, <1>2

LEMMA HoldsType ==
    ASSUME NEW K \in SUBSET AllKinds, NEW k \in K, NEW t \in Text(k)
    PROVE  /\ Holds(k, t) \in Messages(K)
           /\ Holds(k, t).case = k
           /\ Holds(k, t).text = t
BY DEF Messages, Holds

\* mutable_... gives a text of the kind asked for.
LEMMA MutableType ==
    ASSUME NEW K \in SUBSET AllKinds, NEW m \in Messages(K), NEW k \in AllKinds
    PROVE  Mutable(m, k) \in Text(k)
<1>1. k # "NONE"
  BY DEF AllKinds
<1> QED
  BY <1>1, MessageCases, TextClosed DEF Mutable

\* MergeFrom on messages gives a message, of the kind merged in.
LEMMA MergeType ==
    ASSUME NEW K \in SUBSET AllKinds, NEW m \in Messages(K), NEW n \in Messages(K)
    PROVE  /\ Merge(m, n) \in Messages(K)
           /\ n.case # "NONE" => Merge(m, n).case = n.case
           /\ n.case = "NONE" => Merge(m, n) = m
<1>1. CASE n.case = "NONE"
  BY <1>1 DEF Merge
<1>2. CASE n.case # "NONE"
  <2>1. n.case \in K /\ n.text \in Text(n.case)
    BY <1>2, MessageCases
  <2>2. Mutable(m, n.case) \in Text(n.case)
    BY <2>1, MutableType
  <2>3. MergeText(Mutable(m, n.case), n.text) \in Text(n.case)
    BY <2>1, <2>2, TextClosed
  <2>4. Merge(m, n) = Holds(n.case, MergeText(Mutable(m, n.case), n.text))
    BY <1>2 DEF Merge
  <2> QED
    BY <1>2, <2>1, <2>3, <2>4, HoldsType
<1> QED
  BY <1>1, <1>2

LEMMA ResourcesAreValues ==
    ASSUME NEW v \in Val \cup Res
    PROVE  /\ Kinds(v) \in SUBSET AllKinds
           /\ Messages(Kinds(v)) \subseteq Messages(AllKinds)
           /\ v \in Res => Kinds(v) = Resources
           /\ v \in Val => Kinds(v) = AllKinds
           /\ EmptyMessage \in Messages(Kinds(v))
<1>1. Kinds(v) \in SUBSET AllKinds
  BY DEF Kinds, Resources, AllKinds
<1>2. Messages(Kinds(v)) \subseteq Messages(AllKinds)
  BY <1>1 DEF Messages
<1>3. /\ v \in Res => Kinds(v) = Resources
      /\ v \in Val => Kinds(v) = AllKinds
  BY ModelAssumption, ZenonT(30) DEF Kinds
<1>4. EmptyMessage \in Messages(Kinds(v))
  BY DEF Messages
<1> QED
  BY <1>1, <1>2, <1>3, <1>4

-----------------------------------------------------------------------------
(***************************************************************************)
(* The invariant, in three parts.                                          *)
(***************************************************************************)
LeafOK ==
    /\ leaf \in [Leaf -> [content : Content, tag : Tag]]
    /\ \A l \in Leaf : leaf[l] \in Text(Kind[l])

ValOK ==
    /\ val \in [Val \cup Res -> [type : AllKinds \cup {"NONE"}, msg : Messages(AllKinds)]]
    /\ \A r \in Res : val[r].msg \in Messages(Resources)
    /\ \A v \in Val \cup Res : val[v].msg.case # "NONE" => val[v].type = val[v].msg.case

StmtOK ==
    stmt \in [Stmt -> [o : [set : BOOLEAN, msg : Messages(AllKinds)],
                       c : [set : BOOLEAN, msg : Messages(Resources)]]]

ModelInvariant == LeafOK /\ ValOK /\ StmtOK

LEMMA InvariantIsTyped == ModelInvariant <=> ModelTypeOK /\ TypeIsCase
BY DEF ModelInvariant, LeafOK, ValOK, StmtOK, ModelTypeOK, TypeIsCase

\* A leaf is of one of the kinds, and its text is of that kind.
LEMMA LeafType ==
    ASSUME LeafOK, NEW l \in Leaf
    PROVE  Kind[l] \in AllKinds /\ leaf[l] \in Text(Kind[l])
BY ModelAssumption, ZenonT(30) DEF LeafOK, AllKinds

\* Giving a leaf a text of its kind keeps the leaves.
LEMMA LeafSet ==
    ASSUME LeafOK, NEW l \in Leaf, NEW t \in Text(Kind[l]), leaf' = [leaf EXCEPT ![l] = t]
    PROVE  LeafOK'
<1>1. t \in [content : Content, tag : Tag]
  BY ModelAssumption, ZenonT(30) DEF Text
<1>2. leaf' \in [Leaf -> [content : Content, tag : Tag]]
  BY <1>1 DEF LeafOK
<1>3. \A m \in Leaf : leaf'[m] = IF m = l THEN t ELSE leaf[m]
  BY DEF LeafOK
<1> QED
  BY <1>2, <1>3 DEF LeafOK

\* What a value wraps is a message of its class, of the kind its type says.
LEMMA ValType ==
    ASSUME ValOK, NEW v \in Val \cup Res
    PROVE  /\ val[v].msg \in Messages(Kinds(v))
           /\ val[v].type \in AllKinds \cup {"NONE"}
           /\ val[v] = [type |-> val[v].type, msg |-> val[v].msg]
           /\ val[v].msg.case # "NONE" => val[v].type = val[v].msg.case
<1>1. CASE v \in Res
  BY <1>1, ResourcesAreValues DEF ValOK
<1>2. CASE v \in Val
  BY <1>2, ResourcesAreValues DEF ValOK
<1> QED
  BY <1>1, <1>2

\* Giving a value a message of its class, with the type that fits, keeps the values.
LEMMA ValSet ==
    ASSUME ValOK, NEW v \in Val \cup Res, NEW ty \in AllKinds \cup {"NONE"},
           NEW m \in Messages(Kinds(v)), m.case # "NONE" => ty = m.case,
           val' = [val EXCEPT ![v] = [type |-> ty, msg |-> m]]
    PROVE  ValOK'
<1>1. \A w \in Val \cup Res : val'[w] = IF w = v THEN [type |-> ty, msg |-> m] ELSE val[w]
  BY DEF ValOK
<1>2. m \in Messages(AllKinds)
  BY ResourcesAreValues
<1>3. val' \in [Val \cup Res -> [type : AllKinds \cup {"NONE"}, msg : Messages(AllKinds)]]
  BY <1>2 DEF ValOK
<1>4. \A r \in Res : val'[r].msg \in Messages(Resources)
  BY <1>1, ResourcesAreValues DEF ValOK
<1>5. \A w \in Val \cup Res : val'[w].msg.case # "NONE" => val'[w].type = val'[w].msg.case
  BY <1>1 DEF ValOK
<1> QED
  BY <1>3, <1>4, <1>5 DEF ValOK

\* Parts of statements, and what MergeFrom makes of them.
Part(K) == [set : BOOLEAN, msg : Messages(K)]

LEMMA PartType ==
    ASSUME NEW K \in SUBSET AllKinds
    PROVE  /\ Absent \in Part(K)
           /\ \A m \in Messages(K) : Present(m) \in Part(K)
           /\ \A a, b \in Part(K) : MergePart(a, b) \in Part(K)
<1>1. Absent \in Part(K)
  BY DEF Absent, Part, Messages
<1>2. \A m \in Messages(K) : Present(m) \in Part(K)
  BY DEF Present, Part
<1>3. \A a, b \in Part(K) : MergePart(a, b) \in Part(K)
  BY <1>2, MergeType DEF MergePart, Part
<1> QED
  BY <1>1, <1>2, <1>3

LEMMA StmtSet ==
    ASSUME StmtOK, NEW s \in Stmt, NEW o \in Part(AllKinds), NEW c \in Part(Resources),
           stmt' = [stmt EXCEPT ![s] = [o |-> o, c |-> c]]
    PROVE  StmtOK'
BY DEF StmtOK, Part

LEMMA StmtType ==
    ASSUME StmtOK, NEW s \in Stmt
    PROVE  /\ stmt[s].o \in Part(AllKinds) /\ stmt[s].o.msg \in Messages(AllKinds)
           /\ stmt[s].c \in Part(Resources) /\ stmt[s].c.msg \in Messages(Resources)
           /\ stmt[s] = [o |-> stmt[s].o, c |-> stmt[s].c]
BY DEF StmtOK, Part

-----------------------------------------------------------------------------
(***************************************************************************)
(* Every call of the classes keeps the invariant.                          *)
(***************************************************************************)
LEMMA InitModel == ModelInit => ModelInvariant
<1> SUFFICES ASSUME ModelInit
             PROVE  ModelInvariant
  OBVIOUS
<1>1. LeafOK
  BY TextClosed, ModelAssumption, ZenonT(30) DEF ModelInit, LeafOK, EmptyText
<1>2. ValOK
  <2>1. EmptyMessage \in Messages(AllKinds) /\ EmptyMessage \in Messages(Resources)
    BY DEF Messages
  <2>2. EmptyMessage.case = "NONE"
    BY DEF EmptyMessage, Holds
  <2> QED
    BY <2>1, <2>2 DEF ModelInit, ValOK
<1>3. StmtOK
  <2>1. Absent \in Part(AllKinds) /\ Absent \in Part(Resources)
    BY PartType DEF AllKinds, Resources
  <2> QED
    BY <2>1 DEF ModelInit, StmtOK, EmptyStatement, Part
<1> QED
  BY <1>1, <1>2, <1>3 DEF ModelInvariant

LEMMA LeafSteps ==
    ASSUME ModelInvariant, NEW l \in Leaf, NEW m \in Leaf,
           SetLeaf(l) \/ LeafCopy(l, m) \/ LeafMove(l, m)
    PROVE  ModelInvariant'
<1>1. UNCHANGED <<val, stmt>>
  BY DEF SetLeaf, LeafCopy, LeafMove
<1>2. ValOK' /\ StmtOK'
  BY <1>1 DEF ModelInvariant, ValOK, StmtOK
<1>3. LeafOK
  BY DEF ModelInvariant
<1>4. CASE SetLeaf(l)
  <2>1. PICK t \in Text(Kind[l]) : leaf' = [leaf EXCEPT ![l] = t]
    BY <1>4, ZenonT(30) DEF SetLeaf
  <2> QED
    BY <1>2, <1>3, <2>1, LeafSet, ZenonT(30) DEF ModelInvariant
<1>5. CASE LeafCopy(l, m)
  <2>1. MergeText(leaf[l], leaf[m]) \in Text(Kind[l])
    BY <1>3, <1>5, LeafType, TextClosed DEF LeafCopy
  <2>2. leaf' = [leaf EXCEPT ![l] = MergeText(leaf[l], leaf[m])]
    BY <1>5 DEF LeafCopy
  <2> QED
    BY <1>2, <1>3, <2>1, <2>2, LeafSet, ZenonT(30) DEF ModelInvariant
<1>6. CASE LeafMove(l, m)
  <2>1. /\ leaf' = [leaf EXCEPT ![l] = leaf[m], ![m] = leaf[l]]
        /\ leaf[m] \in Text(Kind[l]) /\ leaf[l] \in Text(Kind[m])
    BY <1>3, <1>6, LeafType DEF LeafMove
  <2>2. LeafOK'
    BY <1>3, <2>1 DEF LeafOK
  <2> QED
    BY <1>2, <2>2 DEF ModelInvariant
<1> QED
  BY <1>4, <1>5, <1>6

LEMMA AssignSteps ==
    ASSUME ModelInvariant, NEW v \in Val \cup Res, NEW l \in Leaf,
           Construct(v, l) \/ AssignCopy(v, l) \/ AssignMove(v, l)
    PROVE  ModelInvariant'
<1> DEFINE k == Kind[l]
<1>1. /\ LeafOK /\ ValOK /\ StmtOK
      /\ k \in Kinds(v) /\ UNCHANGED stmt
  BY DEF ModelInvariant, Construct, AssignCopy, AssignMove
<1>2. k \in AllKinds /\ leaf[l] \in Text(k)
  BY <1>1, LeafType
<1>3. StmtOK'
  BY <1>1 DEF StmtOK
<1>4. /\ Kinds(v) \in SUBSET AllKinds
      /\ Holds(k, leaf[l]) \in Messages(Kinds(v)) /\ Holds(k, leaf[l]).case = k
  BY <1>1, <1>2, HoldsType, ResourcesAreValues
<1>5. val[v].msg \in Messages(Kinds(v))
  BY <1>1, ValType, ZenonT(30)
<1>6. EmptyText \in Text(k) /\ k # "NONE"
  BY <1>2, TextClosed DEF AllKinds
<1> HIDE DEF k
<1>7. CASE Construct(v, l)
  <2>1. val' = [val EXCEPT ![v] = [type |-> k, msg |-> Holds(k, leaf[l])]]
    BY <1>7 DEF Construct, k
  <2>2. ValOK'
    BY <1>1, <1>2, <1>4, <2>1, ValSet, ZenonT(30)
  <2>3. CASE leaf' = leaf
    BY <1>1, <1>3, <2>2, <2>3 DEF ModelInvariant, LeafOK
  <2>4. CASE leaf' = [leaf EXCEPT ![l] = EmptyText]
    BY <1>1, <1>3, <1>6, <2>2, <2>4, LeafSet, ZenonT(30) DEF ModelInvariant, k
  <2> QED
    BY <1>7, <2>3, <2>4 DEF Construct
<1>8. CASE AssignCopy(v, l)
  <2> DEFINE m == Merge(val[v].msg, Holds(k, leaf[l]))
  <2>1. val' = [val EXCEPT ![v] = [type |-> k, msg |-> m]] /\ leaf' = leaf
    BY <1>8 DEF AssignCopy, k
  <2>2. m \in Messages(Kinds(v)) /\ m.case = k
    BY <1>4, <1>5, <1>6, MergeType
  <2> HIDE DEF m
  <2>3. ValOK'
    BY <1>1, <1>2, <2>1, <2>2, ValSet, ZenonT(30)
  <2> QED
    BY <1>1, <1>3, <2>1, <2>3 DEF ModelInvariant, LeafOK
<1>9. CASE AssignMove(v, l)
  <2>1. /\ val' = [val EXCEPT ![v] = [type |-> k, msg |-> Holds(k, leaf[l])]]
        /\ leaf' = [leaf EXCEPT ![l] = Mutable(val[v].msg, k)]
    BY <1>9 DEF AssignMove, k
  <2>2. ValOK'
    BY <1>1, <1>2, <1>4, <2>1, ValSet, ZenonT(30)
  <2>3. Mutable(val[v].msg, k) \in Text(k)
    BY <1>2, <1>4, <1>5, MutableType
  <2>4. LeafOK'
    BY <1>1, <2>1, <2>3, LeafSet, ZenonT(30) DEF k
  <2> QED
    BY <1>3, <2>2, <2>4 DEF ModelInvariant
<1> QED
  BY <1>7, <1>8, <1>9

\* Values copied, and values read from the parts of statements.
LEMMA ReadSteps ==
    ASSUME ModelInvariant, NEW v \in Val \cup Res, NEW w \in Val \cup Res, NEW s,
           \/ AssignValue(v, w)
           \/ v \in Val /\ s \in Stmt /\ getObject(v, s)
           \/ v \in Res /\ s \in Stmt /\ getContext(v, s)
    PROVE  ModelInvariant'
<1>1. /\ LeafOK /\ ValOK /\ StmtOK /\ UNCHANGED <<leaf, stmt>>
  BY DEF ModelInvariant, AssignValue, getObject, getContext
<1>2. LeafOK' /\ StmtOK'
  BY <1>1 DEF LeafOK, StmtOK
<1>3. CASE AssignValue(v, w)
  <2>1. Kinds(v) = Kinds(w)
    BY <1>3 DEF AssignValue, Kinds
  <2>2. val' = [val EXCEPT ![v] = [type |-> val[w].type, msg |-> val[w].msg]]
    BY <1>1, <1>3, ValType, ZenonT(30) DEF AssignValue
  <2>3. ValOK'
    BY <1>1, <2>1, <2>2, ValType, ValSet, ZenonT(30)
  <2> QED
    BY <1>2, <2>3 DEF ModelInvariant
<1>4. ASSUME NEW m \in Messages(Kinds(v)), val' = [val EXCEPT ![v] = FromMessage(m)]
      PROVE  ModelInvariant'
  <2>1. m.case \in AllKinds \cup {"NONE"}
    BY MessageCases, ResourcesAreValues
  <2>2. val' = [val EXCEPT ![v] = [type |-> m.case, msg |-> m]]
    BY <1>4 DEF FromMessage
  <2>3. ValOK'
    BY <1>1, <2>1, <2>2, ValSet, ZenonT(30)
  <2> QED
    BY <1>2, <2>3 DEF ModelInvariant
<1>5. CASE v \in Val /\ s \in Stmt /\ getObject(v, s)
  <2>1. stmt[s].o.msg \in Messages(Kinds(v))
    BY <1>1, <1>5, StmtType, ResourcesAreValues, ZenonT(30)
  <2> QED
    BY <1>4, <1>5, <2>1, ZenonT(30) DEF getObject
<1>6. CASE v \in Res /\ s \in Stmt /\ getContext(v, s)
  <2>1. stmt[s].c.msg \in Messages(Kinds(v))
    BY <1>1, <1>6, StmtType, ResourcesAreValues, ZenonT(30)
  <2> QED
    BY <1>4, <1>6, <2>1, ZenonT(30) DEF getContext
<1> QED
  BY <1>3, <1>5, <1>6

\* The constructors of Statement: one that moves leaves empty messages behind.
LEMMA NewStatementStep ==
    ASSUME ModelInvariant, NEW s \in Stmt, NEW v \in Val, NEW r \in Res, NewStatement(s, v, r)
    PROVE  ModelInvariant'
<1>1. LeafOK /\ ValOK /\ StmtOK /\ leaf' = leaf
  BY DEF ModelInvariant, NewStatement
<1>2. PICK c \in {Absent, Present(val[r].msg)} :
        /\ stmt' = [stmt EXCEPT ![s] = [o |-> Present(val[v].msg), c |-> c]]
        /\ \/ val' = val
           \/ val' = [val EXCEPT ![v].msg = EmptyMessage, ![r].msg = IF c.set THEN EmptyMessage ELSE @]
  BY ZenonT(30) DEF NewStatement
<1>3. val[v].msg \in Messages(AllKinds) /\ val[r].msg \in Messages(Resources)
  BY <1>1, ValType, ResourcesAreValues, ZenonT(30)
<1>4. Resources \in SUBSET AllKinds /\ AllKinds \in SUBSET AllKinds
  BY DEF Resources, AllKinds
<1>5. Present(val[v].msg) \in Part(AllKinds) /\ c \in Part(Resources)
  BY <1>2, <1>3, <1>4, PartType
<1>6. StmtOK'
  BY <1>1, <1>2, <1>5, StmtSet, ZenonT(30)
<1>7. LeafOK'
  BY <1>1 DEF LeafOK
<1>8. CASE val' = val
  BY <1>1, <1>6, <1>7, <1>8 DEF ModelInvariant, ValOK
<1>9. CASE val' = [val EXCEPT ![v].msg = EmptyMessage, ![r].msg = IF c.set THEN EmptyMessage ELSE @]
  <2>1. v # r
    BY ModelAssumption, ZenonT(30)
  <2> DEFINE rest == IF c.set THEN EmptyMessage ELSE val[r].msg
  <2>2. \A w \in Val \cup Res : val'[w] =
            IF w = v THEN [type |-> val[v].type, msg |-> EmptyMessage]
            ELSE IF w = r THEN [type |-> val[r].type, msg |-> rest] ELSE val[w]
    BY <1>1, <1>9, <2>1 DEF ValOK
  <2>3. /\ EmptyMessage \in Messages(AllKinds) /\ EmptyMessage \in Messages(Resources)
        /\ EmptyMessage.case = "NONE"
    BY DEF Messages, EmptyMessage, Holds
  <2>4. /\ rest \in Messages(Resources) /\ rest \in Messages(AllKinds)
        /\ rest.case # "NONE" => val[r].type = rest.case
    BY <1>1, <1>3, <2>3, ValType, ResourcesAreValues, ZenonT(30)
  <2> HIDE DEF rest
  <2> DEFINE Fits(w) ==
                /\ val'[w] \in [type : AllKinds \cup {"NONE"}, msg : Messages(AllKinds)]
                /\ w \in Res => val'[w].msg \in Messages(Resources)
                /\ val'[w].msg.case # "NONE" => val'[w].type = val'[w].msg.case
  <2>5. \A w \in Val \cup Res : Fits(w)
    <3>1. Fits(v)
      <4>1. val'[v] = [type |-> val[v].type, msg |-> EmptyMessage]
        BY <2>2
      <4>2. val[v].type \in AllKinds \cup {"NONE"}
        BY <1>1, ValType, ZenonT(30)
      <4> QED
        BY <2>3, <4>1, <4>2
    <3>2. Fits(r)
      <4>1. val'[r] = [type |-> val[r].type, msg |-> rest]
        BY <2>1, <2>2
      <4>2. val[r].type \in AllKinds \cup {"NONE"}
        BY <1>1, ValType, ZenonT(30)
      <4> QED
        BY <2>4, <4>1, <4>2
    <3>3. ASSUME NEW w \in Val \cup Res, w # v, w # r
          PROVE  Fits(w)
      BY <1>1, <2>2, <3>3 DEF ValOK
    <3> QED
      BY <3>1, <3>2, <3>3
  <2>6. val' = [w \in Val \cup Res |-> val'[w]]
    BY <1>1, <1>9, ZenonT(30) DEF ValOK
  <2>7. ValOK'
    BY <2>5, <2>6 DEF ValOK
  <2> QED
    BY <1>6, <1>7, <2>7 DEF ModelInvariant
<1> QED
  BY <1>2, <1>8, <1>9

\* The setters of Statement.
LEMMA StatementSteps ==
    ASSUME ModelInvariant, NEW s \in Stmt, NEW v \in Val, NEW r \in Res,
           setObject(s, v) \/ setContext(s, r)
    PROVE  ModelInvariant'
<1>1. LeafOK /\ ValOK /\ StmtOK /\ UNCHANGED <<leaf, val>>
  BY DEF ModelInvariant, setObject, setContext
<1>2. LeafOK' /\ ValOK'
  BY <1>1 DEF LeafOK, ValOK
<1>3. Resources \in SUBSET AllKinds /\ AllKinds \in SUBSET AllKinds
  BY DEF Resources, AllKinds
<1>4. /\ Present(val[v].msg) \in Part(AllKinds) /\ Present(val[r].msg) \in Part(Resources)
      /\ stmt[s].o \in Part(AllKinds) /\ stmt[s].c \in Part(Resources)
      /\ stmt[s] = [o |-> stmt[s].o, c |-> stmt[s].c]
  BY <1>1, <1>3, ValType, ResourcesAreValues, PartType, StmtType, ZenonT(30)
<1>5. CASE setObject(s, v)
  <2> DEFINE o == MergePart(stmt[s].o, Present(val[v].msg))
  <2>1. stmt' = [stmt EXCEPT ![s].o = o]
    BY <1>5 DEF setObject
  <2>2. o \in Part(AllKinds)
    BY <1>3, <1>4, PartType
  <2> HIDE DEF o
  <2>3. StmtOK'
    BY <1>1, <2>1, <2>2 DEF StmtOK, Part
  <2> QED
    BY <1>2, <2>3 DEF ModelInvariant
<1>6. CASE setContext(s, r)
  <2> DEFINE c == MergePart(stmt[s].c, Present(val[r].msg))
  <2>1. stmt' = [stmt EXCEPT ![s].c = c]
    BY <1>6 DEF setContext
  <2>2. c \in Part(Resources)
    BY <1>3, <1>4, PartType
  <2> HIDE DEF c
  <2>3. StmtOK'
    BY <1>1, <2>1, <2>2 DEF StmtOK, Part
  <2> QED
    BY <1>2, <2>3 DEF ModelInvariant
<1> QED
  BY <1>5, <1>6

\* Its assignments, copying and moving.
LEMMA StatementAssignments ==
    ASSUME ModelInvariant, NEW s \in Stmt, NEW t \in Stmt, StatementCopy(s, t) \/ StatementMove(s, t)
    PROVE  ModelInvariant'
<1>1. LeafOK /\ ValOK /\ StmtOK /\ UNCHANGED <<leaf, val>>
  BY DEF ModelInvariant, StatementCopy, StatementMove
<1>2. LeafOK' /\ ValOK'
  BY <1>1 DEF LeafOK, ValOK
<1>3. CASE StatementCopy(s, t)
  <2> DEFINE o == MergePart(stmt[s].o, stmt[t].o)
             c == MergePart(stmt[s].c, stmt[t].c)
  <2>1. stmt' = [stmt EXCEPT ![s] = [o |-> o, c |-> c]]
    BY <1>3 DEF StatementCopy
  <2>2. Resources \in SUBSET AllKinds /\ AllKinds \in SUBSET AllKinds
    BY DEF Resources, AllKinds
  <2>3. o \in Part(AllKinds) /\ c \in Part(Resources)
    BY <1>1, <2>2, StmtType, PartType, ZenonT(30)
  <2> HIDE DEF o, c
  <2>4. StmtOK'
    BY <1>1, <2>1, <2>3, StmtSet, ZenonT(30)
  <2> QED
    BY <1>2, <2>4 DEF ModelInvariant
<1>4. CASE StatementMove(s, t)
  <2>1. StmtOK'
    BY <1>1, <1>4 DEF StatementMove, StmtOK
  <2> QED
    BY <1>2, <2>1 DEF ModelInvariant
<1> QED
  BY <1>3, <1>4

LEMMA StepInvariant == ModelInvariant /\ [ModelNext]_modelVars => ModelInvariant'
<1> SUFFICES ASSUME ModelInvariant, [ModelNext]_modelVars
             PROVE  ModelInvariant'
  OBVIOUS
<1>1. CASE UNCHANGED modelVars
  BY <1>1 DEF modelVars, ModelInvariant, LeafOK, ValOK, StmtOK
<1>2. CASE \E l \in Leaf : SetLeaf(l)
  BY <1>2, LeafSteps
<1>3. CASE \E l, m \in Leaf : LeafCopy(l, m) \/ LeafMove(l, m)
  BY <1>3, LeafSteps
<1>4. CASE \E v \in Val \cup Res, l \in Leaf :
              Construct(v, l) \/ AssignCopy(v, l) \/ AssignMove(v, l)
  BY <1>4, AssignSteps
<1>5. CASE \E v, w \in Val \cup Res : AssignValue(v, w)
  BY <1>5, ReadSteps
<1>6. ASSUME NEW s \in Stmt, NEW v \in Val, NEW r \in Res,
             \/ NewStatement(s, v, r)
             \/ setObject(s, v) \/ getObject(v, s)
             \/ setContext(s, r) \/ getContext(r, s)
      PROVE  ModelInvariant'
  <2>1. v \in Val \cup Res /\ r \in Val \cup Res
    OBVIOUS
  <2>2. CASE getObject(v, s)
    BY <2>1, <2>2, ReadSteps
  <2>3. CASE getContext(r, s)
    BY <2>1, <2>3, ReadSteps
  <2> QED
    BY <1>6, <2>2, <2>3, NewStatementStep, StatementSteps
<1>7. CASE \E s, t \in Stmt : StatementCopy(s, t) \/ StatementMove(s, t)
  BY <1>7, StatementAssignments
<1> QED
  BY <1>1, <1>2, <1>3, <1>4, <1>5, <1>6, <1>7 DEF ModelNext

LEMMA ModelInvariantHolds == ModelSpec => []ModelInvariant
BY InitModel, StepInvariant, PTL DEF ModelSpec

-----------------------------------------------------------------------------
(***************************************************************************)
(* What the classes promise.                                               *)
(***************************************************************************)
\* After any program, the messages are what their protobuf types allow, and the
\* type of every Value and Resource (rdf_model.h) names the leaf it holds.
THEOREM TypesNameCases == ModelSpec => [](ModelTypeOK /\ TypeIsCase)
BY ModelInvariantHolds, InvariantIsTyped, PTL

\* The terms of a program have messages of RDF terms, and if they hold a leaf, its
\* kind for their type.
LEMMA TermsAreTyped ==
    ASSUME ModelInvariant, NEW a \in Terms, a.msg.case # "NONE"
    PROVE  stringValue(a) = a.msg.text.content /\ a.msg.case \in AllKinds
<1>1. Messages(Resources) \subseteq Messages(AllKinds)
  BY DEF Messages, Resources, AllKinds
<1>2. a.type = a.msg.case /\ a.msg \in Messages(AllKinds)
  <2>1. CASE \E v \in Val \cup Res : a = val[v]
    BY <2>1 DEF ModelInvariant, ValOK
  <2>2. CASE \E s \in Stmt : a = FromMessage(stmt[s].o.msg) \/ a = FromMessage(stmt[s].c.msg)
    <3>1. PICK m \in Messages(AllKinds) : a = FromMessage(m)
      BY <1>1, <2>2, StmtType, ZenonT(30) DEF ModelInvariant
    <3> QED
      BY <3>1 DEF FromMessage
  <2> QED
    BY <2>1, <2>2 DEF Terms
<1> QED
  BY <1>2, MessageCases DEF stringValue, Mutable

\* Values that operator== (rdf_operators.h) finds equal print alike, through
\* stringValue, which goes by the type, and as_turtle, which goes by the message.
THEOREM EqualValuesPrintAlike == ModelSpec => []EqualPrintAlike
<1>1. ModelInvariant => EqualPrintAlike
  <2> SUFFICES ASSUME ModelInvariant, NEW a \in Terms, NEW b \in Terms, Equal(a.msg, b.msg)
               PROVE  stringValue(a) = stringValue(b) /\ as_turtle(a.msg) = as_turtle(b.msg)
    BY DEF EqualPrintAlike
  <2>1. /\ a.msg.case = b.msg.case
        /\ a.msg.case # "NONE" /\ b.msg.case # "NONE"
        /\ a.msg.text.content = b.msg.text.content
        /\ a.msg.case \notin Resources => a.msg.text.tag = b.msg.text.tag
    BY DEF Equal, SameText
  <2>2. stringValue(a) = stringValue(b)
    BY <2>1, TermsAreTyped
  <2>3. as_turtle(a.msg) = as_turtle(b.msg)
    <3>1. a.msg.case \in AllKinds
      BY <2>1, TermsAreTyped
    <3> QED
      BY <2>1, <3>1 DEF as_turtle, AllKinds, Resources
  <2> QED
    BY <2>2, <2>3
<1> QED
  BY <1>1, ModelInvariantHolds, PTL

\* No term of a library is taken for a missing one.
LEMMA TermsAreNotNull ==
    ASSUME NEW type \in {"URI", "BLANK", "BNode", "LITERAL", "Literal"}, NEW string \in Content,
           NEW language \in Tag \cup {Null}, NEW datatype \in Tag \cup {Null}
    PROVE  Term(type, string, language, datatype) # Null
BY NullAssumption DEF Term

\* Every proper term comes back through raptor and through Sesame.
LEMMA ProperTermsReturn ==
    ASSUME NEW m \in Messages(AllKinds), Proper(m)
    PROVE  Returns(m)
<1> DEFINE c == m.text.content
           g == m.text.tag
<1>1. /\ m = Holds(m.case, [content |-> c, tag |-> g])
      /\ c \in Content /\ g \in Tag
      /\ m.case \in AllKinds
      /\ m.case \in {"URI", "BNODE"} => g = "" /\ c # ""
      /\ m.case = "DATATYPE_LITERAL" => g # ""
  <2>1. m = Holds(m.case, m.text) /\ m.case \in AllKinds /\ m.text \in Text(m.case)
    BY MessageCases, ZenonT(30) DEF Proper
  <2>2. m.text = [content |-> c, tag |-> g] /\ c \in Content /\ g \in Tag
        /\ (m.case \in {"URI", "BNODE"} => g = "")
    BY <2>1, ModelAssumption, ZenonT(30) DEF Text
  <2> QED
    BY <2>1, <2>2, ZenonT(30) DEF Proper
<1>2. c # Null /\ g # Null /\ "" # Null
  BY <1>1, ModelAssumption, NullAssumption, ZenonT(30)
<1> HIDE DEF c, g
<1>3. CASE m.case = "URI"
  <2>1. serializeTerm(m) = Term("URI", c, Null, Null) /\ ToSesame(m) = Term("URI", c, Null, Null)
    BY <1>1, <1>3, ZenonT(30) DEF serializeTerm, ToSesame, raptorUri, c
  <2>2. parseGraph(Term("URI", c, Null, Null)) = m /\ FromSesame(Term("URI", c, Null, Null)) = m
    BY <1>1, <1>3, TermsAreNotNull, ZenonT(30) DEF parseGraph, parseObject, FromSesame, Term
  <2> QED
    BY <2>1, <2>2 DEF Returns
<1>4. CASE m.case = "BNODE"
  <2>1. serializeTerm(m) = Term("BLANK", c, Null, Null) /\ ToSesame(m) = Term("BNode", c, Null, Null)
    BY <1>1, <1>4, ZenonT(30) DEF serializeTerm, ToSesame, c
  <2>2. parseGraph(Term("BLANK", c, Null, Null)) = m /\ FromSesame(Term("BNode", c, Null, Null)) = m
    BY <1>1, <1>4, TermsAreNotNull, ZenonT(30) DEF parseGraph, parseObject, FromSesame, Term
  <2> QED
    BY <2>1, <2>2 DEF Returns
<1>5. CASE m.case = "STRING_LITERAL"
  <2>1. /\ serializeTerm(m) = Term("LITERAL", c, OrNull(g), Null)
        /\ ToSesame(m) = Term("Literal", c, OrNull(g), Null)
    BY <1>1, <1>5 DEF serializeTerm, ToSesame, raptorLiteral, c, g
  <2>2. parseGraph(Term("LITERAL", c, OrNull(g), Null)) = m
    BY <1>1, <1>2, <1>5, TermsAreNotNull, ZenonT(30) DEF parseGraph, parseObject, OrNull, Term
  <2>3. FromSesame(Term("Literal", c, OrNull(g), Null)) = m
    BY <1>1, <1>2, <1>5, ZenonT(30) DEF FromSesame, OrNull, OrEmpty, Term
  <2> QED
    BY <2>1, <2>2, <2>3 DEF Returns
<1>6. CASE m.case = "DATATYPE_LITERAL"
  <2>1. serializeTerm(m) = Term("LITERAL", c, Null, g) /\ ToSesame(m) = Term("Literal", c, Null, g)
    BY <1>1, <1>6, ZenonT(30) DEF serializeTerm, ToSesame, raptorLiteral, OrNull, c, g
  <2>2. parseGraph(Term("LITERAL", c, Null, g)) = m
    BY <1>1, <1>2, <1>6, TermsAreNotNull, ZenonT(30) DEF parseGraph, parseObject, Term
  <2>3. FromSesame(Term("Literal", c, Null, g)) = m
    BY <1>1, <1>2, <1>6, ZenonT(30) DEF FromSesame, Term
  <2> QED
    BY <2>1, <2>2, <2>3 DEF Returns
<1> QED
  BY <1>1, <1>3, <1>4, <1>5, <1>6, ZenonT(30) DEF AllKinds

\* What the serializers and the Java model write out, the parser and the Java
\* model read in as the same term (serializer_raptor.cc, rdf_parser.cc,
\* ProtoStatement.java), for all strings, and the default graph with them.
THEOREM TermsRoundTrip == ModelSpec => []RoundTrip
<1>1. Returns(Holds("URI", EmptyText))
  <2>2. parseGraph(serializeTerm(Holds("URI", EmptyText))) = Holds("URI", EmptyText)
    BY ZenonT(30) DEF parseGraph, serializeTerm, raptorUri, Holds, EmptyText
  <2>3. FromSesame(ToSesame(Holds("URI", EmptyText))) = Holds("URI", EmptyText)
    BY ZenonT(30) DEF FromSesame, ToSesame, Holds, EmptyText, Term
  <2> QED
    BY <2>2, <2>3 DEF Returns
<1>2. AllReturn
  BY ProperTermsReturn DEF AllReturn
<1>3. ModelInvariant => \A s \in Stmt, f \in {"o", "c"} : stmt[s][f].msg \in Messages(AllKinds)
  <2> SUFFICES ASSUME ModelInvariant, NEW s \in Stmt
               PROVE  stmt[s].o.msg \in Messages(AllKinds) /\ stmt[s].c.msg \in Messages(AllKinds)
    OBVIOUS
  <2>1. Messages(Resources) \subseteq Messages(AllKinds)
    BY DEF Messages, Resources, AllKinds
  <2> QED
    BY <2>1, StmtType, ZenonT(30) DEF ModelInvariant
<1>4. ModelInvariant => RoundTrip
  BY <1>1, <1>2, <1>3, ProperTermsReturn DEF RoundTrip
<1> QED
  BY <1>4, ModelInvariantHolds, PTL

-----------------------------------------------------------------------------
(* SailConnection: no stream of a connection carries a removal behind an   *)
(* addition, for any number of streams, messages, failures and rollbacks.  *)
(* The server's Update is in order for such streams (StreamsInOrder).      *)
(*                                                                         *)
(* A commit that returns has had its effect: the calls of a connection     *)
(* that has rolled nothing back are applied one after the other.           *)

\* The items of a sequence, of one with another item, and of one with one more.
LEMMA SequenceItems ==
    ASSUME NEW T, NEW q \in Seq(T)
    PROVE  q \in [1 .. Len(q) -> T] /\ DOMAIN q = 1 .. Len(q) /\ Len(q) \in Nat
OBVIOUS

LEMMA SequenceChanges ==
    ASSUME NEW T, NEW q \in Seq(T), NEW i \in 1 .. Len(q), NEW x \in T
    PROVE  [q EXCEPT ![i] = x] \in Seq(T) /\ Len([q EXCEPT ![i] = x]) = Len(q)
OBVIOUS

LEMMA SequenceGrows ==
    ASSUME NEW T, NEW q \in Seq(T), NEW x \in T
    PROVE  LET a == Append(q, x) IN
           /\ a \in Seq(T) /\ a # <<>> /\ Len(a) = Len(q) + 1
           /\ a[Len(q) + 1] = x
           /\ \A i \in 1 .. Len(q) : a[i] = q[i]
OBVIOUS

USE SailAssumption

\* A stream, or the requests of one, without a removal behind an addition.
InOrder(reqs) ==
    \A i, j \in DOMAIN reqs : i < j /\ reqs[i].op = "added" => reqs[j].op = "added"

LEMMA AddedType == \A x \in Item : Added(x) \in Request /\ Added(x).op = "added"
BY DEF Added, Request

\* The removals of one call are requests, and none of them is an addition.
LEMMA RemovalsType ==
    ASSUME NEW reqs \in Removals
    PROVE  /\ reqs \in Seq(Request)
           /\ \A i \in DOMAIN reqs : reqs[i].op = "removed"
           /\ AllItems(reqs) \in SUBSET Item
           /\ InOrder(reqs)
<1>1. PICK k \in 1 .. MaxContexts : reqs \in [1 .. k -> {Removed(X) : X \in Target}]
  BY DEF Removals
<1>2. \A i \in 1 .. k : /\ reqs[i] \in Request
                        /\ reqs[i].op = "removed"
                        /\ reqs[i].items \in SUBSET Item
  BY <1>1 DEF Removed, Request
<1>3. reqs \in [1 .. k -> Request] /\ k \in Nat
  BY <1>1, <1>2
<1>4. reqs \in Seq(Request)
  BY <1>3
<1>5. AllItems(reqs) \in SUBSET Item
  BY <1>1, <1>2 DEF AllItems
<1> QED
  BY <1>1, <1>2, <1>4, <1>5 DEF InOrder

LEMMA NoBatchType == NoBatch \in [Item -> {"none", "put", "del"}]
BY DEF NoBatch

LEMMA NewCallType ==
    ASSUME NEW reqs \in Seq(Request)
    PROVE  NewCall(reqs) \in Call /\ NewCall(reqs).sent = reqs
BY NoBatchType DEF NewCall, Call

\* Steps of a call keep it well formed and what it has sent.
LEMMA ReplyType ==
    ASSUME NEW c \in Call
    PROVE  [c EXCEPT !.reply = "done"] \in Call /\ [c EXCEPT !.reply = "done"].sent = c.sent
BY DEF Call

LEMMA WrittenType ==
    ASSUME NEW c \in Call
    PROVE  LET w == [c EXCEPT !.server = "applied", !.reply = IF @ = "none" THEN "ok" ELSE @]
           IN  w \in Call /\ w.sent = c.sent
<1>1. (IF c.reply = "none" THEN "ok" ELSE c.reply) \in {"none", "ok", "error", "done"}
  BY DEF Call
<1> QED
  BY <1>1, ZenonT(30) DEF Call

LEMMA LostType ==
    ASSUME NEW c \in Call
    PROVE  /\ Lost(c) \in Call /\ Lost(c).sent = c.sent
           /\ [Lost(c) EXCEPT !.server = "dead"] \in Call
           /\ [Lost(c) EXCEPT !.server = "dead"].sent = c.sent
<1>1. (IF c.reply \in {"none", "ok"} THEN "error" ELSE c.reply) \in {"none", "ok", "error", "done"}
  BY DEF Call
<1>2. Lost(c) \in Call /\ Lost(c).sent = c.sent
  BY <1>1, ZenonT(30) DEF Lost, Call
<1>3. ASSUME NEW l \in Call
      PROVE  [l EXCEPT !.server = "dead"] \in Call /\ [l EXCEPT !.server = "dead"].sent = l.sent
  BY DEF Call
<1> QED
  BY <1>2, <1>3

LEMMA ReadType ==
    ASSUME NEW c \in Call, NEW r \in Nat, NEW b \in [Item -> {"none", "put", "del"}]
    PROVE  /\ [c EXCEPT !.read = r, !.batch = b] \in Call
           /\ [c EXCEPT !.read = r, !.batch = b].sent = c.sent
BY ZenonT(30) DEF Call

\* A step that replaces one call by one that has sent the same.
LEMMA SameSent ==
    ASSUME SailInvariant, NEW n \in DOMAIN stream, NEW c \in Call, InOrder(c.sent),
           stream' = [stream EXCEPT ![n] = c]
    PROVE  stream' \in Seq(Call) /\ Len(stream') = Len(stream) /\ RemovalsFirst'
<1>1. stream \in Seq(Call)
  BY DEF SailInvariant, TypeOK
<1>2. stream' \in Seq(Call) /\ Len(stream') = Len(stream)
  BY <1>1, SequenceChanges
<1>3. DOMAIN stream' = DOMAIN stream /\ \A m \in DOMAIN stream : stream'[m] = IF m = n THEN c ELSE stream[m]
  BY <1>1
<1>4. \A m \in DOMAIN stream : InOrder(stream[m].sent)
  BY DEF SailInvariant, RemovalsFirst, InOrder
<1>5. \A m \in DOMAIN stream' : InOrder(stream'[m].sent)
  BY <1>3, <1>4
<1> QED
  BY <1>2, <1>5 DEF RemovalsFirst, InOrder

\* ensureTransaction opens a stream with requests in order.
LEMMA OpenStreamStep ==
    ASSUME SailInvariant, NEW reqs \in Seq(Request), InOrder(reqs), OpenStream(reqs)
    PROVE  /\ stream' \in Seq(Call) /\ observer' \in 0 .. Len(stream')
           /\ future' = "pending"
           /\ RemovalsFirst'
<1>1. stream \in Seq(Call) /\ NewCall(reqs) \in Call /\ NewCall(reqs).sent = reqs
  BY NewCallType DEF SailInvariant, TypeOK
<1>2. stream' = Append(stream, NewCall(reqs)) /\ observer' = Len(stream) + 1 /\ future' = "pending"
  BY DEF OpenStream
<1>3. /\ stream' \in Seq(Call) /\ Len(stream') = Len(stream) + 1
      /\ \A m \in 1 .. Len(stream) : stream'[m] = stream[m]
      /\ stream'[Len(stream) + 1] = NewCall(reqs)
  BY <1>1, <1>2, SequenceGrows
<1>4. \A m \in DOMAIN stream : InOrder(stream[m].sent)
  BY DEF SailInvariant, RemovalsFirst, InOrder
<1>5. \A m \in DOMAIN stream' : m \in DOMAIN stream \/ m = Len(stream) + 1
  BY <1>1, <1>3, SequenceItems
<1>6. \A m \in DOMAIN stream' : InOrder(stream'[m].sent)
  BY <1>1, <1>3, <1>4, <1>5, SequenceItems
<1>7. RemovalsFirst'
  BY <1>6 DEF RemovalsFirst, InOrder
<1>8. Len(stream) \in Nat
  BY <1>1, SequenceItems
<1> QED
  BY <1>2, <1>3, <1>7, <1>8

\* An addition behind any requests keeps them in order.
LEMMA AppendAdded ==
    ASSUME NEW s \in Seq(Request), InOrder(s), NEW req \in Request, req.op = "added"
    PROVE  Append(s, req) \in Seq(Request) /\ InOrder(Append(s, req))
<1>1. /\ Append(s, req) \in Seq(Request) /\ Len(Append(s, req)) = Len(s) + 1
      /\ \A i \in 1 .. Len(s) : Append(s, req)[i] = s[i]
      /\ Append(s, req)[Len(s) + 1] = req
  BY SequenceGrows
<1>2. \A j \in DOMAIN Append(s, req) : j \in DOMAIN s \/ j = Len(s) + 1
  BY <1>1, SequenceItems
<1>3. ASSUME NEW i \in DOMAIN Append(s, req), NEW j \in DOMAIN Append(s, req), i < j,
             Append(s, req)[i].op = "added"
      PROVE  Append(s, req)[j].op = "added"
  <2>1. CASE j = Len(s) + 1
    BY <1>1, <2>1
  <2>2. CASE j \in DOMAIN s
    <3>1. i \in DOMAIN s
      BY <1>1, <1>2, <1>3, <2>2, SequenceItems
    <3> QED
      BY <1>1, <1>3, <2>2, <3>1, SequenceItems DEF InOrder
  <2> QED
    BY <1>2, <2>1, <2>2
<1> QED
  BY <1>1, <1>3 DEF InOrder

-----------------------------------------------------------------------------
LEMMA InitInvariant == Init => SailInvariant
<1> SUFFICES ASSUME Init PROVE SailInvariant
  OBVIOUS
<1>1. stream = <<>> /\ <<>> \in Seq(Call) /\ Len(stream) = 0
  BY DEF Init
<1>2. observer \in 0 .. Len(stream) /\ stream \in Seq(Call)
  BY <1>1 DEF Init, NoStream
<1>3. after \in [op : {"none", "query", "commit"}, reqs : {<<>>}]
  BY DEF Init, Nothing
<1>4. TypeOK
  BY <1>2, <1>3, ZenonT(30) DEF Init, TypeOK
<1>5. RemovalsFirst
  BY <1>1 DEF RemovalsFirst
<1> QED
  BY <1>4, <1>5 DEF SailInvariant

\* Every step keeps the invariant.
LEMMA NextInvariant == SailInvariant /\ [Next]_vars => SailInvariant'
<1> SUFFICES ASSUME SailInvariant, [Next]_vars PROVE SailInvariant'
  OBVIOUS
<1> USE DEF NoStream
<1>0. /\ TypeOK /\ RemovalsFirst
      /\ stream \in Seq(Call)
      /\ \A n \in DOMAIN stream : stream[n] \in Call /\ InOrder(stream[n].sent)
      /\ observer # 0 => observer \in DOMAIN stream
  <2>1. TypeOK /\ RemovalsFirst /\ stream \in Seq(Call)
    BY DEF SailInvariant, TypeOK
  <2>2. \A n \in DOMAIN stream : stream[n] \in Call /\ InOrder(stream[n].sent)
    BY <2>1 DEF RemovalsFirst, InOrder
  <2>3. observer # 0 => observer \in DOMAIN stream
    BY <2>1, SequenceItems DEF TypeOK
  <2> QED
    BY <2>1, <2>2, <2>3
<1>1. CASE Begin \/ RollbackThrows \/ GetThrows \/ Throws \/ UNCHANGED vars
  <2>1. stream' = stream /\ observer' = observer
    BY <1>1 DEF Begin, RollbackThrows, GetThrows, Throws, vars
  <2>2. TypeOK'
    <3>1. CASE Begin \/ RollbackThrows
      BY <1>0, <2>1, <3>1, ZenonT(30) DEF TypeOK, Begin, RollbackThrows
    <3>2. CASE GetThrows
      <4>1. after' \in [op : {"none", "query", "commit"}, reqs : {<<>>}]
        BY <3>2 DEF GetThrows, Nothing
      <4> QED
        BY <1>0, <2>1, <3>2, <4>1 DEF TypeOK, GetThrows
    <3>3. CASE UNCHANGED vars
      BY <1>0, <3>3 DEF TypeOK, vars
    <3> QED
      BY <1>1, <3>1, <3>2, <3>3 DEF Throws
  <2>3. RemovalsFirst'
    BY <1>0, <2>1 DEF RemovalsFirst
  <2> QED
    BY <2>2, <2>3 DEF SailInvariant
<1>2. ASSUME NEW x \in Item, Add(x)
      PROVE  SailInvariant'
  <2>1. /\ UNCHANGED <<active, pc, after, db>>
        /\ expected' = expected \cup {x}
    BY <1>2 DEF Add
  <2>2. CASE observer = 0
    <3>1. <<Added(x)>> \in Seq(Request) /\ InOrder(<<Added(x)>>)
      BY AddedType DEF InOrder
    <3>2. OpenStream(<<Added(x)>>)
      BY <1>2, <2>2 DEF Add
    <3>3. /\ stream' \in Seq(Call) /\ observer' \in 0 .. Len(stream')
          /\ future' = "pending" /\ RemovalsFirst'
      BY <3>1, <3>2, OpenStreamStep, ZenonT(30)
    <3>4. TypeOK'
      BY <1>0, <2>1, <3>3 DEF TypeOK
    <3> QED
      BY <3>3, <3>4 DEF SailInvariant
  <2>3. CASE observer # 0
    <3> DEFINE c == [stream[observer] EXCEPT !.sent = Append(@, Added(x))]
    <3>1. observer \in DOMAIN stream /\ SendOn(Added(x))
      BY <1>0, <1>2, <2>3 DEF Add
    <3>2. stream[observer] \in Call /\ stream[observer].sent \in Seq(Request)
      BY <1>0, <3>1 DEF Call
    <3>3. /\ Append(stream[observer].sent, Added(x)) \in Seq(Request)
          /\ InOrder(Append(stream[observer].sent, Added(x)))
      BY <1>0, <3>1, <3>2, AddedType, AppendAdded
    <3>4. c \in Call /\ c.sent = Append(stream[observer].sent, Added(x))
      BY <3>2, <3>3, ZenonT(30) DEF Call
    <3>5. stream' = [stream EXCEPT ![observer] = c] /\ UNCHANGED <<observer, future>>
      BY <3>1 DEF SendOn
    <3>6. stream' \in Seq(Call) /\ Len(stream') = Len(stream) /\ RemovalsFirst'
      BY <3>1, <3>3, <3>4, <3>5, SameSent, ZenonT(30)
    <3>7. TypeOK'
      BY <1>0, <2>1, <3>5, <3>6 DEF TypeOK
    <3> QED
      BY <3>6, <3>7 DEF SailInvariant
  <2> QED
    BY <2>2, <2>3
<1>3. ASSUME NEW next, Complete(next),
             next \in [op : {"none", "query", "commit"}, reqs : {<<>>}]
                        \cup [op : {"remove"}, reqs : Removals]
      PROVE  SailInvariant'
  <2> DEFINE c == [stream[observer] EXCEPT !.end = "completed"]
  <2>1. observer \in DOMAIN stream /\ stream' = [stream EXCEPT ![observer] = c]
    BY <1>0, <1>3 DEF Complete
  <2>2. stream[observer] \in Call /\ InOrder(stream[observer].sent)
    BY <1>0, <2>1
  <2>3. c \in Call /\ c.sent = stream[observer].sent
    BY <2>2 DEF Call
  <2>4. stream' \in Seq(Call) /\ Len(stream') = Len(stream) /\ RemovalsFirst'
    BY <2>1, <2>2, <2>3, SameSent, ZenonT(30)
  <2>5. TypeOK'
    BY <1>0, <1>3, <2>4 DEF TypeOK, Complete
  <2> QED
    BY <2>4, <2>5 DEF SailInvariant
<1>4. ASSUME NEW reqs \in Removals, SendRemovals(reqs),
             active' \in BOOLEAN, pc' \in {"idle", "get"}, after' \in {after, Nothing}, db' = db
      PROVE  SailInvariant'
  <2>1. reqs \in Seq(Request) /\ InOrder(reqs)
    BY RemovalsType
  <2>2. /\ stream' \in Seq(Call) /\ observer' \in 0 .. Len(stream')
        /\ future' = "pending" /\ RemovalsFirst'
    BY <1>4, <2>1, OpenStreamStep DEF SendRemovals
  <2>3. expected' \in SUBSET Item
    BY <1>0, <1>4 DEF TypeOK, SendRemovals
  <2>4. TypeOK'
    BY <1>0, <1>4, <2>2, <2>3 DEF TypeOK, Nothing
  <2> QED
    BY <2>2, <2>4 DEF SailInvariant
<1>5. ASSUME NEW reqs \in Removals, Remove(reqs)
      PROVE  SailInvariant'
  <2>1. CASE Complete([op |-> "remove", reqs |-> reqs])
    BY <1>3, <2>1
  <2>2. CASE SendRemovals(reqs) /\ UNCHANGED <<active, pc, after, db>>
    BY <1>0, <1>4, <2>2 DEF TypeOK
  <2> QED
    BY <1>5, <2>1, <2>2 DEF Remove
<1>6. CASE Query \/ Commit
  <2>1. CASE Complete([op |-> "query", reqs |-> <<>>]) \/ Complete([op |-> "commit", reqs |-> <<>>])
    BY <1>3, <2>1
  <2>2. CASE active' = FALSE /\ UNCHANGED <<pc, after, observer, future, stream, db, expected>>
    <3>1. TypeOK'
      BY <1>0, <2>2, ZenonT(30) DEF TypeOK
    <3>2. RemovalsFirst'
      BY <1>0, <2>2 DEF RemovalsFirst
    <3> QED
      BY <3>1, <3>2 DEF SailInvariant
  <2> QED
    BY <1>6, <2>1, <2>2, ZenonT(30) DEF Query, Commit
<1>7. CASE GetReturns
  <2>1. /\ pc' = "idle" /\ after' = Nothing /\ db' = db
        /\ active' = (after.op # "commit")
    BY <1>7 DEF GetReturns
  <2>2. CASE after.op = "remove"
    <3>1. after.reqs \in Removals
      BY <1>0, <2>2 DEF TypeOK
    <3> QED
      BY <1>4, <1>7, <2>1, <2>2, <3>1 DEF GetReturns
  <2>3. CASE after.op # "remove"
    <3>1. observer' = 0 /\ UNCHANGED <<future, stream, expected>>
      BY <1>7, <2>3 DEF GetReturns
    <3>2. 0 \in 0 .. Len(stream)
      BY <1>0, SequenceItems
    <3>3. TypeOK'
      BY <1>0, <2>1, <3>1, <3>2 DEF TypeOK, Nothing
    <3>4. RemovalsFirst'
      BY <1>0, <3>1 DEF RemovalsFirst
    <3> QED
      BY <3>3, <3>4 DEF SailInvariant
  <2> QED
    BY <2>2, <2>3
<1>8. ASSUME NEW n \in DOMAIN stream, NEW c \in Call, c.sent = stream[n].sent,
             stream' = [stream EXCEPT ![n] = c],
             active' \in BOOLEAN, UNCHANGED <<pc, after, expected>>,
             observer' \in {observer, 0}, future' \in {"none", "pending", "ok", "error"},
             db' \in SUBSET Item
      PROVE  SailInvariant'
  <2>1. stream' \in Seq(Call) /\ Len(stream') = Len(stream) /\ RemovalsFirst'
    BY <1>0, <1>8, SameSent, ZenonT(30)
  <2>2. observer' \in 0 .. Len(stream')
    BY <1>0, <1>8, <2>1, SequenceItems DEF TypeOK
  <2>3. TypeOK'
    BY <1>0, <1>8, <2>1, <2>2 DEF TypeOK
  <2> QED
    BY <2>1, <2>3 DEF SailInvariant
<1>9. CASE Rollback
  <2>1. observer \in DOMAIN stream /\ stream[observer] \in Call
    BY <1>0, <1>9 DEF Rollback
  <2>2. PICK r \in {"ok", "error", "done"} :
            stream' = [stream EXCEPT ![observer].end = "cancelled", ![observer].reply = r]
    BY <1>9, ZenonT(30) DEF Rollback
  <2> DEFINE c == [stream[observer] EXCEPT !.end = "cancelled", !.reply = r]
  <2>3. c \in Call /\ c.sent = stream[observer].sent
    BY <2>1, ZenonT(30) DEF Call
  <2>4. stream' = [stream EXCEPT ![observer] = c]
    BY <1>0, <2>1, <2>2, ZenonT(30)
  <2>5. /\ active' \in BOOLEAN /\ UNCHANGED <<pc, after, expected>>
        /\ observer' \in {observer, 0} /\ future' \in {"none", "pending", "ok", "error"}
        /\ db' \in SUBSET Item
    BY <1>0, <1>9, ZenonT(30) DEF Rollback, TypeOK
  <2> HIDE DEF c
  <2> QED
    BY <1>8, <2>1, <2>3, <2>4, <2>5, ZenonT(30)
<1>10. ASSUME NEW n \in DOMAIN stream, Callback(n)
       PROVE  SailInvariant'
  <2> DEFINE c == [stream[n] EXCEPT !.reply = "done"]
  <2>1. c \in Call /\ c.sent = stream[n].sent
    BY <1>0, ReplyType
  <2>2. stream' = [stream EXCEPT ![n] = c]
    BY <1>10 DEF Callback
  <2>3. /\ active' \in BOOLEAN /\ UNCHANGED <<pc, after, expected>>
        /\ observer' \in {observer, 0} /\ future' \in {"none", "pending", "ok", "error"}
        /\ db' \in SUBSET Item
    BY <1>0, <1>10 DEF Callback, TypeOK
  <2> HIDE DEF c
  <2> QED
    BY <1>8, <2>1, <2>2, <2>3, ZenonT(30)
<1>11. ASSUME NEW n \in DOMAIN stream, Read(n)
       PROVE  SailInvariant'
  <2> DEFINE req == stream[n].sent[stream[n].read + 1]
             b == Collected(stream[n].batch, req)
             c == [stream[n] EXCEPT !.read = @ + 1, !.batch = b]
  <2>1. stream[n] \in Call
    BY <1>0
  <2>2. b \in [Item -> {"none", "put", "del"}]
    BY <2>1 DEF Call, Collected
  <2>3. stream' = [stream EXCEPT ![n] = c]
    BY <1>0, <1>11, ZenonT(30) DEF Read
  <2> HIDE DEF b
  <2>4. c \in Call /\ c.sent = stream[n].sent
    <3>1. stream[n].read + 1 \in Nat
      BY <2>1 DEF Call
    <3> QED
      BY <2>1, <2>2, <3>1, ReadType, ZenonT(30)
  <2>5. /\ active' \in BOOLEAN /\ UNCHANGED <<pc, after, expected>>
        /\ observer' \in {observer, 0} /\ future' \in {"none", "pending", "ok", "error"}
        /\ db' \in SUBSET Item
    BY <1>0, <1>11 DEF Read, TypeOK, client
  <2> HIDE DEF c
  <2> QED
    BY <1>8, <2>3, <2>4, <2>5, ZenonT(30)
<1>12. ASSUME NEW n \in DOMAIN stream, Write(n)
       PROVE  SailInvariant'
  <2> DEFINE c == [stream[n] EXCEPT !.server = "applied", !.reply = IF @ = "none" THEN "ok" ELSE @]
  <2>1. c \in Call /\ c.sent = stream[n].sent
    BY <1>0, WrittenType, ZenonT(30)
  <2>2. stream' = [stream EXCEPT ![n] = c]
    BY <1>0, <1>12, ZenonT(30) DEF Write
  <2>3. /\ active' \in BOOLEAN /\ UNCHANGED <<pc, after, expected>>
        /\ observer' \in {observer, 0} /\ future' \in {"none", "pending", "ok", "error"}
        /\ db' \in SUBSET Item
    BY <1>0, <1>12 DEF Write, TypeOK, client
  <2> HIDE DEF c
  <2> QED
    BY <1>8, <2>1, <2>2, <2>3, ZenonT(30)
<1>13. ASSUME NEW n \in DOMAIN stream
       PROVE  /\ Lost(stream[n]) \in Call /\ Lost(stream[n]).sent = stream[n].sent
              /\ [Lost(stream[n]) EXCEPT !.server = "dead"] \in Call
              /\ [Lost(stream[n]) EXCEPT !.server = "dead"].sent = stream[n].sent
  BY <1>0, LostType
<1>14. ASSUME NEW n \in DOMAIN stream, Break(n)
       PROVE  SailInvariant'
  <2>1. stream' = [stream EXCEPT ![n] = Lost(stream[n])]
    BY <1>14 DEF Break
  <2>2. /\ active' \in BOOLEAN /\ UNCHANGED <<pc, after, expected>>
        /\ observer' \in {observer, 0} /\ future' \in {"none", "pending", "ok", "error"}
        /\ db' \in SUBSET Item
    BY <1>0, <1>14 DEF Break, TypeOK, client
  <2> QED
    BY <1>8, <1>13, <2>1, <2>2, ZenonT(30)
<1>15. CASE ServerDies
  <2>1. DOMAIN stream = 1 .. Len(stream) /\ Len(stream) \in Nat
    BY <1>0, SequenceItems
  <2>2. DOMAIN stream' = DOMAIN stream
    BY <1>15 DEF ServerDies
  <2>3. \A n \in DOMAIN stream : stream'[n] \in Call /\ stream'[n].sent = stream[n].sent
    BY <1>13, <1>15 DEF ServerDies
  <2>4. stream' \in [1 .. Len(stream) -> Call]
    BY <1>15, <2>1, <2>2, <2>3 DEF ServerDies
  <2>5. stream' \in Seq(Call) /\ Len(stream') = Len(stream)
    BY <2>1, <2>4
  <2>6. TypeOK'
    <3>1. UNCHANGED <<active, pc, after, observer, future, expected, db>>
      BY <1>15 DEF ServerDies, client
    <3> QED
      BY <1>0, <2>5, <3>1 DEF TypeOK
  <2>7. RemovalsFirst'
    BY <1>0, <2>2, <2>3 DEF RemovalsFirst, InOrder
  <2> QED
    BY <2>6, <2>7 DEF SailInvariant
<1> QED
  BY <1>1, <1>2, <1>5, <1>6, <1>7, <1>9, <1>10, <1>11, <1>12, <1>14, <1>15 DEF Next

\* The connection's state is well formed, and no stream has a removal behind
\* an addition.
THEOREM SailInvariantHolds == Spec => []SailInvariant
BY InitInvariant, NextInvariant, PTL DEF Spec

\* The fields of the connection and both ends of its streams hold what they should:
\* the stream in the field is one that was opened, and a future is set to an answer.
THEOREM ConnectionTypeOK == Spec => []TypeOK
<1>1. SailInvariant => TypeOK
  BY DEF SailInvariant
<1> QED
  BY <1>1, SailInvariantHolds, PTL

\* The commits that removeStatementsInternal, clearInternal and the removals
\* of namespaces make keep every stream to additions behind removals.
THEOREM StreamsRemoveFirst == Spec => []RemovalsFirst
<1>1. SailInvariant => RemovalsFirst
  BY DEF SailInvariant
<1> QED
  BY <1>1, SailInvariantHolds, PTL

-----------------------------------------------------------------------------
(* What a commit has done when it returns *)

\* What one more request adds and removes.
LEMMA OneMoreRequest ==
    ASSUME NEW reqs \in Seq(Request), NEW k \in Nat, k < Len(reqs)
    PROVE  /\ reqs[k + 1] \in Request
           /\ AddedBy(reqs, k + 1) = AddedBy(reqs, k) \cup
                (IF reqs[k + 1].op = "added" THEN reqs[k + 1].items ELSE {})
           /\ RemovedBy(reqs, k + 1) = RemovedBy(reqs, k) \cup
                (IF reqs[k + 1].op = "removed" THEN reqs[k + 1].items ELSE {})
<1>1. k + 1 \in 1 .. Len(reqs) /\ reqs[k + 1] \in Request
  BY SequenceItems
<1>2. reqs[k + 1].items \in SUBSET Item
  BY <1>1 DEF Request
<1>3. \A i \in 1 .. (k + 1) : i \in 1 .. k \/ i = k + 1
  OBVIOUS
<1>4. 1 .. k \subseteq 1 .. (k + 1) /\ k + 1 \in 1 .. (k + 1)
  OBVIOUS
<1> QED
  BY <1>1, <1>2, <1>3, <1>4 DEF AddedBy, RemovedBy

\* A request sent changes nothing of what those before it do.
LEMMA AppendKeeps ==
    ASSUME NEW reqs \in Seq(Request), NEW req \in Request, NEW k \in 0 .. Len(reqs)
    PROVE  /\ AddedBy(Append(reqs, req), k) = AddedBy(reqs, k)
           /\ RemovedBy(Append(reqs, req), k) = RemovedBy(reqs, k)
<1>1. \A i \in 1 .. k : Append(reqs, req)[i] = reqs[i]
  BY SequenceGrows, SequenceItems
<1> QED
  BY <1>1 DEF AddedBy, RemovedBy

\* The removals of one call add nothing, and remove all their items.
LEMMA RemovalsBy ==
    ASSUME NEW reqs \in Removals
    PROVE  AddedBy(reqs, Len(reqs)) = {} /\ RemovedBy(reqs, Len(reqs)) = AllItems(reqs)
<1>1. /\ reqs \in Seq(Request) /\ AllItems(reqs) \in SUBSET Item
      /\ \A i \in DOMAIN reqs : reqs[i].op = "removed"
  BY RemovalsType
<1>2. DOMAIN reqs = 1 .. Len(reqs)
  BY <1>1, SequenceItems
<1> QED
  BY <1>1, <1>2 DEF AddedBy, RemovedBy, AllItems

\* A new call on a store that is as expected.
LEMMA OpenInTurn ==
    ASSUME SailInvariant, NEW reqs \in Seq(Request), OpenStream(reqs), db' = db,
           \A n \in DOMAIN stream : stream[n].server = "applied" /\ stream[n].reply = "done",
           expected' = (db \ RemovedBy(reqs, Len(reqs))) \cup AddedBy(reqs, Len(reqs))
    PROVE  OthersDone' /\ observer' # NoStream /\ InFlight'
<1>1. stream \in Seq(Call) /\ NewCall(reqs) \in Call /\ Len(stream) \in Nat
  BY NewCallType, SequenceItems DEF SailInvariant, TypeOK
<1>2. stream' = Append(stream, NewCall(reqs)) /\ observer' = Len(stream) + 1 /\ future' = "pending"
  BY DEF OpenStream
<1>3. /\ \A m \in DOMAIN stream : stream'[m] = stream[m]
      /\ stream'[Len(stream) + 1] = NewCall(reqs)
      /\ \A m \in DOMAIN stream' : m \in DOMAIN stream \/ m = Len(stream) + 1
  BY <1>1, <1>2, SequenceGrows, SequenceItems
<1>4. OthersDone'
  BY <1>2, <1>3 DEF OthersDone
<1>5. Current' = NewCall(reqs)
  BY <1>2, <1>3 DEF Current
<1>6. /\ Current'.sent = reqs /\ Current'.broken = FALSE /\ Current'.reply = "none"
      /\ Current'.read = 0 /\ Current'.batch = NoBatch
  BY <1>5 DEF NewCall
<1>7. AllToExpected'
  BY <1>6 DEF AllToExpected
<1>8. BatchOfRead'
  <2>1. AddedBy(reqs, 0) = {} /\ RemovedBy(reqs, 0) = {}
    BY DEF AddedBy, RemovedBy
  <2>2. \A x \in Item : NoBatch[x] = "none"
    BY DEF NoBatch
  <2>3. 0 <= Len(reqs)
    BY SequenceItems
  <2> QED
    BY <1>6, <2>1, <2>2, <2>3 DEF BatchOfRead
<1>9. InFlight'
  BY <1>2, <1>6, <1>7, <1>8 DEF InFlight
<1> QED
  BY <1>1, <1>2, <1>4, <1>9 DEF NoStream

\* A stream that is cancelled stays cancelled.
LEMMA CancelledStays == SailInvariant /\ [Next]_vars /\ NoneCancelled' => NoneCancelled /\ ~Rollback
<1> SUFFICES ASSUME SailInvariant, [Next]_vars, NoneCancelled' PROVE NoneCancelled /\ ~Rollback
  OBVIOUS
<1>1. /\ stream \in Seq(Call) /\ DOMAIN stream = 1 .. Len(stream) /\ Len(stream) \in Nat
      /\ observer # NoStream => observer \in DOMAIN stream
      /\ \A n \in DOMAIN stream : stream[n] \in Call
  BY SequenceItems DEF SailInvariant, TypeOK, NoStream
<1>2. ASSUME NEW n \in DOMAIN stream, stream[n].end = "cancelled",
             NEW reqs, OpenStream(reqs) PROVE FALSE
  <2>1. n \in DOMAIN stream' /\ stream'[n] = stream[n]
    BY <1>1, <1>2 DEF OpenStream
  <2> QED
    BY <1>2, <2>1 DEF NoneCancelled
<1>3. ASSUME NEW n \in DOMAIN stream, NEW m \in DOMAIN stream, NEW c,
             stream' = [stream EXCEPT ![m] = c], stream[n].end = "cancelled",
             stream[m].end = "cancelled" => c.end = "cancelled"
      PROVE  FALSE
  <2>1. n \in DOMAIN stream' /\ stream'[n].end = "cancelled"
    BY <1>1, <1>3
  <2> QED
    BY <2>1 DEF NoneCancelled
<1>4. ASSUME Rollback PROVE FALSE
  <2>1. observer \in DOMAIN stream /\ stream[observer] \in Call
    BY <1>1, <1>4 DEF Rollback
  <2>2. PICK r \in {"ok", "error", "done"} :
            stream' = [stream EXCEPT ![observer].end = "cancelled", ![observer].reply = r]
    BY <1>4, ZenonT(30) DEF Rollback
  <2>3. observer \in DOMAIN stream' /\ stream'[observer].end = "cancelled"
    BY <1>1, <2>1, <2>2 DEF Call
  <2> QED
    BY <2>3 DEF NoneCancelled
<1>5. ASSUME NEW n \in DOMAIN stream, stream[n].end = "cancelled" PROVE FALSE
  <2>1. CASE UNCHANGED stream
    BY <1>5, <2>1 DEF NoneCancelled
  <2>2. ASSUME NEW next, Complete(next) PROVE FALSE
    <3>1. observer \in DOMAIN stream /\ stream[observer].end = "open"
      BY <1>1, <2>2 DEF Complete
    <3>2. stream' = [stream EXCEPT ![observer] = [stream[observer] EXCEPT !.end = "completed"]]
      BY <2>2 DEF Complete
    <3> QED
      BY <1>3, <1>5, <3>1, <3>2, ZenonT(30)
  <2>3. ASSUME NEW x \in Item, Add(x) PROVE FALSE
    <3>1. CASE observer = NoStream
      BY <1>2, <1>5, <2>3, <3>1 DEF Add
    <3>2. CASE observer # NoStream
      <4>1. stream[observer].end = "open" /\ observer \in DOMAIN stream
        BY <1>1, <2>3, <3>2 DEF Add, SendOn
      <4>2. stream' = [stream EXCEPT ![observer] =
                          [stream[observer] EXCEPT !.sent = Append(@, Added(x))]]
        BY <2>3, <3>2 DEF Add, SendOn
      <4> QED
        BY <1>3, <1>5, <4>1, <4>2, ZenonT(30)
    <3> QED
      BY <3>1, <3>2
  <2>4. ASSUME NEW reqs \in Removals, Remove(reqs) PROVE FALSE
    BY <1>2, <1>5, <2>2, <2>4 DEF Remove, SendRemovals
  <2>5. CASE GetReturns
    BY <1>2, <1>5, <2>1, <2>5 DEF GetReturns, SendRemovals
  <2>6. ASSUME NEW m \in DOMAIN stream, Callback(m) PROVE FALSE
    <3>1. stream' = [stream EXCEPT ![m] = [stream[m] EXCEPT !.reply = "done"]]
      BY <2>6 DEF Callback
    <3>2. [stream[m] EXCEPT !.reply = "done"].end = stream[m].end
      BY <1>1 DEF Call
    <3> QED
      BY <1>3, <1>5, <3>1, <3>2, ZenonT(30)
  <2>7. ASSUME NEW m \in DOMAIN stream, Read(m) PROVE FALSE
    <3>1. stream[m].end # "cancelled"
      BY <2>7 DEF Read
    <3>2. PICK c : stream' = [stream EXCEPT ![m] = c]
      BY <1>1, <2>7, ZenonT(30) DEF Read
    <3> QED
      BY <1>3, <1>5, <3>1, <3>2, ZenonT(30)
  <2>8. ASSUME NEW m \in DOMAIN stream, Write(m) PROVE FALSE
    <3> DEFINE c == [stream[m] EXCEPT !.server = "applied",
                                      !.reply = IF @ = "none" THEN "ok" ELSE @]
    <3>1. stream' = [stream EXCEPT ![m] = c]
      BY <1>1, <2>8, ZenonT(30) DEF Write
    <3>2. c.end = stream[m].end
      BY <1>1 DEF Call
    <3> HIDE DEF c
    <3> QED
      BY <1>3, <1>5, <3>1, <3>2, ZenonT(30)
  <2>9. \A m \in DOMAIN stream : Lost(stream[m]).end = stream[m].end
    BY <1>1 DEF Call, Lost
  <2>10. ASSUME NEW m \in DOMAIN stream, Break(m) PROVE FALSE
    BY <1>3, <1>5, <2>9, <2>10, ZenonT(30) DEF Break
  <2>11. CASE ServerDies
    <3>1. \A l \in Call : [l EXCEPT !.server = "dead"].end = l.end
      BY DEF Call
    <3>2. Lost(stream[n]) \in Call
      BY <1>1, LostType, ZenonT(30)
    <3>3. n \in DOMAIN stream' /\ stream'[n].end = "cancelled"
      BY <1>5, <2>9, <2>11, <3>1, <3>2 DEF ServerDies
    <3> QED
      BY <3>3 DEF NoneCancelled
  <2>12. CASE Begin \/ RollbackThrows \/ GetThrows \/ Throws \/ UNCHANGED vars
    BY <2>1, <2>12 DEF Begin, RollbackThrows, GetThrows, Throws, vars
  <2>13. CASE Query \/ Commit
    BY <2>1, <2>2, <2>13 DEF Query, Commit
  <2> QED
    BY <1>4, <2>3, <2>4, <2>5, <2>6, <2>7, <2>8, <2>10, <2>11, <2>12, <2>13 DEF Next
<1> QED
  BY <1>4, <1>5 DEF NoneCancelled

LEMMA CurrentType ==
    ASSUME SailInvariant, observer \in DOMAIN stream
    PROVE  /\ Current \in Call
           /\ Current.sent \in Seq(Request) /\ Len(Current.sent) \in Nat
           /\ Current.read \in Nat
           /\ Current.batch \in [Item -> {"none", "put", "del"}]
<1>1. Current \in Call
  BY DEF SailInvariant, TypeOK, Current
<1>2. Current.sent \in Seq(Request) /\ Current.read \in Nat
  BY <1>1 DEF Call
<1>3. Current.batch \in [Item -> {"none", "put", "del"}]
  BY <1>1 DEF Call
<1> QED
  BY <1>1, <1>2, <1>3, SequenceItems

\* A step that replaces the call in the field only.
LEMMA CurrentReplaced ==
    ASSUME SailInvariant, OthersDone, observer \in DOMAIN stream,
           NEW c, stream' = [stream EXCEPT ![observer] = c], observer' = observer
    PROVE  OthersDone' /\ Current' = c
<1>1. DOMAIN stream' = DOMAIN stream /\ stream'[observer] = c
  OBVIOUS
<1>2. \A m \in DOMAIN stream : m # observer => stream'[m] = stream[m]
  OBVIOUS
<1> QED
  BY <1>1, <1>2 DEF OthersDone, Current

\* Only the call in the field is read, applied, broken or answered.
LEMMA OnlyCurrentMoves ==
    ASSUME OthersDone, NEW n \in DOMAIN stream, Callback(n) \/ Read(n) \/ Write(n) \/ Break(n)
    PROVE  n = observer
BY DEF OthersDone, Callback, Read, Write, Break

\* An addition on the open stream.
LEMMA SendInTurn ==
    ASSUME SailInvariant, OthersDone, InFlight, observer \in DOMAIN stream,
           NEW x \in Item, SendOn(Added(x)), expected' = expected \cup {x}, db' = db
    PROVE  OthersDone' /\ InFlight'
<1> DEFINE s == Current.sent
           t == Append(s, Added(x))
           c == [Current EXCEPT !.sent = t]
<1>1. Current \in Call /\ s \in Seq(Request) /\ Added(x) \in Request /\ Current.end = "open"
  BY AddedType, CurrentType DEF Current, SendOn
<1>2. OthersDone' /\ Current' = c /\ UNCHANGED <<observer, future>>
  BY CurrentReplaced, ZenonT(30) DEF SendOn, Current
<1>3. /\ Current'.sent = t /\ Current'.broken = Current.broken /\ Current'.reply = Current.reply
      /\ Current'.read = Current.read /\ Current'.batch = Current.batch
      /\ Current'.server = Current.server
  BY <1>1, <1>2 DEF Call
<1>4. t \in Seq(Request) /\ Len(t) = Len(s) + 1 /\ t[Len(s) + 1] = Added(x) /\ Len(s) \in Nat
  BY <1>1, SequenceGrows, SequenceItems
<1>5. Added(x).op = "added" /\ Added(x).items = {x}
  BY DEF Added
<1>6. /\ AddedBy(t, Len(s) + 1) = AddedBy(s, Len(s)) \cup {x}
      /\ RemovedBy(t, Len(s) + 1) = RemovedBy(s, Len(s))
  <2>1. AddedBy(t, Len(s)) = AddedBy(s, Len(s)) /\ RemovedBy(t, Len(s)) = RemovedBy(s, Len(s))
    BY <1>1, <1>4, AppendKeeps
  <2> HIDE DEF s, t
  <2>2. /\ AddedBy(t, Len(s) + 1) = AddedBy(t, Len(s)) \cup {x}
        /\ RemovedBy(t, Len(s) + 1) = RemovedBy(t, Len(s))
    <3>1. Len(s) < Len(t)
      BY <1>4
    <3>2. /\ AddedBy(t, Len(s) + 1) = AddedBy(t, Len(s)) \cup
                (IF t[Len(s) + 1].op = "added" THEN t[Len(s) + 1].items ELSE {})
          /\ RemovedBy(t, Len(s) + 1) = RemovedBy(t, Len(s)) \cup
                (IF t[Len(s) + 1].op = "removed" THEN t[Len(s) + 1].items ELSE {})
      BY <1>4, <3>1, OneMoreRequest
    <3> QED
      BY <1>4, <1>5, <3>2
  <2> QED
    BY <2>1, <2>2
<1>7. ASSUME Current.server = "reading" PROVE BatchOfRead' /\ AllToExpected'
  <2>1. BatchOfRead /\ AllToExpected
    BY <1>7 DEF InFlight
  <2>2. Current.read \in 0 .. Len(s)
    BY <1>1, <1>4, <2>1 DEF BatchOfRead, Call
  <2>3. /\ AddedBy(t, Current.read) = AddedBy(s, Current.read)
        /\ RemovedBy(t, Current.read) = RemovedBy(s, Current.read)
    BY <1>1, <2>2, AppendKeeps
  <2> HIDE DEF t
  <2>4. BatchOfRead'
    BY <1>3, <1>4, <2>1, <2>2, <2>3 DEF BatchOfRead
  <2>5. AllToExpected'
    <3>1. expected = (db \ RemovedBy(s, Len(s))) \cup AddedBy(s, Len(s))
      BY <2>1 DEF AllToExpected
    <3>2. expected' = (db' \ RemovedBy(t, Len(t))) \cup AddedBy(t, Len(t))
      BY <1>4, <1>6, <3>1
    <3> QED
      BY <1>3, <3>2 DEF AllToExpected
  <2> QED
    BY <2>4, <2>5
<1> HIDE DEF t, c
<1> QED
  BY <1>1, <1>2, <1>3, <1>7 DEF InFlight

\* The server reads the next request into its batch.
LEMMA ReadInTurn ==
    ASSUME SailInvariant, OthersDone, InFlight, observer \in DOMAIN stream, Read(observer)
    PROVE  OthersDone' /\ InFlight'
<1> DEFINE s == Current.sent
           k == Current.read
           req == s[k + 1]
           b == Collected(Current.batch, req)
           c == [Current EXCEPT !.read = k + 1, !.batch = b]
<1>1. /\ Current \in Call /\ s \in Seq(Request) /\ k \in Nat /\ k < Len(s) /\ Len(s) \in Nat
      /\ Current.batch \in [Item -> {"none", "put", "del"}]
      /\ Current.server = "reading"
  BY CurrentType DEF Current, Read
<1>2. stream' = [stream EXCEPT ![observer] = c] /\ UNCHANGED <<client, db>>
  BY ZenonT(30) DEF Read, Current
<1>3. OthersDone' /\ Current' = c
  <2> HIDE DEF c
  <2> QED
    BY <1>2, CurrentReplaced, ZenonT(30) DEF client
<1>4. /\ Current'.sent = s /\ Current'.broken = Current.broken /\ Current'.reply = Current.reply
      /\ Current'.read = k + 1 /\ Current'.batch = b
      /\ Current'.server = Current.server /\ Current'.end = Current.end
  <2> HIDE DEF b
  <2> QED
    BY <1>1, <1>3 DEF Call
<1>5. BatchOfRead /\ AllToExpected
  BY <1>1 DEF InFlight
<1>6. AllToExpected'
  BY <1>2, <1>4, <1>5 DEF AllToExpected, client
<1>7. /\ req \in Request
      /\ AddedBy(s, k + 1) = AddedBy(s, k) \cup (IF req.op = "added" THEN req.items ELSE {})
      /\ RemovedBy(s, k + 1) = RemovedBy(s, k) \cup (IF req.op = "removed" THEN req.items ELSE {})
  BY <1>1, OneMoreRequest
<1>8. req.op = "removed" => AddedBy(s, k) = {}
  <2>1. InOrder(s) /\ DOMAIN s = 1 .. Len(s)
    BY <1>1, SequenceItems DEF SailInvariant, RemovalsFirst, InOrder, Current
  <2>2. \A i \in 1 .. k : i \in DOMAIN s /\ k + 1 \in DOMAIN s /\ i < k + 1
    BY <1>1, <2>1
  <2> QED
    BY <2>1, <2>2 DEF InOrder, AddedBy
<1>9. req.op \in {"added", "removed"} /\ k + 1 <= Len(s)
  <2>1. \A q \in Request : q.op \in {"added", "removed"}
    BY DEF Request
  <2>2. k + 1 <= Len(s)
    BY <1>1
  <2> HIDE DEF s, k, req
  <2> QED
    BY <1>7, <2>1, <2>2
<1>10. \A x \in Item :
        /\ b[x] = "put" <=> x \in AddedBy(s, k + 1)
        /\ b[x] = "del" <=> x \in db /\ x \in RemovedBy(s, k + 1) /\ x \notin AddedBy(s, k + 1)
  <2> SUFFICES ASSUME NEW x \in Item
               PROVE  /\ b[x] = "put" <=> x \in AddedBy(s, k + 1)
                      /\ b[x] = "del" <=> /\ x \in db /\ x \in RemovedBy(s, k + 1)
                                          /\ x \notin AddedBy(s, k + 1)
    BY ZenonT(30)
  <2>1. /\ Current.batch[x] = "put" <=> x \in AddedBy(s, k)
        /\ Current.batch[x] = "del" <=> x \in db /\ x \in RemovedBy(s, k) /\ x \notin AddedBy(s, k)
    BY <1>5 DEF BatchOfRead
  <2>2. b[x] = IF x \notin req.items THEN Current.batch[x]
               ELSE IF req.op = "added" THEN "put"
               ELSE IF x \in db THEN "del" ELSE Current.batch[x]
    BY DEF Collected
  <2> HIDE DEF b, req, s, k
  <2> QED
    BY <1>7, <1>8, <1>9, <2>1, <2>2
<1> HIDE DEF b, c, req, s, k
<1>11. BatchOfRead'
  BY <1>2, <1>4, <1>9, <1>10 DEF BatchOfRead
<1> QED
  BY <1>1, <1>2, <1>3, <1>4, <1>6, <1>11 DEF InFlight, client

\* The server writes the batch: of a completed stream all of it, of a broken one
\* what it has read, and then the answer is not a success.
LEMMA WriteInTurn ==
    ASSUME SailInvariant, NoneCancelled, OthersDone, InFlight, observer \in DOMAIN stream,
           Write(observer)
    PROVE  OthersDone' /\ InFlight'
<1> DEFINE s == Current.sent
           k == Current.read
           b == Current.batch
           c == [Current EXCEPT !.server = "applied", !.reply = IF @ = "none" THEN "ok" ELSE @]
<1>1. /\ Current \in Call /\ s \in Seq(Request) /\ k \in Nat
      /\ b \in [Item -> {"none", "put", "del"}]
      /\ Current.server = "reading" /\ Current.end # "cancelled"
  BY CurrentType DEF Current, Write, NoneCancelled
<1>2. /\ stream' = [stream EXCEPT ![observer] = c] /\ UNCHANGED client
      /\ db' = {x \in Item : b[x] = "put" \/ (b[x] = "none" /\ x \in db)}
      /\ Current.broken \/ (Current.end = "completed" /\ k = Len(s))
  BY <1>1, ZenonT(30) DEF Write, Current
<1>3. OthersDone' /\ Current' = c
  <2> HIDE DEF c
  <2> QED
    BY <1>2, CurrentReplaced, ZenonT(30) DEF client
<1>4. /\ Current'.broken = Current.broken /\ Current'.end = Current.end
      /\ Current'.server = "applied"
      /\ Current'.reply = IF Current.reply = "none" THEN "ok" ELSE Current.reply
  BY <1>1, <1>3 DEF Call
<1>5. BatchOfRead /\ AllToExpected /\ future # "ok" /\ Current.reply # "ok"
  BY <1>1 DEF InFlight
<1>6. k = Len(s) => db' = expected
  <2> SUFFICES ASSUME k = Len(s) PROVE db' = expected
    OBVIOUS
  <2>1. expected = (db \ RemovedBy(s, k)) \cup AddedBy(s, k)
    BY <1>5 DEF AllToExpected
  <2>2. \A x \in Item :
          /\ b[x] = "put" <=> x \in AddedBy(s, k)
          /\ b[x] = "del" <=> x \in db /\ x \in RemovedBy(s, k) /\ x \notin AddedBy(s, k)
    BY <1>5, ZenonT(30) DEF BatchOfRead
  <2>3. \A x \in Item : b[x] = "none" \/ b[x] = "put" \/ b[x] = "del"
    BY <1>1
  <2>4. db \in SUBSET Item /\ AddedBy(s, k) \in SUBSET Item
    BY DEF SailInvariant, TypeOK, AddedBy
  <2> HIDE DEF b, s, k
  <2> QED
    BY <1>2, <2>1, <2>2, <2>3, <2>4
<1>7. Current.broken => Current.reply # "none"
  BY DEF InFlight
<1> HIDE DEF b, c, s, k
<1> QED
  BY <1>2, <1>3, <1>4, <1>5, <1>6, <1>7 DEF InFlight, client

\* What is lost of a call: the answer that had not arrived, unless it failed already.
LEMMA LostFields ==
    ASSUME NEW c \in Call
    PROVE  /\ Lost(c) \in Call
           /\ Lost(c).sent = c.sent /\ Lost(c).read = c.read /\ Lost(c).batch = c.batch
           /\ Lost(c).server = c.server
           /\ Lost(c).reply = IF c.reply \in {"none", "ok"} THEN "error" ELSE c.reply
<1> DEFINE r == IF c.reply \in {"none", "ok"} THEN "error" ELSE c.reply
<1>1. Lost(c) = [c EXCEPT !.broken = TRUE, !.reply = r]
  BY DEF Lost
<1> HIDE DEF r
<1>2. LET l == [c EXCEPT !.broken = TRUE, !.reply = r]
      IN  /\ l.sent = c.sent /\ l.read = c.read /\ l.batch = c.batch
          /\ l.server = c.server /\ l.reply = r
  BY DEF Call
<1> QED
  BY <1>1, <1>2, LostType, ZenonT(30) DEF r

\* The other steps that change the call in the field: it is completed, answered or lost.
LEMMA AnsweredInTurn ==
    ASSUME SailInvariant, OthersDone, InFlight, observer \in DOMAIN stream,
           Callback(observer) \/ Break(observer) \/ \E next : Complete(next)
    PROVE  OthersDone' /\ InFlight'
<1>1. /\ Current \in Call /\ UNCHANGED <<db, expected, observer>>
      /\ Current.reply \in {"none", "ok", "error", "done"}
  BY CurrentType DEF Callback, Break, Complete, client, Call
<1>2. ASSUME NEW c \in Call, stream' = [stream EXCEPT ![observer] = c],
             c.sent = Current.sent, c.read = Current.read, c.batch = Current.batch,
             c.server = Current.server, c.broken => c.reply # "none",
             future' = "ok" => c.reply = "done",
             c.reply = "ok" \/ future' = "ok" =>
                c.server = "applied" /\ c.end = "completed" /\ db = expected
      PROVE  OthersDone' /\ InFlight'
  <2>1. OthersDone' /\ Current' = c
    BY <1>1, <1>2, CurrentReplaced, ZenonT(30)
  <2>2. BatchOfRead' = BatchOfRead /\ AllToExpected' = AllToExpected
    BY <1>1, <1>2, <2>1 DEF BatchOfRead, AllToExpected
  <2> QED
    BY <1>1, <1>2, <2>1, <2>2 DEF InFlight
<1>3. CASE Callback(observer)
  <2> DEFINE c == [Current EXCEPT !.reply = "done"]
  <2>1. /\ c \in Call /\ c.sent = Current.sent /\ c.read = Current.read
        /\ c.batch = Current.batch /\ c.server = Current.server /\ c.reply = "done"
        /\ c.end = Current.end
    BY <1>1 DEF Call
  <2>2. /\ stream' = [stream EXCEPT ![observer] = c] /\ Current.reply \in {"ok", "error"}
        /\ future' = IF future = "pending" THEN Current.reply ELSE future
    BY <1>3 DEF Callback, Current
  <2> HIDE DEF c
  <2> QED
    BY <1>2, <2>1, <2>2, ZenonT(30) DEF InFlight
<1>4. CASE Break(observer)
  <2> DEFINE c == Lost(Current)
  <2>1. /\ c \in Call /\ c.sent = Current.sent /\ c.read = Current.read
        /\ c.batch = Current.batch /\ c.server = Current.server
    BY <1>1, LostFields
  <2>2. /\ stream' = [stream EXCEPT ![observer] = c] /\ Current.reply \in {"none", "ok"}
        /\ future' = future
    BY <1>4 DEF Break, Current, client
  <2>3. c.reply = "error"
    BY <1>1, <2>2, LostFields
  <2>4. future # "ok"
    BY <2>2 DEF InFlight
  <2> HIDE DEF c
  <2> QED
    BY <1>2, <2>1, <2>2, <2>3, <2>4, ZenonT(30)
<1>5. CASE \E next : Complete(next)
  <2> DEFINE c == [Current EXCEPT !.end = "completed"]
  <2>1. /\ c \in Call /\ c.sent = Current.sent /\ c.read = Current.read
        /\ c.batch = Current.batch /\ c.server = Current.server /\ c.reply = Current.reply
        /\ c.end = "completed" /\ c.broken = Current.broken
    BY <1>1 DEF Call
  <2>2. stream' = [stream EXCEPT ![observer] = c] /\ future' = future
    BY <1>5 DEF Complete, Current
  <2> HIDE DEF c
  <2> QED
    BY <1>2, <2>1, <2>2, ZenonT(30) DEF InFlight
<1> QED
  BY <1>3, <1>4, <1>5

\* The server dies, with the call in the field.
LEMMA DiesInTurn ==
    ASSUME SailInvariant, OthersDone, InFlight, observer \in DOMAIN stream, ServerDies
    PROVE  OthersDone' /\ InFlight'
<1>1. \A n \in DOMAIN stream : stream[n] \in Call
  BY DEF SailInvariant, TypeOK
<1>2. Current.server = "reading"
  BY DEF ServerDies, OthersDone, Current
<1>3. /\ DOMAIN stream' = DOMAIN stream /\ UNCHANGED <<observer, future, db, expected>>
      /\ \A n \in DOMAIN stream : stream'[n] =
            IF stream[n].server = "reading"
            THEN [Lost(stream[n]) EXCEPT !.server = "dead"] ELSE Lost(stream[n])
  BY DEF ServerDies, client
<1>4. \A n \in DOMAIN stream :
        /\ Lost(stream[n]) \in Call /\ Lost(stream[n]).server = stream[n].server
        /\ Lost(stream[n]).reply =
             IF stream[n].reply \in {"none", "ok"} THEN "error" ELSE stream[n].reply
  BY <1>1, LostFields
<1>5. OthersDone'
  BY <1>3, <1>4 DEF OthersDone
<1>6. \A l \in Call : LET m == [l EXCEPT !.server = "dead"] IN m.server = "dead" /\ m.reply = l.reply
  BY DEF Call
<1>7. Current' = [Lost(Current) EXCEPT !.server = "dead"]
  BY <1>2, <1>3 DEF Current
<1>8. Current'.server = "dead" /\ Current'.reply # "none" /\ Current'.reply # "ok"
  BY <1>4, <1>6, <1>7 DEF Current
<1>9. future # "ok"
  BY <1>2 DEF InFlight
<1> QED
  BY <1>3, <1>5, <1>8, <1>9 DEF InFlight

LEMMA NextCallsInTurn == SailInvariant /\ CallsInTurn /\ [Next]_vars => CallsInTurn'
<1> SUFFICES ASSUME SailInvariant, CallsInTurn, [Next]_vars PROVE CallsInTurn'
  OBVIOUS
<1>1. pc' = "get" => observer' # NoStream
  BY ZenonT(30) DEF CallsInTurn, Next, Begin, Query, Commit, Complete, GetReturns, GetThrows, Rollback,
         RollbackThrows, Throws, Add, SendOn, OpenStream, SendRemovals, Remove, Callback,
         Read, Write, Break, ServerDies, client, vars
<1> SUFFICES ASSUME NoneCancelled'
             PROVE  /\ OthersDone'
                    /\ observer' = NoStream => db' = expected'
                    /\ observer' # NoStream => InFlight'
  BY <1>1 DEF CallsInTurn
<1>2. /\ NoneCancelled /\ ~Rollback
      /\ OthersDone
      /\ observer = NoStream => db = expected
      /\ observer # NoStream => InFlight /\ observer \in DOMAIN stream
  <2>1. observer # NoStream => observer \in DOMAIN stream
    BY SequenceItems DEF SailInvariant, TypeOK, NoStream
  <2> QED
    BY <2>1, CancelledStays DEF CallsInTurn
<1>3. CASE UNCHANGED <<observer, future, stream, db, expected>>
  BY <1>2, <1>3 DEF OthersDone, InFlight, BatchOfRead, AllToExpected, Current
<1>4. ASSUME NEW x \in Item, Add(x)
      PROVE  OthersDone' /\ observer' # NoStream /\ InFlight'
  <2>1. CASE observer = NoStream
    <3> DEFINE reqs == <<Added(x)>>
    <3>1. reqs \in Seq(Request) /\ Len(reqs) = 1 /\ reqs[1] = Added(x)
      BY AddedType
    <3>2. AddedBy(reqs, 1) = {x} /\ RemovedBy(reqs, 1) = {}
      BY <3>1 DEF AddedBy, RemovedBy, Added
    <3>3. OpenStream(reqs) /\ db' = db /\ expected' = db \cup {x}
      BY <1>2, <1>4, <2>1 DEF Add
    <3>4. \A n \in DOMAIN stream : stream[n].server = "applied" /\ stream[n].reply = "done"
      BY <1>2, <2>1, SequenceItems DEF OthersDone, NoStream, SailInvariant, TypeOK
    <3> HIDE DEF reqs
    <3> QED
      BY <3>1, <3>2, <3>3, <3>4, OpenInTurn, ZenonT(30)
  <2>2. CASE observer # NoStream
    <3>1. SendOn(Added(x)) /\ expected' = expected \cup {x} /\ db' = db
      BY <1>4, <2>2 DEF Add
    <3> QED
      BY <1>2, <2>2, <3>1, SendInTurn, ZenonT(30) DEF SendOn
  <2> QED
    BY <2>1, <2>2
<1>5. ASSUME NEW reqs \in Removals, SendRemovals(reqs), db' = db, db = expected,
             \A n \in DOMAIN stream : stream[n].server = "applied" /\ stream[n].reply = "done"
      PROVE  OthersDone' /\ observer' # NoStream /\ InFlight'
  <2>1. expected' = (db \ RemovedBy(reqs, Len(reqs))) \cup AddedBy(reqs, Len(reqs))
    BY <1>5, RemovalsBy DEF SendRemovals
  <2> QED
    BY <1>5, <2>1, RemovalsType, OpenInTurn DEF SendRemovals
<1>6. ASSUME NEW next, Complete(next)
      PROVE  OthersDone' /\ observer' # NoStream /\ InFlight'
  BY <1>2, <1>6, AnsweredInTurn DEF Complete
<1>7. ASSUME NEW reqs \in Removals, Remove(reqs)
      PROVE  OthersDone' /\ observer' # NoStream /\ InFlight'
  <2>1. CASE Complete([op |-> "remove", reqs |-> reqs])
    BY <1>6, <2>1
  <2>2. CASE observer = NoStream /\ SendRemovals(reqs) /\ db' = db
    <3>1. \A n \in DOMAIN stream : stream[n].server = "applied" /\ stream[n].reply = "done"
      BY <1>2, <2>2, SequenceItems DEF OthersDone, NoStream, SailInvariant, TypeOK
    <3> QED
      BY <1>2, <1>5, <2>2, <3>1
  <2> QED
    BY <1>7, <2>1, <2>2 DEF Remove
<1>8. CASE GetReturns
  <2>1. /\ observer \in DOMAIN stream /\ db = expected
        /\ \A n \in DOMAIN stream : stream[n].server = "applied" /\ stream[n].reply = "done"
    BY <1>2, <1>8 DEF GetReturns, CallsInTurn, InFlight, OthersDone, Current
  <2>2. CASE after.op = "remove"
    <3>1. after.reqs \in Removals
      BY <2>2 DEF SailInvariant, TypeOK
    <3> QED
      BY <1>5, <1>8, <2>1, <2>2, <3>1 DEF GetReturns
  <2>3. CASE after.op # "remove"
    BY <1>8, <2>1, <2>3 DEF GetReturns, OthersDone
  <2> QED
    BY <2>2, <2>3
<1>9. ASSUME NEW n \in DOMAIN stream, Callback(n) \/ Read(n) \/ Write(n) \/ Break(n)
      PROVE  OthersDone' /\ InFlight' /\ observer' # NoStream
  <2>1. n = observer /\ observer # NoStream /\ observer' = observer
    <3>1. n = observer
      BY <1>2, <1>9, OnlyCurrentMoves
    <3>2. n # NoStream
      BY SequenceItems DEF SailInvariant, TypeOK, NoStream
    <3> QED
      BY <1>9, <3>1, <3>2 DEF Callback, Read, Write, Break, client
  <2> QED
    BY <1>2, <1>9, <2>1, AnsweredInTurn, ReadInTurn, WriteInTurn
<1>10. CASE ServerDies
  <2>1. observer # NoStream /\ observer' = observer
    <3>1. PICK n \in DOMAIN stream : stream[n].server = "reading"
      BY <1>10 DEF ServerDies
    <3>2. n # NoStream
      BY SequenceItems DEF SailInvariant, TypeOK, NoStream
    <3> QED
      BY <1>2, <1>10, <3>1, <3>2 DEF OthersDone, ServerDies, client
  <2> QED
    BY <1>2, <1>10, <2>1, DiesInTurn
<1>11. CASE Begin \/ RollbackThrows \/ GetThrows \/ Throws \/ UNCHANGED vars
  BY <1>3, <1>11 DEF Begin, RollbackThrows, GetThrows, Throws, vars
<1>12. CASE Query \/ Commit
  BY <1>3, <1>6, <1>12 DEF Query, Commit
<1> QED
  BY <1>2, <1>4, <1>7, <1>8, <1>9, <1>10, <1>11, <1>12 DEF Next

\* The updates of a connection go to the server one call at a time: while one is in
\* the connection's field, all before it have been applied and answered, and its
\* requests lead from what the store holds to what the user expects.
THEOREM CallsTakeTurns == Spec => []CallsInTurn
<1>1. Init => CallsInTurn
  BY DEF Init, CallsInTurn, OthersDone, NoStream
<1> QED
  BY <1>1, NextCallsInTurn, SailInvariantHolds, PTL DEF Spec

\* commit(), and the commits that queries and removals make on the way, return only
\* when the store holds what all updates so far lead to, if none was rolled back.
THEOREM CommitsTakeEffect == Spec => CommitTakesEffect
<1>1. CallsInTurn => (GetReturns /\ NoneCancelled => db = expected)
  BY DEF CallsInTurn, GetReturns, InFlight
<1> QED
  BY <1>1, CallsTakeTurns, PTL DEF CommitTakesEffect
=============================================================================
