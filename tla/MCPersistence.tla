---------------------------- MODULE MCPersistence ----------------------------
EXTENDS LevelDBRefinement

\* Hash values include 0 and MaxHash, the fill values of MinKey and MaxKey.
HashValue == [s1 |-> 0, p1 |-> 1, o1 |-> 2, o2 |-> 5, c1 |-> 3, none |-> 4]

MCHash == [t \in Term |-> HashValue[t]]

\* Namespaces that pair prefixes and URIs one to one, with a default namespace.
OneToOne == {[prefix |-> "x", uri |-> "u"], [prefix |-> Empty, uri |-> "v"]}

\* The same prefix bound to two URIs, as after an edit of a prefix.
Rebound == {[prefix |-> "x", uri |-> "u"], [prefix |-> "x", uri |-> "v"]}
=============================================================================
