---------------------------- MODULE MCRdfModel ------------------------------
(***************************************************************************)
(* Small instance of RdfModel: two URIs and a literal, a Value, a Resource *)
(* and two Statements.                                                     *)
(***************************************************************************)
EXTENDS TermConversion, TLC

CONSTANTS u, k, l, s, t

MCLeaf == {u, k, l}
MCStmt == {s, t}
MCKind == (u :> "URI") @@ (k :> "URI") @@ (l :> "STRING_LITERAL")

Symmetry == Permutations({u, k}) \cup Permutations(MCStmt)
=============================================================================
