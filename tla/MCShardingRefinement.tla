------------------------ MODULE MCShardingRefinement ------------------------
EXTENDS ShardingRefinement, TLC

\* Two statements in different buckets of three.
MCStmtHash == "s1" :> 3 @@ "s2" :> 4

\* A pattern that matches one statement, one that matches all of them, and
\* the pattern of a namespace.
MCTarget == {{"s1"}, Statement} \cup {{p} : p \in Prefix}
=============================================================================
