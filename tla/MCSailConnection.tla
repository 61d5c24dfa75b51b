-------------------------- MODULE MCSailConnection --------------------------
EXTENDS SailConnection

\* A pattern that matches one item, and one that matches everything.
MCTarget == {Item, {CHOOSE x \in Item : TRUE}}
=============================================================================
