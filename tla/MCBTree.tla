------------------------------ MODULE MCBTree ------------------------------
\* Degree 2, the smallest: eight items give a tree of three levels, and the
\* item with a tag of its own replaces the one it is equal to.
EXTENDS BTree

CONSTANTS MaxKey, MaxCommon

MCItems == {<<k, 0>> : k \in 1..MaxKey} \cup {<<2, 1>>}
MCCommon == {x \in MCItems : x[1] <= MaxCommon}
MCPivots == {<<3, 0>>, <<4, 0>>, None}

\* No step reads the last answer: states that differ in it alone are one.
MCView == <<mem, tree, made, cloned, ended, dict>>
=============================================================================
