------------------------------ MODULE MCBPTree ------------------------------
EXTENDS BPTree

\* The tree without the indices of its blocks and without the values.  The
\* program compares an index with 0 only and looks at no value, so in states that
\* satisfy the invariants the rest follows from this up to the names of the
\* blocks; other states are kept apart.  No action reads call.
RECURSIVE ShapeOf(_)
ShapeOf(i) ==
    IF i = 0 THEN <<>>
    ELSE LET s == Items(tree, i)
         IN  [n \in DOMAIN s |-> IF IsData(tree, i) THEN s[n][1] ELSE <<s[n][1], ShapeOf(s[n][2])>>]

RECURSIVE RecordSizes(_)
RecordSizes(r) == IF r = 0 THEN <<>> ELSE RecordSizes(tree.blocks[r].last) \o <<Len(Items(tree, r))>>

Shape ==
    <<ShapeOf(tree.begin), Levels(tree.begin), Len(tree.blocks), Len(tree.list),
      RecordSizes(tree.record), TreeShape, BlocksAccounted, torn>>

=============================================================================
