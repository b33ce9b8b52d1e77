--------------------------- MODULE MCSegmentWalker ---------------------------
EXTENDS SegmentWalker

\* A component whose first segment table is block 0, and a component
\* table entry left zero.
MCComponentPtrs ==
    {[block |-> 0, size |-> PhyBlockSize, blockct |-> 0], NullPtr}
=============================================================================
