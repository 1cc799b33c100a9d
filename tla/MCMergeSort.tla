---------------------------- MODULE MCMergeSort ----------------------------
\* Small instances of MergeSort for TLC.
EXTENDS MergeSort

\* No row, one file and an empty one, three files, four of which the last is not in order.
SomeInputs == { << >>, << 2, 1 >>, << 2, 1, 3, 1, 2 >>, << 1, 3, 2, 1, 3, 2, 2 >> }
UnsortedRest == { << 2, 1 >>, << 3, 1, 2, 2, 1 >> }
=============================================================================
