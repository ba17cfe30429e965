SPECIFICATION MergeFairSpec
INVARIANT SuccessMeansMerged
INVARIANT SecondFirst
PROPERTY AllEnd
\* The program ends.
CHECK_DEADLOCK FALSE
