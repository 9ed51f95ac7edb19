--------------------------- MODULE MCGraphRefresh ---------------------------
EXTENDS GraphRefresh

\* Every line, and those of one height.
AnyLine  == [1 .. GCols -> Byte]
FlatLine == {[i \in 1 .. GCols |-> b] : b \in Byte}
=============================================================================
