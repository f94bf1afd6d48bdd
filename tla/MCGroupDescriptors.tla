-------------------------- MODULE MCGroupDescriptors --------------------------
EXTENDS GroupDescriptors

CONSTANTS a, b, r

Pair == {<<a, b>>}
Line == {<<a, r>>, <<r, b>>}
=============================================================================
