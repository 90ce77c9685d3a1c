---------------------------- MODULE MCLinkListApi ----------------------------
EXTENDS LinkListApi, TLC

CONSTANTS n1, n2, n3, n4

MCNode == {n1, n2, n3, n4}

\* Only safety is checked, and no operation tells addresses apart.
NodeSymmetry == Permutations(MCNode)
==============================================================================
