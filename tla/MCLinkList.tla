----------------------------- MODULE MCLinkList -----------------------------
EXTENDS LinkList

\* Three addresses: one node in the list, one being inserted, and one whose
\* reuse by malloc is a choice.
CONSTANTS n1, n2, n3

MCNode == {n1, n2, n3}
=============================================================================
