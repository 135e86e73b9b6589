---------------------------- MODULE MCDiscovery ----------------------------
\* Instances of Discovery for TLC: two users, and one post of two artifacts.
EXTENDS Discovery

CONSTANTS ann, bob

BobNewest == [i \in Items |-> IF i = LastItem THEN bob ELSE ann]
MCPost == [i \in Items |-> IF i = 3 THEN 2 ELSE i]
=============================================================================
