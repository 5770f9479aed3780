---------------------------- MODULE MCTagFilter -----------------------------
EXTENDS TagFilter, TLC

CONSTANTS high, low  \* two levels, high the initial default

\* Tags, writers and lookups are interchangeable.
MCSymmetry == Permutations(Tag) \cup Permutations(Writer) \cup Permutations(Reader)
=============================================================================
