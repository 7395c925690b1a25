---------------------------- MODULE MCContainers ----------------------------
EXTENDS Containers

\* Four buckets: a table of three elements can lose the middle one, one of two
\* can be copied, and a chain of three forms; the fourth element rehashes two
\* chains, in which keys 0 and 2 are together, to three, in which they are not.
MCHtAddresses == 1 .. 4

\* Built of one and of three elements, one of them twice; of a single one a
\* hash is empty.
MCInitial == {<<9>>, <<9, 9, 11>>}
MCAddresses == 1 .. 3
MCKeys == 0 .. 3 \cup {9, 11}
MCCells == 1 .. 4
=============================================================================
