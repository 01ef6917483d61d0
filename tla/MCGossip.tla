------------------------------ MODULE MCGossip ------------------------------
\* Instances of Gossip for TLC.
EXTENDS Gossip, TLC

CONSTANTS a, b, c

\* Who dials whom: a history two hops away.
Line == {<<a, b>>, <<b, c>>}
Both == {<<a, b>>, <<b, a>>}

\* Copies of one record with more and fewer signatures, and a second record.
Played == {<<a, 1, {2, 3, 4}>>, <<a, 2, {1}>>, <<b, 1, {1}>>}

\* Copies with equally many, different signatures.
Diverged == {<<a, 1, {1, 2}>>, <<b, 1, {1, 3}>>}
=============================================================================
