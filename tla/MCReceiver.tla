----------------------------- MODULE MCReceiver -----------------------------
EXTENDS DspReceiver

\* One score below the threshold, two above it.
MCScores  == 0..2
\* No block, one, the most that the timeout is sure to leave time for, the
\* most that are accepted and one too many.  A bad first byte (BadHeader) has
\* the effect of the first.
MCHeaders == {0, 1, 4, MAX_NBLOCKS, MAX_NBLOCKS + 1}
=============================================================================
