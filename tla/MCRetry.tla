------------------------------ MODULE MCRetry ------------------------------
EXTENDS Retry

\* Attempts that take no time, less than, as long as and longer than the
\* intervals 2, 4, 8 and 16 of a limiter that starts at two ticks.
MCDurations == {0, 1, 2, 3, 5, 9}

MCDeadlines == 0 .. 20
=============================================================================
