------------------------------ MODULE MCXplHub ------------------------------
EXTENDS XplHub

\* A negative interval passes xPL_strToInt and the upper bound; 3 is above the
\* MAX_INTERVAL of the run.
Announced == {-1, 1, 3}
=============================================================================
