----------------------------- MODULE MCWebProxy -----------------------------
EXTENDS WebProxy

\* Every remainder of a frame by three.
MCSizes == {0, 1, 2}
=============================================================================
