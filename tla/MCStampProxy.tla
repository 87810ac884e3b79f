---------------------------- MODULE MCStampProxy ----------------------------
\* Small instances of StampProxy for TLC.
EXTENDS StampProxy, TLC

\* Requests are interchangeable, and so are the bundles: sound for safety.
Symmetric == Permutations(Requests) \cup Permutations(Bundles)
=============================================================================
