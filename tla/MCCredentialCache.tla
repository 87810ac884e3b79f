------------------------- MODULE MCCredentialCache --------------------------
\* Small instances of CredentialCache for TLC.
EXTENDS CredentialCache, TLC

\* Ticks of a few minutes: the entry of a key (a minute) ends with the tick that
\* follows it, the others (five minutes) live through one more.
Lifetimes == [p \in Paths |-> IF p = "hash" THEN 0 ELSE 1]

\* Tenants and requests are interchangeable: sound for safety.
Symmetric == Permutations(Requests) \cup Permutations(Tenants)
=============================================================================
