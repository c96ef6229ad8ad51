------------------------------ MODULE MCRateLimit ------------------------------
EXTENDS RateLimit, TLC

CONSTANTS one, two

\* Two credentials of two ids, two of one id (a key being rotated), and a
\* process without keys, where authentication is disabled.
MCConfigurations == {(one :> "kA") @@ (two :> "kB"), (one :> "kA") @@ (two :> "kA"), << >>}
MCKeyIds == {"kA", "kB"}
Symmetry == Permutations(Requests)
=============================================================================
