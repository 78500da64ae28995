--------------------------- MODULE MCVaultTokens ---------------------------
(* Instances of VaultTokens for TLC. *)
EXTENDS VaultTokens, TLC

CONSTANTS s1

OneSession == [c \in Cred |-> s1]

\* Bound: two jobs run at the same time only until the second failure, crash or
\* expiry; after it one job runs at a time.
RaceBeforeSecondEvent ==
    Cardinality({j \in Job : job[j].pc # "idle"}) = 2 => events <= 1

Symmetry == Permutations(Token) \union Permutations(Cred)

=============================================================================
