---------------------------- MODULE MCOidcLogin ----------------------------
EXTENDS OidcLogin, TLC

Symmetry == Permutations(Request) \union Permutations(Callback)
            \union Permutations(Account) \union Permutations(User)
            \union Permutations(Group) \union Permutations(Filter)
=============================================================================
