------------------------------ MODULE MCTeams -------------------------------
EXTENDS Teams, TLC

Symmetric == Permutations(Users) \union Permutations(Teams) \union Permutations(Requests)
=============================================================================
