------------------------------- MODULE MCGroups -------------------------------
EXTENDS Groups, Cliques, TLC
GroupSymmetry == Permutations(Crowd) \cup Permutations(GroupIds) \cup Permutations(Nodes)
===============================================================================
