-------------------------------- MODULE Cliques -------------------------------
(***************************************************************************)
(* The graph algorithms of the clustering pass.  Where the code iterates   *)
(* over a set, any order may come out; `Trimmed` gives every result.       *)
(***************************************************************************)
EXTENDS Naturals, FiniteSets, FiniteSetsExt

\* The vertex whose neighbours rule out most candidates.
Pivot(adj, p, x) ==
  CHOOSE u \in p \cup x : \A v \in p \cup x :
    Cardinality(adj[v] \cap p) <= Cardinality(adj[u] \cap p)

RECURSIVE Expand(_, _, _, _)
RECURSIVE ExpandEach(_, _, _, _, _)

\* expand(r, p, x): the maximal cliques that contain r, else only members of p,
\* and that no member of x extends.
Expand(adj, r, p, x) ==
  IF p = {} /\ x = {} THEN {r}
  ELSE ExpandEach(adj, r, p, x, p \ adj[Pivot(adj, p, x)])

\* Its loop: each v left in todo is tried, then moves from p to x.
ExpandEach(adj, r, p, x, todo) ==
  IF todo = {} THEN {}
  ELSE LET v == CHOOSE w \in todo : TRUE
       IN  Expand(adj, r \cup {v}, p \cap adj[v], x \cap adj[v])
             \cup ExpandEach(adj, r, p \ {v}, x \cup {v}, todo \ {v})

BronKerbosch(adj) == Expand(adj, {}, DOMAIN adj, {})

\* What a member adds to a group.
Bond(u, group, score) == MapThenSumSet(LAMBDA v : score[{u, v}], group \ {u})

\* _trim_to_size: the member with the least bond goes, until `target` are left.
RECURSIVE Trimmed(_, _, _)
Trimmed(group, score, target) ==
  IF Cardinality(group) <= target THEN {group}
  ELSE UNION {Trimmed(group \ {u}, score, target) :
              u \in {w \in group : \A v \in group : Bond(w, group, score) <= Bond(v, group, score)}}
===============================================================================
