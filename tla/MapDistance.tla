------------------------------ MODULE MapDistance ------------------------------
(***************************************************************************)
(* What the searches of ExploreMap must find, said without searching: how  *)
(* far the recorded rooms of a map are from its position, and what a path  *)
(* through them is.                                                        *)
(***************************************************************************)
EXTENDS ExploreMap

Ways(m, p) == {Plus(p, Delta[dir]) : dir \in m.rooms[p]} \cap Visited(m)

(* The rooms within n recorded steps of the position.                      *)
Within(m) ==
  LET w[n \in 0 .. Cardinality(Visited(m))] ==
        IF n = 0 THEN {m.pos} \cap Visited(m)
        ELSE w[n - 1] \cup UNION {Ways(m, p) : p \in w[n - 1]}
  IN w

Reachable(m) == Within(m)[Cardinality(Visited(m))]

(* The coordinates a path passes, the first being the position.            *)
Trail(m, path) ==
  LET t[i \in 0 .. Len(path)] ==
        IF i = 0 THEN m.pos ELSE Plus(t[i - 1], Delta[path[i]])
  IN t

IsWalk(m, path) ==
  LET t == Trail(m, path)
  IN \A i \in 1 .. Len(path) : t[i - 1] \in Visited(m) /\ path[i] \in m.rooms[t[i - 1]]

Frontier(m, p, only) ==
  {dir \in m.rooms[p] \cap only : Plus(p, Delta[dir]) \notin Visited(m)}

(* A shortest walk to a room with an unknown exit, and out of that exit.   *)
NearestFrontier(m, path, only) ==
  LET t == Trail(m, path)
      n == Len(path) - 1
  IN /\ path # <<>>
     /\ IsWalk(m, path)
     /\ t[n + 1] \notin Visited(m)
     /\ path[n + 1] \in only
     /\ n = 0 \/ \A p \in Within(m)[n - 1] : Frontier(m, p, only) = {}
=============================================================================
