----------------------------- MODULE MCExploreMap -----------------------------
(***************************************************************************)
(* Every map over a small box, reached by the calls the explorer makes:    *)
(* record the room, move, take the layer the room name gives.  In each of  *)
(* them both searches of ExploreMap are compared with MapDistance, which   *)
(* does not search.                                                        *)
(***************************************************************************)
EXTENDS MapDistance

CONSTANTS Box,      \* the coordinates the harness walks
          Compass   \* the directions its rooms may have

ASSUME BoxAssumption == Box \subseteq Int \X Int \X Int

VARIABLE m

MCVertical == [dir \in {"u", "d"} |-> IF dir = "d" THEN 1 ELSE -1]
MCBox == {<<0, 0, 0>>, <<0, 1, 0>>, <<0, 0, 1>>, <<0, 1, 1>>}
MCCompass == {"n", "s", "d"}

DiveDirs == {"d"}
DeferDirs == {"s"}

Init == m = NewMap

RecordHere == \E exits \in SUBSET Compass : m' = Record(m, exits)

WalkOn == \E dir \in Compass : /\ Plus(m.pos, Delta[dir]) \in Box
                               /\ m' = Move(m, dir)

Relayer == \E p \in Box : /\ p[1] = m.pos[1] /\ p[2] = m.pos[2]
                          /\ m' = SetPosition(m, p)

Next == RecordHere \/ WalkOn \/ Relayer

Spec == Init /\ [][Next]_m

-----------------------------------------------------------------------------
(* The clear policy walks a shortest route into the unknown, and says      *)
(* there is none exactly when no room it can reach has an unknown exit     *)
(* (map.lua search_frontier: "Returns the path ... or nil").               *)
ClearFindsNearestFrontier ==
  LET path == NextFrontier(m, "clear", DiveDirs, DeferDirs)
  IN IF path = <<>> THEN \A p \in Reachable(m) : Frontier(m, p, Dirs) = {}
     ELSE NearestFrontier(m, path, Dirs)

(* A deferred direction is taken only when no other unknown exit is as near *)
(* (defer_dirs, ranked last on a tie).                                     *)
DeferredDirectionsComeLast ==
  LET path == NextFrontier(m, "clear", DiveDirs, DeferDirs)
      n == Len(path) - 1
  IN path # <<>> /\ path[Len(path)] \in DeferDirs
       => \A p \in Within(m)[n] : Frontier(m, p, Dirs \ DeferDirs) = {}

(* The dive policy takes the nearest unexplored descent however far it is, *)
(* and is the clear policy when there is none (next_frontier).             *)
DivePrefersDescent ==
  LET path == NextFrontier(m, "dive", DiveDirs, DeferDirs)
  IN IF \E p \in Reachable(m) : Frontier(m, p, DiveDirs) # {}
     THEN NearestFrontier(m, path, DiveDirs)
     ELSE path = NextFrontier(m, "clear", DiveDirs, DeferDirs)

(* path_to's three answers: a shortest route, the empty route exactly when *)
(* already there, and none exactly when the room is unrecorded or cut off. *)
RoutesHomeAreShortest ==
  \A q \in Box :
    LET r == PathTo(m, q)
        n == Len(r.path)
    IN IF ~r.found THEN q \notin Reachable(m)
       ELSE /\ q \in Visited(m)
            /\ IsWalk(m, r.path)
            /\ Trail(m, r.path)[n] = q
            /\ n > 0 => q \notin Within(m)[n - 1]
=============================================================================
