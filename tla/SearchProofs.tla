------------------------------ MODULE SearchProofs ------------------------------
(***************************************************************************)
(* Whatever the explorer records and wherever it goes, the searches over   *)
(* its map are right: for every set of coordinates, every compass and      *)
(* every convention of up and down.                                        *)
(***************************************************************************)
EXTENDS MCExploreMap, ExploreMapProofs

LEMMA MapInvariant == Spec => []Plotted(m)
<1>1. Init => Plotted(m)
  BY NewMapPlotted DEF Init
<1>2. Plotted(m) /\ [Next]_m => Plotted(m)'
  <2>. SUFFICES ASSUME Plotted(m), [Next]_m PROVE Plotted(m')
    BY DEF Plotted, MapOK, Visited
  <2>1. CASE RecordHere
    BY <2>1, RecordPlotted DEF RecordHere
  <2>2. CASE WalkOn
    <3>1. PICK dir \in Compass : Plus(m.pos, Delta[dir]) \in Box /\ m' = Move(m, dir)
      BY <2>2 DEF WalkOn
    <3>2. Plus(m.pos, Delta[dir]) \in Int3
      BY <3>1, BoxAssumption DEF Int3
    <3>. QED  BY <3>1, <3>2, PlacedPlotted DEF Move
  <2>3. CASE Relayer
    <3>1. PICK p \in Box : m' = SetPosition(m, p)
      BY <2>3 DEF Relayer
    <3>2. p \in Int3
      BY BoxAssumption DEF Int3
    <3>. QED  BY <3>1, <3>2, PlacedPlotted DEF SetPosition
  <2>4. CASE UNCHANGED m
    BY <2>4
  <2>. QED  BY <2>1, <2>2, <2>3, <2>4 DEF Next
<1>. QED  BY <1>1, <1>2, PTL DEF Spec

-----------------------------------------------------------------------------
LEMMA ClearIsNearest == Plotted(m) => ClearFindsNearestFrontier
<1>. SUFFICES ASSUME Plotted(m) PROVE ClearFindsNearestFrontier
  OBVIOUS
<1>. DEFINE path == NextFrontier(m, "clear", DiveDirs, DeferDirs)
<1>1. path = SearchFrontier(m, {}, DeferDirs) /\ Allowed({}) = Dirs /\ MapOK(m)
  BY DEF NextFrontier, Allowed, Plotted
<1>. HIDE DEF path
<1>2. /\ path = <<>> <=> \A p \in Reachable(m) : Frontier(m, p, Dirs) = {}
      /\ path # <<>> => NearestFrontier(m, path, Dirs)
  <2>1. RightAnswer(m, Dirs, DeferDirs, path)
    BY <1>1, SearchFrontierIsNearest
  <2>. QED  BY <2>1 DEF RightAnswer
<1>. QED  BY <1>2 DEF ClearFindsNearestFrontier, path

LEMMA DeferredIsLast == Plotted(m) => DeferredDirectionsComeLast
<1>. SUFFICES ASSUME Plotted(m) PROVE DeferredDirectionsComeLast
  OBVIOUS
<1>. DEFINE path == NextFrontier(m, "clear", DiveDirs, DeferDirs)
<1>1. path = SearchFrontier(m, {}, DeferDirs) /\ Allowed({}) = Dirs /\ MapOK(m)
  BY DEF NextFrontier, Allowed, Plotted
<1>. HIDE DEF path
<1>2. path # <<>> /\ path[Len(path)] \in DeferDirs =>
        \A p \in Within(m)[Len(path) - 1] : Frontier(m, p, Dirs \ DeferDirs) = {}
  <2>1. RightAnswer(m, Dirs, DeferDirs, path)
    BY <1>1, SearchFrontierIsNearest
  <2>. QED  BY <2>1 DEF RightAnswer
<1>. QED  BY <1>2 DEF DeferredDirectionsComeLast, path

LEMMA DiveIsDescent == Plotted(m) => DivePrefersDescent
<1>. SUFFICES ASSUME Plotted(m) PROVE DivePrefersDescent
  OBVIOUS
<1>. DEFINE path == NextFrontier(m, "dive", DiveDirs, DeferDirs)
            dived == SearchFrontier(m, DiveDirs, DeferDirs)
            clear == NextFrontier(m, "clear", DiveDirs, DeferDirs)
<1>1. Allowed(DiveDirs) = DiveDirs
  BY DEF Allowed, DiveDirs
<1>2. path = IF dived # <<>> THEN dived ELSE clear
  BY DEF NextFrontier
<1>. HIDE DEF path, dived, clear
<1>3. /\ dived = <<>> <=> \A p \in Reachable(m) : Frontier(m, p, DiveDirs) = {}
      /\ dived # <<>> => NearestFrontier(m, dived, DiveDirs)
  <2>1. dived = SearchFrontier(m, DiveDirs, DeferDirs) /\ MapOK(m)
    BY DEF dived, Plotted
  <2>2. RightAnswer(m, DiveDirs, DeferDirs, dived)
    BY <1>1, <2>1, SearchFrontierIsNearest
  <2>. QED  BY <2>2 DEF RightAnswer
<1>. QED  BY <1>2, <1>3 DEF DivePrefersDescent, path, clear

LEMMA HomeIsShortest == Plotted(m) => RoutesHomeAreShortest
<1>. SUFFICES ASSUME Plotted(m), NEW q \in Box
              PROVE  LET r == PathTo(m, q)
                         n == Len(r.path)
                     IN IF ~r.found THEN q \notin Reachable(m)
                        ELSE /\ q \in Visited(m)
                             /\ IsWalk(m, r.path)
                             /\ Trail(m, r.path)[n] = q
                             /\ n > 0 => q \notin Within(m)[n - 1]
  BY DEF RoutesHomeAreShortest
<1>. DEFINE r == PathTo(m, q)
            n == Len(r.path)
<1>1. /\ r.path \in Seq(Dirs) /\ r.found \in BOOLEAN
      /\ r.found <=> q \in Reachable(m)
      /\ r.found => /\ Leads(m, r.path, q)
                    /\ \A k \in 0 .. Rooms(m) : q \in Within(m)[k] => n <= k
  BY PathToIsShortest DEF Plotted
<1>. HIDE DEF r
<1>2. n \in Nat /\ Rooms(m) \in Nat /\ Reachable(m) = Within(m)[Rooms(m)]
  BY <1>1, RoomsType DEF Plotted, Reachable, Rooms
<1>3. CASE ~r.found
  BY <1>1, <1>3 DEF r
<1>4. CASE r.found
  <2>1. q \in Within(m)[Rooms(m)]
    BY <1>1, <1>2, <1>4
  <2>2. Rooms(m) \in 0 .. Rooms(m)
    BY <1>2
  <2>3. q \in Visited(m)
    BY <2>1, <2>2, WithinFacts DEF Plotted
  <2>4. n <= Rooms(m)
    BY <1>1, <1>4, <2>1, <2>2
  <2>5. n > 0 => q \notin Within(m)[n - 1]
    <3>1. n > 0 => n - 1 \in 0 .. Rooms(m) /\ ~(n <= n - 1)
      BY <1>2, <2>4
    <3>. QED  BY <1>1, <1>4, <3>1
  <2>. QED  BY <1>1, <1>4, <2>3, <2>5 DEF Leads, r
<1>. QED  BY <1>3, <1>4

-----------------------------------------------------------------------------
(* The clear policy walks a shortest route into the unknown and stops only *)
(* when there is none, on every map the explorer can record.               *)
THEOREM ClearFindsNearest == Spec => []ClearFindsNearestFrontier
BY MapInvariant, ClearIsNearest, PTL

(* It takes a deferred direction only when no other is as near.            *)
THEOREM DeferredComesLast == Spec => []DeferredDirectionsComeLast
BY MapInvariant, DeferredIsLast, PTL

(* The dive policy takes the nearest descent within reach, however far.    *)
THEOREM DiveDescends == Spec => []DivePrefersDescent
BY MapInvariant, DiveIsDescent, PTL

(* The way back is a shortest one, and is found exactly when there is one. *)
THEOREM RoutesAreShortest == Spec => []RoutesHomeAreShortest
BY MapInvariant, HomeIsShortest, PTL
=============================================================================
