------------------------------ MODULE ExploreMap ------------------------------
(***************************************************************************)
(* The coordinate map of 3scapes/autostepper/explore/map.lua: dead         *)
(* reckoning over an integer lattice, and the two breadth-first searches   *)
(* the explorer walks by.  A map is a record                               *)
(*     [rooms |-> coordinate -> set of exits,  pos |-> coordinate].        *)
(* Everything here is pure; AutoStepper drives it from the game.           *)
(***************************************************************************)
EXTENDS Integers, Sequences, FiniteSets

CONSTANT Vertical   \* an area's own z step for "u" and "d" (chaossea inverts them)

ASSUME VerticalAssumption == Vertical \in [{"u", "d"} -> {-1, 1}]

(* The unit steps, and the fixed order in which directions are tried.      *)
DirOrder == <<"n", "ne", "e", "se", "s", "sw", "w", "nw", "d", "u">>

Dirs == {"n", "ne", "e", "se", "s", "sw", "w", "nw", "d", "u"}

Delta == [dir \in Dirs |->
            LET dy == IF dir \in {"n", "ne", "nw"} THEN 1
                      ELSE IF dir \in {"s", "se", "sw"} THEN -1 ELSE 0
                dx == IF dir \in {"e", "ne", "se"} THEN 1
                      ELSE IF dir \in {"w", "nw", "sw"} THEN -1 ELSE 0
                dz == IF dir \in {"u", "d"} THEN Vertical[dir] ELSE 0
            IN <<dx, dy, dz>>]

Plus(p, v) == <<p[1] + v[1], p[2] + v[2], p[3] + v[3]>>

Origin == <<0, 0, 0>>

NewMap == [rooms |-> <<>>, pos |-> Origin]

Visited(m) == DOMAIN m.rooms

(* Exits without a unit step ("out", "enter") are never recorded.          *)
Record(m, exits) ==
  [m EXCEPT !.rooms = [p \in Visited(m) \cup {m.pos} |->
                         IF p = m.pos THEN exits \cap Dirs ELSE m.rooms[p]]]

Move(m, dir) == [m EXCEPT !.pos = Plus(@, Delta[dir])]

SetPosition(m, p) == [m EXCEPT !.pos = p]

(* Mutant: an exit counts as unexplored wherever it leads.                 *)
AllExits(m, p) == m.rooms[p]

FrontierDirs(m, p) == {dir \in m.rooms[p] : Plus(p, Delta[dir]) \notin Visited(m)}

-----------------------------------------------------------------------------
(* Breadth-first search over recorded rooms.  The queue keeps every room   *)
(* discovered so far, with the route by which it was first discovered.     *)

Discovered(queue) == {queue[i].at : i \in DOMAIN queue}

Offer(m, queue, from, dir) ==
  LET at == Plus(from.at, Delta[dir])
  IN IF dir \in m.rooms[from.at] /\ at \in Visited(m) \ Discovered(queue)
     THEN Append(queue, [at |-> at, by |-> Append(from.by, dir)]) ELSE queue

Expand(m, queue, from) ==
  LET q[k \in 0 .. Len(DirOrder)] ==
        IF k = 0 THEN queue ELSE Offer(m, q[k - 1], from, DirOrder[k])
  IN q[Len(DirOrder)]

(* The search with every recorded room within reach dequeued, in order.    *)
Search(m) ==
  LET s[i \in 0 .. Cardinality(Visited(m))] ==
        IF i = 0 THEN <<[at |-> m.pos, by |-> <<>>]>>
        ELSE IF i > Len(s[i - 1]) THEN s[i - 1]
        ELSE Expand(m, s[i - 1], s[i - 1][i])
  IN s[Cardinality(Visited(m))]

IndexOf(seq, e) == CHOOSE i \in DOMAIN seq : seq[i] = e

(* Mutant: deferred directions are not ranked last.                        *)
PlainRank(dir, defer) == IndexOf(DirOrder, dir)

Rank(dir, defer) == (IF dir \in defer THEN 200 ELSE 100) + IndexOf(DirOrder, dir)

Before(a, b) == \/ a[1] < b[1]
                \/ a[1] = b[1] /\ a[2] < b[2]
                \/ a[1] = b[1] /\ a[2] = b[2] /\ a[3] <= b[3]

(* The exits into the unknown, each with the route that ends with it.      *)
FrontierExits(m, queue, only, defer) ==
  UNION {{[path |-> Append(queue[i].by, dir), cost |-> <<Len(queue[i].by), Rank(dir, defer), i>>] :
            dir \in {d \in FrontierDirs(m, queue[i].at) : only = {} \/ d \in only}} :
           i \in DOMAIN queue}

Cheapest(exits) ==
  IF exits = {} THEN <<>>
  ELSE (CHOOSE e \in exits : \A o \in exits : Before(e.cost, o.cost)).path

(* The nearest room with an exit into the unknown, ties broken by rank and *)
(* then by discovery; <<>> when there is none.  An empty `only` allows     *)
(* every direction.                                                        *)
SearchFrontier(m, only, defer) ==
  IF m.pos \notin Visited(m) THEN <<>>
  ELSE Cheapest(FrontierExits(m, Search(m), only, defer))

(* The routes a search found to one room: one, or none.                    *)
RoutesTo(target, queue) == {queue[i].by : i \in {j \in DOMAIN queue : queue[j].at = target}}

(* Mutant: "no way there" read as "already there".                         *)
PathOrNothing(m, target) ==
  [found |-> TRUE,
   path |-> IF m.pos \in Visited(m) /\ RoutesTo(target, Search(m)) # {}
            THEN CHOOSE route \in RoutesTo(target, Search(m)) : TRUE ELSE <<>>]

(* The route to one recorded room.  "Already there" (found, empty path)    *)
(* and "no way there" (not found) are different answers.                   *)
PathTo(m, target) ==
  LET known == {target, m.pos} \subseteq Visited(m)
      routes == IF known THEN RoutesTo(target, Search(m)) ELSE {}
  IN [found |-> routes # {},
      path |-> IF routes = {} THEN <<>> ELSE CHOOSE route \in routes : TRUE]

(* Mutants: the dive policy is ignored; and it does not fall back.         *)
NearestOnly(m, policy, dive, defer) == SearchFrontier(m, {}, defer)

DescentOnly(m, policy, dive, defer) ==
  SearchFrontier(m, IF policy = "dive" THEN dive ELSE {}, defer)

(* "dive" takes the nearest descent wherever it is and falls back to       *)
(* "clear" when the map holds none.                                        *)
NextFrontier(m, policy, dive, defer) ==
  LET dived == SearchFrontier(m, dive, defer)
  IN IF policy = "dive" /\ dived # <<>> THEN dived ELSE SearchFrontier(m, {}, defer)
=============================================================================
