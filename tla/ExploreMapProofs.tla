---------------------------- MODULE ExploreMapProofs ----------------------------
(***************************************************************************)
(* What the two searches of ExploreMap find in any map: the rooms within   *)
(* reach and no others, each by a shortest walk, whatever the order of the *)
(* directions makes of ties.                                               *)
(*                                                                         *)
(* The searches are recursive functions, so every proof is by counting: a  *)
(* set that holds 0 and with each number the next holds them all (CountsUp,*)
(* from the well-foundedness of the natural numbers).                      *)
(***************************************************************************)
EXTENDS MapDistance, FiniteSetTheorems, WellFoundedInduction, TLAPS

Below == {ss \in Nat \X Nat : ss[1] < ss[2]}

LEMMA BelowIsWellFounded == IsWellFoundedOn(Below, Nat)
BY NatLessThanWellFounded DEF OpToRel, Below

(* A set of natural numbers has a least one.                               *)
LEMMA LeastOf ==
  ASSUME NEW T \in SUBSET Nat, T # {}
  PROVE  \E x \in T : \A y \in T : x <= y
<1>1. PICK x \in T : \A y \in T : <<y, x>> \notin Below
  BY BelowIsWellFounded, WFMin
<1>2. ASSUME NEW y \in T PROVE x <= y
  <2>1. x \in Nat /\ y \in Nat
    OBVIOUS
  <2>2. <<y, x>> \notin Below
    BY <1>1
  <2>3. ~(y < x)
    BY <2>1, <2>2 DEF Below
  <2>. QED  BY <2>1, <2>3
<1>. QED  BY <1>2

(* A set that holds 0, and with each number below n the next, holds them.  *)
LEMMA CountsUp ==
  ASSUME NEW n \in Nat, NEW T, 0 \in T, \A k \in 0 .. n - 1 : k \in T => k + 1 \in T
  PROVE  \A k \in 0 .. n : k \in T
<1>. DEFINE Out == {k \in 0 .. n : k \notin T}
<1>. SUFFICES ASSUME Out # {} PROVE FALSE
  OBVIOUS
<1>0. Out \in SUBSET Nat
  OBVIOUS
<1>1. PICK x \in Out : \A y \in Out : x <= y
  BY <1>0, LeastOf
<1>2. x \in 0 .. n /\ x \notin T /\ x # 0
  OBVIOUS
<1>3. x - 1 \in 0 .. n - 1 /\ x - 1 \notin Out
  BY <1>1, <1>2
<1>4. x - 1 \in T
  BY <1>3, <1>2
<1>5. (x - 1) + 1 \in T
  BY <1>3, <1>4
<1>. QED  BY <1>5, <1>2

(* A recursion whose step G stays in X defines a function, with values in  *)
(* X, on any initial segment of the natural numbers.                       *)
Unrolls(f, x, G, n) == f[0] = x /\ \A k \in 1 .. n : f[k] = G[<<f[k - 1], k>>]

LEMMA RecursionExists ==
  ASSUME NEW X, NEW x \in X, NEW n \in Nat, NEW G \in [X \X (1 .. n) -> X]
  PROVE  \E f \in [0 .. n -> X] : Unrolls(f, x, G, n)
<1>. DEFINE T == {k \in 0 .. n : \E f \in [0 .. k -> X] : Unrolls(f, x, G, k)}
<1>1. 0 \in T
  <2>. DEFINE f == [j \in 0 .. 0 |-> x]
  <2>1. f \in [0 .. 0 -> X] /\ Unrolls(f, x, G, 0)
    BY DEF Unrolls
  <2>. QED  BY <2>1
<1>2. ASSUME NEW k \in 0 .. n - 1, k \in T PROVE k + 1 \in T
  <2>1. PICK f \in [0 .. k -> X] : Unrolls(f, x, G, k)
    BY <1>2
  <2>2. k \in Nat /\ k + 1 \in 1 .. n /\ k + 1 \in 0 .. n /\ (k + 1) - 1 = k
    OBVIOUS
  <2>. DEFINE y == G[<<f[k], k + 1>>]
              g == [j \in 0 .. k + 1 |-> IF j = k + 1 THEN y ELSE f[j]]
  <2>3. y \in X
    BY <2>2
  <2>. HIDE DEF y
  <2>4. g \in [0 .. k + 1 -> X] /\ g[0] = x
    BY <2>1, <2>2, <2>3 DEF Unrolls
  <2>5. ASSUME NEW j \in 1 .. k + 1 PROVE g[j] = G[<<g[j - 1], j>>]
    <3>1. CASE j = k + 1
      <4>1. g[j] = y /\ g[j - 1] = f[k]
        BY <2>2, <3>1
      <4>. QED  BY <4>1, <3>1 DEF y
    <3>2. CASE j # k + 1
      <4>1. j \in 1 .. k /\ j - 1 \in 0 .. k /\ j - 1 # k + 1 /\ j \in 0 .. k
        BY <2>2, <3>2
      <4>2. g[j] = f[j] /\ g[j - 1] = f[j - 1]
        BY <2>2, <4>1
      <4>. QED  BY <2>1, <4>1, <4>2 DEF Unrolls
    <3>. QED  BY <3>1, <3>2
  <2>6. Unrolls(g, x, G, k + 1)
    BY <2>4, <2>5 DEF Unrolls
  <2>. QED  BY <2>2, <2>4, <2>6
<1>3. n \in T
  <2>1. \A k \in 0 .. n : k \in T
    <3>. HIDE DEF T
    <3>. QED  BY <1>1, <1>2, CountsUp
  <2>. QED  BY <2>1
<1>. QED  BY <1>3

LEMMA RecursionTyped ==
  ASSUME NEW X, NEW x \in X, NEW n \in Nat, NEW G \in [X \X (1 .. n) -> X],
         NEW S, S[0] = x, \A k \in 1 .. n : S[k - 1] \in X => S[k] = G[<<S[k - 1], k>>]
  PROVE  \A k \in 0 .. n : S[k] \in X
<1>. DEFINE T == {k \in 0 .. n : S[k] \in X}
<1>1. 0 \in T
  OBVIOUS
<1>2. ASSUME NEW k \in 0 .. n - 1, k \in T PROVE k + 1 \in T
  <2>1. k \in Nat /\ k + 1 \in 1 .. n /\ k + 1 \in 0 .. n /\ (k + 1) - 1 = k
    OBVIOUS
  <2>2. S[k] \in X
    BY <1>2
  <2>3. S[k + 1] = G[<<S[k], k + 1>>]
    BY <2>1, <2>2
  <2>4. <<S[k], k + 1>> \in X \X (1 .. n)
    BY <2>1, <2>2
  <2>5. G[<<S[k], k + 1>>] \in X
    BY <2>4
  <2>. QED  BY <2>1, <2>3, <2>5
<1>. HIDE DEF T
<1>3. \A k \in 0 .. n : k \in T
  BY <1>1, <1>2, CountsUp
<1>. QED  BY <1>3 DEF T

-----------------------------------------------------------------------------
(* The lattice.                                                            *)

Int3 == Int \X Int \X Int

LEMMA DirFacts ==
  /\ Len(DirOrder) = 10
  /\ \A k \in 1 .. 10 : DirOrder[k] \in Dirs
  /\ \A dir \in Dirs : \E k \in 1 .. 10 : DirOrder[k] = dir
<1>1. Len(DirOrder) = 10
  BY DEF DirOrder
<1>2. /\ DirOrder[1] = "n" /\ DirOrder[2] = "ne" /\ DirOrder[3] = "e"
      /\ DirOrder[4] = "se" /\ DirOrder[5] = "s" /\ DirOrder[6] = "sw"
      /\ DirOrder[7] = "w" /\ DirOrder[8] = "nw" /\ DirOrder[9] = "d" /\ DirOrder[10] = "u"
  BY DEF DirOrder
<1>3. ASSUME NEW k \in 1 .. 10 PROVE DirOrder[k] \in Dirs
  <2>1. k = 1 \/ k = 2 \/ k = 3 \/ k = 4 \/ k = 5 \/ k = 6 \/ k = 7 \/ k = 8 \/ k = 9 \/ k = 10
    OBVIOUS
  <2>. QED  BY <2>1, <1>2 DEF Dirs
<1>4. ASSUME NEW dir \in Dirs PROVE \E k \in 1 .. 10 : DirOrder[k] = dir
  BY <1>2 DEF Dirs
<1>. QED  BY <1>1, <1>3, <1>4

LEMMA DeltaType == \A dir \in Dirs : Delta[dir] \in Int3
<1>. SUFFICES ASSUME NEW dir \in Dirs PROVE Delta[dir] \in Int3
  OBVIOUS
<1>1. CASE dir \in {"u", "d"}
  <2>1. Vertical[dir] \in Int
    BY <1>1, VerticalAssumption
  <2>. QED  BY <1>1, <2>1 DEF Delta, Int3
<1>2. CASE dir \notin {"u", "d"}
  BY <1>2 DEF Delta, Int3
<1>. QED  BY <1>1, <1>2

LEMMA PlusType == ASSUME NEW p \in Int3, NEW v \in Int3 PROVE Plus(p, v) \in Int3
BY DEF Int3, Plus

-----------------------------------------------------------------------------
(* Distances and walks.                                                    *)

MapOK(m) == /\ m.pos \in Int3
            /\ IsFiniteSet(Visited(m))
            /\ \A p \in Visited(m) : m.rooms[p] \subseteq Dirs

Rooms(m) == Cardinality(Visited(m))

LEMMA RoomsType == ASSUME NEW m, MapOK(m) PROVE Rooms(m) \in Nat
BY FS_CardinalityType DEF MapOK, Rooms

LEMMA WithinFacts ==
  ASSUME NEW m, MapOK(m)
  PROVE  /\ Within(m)[0] = {m.pos} \cap Visited(m)
         /\ \A n \in 1 .. Rooms(m) :
              Within(m)[n] = Within(m)[n - 1] \cup UNION {Ways(m, p) : p \in Within(m)[n - 1]}
         /\ \A n \in 0 .. Rooms(m) : Within(m)[n] \subseteq Visited(m)
<1>. DEFINE N == Rooms(m)
            X == SUBSET Visited(m)
            x == {m.pos} \cap Visited(m)
            Step(g) == [n \in 0 .. N |->
                          IF n = 0 THEN x
                          ELSE g[n - 1] \cup UNION {Ways(m, p) : p \in g[n - 1]}]
            G == [a \in X \X (1 .. N) |-> a[1] \cup UNION {Ways(m, p) : p \in a[1]}]
            W == Within(m)
<1>1. W = CHOOSE g : g = Step(g)
  BY DEF Within, Rooms
<1>2. N \in Nat
  BY RoomsType
<1>3. x \in X
  OBVIOUS
<1>4. G \in [X \X (1 .. N) -> X]
  <2>1. \A p : Ways(m, p) \subseteq Visited(m)
    BY DEF Ways
  <2>2. ASSUME NEW a \in X \X (1 .. N)
        PROVE  a[1] \cup UNION {Ways(m, p) : p \in a[1]} \in X
    BY <2>1
  <2>. QED  BY <2>2
<1>. HIDE DEF X, x, N
<1>5. \A s \in X, k \in 1 .. N : G[<<s, k>>] = s \cup UNION {Ways(m, p) : p \in s}
  OBVIOUS
<1>. HIDE DEF G
<1>6. PICK f \in [0 .. N -> X] : Unrolls(f, x, G, N)
  BY <1>2, <1>3, <1>4, RecursionExists
<1>7. f = Step(f)
  <2>1. ASSUME NEW n \in 0 .. N
        PROVE  f[n] = IF n = 0 THEN x
                      ELSE f[n - 1] \cup UNION {Ways(m, p) : p \in f[n - 1]}
    <3>1. CASE n = 0
      BY <1>6, <3>1 DEF Unrolls
    <3>2. CASE n # 0
      <4>1. n \in 1 .. N /\ n - 1 \in 0 .. N
        BY <1>2, <3>2
      <4>2. f[n - 1] \in X
        BY <4>1
      <4>3. f[n] = G[<<f[n - 1], n>>]
        BY <1>6, <4>1 DEF Unrolls
      <4>. QED  BY <1>5, <3>2, <4>1, <4>2, <4>3
    <3>. QED  BY <3>1, <3>2
  <2>. QED  BY <2>1
<1>8. W = Step(W)
  <2>. HIDE DEF Step, W
  <2>. QED  BY <1>1, <1>7
<1>. HIDE DEF W
<1>9. W[0] = x /\ \A n \in 1 .. N : W[n] = W[n - 1] \cup UNION {Ways(m, p) : p \in W[n - 1]}
  <2>1. W[0] = x
    BY <1>2, <1>8
  <2>2. ASSUME NEW n \in 1 .. N
        PROVE  W[n] = W[n - 1] \cup UNION {Ways(m, p) : p \in W[n - 1]}
    <3>1. n \in 0 .. N /\ n # 0
      BY <1>2
    <3>. QED  BY <1>8, <3>1
  <2>. QED  BY <2>1, <2>2
<1>10. \A n \in 0 .. N : W[n] \in X
  <2>1. ASSUME NEW k \in 1 .. N, W[k - 1] \in X PROVE W[k] = G[<<W[k - 1], k>>]
    BY <1>5, <1>9, <2>1
  <2>2. W[0] = x
    BY <1>9
  <2>. HIDE DEF Step
  <2>. QED  BY <1>2, <1>3, <1>4, <2>1, <2>2, RecursionTyped
<1>. QED  BY <1>9, <1>10 DEF W, X, x, N

LEMMA WithinMonotone ==
  ASSUME NEW m, MapOK(m), NEW n \in 0 .. Rooms(m), NEW k \in 0 .. n
  PROVE  Within(m)[k] \subseteq Within(m)[n]
<1>. DEFINE W == Within(m)
            T == {j \in 0 .. n : j < k \/ W[k] \subseteq W[j]}
<1>1. Rooms(m) \in Nat /\ n \in Nat /\ k \in Nat
  BY RoomsType
<1>2. 0 \in T
  BY <1>1
<1>3. ASSUME NEW j \in 0 .. n - 1, j \in T PROVE j + 1 \in T
  <2>1. j \in Nat /\ j + 1 \in 1 .. Rooms(m) /\ j + 1 \in 0 .. n /\ (j + 1) - 1 = j
    BY <1>1
  <2>2. W[j + 1] = W[j] \cup UNION {Ways(m, p) : p \in W[j]}
    BY <2>1, WithinFacts
  <2>3. W[j] \subseteq W[j + 1]
    BY <2>2
  <2>4. CASE j + 1 < k
    BY <2>1, <2>4
  <2>5. CASE j + 1 = k
    BY <2>1, <2>5
  <2>6. CASE k <= j
    <3>1. W[k] \subseteq W[j]
      BY <1>1, <1>3, <2>1, <2>6
    <3>. QED  BY <2>1, <2>3, <3>1
  <2>. QED  BY <1>1, <2>1, <2>4, <2>5, <2>6
<1>4. n \in T
  <2>. HIDE DEF T
  <2>. QED  BY <1>1, <1>2, <1>3, CountsUp
<1>. QED  BY <1>1, <1>4

(* A room one step from a room within n steps is within n + 1.             *)
LEMMA WithinStep ==
  ASSUME NEW m, MapOK(m), NEW n \in 0 .. Rooms(m) - 1, NEW p \in Within(m)[n],
         NEW q \in Ways(m, p)
  PROVE  q \in Within(m)[n + 1]
<1>1. n + 1 \in 1 .. Rooms(m) /\ (n + 1) - 1 = n
  BY RoomsType
<1>2. Within(m)[n + 1] = Within(m)[n] \cup UNION {Ways(m, r) : r \in Within(m)[n]}
  BY <1>1, WithinFacts
<1>. QED  BY <1>2

(* Nothing is within reach of a position that is not recorded.             *)
LEMMA WithinNothing ==
  ASSUME NEW m, MapOK(m), m.pos \notin Visited(m), NEW n \in 0 .. Rooms(m)
  PROVE  Within(m)[n] = {}
<1>. DEFINE T == {k \in 0 .. n : Within(m)[k] = {}}
<1>1. Rooms(m) \in Nat /\ n \in Nat
  BY RoomsType
<1>2. 0 \in T
  BY <1>1, WithinFacts
<1>3. ASSUME NEW k \in 0 .. n - 1, k \in T PROVE k + 1 \in T
  <2>1. k + 1 \in 1 .. Rooms(m) /\ k + 1 \in 0 .. n /\ (k + 1) - 1 = k
    BY <1>1
  <2>2. Within(m)[k + 1] = Within(m)[k] \cup UNION {Ways(m, p) : p \in Within(m)[k]}
    BY <2>1, WithinFacts
  <2>. QED  BY <1>3, <2>1, <2>2
<1>4. n \in T
  <2>. HIDE DEF T
  <2>. QED  BY <1>1, <1>2, <1>3, CountsUp
<1>. QED  BY <1>4

LEMMA TrailFacts ==
  ASSUME NEW m, m.pos \in Int3, NEW path \in Seq(Dirs)
  PROVE  /\ Trail(m, path)[0] = m.pos
         /\ \A i \in 1 .. Len(path) :
              Trail(m, path)[i] = Plus(Trail(m, path)[i - 1], Delta[path[i]])
<1>. DEFINE N == Len(path)
            x == m.pos
            Step(g) == [i \in 0 .. N |->
                          IF i = 0 THEN x ELSE Plus(g[i - 1], Delta[path[i]])]
            G == [a \in Int3 \X (1 .. N) |-> Plus(a[1], Delta[path[a[2]]])]
            W == Trail(m, path)
<1>1. W = CHOOSE g : g = Step(g)
  BY DEF Trail
<1>2. N \in Nat /\ \A i \in 1 .. N : path[i] \in Dirs
  OBVIOUS
<1>. HIDE DEF N
<1>3. G \in [Int3 \X (1 .. N) -> Int3]
  <2>1. ASSUME NEW a \in Int3 \X (1 .. N) PROVE Plus(a[1], Delta[path[a[2]]]) \in Int3
    <3>1. a[1] \in Int3 /\ path[a[2]] \in Dirs
      BY <1>2
    <3>2. Delta[path[a[2]]] \in Int3
      BY <3>1, DeltaType
    <3>. QED  BY <3>1, <3>2, PlusType
  <2>. QED  BY <2>1
<1>4. \A s \in Int3, i \in 1 .. N : G[<<s, i>>] = Plus(s, Delta[path[i]])
  OBVIOUS
<1>. HIDE DEF G
<1>5. PICK f \in [0 .. N -> Int3] : Unrolls(f, x, G, N)
  BY <1>2, <1>3, RecursionExists
<1>6. f = Step(f)
  <2>1. ASSUME NEW i \in 0 .. N
        PROVE  f[i] = IF i = 0 THEN x ELSE Plus(f[i - 1], Delta[path[i]])
    <3>1. CASE i = 0
      BY <1>5, <3>1 DEF Unrolls
    <3>2. CASE i # 0
      <4>1. i \in 1 .. N /\ i - 1 \in 0 .. N
        BY <1>2, <3>2
      <4>2. f[i - 1] \in Int3
        BY <4>1
      <4>3. f[i] = G[<<f[i - 1], i>>]
        BY <1>5, <4>1 DEF Unrolls
      <4>. QED  BY <1>4, <3>2, <4>1, <4>2, <4>3
    <3>. QED  BY <3>1, <3>2
  <2>. QED  BY <2>1
<1>7. W = Step(W)
  <2>. HIDE DEF Step, W
  <2>. QED  BY <1>1, <1>6
<1>. HIDE DEF W
<1>8. W[0] = x
  BY <1>2, <1>7
<1>9. ASSUME NEW i \in 1 .. N PROVE W[i] = Plus(W[i - 1], Delta[path[i]])
  <2>1. i \in 0 .. N /\ i # 0
    BY <1>2
  <2>. QED  BY <1>7, <2>1
<1>. QED  BY <1>8, <1>9 DEF W, N

(* A path leads through recorded rooms and open exits to p.                *)
Leads(m, path, p) == IsWalk(m, path) /\ Trail(m, path)[Len(path)] = p

LEMMA LeadsNowhere ==
  ASSUME NEW m, m.pos \in Int3
  PROVE  Leads(m, <<>>, m.pos)
<1>1. <<>> \in Seq(Dirs) /\ Len(<<>>) = 0
  OBVIOUS
<1>2. Trail(m, <<>>)[0] = m.pos
  BY <1>1, TrailFacts
<1>. QED  BY <1>1, <1>2 DEF Leads, IsWalk

LEMMA LeadsOn ==
  ASSUME NEW m, m.pos \in Int3, NEW path \in Seq(Dirs), NEW p \in Visited(m),
         Leads(m, path, p), NEW dir \in Dirs, dir \in m.rooms[p]
  PROVE  Leads(m, Append(path, dir), Plus(p, Delta[dir]))
<1>. DEFINE long == Append(path, dir)
            N == Len(path)
            t == Trail(m, path)
            u == Trail(m, long)
<1>1. /\ long \in Seq(Dirs) /\ Len(long) = N + 1 /\ N \in Nat /\ long[N + 1] = dir
      /\ \A i \in 1 .. N : long[i] = path[i]
  OBVIOUS
<1>2. /\ t[0] = m.pos /\ \A i \in 1 .. N : t[i] = Plus(t[i - 1], Delta[path[i]])
  BY TrailFacts
<1>3. /\ u[0] = m.pos /\ \A i \in 1 .. N + 1 : u[i] = Plus(u[i - 1], Delta[long[i]])
  <2>1. long \in Seq(Dirs)
    BY <1>1
  <2>2. /\ u[0] = m.pos
        /\ \A i \in 1 .. Len(long) : u[i] = Plus(u[i - 1], Delta[long[i]])
    <3>. HIDE DEF long
    <3>. QED  BY <2>1, TrailFacts
  <2>3. Len(long) = N + 1
    BY <1>1
  <2>. HIDE DEF long, u, N
  <2>. QED  BY <2>2, <2>3
<1>4. /\ \A i \in 1 .. N : t[i - 1] \in Visited(m) /\ path[i] \in m.rooms[t[i - 1]]
      /\ t[N] = p
  BY DEF Leads, IsWalk
<1>. HIDE DEF long, N, t, u
<1>5. \A i \in 0 .. N : u[i] = t[i]
  <2>. DEFINE T == {i \in 0 .. N : u[i] = t[i]}
  <2>1. 0 \in T
    BY <1>1, <1>2, <1>3
  <2>2. ASSUME NEW i \in 0 .. N - 1, i \in T PROVE i + 1 \in T
    <3>1. i + 1 \in 1 .. N /\ i + 1 \in 1 .. N + 1 /\ i + 1 \in 0 .. N /\ (i + 1) - 1 = i
      BY <1>1
    <3>2. u[i + 1] = Plus(u[i], Delta[long[i + 1]]) /\ t[i + 1] = Plus(t[i], Delta[path[i + 1]])
      BY <1>2, <1>3, <3>1
    <3>. QED  BY <1>1, <2>2, <3>1, <3>2
  <2>3. \A i \in 0 .. N : i \in T
    <3>. HIDE DEF T
    <3>. QED  BY <1>1, <2>1, <2>2, CountsUp
  <2>. QED  BY <2>3
<1>6. N + 1 \in 1 .. N + 1 /\ (N + 1) - 1 = N /\ N \in 0 .. N
  BY <1>1
<1>7. u[N + 1] = Plus(p, Delta[dir])
  BY <1>1, <1>3, <1>4, <1>5, <1>6
<1>8. ASSUME NEW i \in 1 .. N + 1
      PROVE  u[i - 1] \in Visited(m) /\ long[i] \in m.rooms[u[i - 1]]
  <2>1. i - 1 \in 0 .. N
    BY <1>1
  <2>2. CASE i = N + 1
    BY <1>1, <1>4, <1>5, <1>6, <2>2
  <2>3. CASE i # N + 1
    <3>1. i \in 1 .. N
      BY <1>1, <2>3
    <3>. QED  BY <1>1, <1>4, <1>5, <2>1, <3>1
  <2>. QED  BY <2>2, <2>3
<1>. QED  BY <1>1, <1>7, <1>8 DEF Leads, IsWalk, long, u

-----------------------------------------------------------------------------
(* The queue of a search.                                                  *)

Entries(m) == [at : Visited(m), by : Seq(Dirs)]

(* What is true of the queue at any time: it starts at the position, holds *)
(* a room once, in the order of their distance, each with a walk there     *)
(* that is as long as the room is far.                                     *)
Starts(m, q) == q # <<>> /\ q[1] = [at |-> m.pos, by |-> <<>>]

Once(q) == \A a, b \in DOMAIN q : q[a].at = q[b].at => a = b

Sorted(q) == \A a, b \in DOMAIN q : a <= b => Len(q[a].by) <= Len(q[b].by)

Walked(m, q) == \A a \in DOMAIN q : Leads(m, q[a].by, q[a].at) /\ Len(q[a].by) < a

Shortest(m, q) ==
  \A a \in DOMAIN q :
    /\ q[a].at \in Within(m)[Len(q[a].by)]
    /\ \A n \in 0 .. Rooms(m) : q[a].at \in Within(m)[n] => Len(q[a].by) <= n

Sound(m, q) == /\ q \in Seq(Entries(m))
               /\ Starts(m, q) /\ Once(q) /\ Sorted(q) /\ Walked(m, q) /\ Shortest(m, q)

(* Whatever is one step from the first h rooms has been discovered, and    *)
(* nothing farther than one step from the h-th.                            *)
Closed(m, q, h) == \A a \in DOMAIN q : a <= h => Ways(m, q[a].at) \subseteq Discovered(q)

Near(q, h) == \A a \in DOMAIN q : Len(q[a].by) <= Len(q[h].by) + 1

LEMMA EntryFacts ==
  ASSUME NEW m, NEW q \in Seq(Entries(m)), NEW a \in DOMAIN q
  PROVE  /\ a \in 1 .. Len(q) /\ q[a].at \in Visited(m) /\ q[a].by \in Seq(Dirs)
         /\ Len(q[a].by) \in Nat
<1>1. a \in 1 .. Len(q) /\ q[a] \in Entries(m)
  OBVIOUS
<1>2. q[a].at \in Visited(m) /\ q[a].by \in Seq(Dirs)
  BY <1>1 DEF Entries
<1>. QED  BY <1>1, <1>2

(* There are no more entries than rooms.                                   *)
LEMMA QueueFits ==
  ASSUME NEW m, MapOK(m), NEW q, Sound(m, q)
  PROVE  Len(q) \in Nat /\ Len(q) <= Rooms(m)
<1>. DEFINE N == Len(q)
            f == [a \in 1 .. N |-> q[a].at]
<1>1. N \in Nat /\ DOMAIN q = 1 .. N
  BY DEF Sound
<1>2. f \in [1 .. N -> Visited(m)]
  BY <1>1, EntryFacts DEF Sound
<1>3. IsInjective(f)
  BY <1>1 DEF Sound, Once, IsInjective
<1>4. f \in Injection(1 .. N, Visited(m))
  BY <1>2, <1>3 DEF Injection
<1>5. IsFiniteSet(1 .. N) /\ Cardinality(1 .. N) = N
  <2>1. 1 \in Int /\ N \in Int
    BY <1>1
  <2>. HIDE DEF N
  <2>2. IsFiniteSet(1 .. N) /\ Cardinality(1 .. N) = IF 1 > N THEN 0 ELSE N - 1 + 1
    BY <2>1, FS_Interval
  <2>. QED  BY <1>1, <2>2
<1>6. Cardinality(1 .. N) <= Cardinality(Visited(m))
  BY <1>4, FS_Injection DEF MapOK, ExistsInjection
<1>. QED  BY <1>1, <1>5, <1>6 DEF Rooms

(* When the first h - 1 rooms have been dealt with, every room that is no  *)
(* farther than the h-th has been discovered.                              *)
LEMMA NearerKnown ==
  ASSUME NEW m, MapOK(m), NEW q, Sound(m, q), NEW h \in DOMAIN q, Closed(m, q, h - 1),
         NEW n \in 0 .. Rooms(m), n <= Len(q[h].by)
  PROVE  Within(m)[n] \subseteq Discovered(q)
<1>. DEFINE T == {k \in 0 .. n : Within(m)[k] \subseteq Discovered(q)}
<1>1. /\ Rooms(m) \in Nat /\ n \in Nat /\ q \in Seq(Entries(m)) /\ h \in Nat
      /\ Len(q[h].by) \in Nat
  BY RoomsType, EntryFacts DEF Sound
<1>2. 0 \in T
  <2>1. Within(m)[0] \subseteq {m.pos}
    BY WithinFacts
  <2>2. 1 \in DOMAIN q /\ q[1].at = m.pos
    BY <1>1 DEF Sound, Starts
  <2>. QED  BY <1>1, <2>1, <2>2 DEF Discovered
<1>3. ASSUME NEW k \in 0 .. n - 1, k \in T PROVE k + 1 \in T
  <2>1. /\ k + 1 \in 1 .. Rooms(m) /\ k + 1 \in 0 .. n /\ (k + 1) - 1 = k
        /\ k \in 0 .. Rooms(m) /\ k < Len(q[h].by)
    BY <1>1
  <2>2. Within(m)[k + 1] = Within(m)[k] \cup UNION {Ways(m, p) : p \in Within(m)[k]}
    BY <2>1, WithinFacts
  <2>3. ASSUME NEW p \in Within(m)[k] PROVE Ways(m, p) \subseteq Discovered(q)
    <3>1. PICK a \in DOMAIN q : q[a].at = p
      BY <1>3 DEF Discovered
    <3>2. Len(q[a].by) <= k
      BY <2>1, <3>1 DEF Sound, Shortest
    <3>3. a \in Nat /\ Len(q[a].by) \in Nat
      BY <1>1, EntryFacts
    <3>4. ~(h <= a)
      BY <1>1, <2>1, <3>2, <3>3 DEF Sound, Sorted
    <3>5. a <= h - 1
      BY <1>1, <3>3, <3>4
    <3>. QED  BY <3>1, <3>5 DEF Closed
  <2>. QED  BY <1>3, <2>1, <2>2, <2>3
<1>4. \A k \in 0 .. n : k \in T
  <2>1. n \in Nat
    BY <1>1
  <2>. HIDE DEF T
  <2>. QED  BY <1>2, <1>3, <2>1, CountsUp
<1>. QED  BY <1>1, <1>4

(* While the h-th room is dealt with.                                      *)
Dealing(m, q, h) == Sound(m, q) /\ h \in DOMAIN q /\ Closed(m, q, h - 1) /\ Near(q, h)

(* A queue that goes on from another.                                      *)
GoesOn(q, r) == Len(q) <= Len(r) /\ \A a \in DOMAIN q : a \in DOMAIN r /\ r[a] = q[a]

LEMMA GoesOnDiscovers ==
  ASSUME NEW q, NEW r, GoesOn(q, r)
  PROVE  Discovered(q) \subseteq Discovered(r)
BY DEF GoesOn, Discovered

LEMMA OfferNew ==
  ASSUME NEW m, MapOK(m), NEW q, NEW h, Dealing(m, q, h), NEW dir \in Dirs,
         dir \in m.rooms[q[h].at], NEW at, at = Plus(q[h].at, Delta[dir]),
         at \in Visited(m) \ Discovered(q),
         NEW r, r = Append(q, [at |-> at, by |-> Append(q[h].by, dir)])
  PROVE  Dealing(m, r, h) /\ GoesOn(q, r) /\ at \in Discovered(r)
<1>. DEFINE L == Len(q)
            d == Len(q[h].by)
            e == [at |-> at, by |-> Append(q[h].by, dir)]
<1>1. /\ q \in Seq(Entries(m)) /\ L \in Nat /\ DOMAIN q = 1 .. L /\ h \in 1 .. L
      /\ h \in DOMAIN q /\ Sound(m, q)
  BY DEF Dealing, Sound
<1>2. /\ L <= Rooms(m) /\ Rooms(m) \in Nat
      /\ q[h].at \in Visited(m) /\ q[h].by \in Seq(Dirs) /\ d \in Nat
  BY <1>1, QueueFits, RoomsType, EntryFacts
<1>3. e \in Entries(m) /\ e.at = at /\ e.by \in Seq(Dirs) /\ Len(e.by) = d + 1
  <2>1. Append(q[h].by, dir) \in Seq(Dirs) /\ Len(Append(q[h].by, dir)) = d + 1
    BY <1>2
  <2>. QED  BY <2>1 DEF Entries
<1>4. Leads(m, e.by, at)
  BY <1>1, <1>2, LeadsOn DEF Sound, Walked, MapOK
<1>5. d < h
  BY <1>1 DEF Sound, Walked
<1>6. d \in 0 .. Rooms(m) - 1 /\ d + 1 \in 0 .. Rooms(m)
  BY <1>1, <1>2, <1>5
<1>7. at \in Within(m)[d + 1]
  <2>1. q[h].at \in Within(m)[d]
    BY <1>1 DEF Sound, Shortest
  <2>2. at \in Ways(m, q[h].at)
    BY DEF Ways
  <2>. QED  BY <1>6, <2>1, <2>2, WithinStep
<1>8. ASSUME NEW n \in 0 .. Rooms(m), at \in Within(m)[n] PROVE d + 1 <= n
  <2>1. CASE n <= d
    <3>1. Within(m)[n] \subseteq Discovered(q)
      BY <1>1, <2>1, NearerKnown DEF Dealing
    <3>. QED  BY <1>8, <3>1
  <2>2. CASE ~(n <= d)
    BY <1>2, <2>2
  <2>. QED  BY <2>1, <2>2
<1>9. \A a \in DOMAIN q : q[a].at # at
  BY DEF Discovered
<1>10. /\ r \in Seq(Entries(m)) /\ Len(r) = L + 1 /\ DOMAIN r = 1 .. L + 1
       /\ \A a \in 1 .. L : r[a] = q[a]
       /\ r[L + 1] = e
  BY <1>1, <1>3
<1>. HIDE DEF e, d, L
<1>11. \A a \in 1 .. L + 1 : (a \in 1 .. L /\ r[a] = q[a] /\ a \in DOMAIN q) \/ (a = L + 1 /\ r[a] = e)
  BY <1>1, <1>10
<1>12. r # <<>> /\ r[1] = [at |-> m.pos, by |-> <<>>]
  <2>1. 1 \in 1 .. L
    BY <1>1
  <2>2. q[1] = [at |-> m.pos, by |-> <<>>]
    BY <1>1 DEF Sound, Starts
  <2>. QED  BY <1>1, <1>10, <2>1, <2>2
<1>13. Once(r)
  <2>1. ASSUME NEW a \in DOMAIN r, NEW b \in DOMAIN r, r[a].at = r[b].at PROVE a = b
    <3>1. CASE a \in DOMAIN q /\ b \in DOMAIN q
      BY <1>1, <1>10, <2>1, <3>1 DEF Sound, Once
    <3>2. CASE a \notin DOMAIN q \/ b \notin DOMAIN q
      BY <1>1, <1>3, <1>9, <1>10, <1>11, <2>1, <3>2
    <3>. QED  BY <3>1, <3>2
  <2>. QED  BY <2>1 DEF Once
<1>14. \A a \in DOMAIN q : Len(q[a].by) \in Nat /\ Len(q[a].by) <= d + 1
  BY <1>1, EntryFacts DEF Dealing, Near, d
<1>15. Sorted(r)
  <2>1. ASSUME NEW a \in DOMAIN r, NEW b \in DOMAIN r, a <= b
        PROVE  Len(r[a].by) <= Len(r[b].by)
    <3>1. CASE a \in DOMAIN q /\ b \in DOMAIN q
      BY <1>1, <1>10, <2>1, <3>1 DEF Sound, Sorted
    <3>2. CASE a \in DOMAIN q /\ b = L + 1
      BY <1>1, <1>3, <1>10, <1>14, <3>2
    <3>3. CASE a = L + 1
      <4>1. b \in 1 .. L + 1 /\ L + 1 <= b /\ L \in Nat
        BY <1>1, <1>10, <2>1, <3>3 DEF L
      <4>2. b = L + 1
        BY <4>1
      <4>. QED  BY <1>2, <1>3, <1>10, <3>3, <4>2
    <3>. QED  BY <1>10, <1>11, <3>1, <3>2, <3>3
  <2>. QED  BY <2>1 DEF Sorted
<1>16. Walked(m, r)
  <2>1. ASSUME NEW a \in DOMAIN r PROVE Leads(m, r[a].by, r[a].at) /\ Len(r[a].by) < a
    <3>1. CASE a \in DOMAIN q /\ r[a] = q[a]
      BY <1>1, <3>1 DEF Sound, Walked
    <3>2. CASE a = L + 1 /\ r[a] = e
      <4>1. Len(r[a].by) = d + 1 /\ Leads(m, r[a].by, r[a].at)
        BY <1>3, <1>4, <3>2
      <4>2. d + 1 < a
        BY <1>1, <1>2, <1>5, <3>2 DEF L
      <4>. QED  BY <4>1, <4>2
    <3>3. \/ a \in DOMAIN q /\ r[a] = q[a]
          \/ a = L + 1 /\ r[a] = e
      BY <1>10, <1>11
    <3>. QED  BY <3>1, <3>2, <3>3
  <2>. QED  BY <2>1 DEF Walked
<1>17. Shortest(m, r)
  <2>1. ASSUME NEW a \in DOMAIN r
        PROVE  /\ r[a].at \in Within(m)[Len(r[a].by)]
               /\ \A n \in 0 .. Rooms(m) : r[a].at \in Within(m)[n] => Len(r[a].by) <= n
    <3>1. CASE a \in DOMAIN q /\ r[a] = q[a]
      BY <1>1, <3>1 DEF Sound, Shortest
    <3>2. CASE a = L + 1 /\ r[a] = e
      BY <1>3, <1>7, <1>8, <3>2
    <3>. QED  BY <1>10, <1>11, <3>1, <3>2
  <2>. QED  BY <2>1 DEF Shortest
<1>18. GoesOn(q, r)
  BY <1>1, <1>10 DEF GoesOn, L
<1>19. at \in Discovered(r)
  <2>1. L + 1 \in DOMAIN r
    BY <1>1, <1>10
  <2>. QED  BY <1>3, <1>10, <2>1 DEF Discovered
<1>20. Closed(m, r, h - 1)
  <2>1. ASSUME NEW a \in DOMAIN r, a <= h - 1 PROVE Ways(m, r[a].at) \subseteq Discovered(r)
    <3>1. a \in DOMAIN q /\ r[a] = q[a]
      BY <1>1, <1>10, <2>1
    <3>2. Ways(m, q[a].at) \subseteq Discovered(q)
      BY <2>1, <3>1 DEF Dealing, Closed
    <3>. QED  BY <1>18, <3>1, <3>2, GoesOnDiscovers
  <2>. QED  BY <2>1 DEF Closed
<1>21. Near(r, h)
  <2>1. r[h] = q[h]
    BY <1>1, <1>10
  <2>2. ASSUME NEW a \in DOMAIN r PROVE Len(r[a].by) <= d + 1
    BY <1>2, <1>3, <1>10, <1>11, <1>14
  <2>. QED  BY <2>1, <2>2 DEF Near, d
<1>22. h \in DOMAIN r
  BY <1>1, <1>10
<1>23. Sound(m, r)
  BY <1>10, <1>12, <1>13, <1>15, <1>16, <1>17 DEF Sound, Starts
<1>. QED  BY <1>18, <1>19, <1>20, <1>21, <1>22, <1>23 DEF Dealing

(* Offering a direction of the h-th room leaves the queue as it should be, *)
(* and the room that way, if there is one, discovered.                     *)
LEMMA OfferFacts ==
  ASSUME NEW m, MapOK(m), NEW q, NEW h, Dealing(m, q, h), NEW dir \in Dirs,
         NEW r, r = Offer(m, q, q[h], dir)
  PROVE  /\ Dealing(m, r, h) /\ GoesOn(q, r)
         /\ dir \in m.rooms[q[h].at] /\ Plus(q[h].at, Delta[dir]) \in Visited(m)
              => Plus(q[h].at, Delta[dir]) \in Discovered(r)
<1>. DEFINE at == Plus(q[h].at, Delta[dir])
<1>1. CASE dir \in m.rooms[q[h].at] /\ at \in Visited(m) \ Discovered(q)
  <2>1. r = Append(q, [at |-> at, by |-> Append(q[h].by, dir)])
    BY <1>1 DEF Offer
  <2>. HIDE DEF at
  <2>2. at = Plus(q[h].at, Delta[dir])
    BY DEF at
  <2>3. Dealing(m, r, h) /\ GoesOn(q, r) /\ at \in Discovered(r)
    BY <1>1, <2>1, <2>2, OfferNew
  <2>. QED  BY <2>2, <2>3
<1>2. CASE ~(dir \in m.rooms[q[h].at] /\ at \in Visited(m) \ Discovered(q))
  <2>1. r = q
    BY <1>2 DEF Offer
  <2>2. GoesOn(q, q)
    BY DEF GoesOn, Dealing, Sound
  <2>. QED  BY <1>2, <2>1, <2>2
<1>. QED  BY <1>1, <1>2

LEMMA OfferType ==
  ASSUME NEW m, NEW s \in Seq(Entries(m)), NEW from \in Entries(m), NEW dir \in Dirs
  PROVE  Offer(m, s, from, dir) \in Seq(Entries(m))
<1>. DEFINE at == Plus(from.at, Delta[dir])
            e == [at |-> at, by |-> Append(from.by, dir)]
<1>1. ASSUME at \in Visited(m) PROVE Append(s, e) \in Seq(Entries(m))
  <2>1. Append(from.by, dir) \in Seq(Dirs)
    BY DEF Entries
  <2>2. e \in Entries(m)
    BY <1>1, <2>1 DEF Entries
  <2>. QED  BY <2>2
<1>. QED  BY <1>1 DEF Offer

(* Expand as a recursion over the directions.                              *)
Offers(m, queue, from) ==
  LET q[k \in 0 .. Len(DirOrder)] ==
        IF k = 0 THEN queue ELSE Offer(m, q[k - 1], from, DirOrder[k])
  IN q

LEMMA OffersFacts ==
  ASSUME NEW m, NEW queue \in Seq(Entries(m)), NEW from \in Entries(m)
  PROVE  /\ Expand(m, queue, from) = Offers(m, queue, from)[10]
         /\ Offers(m, queue, from)[0] = queue
         /\ \A k \in 1 .. 10 : Offers(m, queue, from)[k]
                                 = Offer(m, Offers(m, queue, from)[k - 1], from, DirOrder[k])
         /\ \A k \in 0 .. 10 : Offers(m, queue, from)[k] \in Seq(Entries(m))
<1>. DEFINE N == Len(DirOrder)
            X == Seq(Entries(m))
            Step(g) == [k \in 0 .. N |->
                          IF k = 0 THEN queue ELSE Offer(m, g[k - 1], from, DirOrder[k])]
            G == [a \in X \X (1 .. N) |-> Offer(m, a[1], from, DirOrder[a[2]])]
            W == Offers(m, queue, from)
<1>1. W = CHOOSE g : g = Step(g)
  BY DEF Offers
<1>2. N = 10 /\ N \in Nat /\ \A k \in 1 .. N : DirOrder[k] \in Dirs
  BY DirFacts
<1>3. Expand(m, queue, from) = W[N]
  BY DEF Expand, Offers
<1>. HIDE DEF N
<1>4. G \in [X \X (1 .. N) -> X]
  <2>1. ASSUME NEW a \in X \X (1 .. N) PROVE Offer(m, a[1], from, DirOrder[a[2]]) \in X
    <3>1. a[1] \in X /\ DirOrder[a[2]] \in Dirs
      BY <1>2
    <3>. QED  BY <3>1, OfferType
  <2>. QED  BY <2>1
<1>5. \A s \in X, k \in 1 .. N : G[<<s, k>>] = Offer(m, s, from, DirOrder[k])
  OBVIOUS
<1>6. queue \in X
  OBVIOUS
<1>. HIDE DEF G, X
<1>7. PICK f \in [0 .. N -> X] : Unrolls(f, queue, G, N)
  BY <1>2, <1>4, <1>6, RecursionExists
<1>8. f = Step(f)
  <2>1. ASSUME NEW k \in 0 .. N
        PROVE  f[k] = IF k = 0 THEN queue ELSE Offer(m, f[k - 1], from, DirOrder[k])
    <3>1. CASE k = 0
      BY <1>7, <3>1 DEF Unrolls
    <3>2. CASE k # 0
      <4>1. k \in 1 .. N /\ k - 1 \in 0 .. N
        BY <1>2, <3>2
      <4>2. f[k - 1] \in X
        BY <4>1
      <4>3. f[k] = G[<<f[k - 1], k>>]
        BY <1>7, <4>1 DEF Unrolls
      <4>. QED  BY <1>5, <3>2, <4>1, <4>2, <4>3
    <3>. QED  BY <3>1, <3>2
  <2>. QED  BY <2>1
<1>9. W = Step(W)
  <2>. HIDE DEF Step, W
  <2>. QED  BY <1>1, <1>8
<1>. HIDE DEF W
<1>10. W[0] = queue
  BY <1>2, <1>9
<1>11. ASSUME NEW k \in 1 .. N PROVE W[k] = Offer(m, W[k - 1], from, DirOrder[k])
  <2>1. k \in 0 .. N /\ k # 0
    BY <1>2
  <2>. QED  BY <1>9, <2>1
<1>12. \A k \in 0 .. N : W[k] \in X
  <2>1. ASSUME NEW k \in 1 .. N, W[k - 1] \in X PROVE W[k] = G[<<W[k - 1], k>>]
    BY <1>5, <1>11, <2>1
  <2>. HIDE DEF Step
  <2>. QED  BY <1>2, <1>4, <1>6, <1>10, <2>1, RecursionTyped
<1>. QED  BY <1>2, <1>3, <1>10, <1>11, <1>12 DEF W, X

LEMMA ExpandType ==
  ASSUME NEW m, NEW s \in Seq(Entries(m)), NEW from \in Entries(m)
  PROVE  Expand(m, s, from) \in Seq(Entries(m))
BY OffersFacts

LEMMA GoesOnTransitive ==
  ASSUME NEW q, NEW r, NEW s, GoesOn(q, r), GoesOn(r, s), Len(q) \in Nat, Len(r) \in Nat,
         Len(s) \in Nat
  PROVE  GoesOn(q, s)
BY DEF GoesOn

(* Arithmetic, by itself: the next of ten directions, and a room one move  *)
(* further than another.                                                   *)
LEMMA NextOfTen ==
  ASSUME NEW k \in 0 .. 9
  PROVE  k + 1 \in 1 .. 10 /\ k + 1 \in 0 .. 10 /\ (k + 1) - 1 = k /\ k \in 0 .. 10
OBVIOUS

LEMMA OneFurther ==
  ASSUME NEW x \in Nat, NEW y \in Nat, NEW z \in Nat, x <= y + 1, y <= z PROVE x <= z + 1
OBVIOUS

(* When the h-th room has been dealt with.                                 *)
LEMMA ExpandFacts ==
  ASSUME NEW m, MapOK(m), NEW q, NEW h, Dealing(m, q, h), NEW r, r = Expand(m, q, q[h])
  PROVE  Sound(m, r) /\ Closed(m, r, h) /\ Near(r, h) /\ GoesOn(q, r) /\ h \in DOMAIN r
<1>. DEFINE W == Offers(m, q, q[h])
            Known(s, k) == \A j \in 1 .. k :
                             /\ DirOrder[j] \in m.rooms[q[h].at]
                             /\ Plus(q[h].at, Delta[DirOrder[j]]) \in Visited(m)
                             => Plus(q[h].at, Delta[DirOrder[j]]) \in Discovered(s)
            T == {k \in 0 .. 10 : Dealing(m, W[k], h) /\ GoesOn(q, W[k]) /\ Known(W[k], k)}
<1>1. /\ q \in Seq(Entries(m)) /\ h \in DOMAIN q /\ q[h] \in Entries(m) /\ Len(q) \in Nat
  BY DEF Dealing, Sound
<1>2. /\ r = W[10] /\ W[0] = q
      /\ \A k \in 1 .. 10 : W[k] = Offer(m, W[k - 1], q[h], DirOrder[k])
      /\ \A k \in 0 .. 10 : W[k] \in Seq(Entries(m))
  BY <1>1, OffersFacts
<1>. HIDE DEF W
<1>3. 0 \in T
  <2>1. GoesOn(q, q)
    BY <1>1 DEF GoesOn
  <2>2. Known(q, 0)
    OBVIOUS
  <2>3. W[0] = q /\ 0 \in 0 .. 10
    BY <1>2
  <2>. HIDE DEF Known
  <2>. QED  BY <2>1, <2>2, <2>3
<1>4. ASSUME NEW k \in 0 .. 9, k \in T PROVE k + 1 \in T
  <2>1. k + 1 \in 1 .. 10 /\ k + 1 \in 0 .. 10 /\ (k + 1) - 1 = k /\ k \in 0 .. 10
    BY NextOfTen
  <2>2. Dealing(m, W[k], h) /\ GoesOn(q, W[k]) /\ Known(W[k], k)
    BY <1>4
  <2>3. W[k][h] = q[h]
    BY <1>1, <2>2 DEF GoesOn
  <2>4. W[k + 1] = Offer(m, W[k], W[k][h], DirOrder[k + 1]) /\ DirOrder[k + 1] \in Dirs
    BY <1>2, <2>1, <2>3, DirFacts
  <2>5. /\ Dealing(m, W[k + 1], h) /\ GoesOn(W[k], W[k + 1])
        /\ DirOrder[k + 1] \in m.rooms[q[h].at]
           /\ Plus(q[h].at, Delta[DirOrder[k + 1]]) \in Visited(m)
             => Plus(q[h].at, Delta[DirOrder[k + 1]]) \in Discovered(W[k + 1])
    <3>. HIDE DEF Known, T
    <3>. QED  BY <2>2, <2>3, <2>4, OfferFacts
  <2>6. GoesOn(q, W[k + 1])
    <3>1. Len(W[k]) \in Nat /\ Len(W[k + 1]) \in Nat
      <4>1. W[k] \in Seq(Entries(m)) /\ W[k + 1] \in Seq(Entries(m))
        BY <1>2, <2>1
      <4>. QED  BY <4>1
    <3>. HIDE DEF Known, T
    <3>. QED  BY <1>1, <2>2, <2>5, <3>1, GoesOnTransitive
  <2>7. Known(W[k + 1], k + 1)
    <3>1. Discovered(W[k]) \subseteq Discovered(W[k + 1])
      BY <2>5, GoesOnDiscovers
    <3>2. \A j \in 1 .. k + 1 : j \in 1 .. k \/ j = k + 1
      BY <2>1
    <3>. QED  BY <2>2, <2>5, <3>1, <3>2
  <2>. QED  BY <2>1, <2>5, <2>6, <2>7
<1>5. 10 \in T
  <2>1. \A k \in 0 .. 10 - 1 : k \in T => k + 1 \in T
    BY <1>4
  <2>2. \A k \in 0 .. 10 : k \in T
    <3>. HIDE DEF T
    <3>. QED  BY <1>3, <2>1, CountsUp
  <2>. QED  BY <2>2
<1>6. Dealing(m, r, h) /\ GoesOn(q, r) /\ Known(r, 10)
  BY <1>2, <1>5
<1>7. r[h] = q[h] /\ h \in Nat /\ h \in DOMAIN r /\ r \in Seq(Entries(m))
  BY <1>1, <1>6 DEF GoesOn, Dealing, Sound
<1>8. Ways(m, r[h].at) \subseteq Discovered(r)
  <2>1. m.rooms[q[h].at] \subseteq Dirs
    <3>1. q[h].at \in Visited(m)
      BY <1>1 DEF Entries
    <3>. QED  BY <3>1 DEF MapOK
  <2>2. ASSUME NEW dir \in m.rooms[q[h].at], Plus(q[h].at, Delta[dir]) \in Visited(m)
        PROVE  Plus(q[h].at, Delta[dir]) \in Discovered(r)
    <3>1. PICK j \in 1 .. 10 : DirOrder[j] = dir
      BY <2>1, DirFacts
    <3>. QED  BY <1>6, <2>2, <3>1
  <2>. QED  BY <1>7, <2>2 DEF Ways
<1>9. Closed(m, r, h)
  <2>1. ASSUME NEW a \in DOMAIN r, a <= h PROVE Ways(m, r[a].at) \subseteq Discovered(r)
    <3>1. a \in Nat
      BY <1>7
    <3>2. CASE a = h
      BY <1>8, <3>2
    <3>3. CASE a <= h - 1
      BY <1>6, <3>3 DEF Dealing, Closed
    <3>. QED  BY <1>7, <2>1, <3>1, <3>2, <3>3
  <2>. QED  BY <2>1 DEF Closed
<1>. QED  BY <1>6, <1>7, <1>9 DEF Dealing

(* Search as a recursion over the rooms dealt with.                        *)
Searches(m) ==
  LET s[i \in 0 .. Cardinality(Visited(m))] ==
        IF i = 0 THEN <<[at |-> m.pos, by |-> <<>>]>>
        ELSE IF i > Len(s[i - 1]) THEN s[i - 1]
        ELSE Expand(m, s[i - 1], s[i - 1][i])
  IN s

Dequeue(m, s, i) == IF i > Len(s) THEN s ELSE Expand(m, s, s[i])

LEMMA SearchesFacts ==
  ASSUME NEW m, MapOK(m), m.pos \in Visited(m)
  PROVE  /\ Search(m) = Searches(m)[Rooms(m)]
         /\ Searches(m)[0] = <<[at |-> m.pos, by |-> <<>>]>>
         /\ \A i \in 1 .. Rooms(m) : Searches(m)[i] = Dequeue(m, Searches(m)[i - 1], i)
<1>. DEFINE N == Rooms(m)
            X == Seq(Entries(m))
            x == <<[at |-> m.pos, by |-> <<>>]>>
            Step(g) == [i \in 0 .. N |->
                          IF i = 0 THEN x
                          ELSE IF i > Len(g[i - 1]) THEN g[i - 1]
                          ELSE Expand(m, g[i - 1], g[i - 1][i])]
            G == [a \in X \X (1 .. N) |-> Dequeue(m, a[1], a[2])]
            W == Searches(m)
<1>1. W = CHOOSE g : g = Step(g)
  BY DEF Searches, Rooms
<1>2. N \in Nat
  BY RoomsType
<1>3. Search(m) = W[N]
  BY DEF Search, Searches, Rooms
<1>. HIDE DEF N
<1>4. x \in X
  BY DEF Entries
<1>5. G \in [X \X (1 .. N) -> X]
  <2>1. ASSUME NEW a \in X \X (1 .. N) PROVE Dequeue(m, a[1], a[2]) \in X
    <3>1. a[1] \in X /\ a[2] \in 1 .. N
      OBVIOUS
    <3>2. ASSUME ~(a[2] > Len(a[1])) PROVE a[1][a[2]] \in Entries(m)
      <4>1. a[2] \in 1 .. Len(a[1])
        BY <1>2, <3>1, <3>2
      <4>. QED  BY <3>1, <4>1
    <3>. QED  BY <3>1, <3>2, ExpandType DEF Dequeue
  <2>. QED  BY <2>1
<1>6. \A s \in X, i \in 1 .. N : G[<<s, i>>] = Dequeue(m, s, i)
  OBVIOUS
<1>. HIDE DEF G, X, x
<1>7. PICK f \in [0 .. N -> X] : Unrolls(f, x, G, N)
  BY <1>2, <1>4, <1>5, RecursionExists
<1>8. f = Step(f)
  <2>1. ASSUME NEW i \in 0 .. N
        PROVE  f[i] = IF i = 0 THEN x
                      ELSE IF i > Len(f[i - 1]) THEN f[i - 1]
                      ELSE Expand(m, f[i - 1], f[i - 1][i])
    <3>1. CASE i = 0
      BY <1>7, <3>1 DEF Unrolls
    <3>2. CASE i # 0
      <4>1. i \in 1 .. N /\ i - 1 \in 0 .. N
        BY <1>2, <3>2
      <4>2. f[i - 1] \in X
        BY <4>1
      <4>3. f[i] = G[<<f[i - 1], i>>]
        BY <1>7, <4>1 DEF Unrolls
      <4>4. f[i] = Dequeue(m, f[i - 1], i)
        BY <1>6, <4>1, <4>2, <4>3
      <4>. QED  BY <3>2, <4>4 DEF Dequeue
    <3>. QED  BY <3>1, <3>2
  <2>. QED  BY <2>1
<1>9. W = Step(W)
  <2>. HIDE DEF Step, W
  <2>. QED  BY <1>1, <1>8
<1>. HIDE DEF W
<1>10. W[0] = x
  BY <1>2, <1>9
<1>11. ASSUME NEW i \in 1 .. N PROVE W[i] = Dequeue(m, W[i - 1], i)
  <2>1. i \in 0 .. N /\ i # 0
    BY <1>2
  <2>. QED  BY <1>9, <2>1 DEF Dequeue
<1>. QED  BY <1>3, <1>10, <1>11 DEF W, N, x

(* What a search leaves when every room has been dealt with.               *)
LEMMA SearchSound ==
  ASSUME NEW m, MapOK(m), m.pos \in Visited(m)
  PROVE  Sound(m, Search(m)) /\ Closed(m, Search(m), Len(Search(m)))
<1>. DEFINE N == Rooms(m)
            W == Searches(m)
            Done(s, i) == /\ Sound(m, s) /\ Closed(m, s, i)
                          /\ i + 1 \in DOMAIN s => Near(s, i + 1)
            T == {i \in 0 .. N : Done(W[i], i)}
            start == [at |-> m.pos, by |-> <<>>]
<1>1. N \in Nat
  BY RoomsType
<1>2. /\ Search(m) = W[N] /\ W[0] = <<start>>
      /\ \A i \in 1 .. N : W[i] = Dequeue(m, W[i - 1], i)
  BY SearchesFacts
<1>. HIDE DEF N, W
<1>3. 0 \in T
  <2>1. /\ <<start>> \in Seq(Entries(m)) /\ DOMAIN <<start>> = {1} /\ <<start>>[1] = start
        /\ Len(start.by) = 0 /\ start.at = m.pos /\ start.by = <<>> /\ <<start>> # <<>>
    BY DEF Entries
  <2>. HIDE DEF start
  <2>2. Starts(m, <<start>>)
    BY <2>1 DEF Starts, start
  <2>3. Once(<<start>>) /\ Sorted(<<start>>) /\ Near(<<start>>, 0 + 1)
    BY <2>1 DEF Once, Sorted, Near
  <2>4. Walked(m, <<start>>)
    <3>1. Leads(m, <<>>, m.pos)
      BY LeadsNowhere DEF MapOK
    <3>. QED  BY <2>1, <3>1 DEF Walked
  <2>5. Shortest(m, <<start>>)
    <3>1. m.pos \in Within(m)[0]
      BY WithinFacts
    <3>2. \A n \in 0 .. Rooms(m) : 0 <= n
      BY <1>1 DEF N
    <3>. QED  BY <2>1, <3>1, <3>2 DEF Shortest
  <2>6. Closed(m, <<start>>, 0)
    BY <2>1 DEF Closed
  <2>7. Done(<<start>>, 0)
    BY <2>1, <2>2, <2>3, <2>4, <2>5, <2>6 DEF Sound
  <2>. QED  BY <1>1, <1>2, <2>7
<1>4. ASSUME NEW i \in 0 .. N - 1, i \in T PROVE i + 1 \in T
  <2>. DEFINE s == W[i]
              r == W[i + 1]
  <2>1. /\ i \in Nat /\ i + 1 \in 1 .. N /\ i + 1 \in 0 .. N /\ (i + 1) - 1 = i
        /\ Done(s, i)
    BY <1>1, <1>4
  <2>2. r = Dequeue(m, s, i + 1)
    BY <1>2, <2>1
  <2>3. s \in Seq(Entries(m)) /\ Len(s) \in Nat /\ DOMAIN s = 1 .. Len(s)
    BY <2>1 DEF Sound
  <2>. HIDE DEF s, r
  <2>4. CASE i + 1 > Len(s)
    <3>1. r = s
      BY <2>2, <2>4 DEF Dequeue
    <3>2. \A a \in DOMAIN s : a <= i
      BY <2>1, <2>3, <2>4
    <3>3. (i + 1) + 1 \notin DOMAIN s
      BY <2>1, <2>3, <2>4
    <3>4. Closed(m, s, i + 1)
      BY <2>1, <3>2 DEF Closed
    <3>. QED  BY <2>1, <3>1, <3>3, <3>4 DEF r
  <2>5. CASE ~(i + 1 > Len(s))
    <3>1. r = Expand(m, s, s[i + 1]) /\ i + 1 \in DOMAIN s
      BY <2>1, <2>2, <2>3, <2>5 DEF Dequeue
    <3>2. Dealing(m, s, i + 1)
      BY <2>1, <3>1 DEF Dealing
    <3>3. /\ Sound(m, r) /\ Closed(m, r, i + 1) /\ Near(r, i + 1) /\ i + 1 \in DOMAIN r
      BY <3>1, <3>2, ExpandFacts
    <3>4. ASSUME (i + 1) + 1 \in DOMAIN r PROVE Near(r, (i + 1) + 1)
      <4>1. r \in Seq(Entries(m))
        BY <3>3 DEF Sound
      <4>2. Len(r[i + 1].by) <= Len(r[(i + 1) + 1].by)
        BY <2>1, <3>3, <3>4 DEF Sound, Sorted
      <4>3. ASSUME NEW a \in DOMAIN r PROVE Len(r[a].by) <= Len(r[(i + 1) + 1].by) + 1
        <5>1. /\ Len(r[a].by) \in Nat /\ Len(r[i + 1].by) \in Nat
              /\ Len(r[(i + 1) + 1].by) \in Nat
          BY <3>3, <3>4, <4>1, EntryFacts
        <5>2. Len(r[a].by) <= Len(r[i + 1].by) + 1
          BY <3>3 DEF Near
        <5>. QED  BY <4>2, <5>1, <5>2, OneFurther
      <4>. QED  BY <4>3 DEF Near
    <3>. QED  BY <2>1, <3>3, <3>4 DEF r
  <2>. QED  BY <2>4, <2>5
<1>5. Done(W[N], N)
  <2>1. \A i \in 0 .. N : i \in T
    <3>. HIDE DEF T
    <3>. QED  BY <1>1, <1>3, <1>4, CountsUp
  <2>. QED  BY <1>1, <2>1
<1>6. Len(W[N]) \in Nat /\ Len(W[N]) <= N
  BY <1>5, QueueFits DEF N
<1>7. W[N] \in Seq(Entries(m))
  BY <1>5 DEF Sound
<1>8. Closed(m, W[N], Len(W[N]))
  BY <1>1, <1>5, <1>6, <1>7 DEF Closed
<1>. QED  BY <1>2, <1>5, <1>8

(* A search discovers the rooms within reach and no others.                *)
LEMMA SearchReaches ==
  ASSUME NEW m, MapOK(m), m.pos \in Visited(m)
  PROVE  Discovered(Search(m)) = Reachable(m)
<1>. DEFINE q == Search(m)
            N == Rooms(m)
            T == {k \in 0 .. N : Within(m)[k] \subseteq Discovered(q)}
<1>1. /\ Sound(m, q) /\ Closed(m, q, Len(q)) /\ N \in Nat
      /\ q \in Seq(Entries(m)) /\ Len(q) \in Nat
  BY SearchSound, RoomsType DEF Sound
<1>. HIDE DEF q, N
<1>2. 0 \in T
  <2>1. Within(m)[0] \subseteq {m.pos}
    BY WithinFacts
  <2>2. 1 \in DOMAIN q /\ q[1].at = m.pos
    BY <1>1 DEF Sound, Starts
  <2>. QED  BY <1>1, <2>1, <2>2 DEF Discovered
<1>3. ASSUME NEW k \in 0 .. N - 1, k \in T PROVE k + 1 \in T
  <2>1. k + 1 \in 1 .. N /\ k + 1 \in 0 .. N /\ (k + 1) - 1 = k
    BY <1>1
  <2>2. Within(m)[k + 1] = Within(m)[k] \cup UNION {Ways(m, p) : p \in Within(m)[k]}
    BY <2>1, WithinFacts DEF N
  <2>3. ASSUME NEW p \in Within(m)[k] PROVE Ways(m, p) \subseteq Discovered(q)
    <3>1. PICK a \in DOMAIN q : q[a].at = p
      BY <1>3 DEF Discovered
    <3>2. a <= Len(q)
      BY <1>1
    <3>. QED  BY <1>1, <3>1, <3>2 DEF Closed
  <2>. QED  BY <1>3, <2>1, <2>2, <2>3
<1>4. \A k \in 0 .. N : k \in T
  <2>. HIDE DEF T
  <2>. QED  BY <1>1, <1>2, <1>3, CountsUp
<1>5. Reachable(m) = Within(m)[N]
  BY DEF Reachable, N, Rooms
<1>6. Within(m)[N] \subseteq Discovered(q)
  BY <1>1, <1>4
<1>7. ASSUME NEW a \in DOMAIN q PROVE q[a].at \in Within(m)[N]
  <2>1. q[a].at \in Within(m)[Len(q[a].by)] /\ Len(q[a].by) < a
    BY <1>1 DEF Sound, Shortest, Walked
  <2>2. Len(q[a].by) \in Nat /\ a \in Nat /\ a <= Len(q) /\ Len(q) <= N
    BY <1>1, EntryFacts, QueueFits DEF N
  <2>3. Len(q[a].by) \in 0 .. N /\ N \in 0 .. N
    BY <1>1, <2>1, <2>2
  <2>4. Within(m)[Len(q[a].by)] \subseteq Within(m)[N]
    BY <2>3, WithinMonotone DEF N
  <2>. QED  BY <2>1, <2>4
<1>. QED  BY <1>5, <1>6, <1>7 DEF Discovered, q

-----------------------------------------------------------------------------
(* path_to gives a shortest walk to a room within reach, the empty one     *)
(* when already there, and none to any other room: for every map.          *)
THEOREM PathToIsShortest ==
  ASSUME NEW m, MapOK(m), NEW target
  PROVE  /\ PathTo(m, target).path \in Seq(Dirs)
         /\ PathTo(m, target).found \in BOOLEAN
         /\ PathTo(m, target).found <=> target \in Reachable(m)
         /\ ~PathTo(m, target).found => PathTo(m, target).path = <<>>
         /\ PathTo(m, target).found =>
              /\ Leads(m, PathTo(m, target).path, target)
              /\ \A n \in 0 .. Rooms(m) :
                   target \in Within(m)[n] => Len(PathTo(m, target).path) <= n
<1>. DEFINE r == PathTo(m, target)
            q == Search(m)
            routes == RoutesTo(target, q)
<1>1. Reachable(m) \subseteq Visited(m)
  <2>1. Rooms(m) \in 0 .. Rooms(m)
    BY RoomsType
  <2>. QED  BY <2>1, WithinFacts DEF Reachable, Rooms
<1>2. CASE ~({target, m.pos} \subseteq Visited(m))
  <2>1. r.found = FALSE /\ r.path = <<>>
    BY <1>2 DEF PathTo
  <2>2. target \notin Reachable(m)
    <3>1. CASE target \notin Visited(m)
      BY <1>1, <3>1
    <3>2. CASE m.pos \notin Visited(m)
      <4>1. Rooms(m) \in 0 .. Rooms(m)
        BY RoomsType
      <4>2. Within(m)[Rooms(m)] = {}
        BY <3>2, <4>1, WithinNothing
      <4>. QED  BY <4>2 DEF Reachable, Rooms
    <3>. QED  BY <1>2, <3>1, <3>2
  <2>3. <<>> \in Seq(Dirs)
    OBVIOUS
  <2>. QED  BY <2>1, <2>2, <2>3
<1>3. CASE {target, m.pos} \subseteq Visited(m)
  <2>1. /\ r.found = (routes # {})
        /\ r.path = IF routes = {} THEN <<>> ELSE CHOOSE route \in routes : TRUE
    BY <1>3 DEF PathTo
  <2>2. Sound(m, q) /\ Discovered(q) = Reachable(m)
    BY <1>3, SearchSound, SearchReaches
  <2>. HIDE DEF q, r
  <2>3. routes # {} <=> target \in Discovered(q)
    BY DEF RoutesTo, Discovered
  <2>4. CASE routes = {}
    <3>1. <<>> \in Seq(Dirs)
      OBVIOUS
    <3>. QED  BY <2>1, <2>2, <2>3, <2>4, <3>1 DEF r
  <2>5. CASE routes # {}
    <3>1. r.found = TRUE /\ r.path \in routes
      BY <2>1, <2>5
    <3>2. PICK a \in DOMAIN q : q[a].at = target /\ r.path = q[a].by
      BY <3>1 DEF RoutesTo
    <3>3. r.path \in Seq(Dirs)
      BY <2>2, <3>2, EntryFacts DEF Sound
    <3>4. Leads(m, r.path, target)
      BY <2>2, <3>2 DEF Sound, Walked
    <3>5. \A n \in 0 .. Rooms(m) : target \in Within(m)[n] => Len(r.path) <= n
      BY <2>2, <3>2 DEF Sound, Shortest
    <3>. QED  BY <2>2, <2>3, <2>5, <3>1, <3>3, <3>4, <3>5 DEF r
  <2>. QED  BY <2>4, <2>5
<1>. QED  BY <1>2, <1>3

-----------------------------------------------------------------------------
(* The cheapest exit.                                                      *)

LEMMA CheapestExists ==
  ASSUME NEW E, E # {}, \A e \in E : e.cost \in Nat \X Nat \X Nat
  PROVE  \E e \in E : \A o \in E : Before(e.cost, o.cost)
<1>0. \A e \in E : e.cost[1] \in Nat /\ e.cost[2] \in Nat /\ e.cost[3] \in Nat
  OBVIOUS
<1>. DEFINE A == {e.cost[1] : e \in E}
<1>1. A \in SUBSET Nat /\ A # {}
  BY <1>0
<1>2. PICK a \in A : \A y \in A : a <= y
  <2>. HIDE DEF A
  <2>. QED  BY <1>1, LeastOf
<1>. DEFINE E2 == {e \in E : e.cost[1] = a}
            B == {e.cost[2] : e \in E2}
<1>3. B \in SUBSET Nat /\ B # {}
  BY <1>0
<1>4. PICK b \in B : \A y \in B : b <= y
  <2>. HIDE DEF B
  <2>. QED  BY <1>3, LeastOf
<1>. DEFINE E3 == {e \in E2 : e.cost[2] = b}
            C == {e.cost[3] : e \in E3}
<1>5. C \in SUBSET Nat /\ C # {}
  BY <1>0
<1>6. PICK c \in C : \A y \in C : c <= y
  <2>. HIDE DEF C
  <2>. QED  BY <1>5, LeastOf
<1>7. PICK e \in E3 : e.cost[3] = c
  OBVIOUS
<1>8. e \in E /\ e.cost[1] = a /\ e.cost[2] = b
  OBVIOUS
<1>9. ASSUME NEW o \in E PROVE Before(e.cost, o.cost)
  <2>1. o.cost[1] \in Nat /\ a \in Nat /\ a <= o.cost[1]
    BY <1>0, <1>1, <1>2
  <2>2. CASE o.cost[1] # a
    BY <1>8, <2>1, <2>2 DEF Before
  <2>3. CASE o.cost[1] = a
    <3>1. o \in E2 /\ b \in Nat /\ o.cost[2] \in Nat
      BY <1>0, <1>3, <2>3
    <3>2. b <= o.cost[2]
      BY <1>4, <3>1
    <3>3. CASE o.cost[2] # b
      BY <1>8, <2>3, <3>1, <3>2, <3>3 DEF Before
    <3>4. CASE o.cost[2] = b
      <4>1. o \in E3
        BY <3>1, <3>4
      <4>2. c <= o.cost[3]
        BY <1>6, <4>1
      <4>. QED  BY <1>7, <1>8, <2>3, <3>4, <4>2 DEF Before
    <3>. QED  BY <3>3, <3>4
  <2>. QED  BY <2>2, <2>3
<1>. QED  BY <1>8, <1>9

LEMMA RankFacts ==
  ASSUME NEW dir \in Dirs, NEW defer
  PROVE  /\ Rank(dir, defer) \in Nat
         /\ dir \in defer => 200 < Rank(dir, defer)
         /\ dir \notin defer => Rank(dir, defer) <= 110
<1>1. \E k \in DOMAIN DirOrder : DirOrder[k] = dir
  <2>1. DOMAIN DirOrder = 1 .. 10
    BY DirFacts DEF DirOrder
  <2>. QED  BY <2>1, DirFacts
<1>2. IndexOf(DirOrder, dir) \in DOMAIN DirOrder
  BY <1>1 DEF IndexOf
<1>3. DOMAIN DirOrder = 1 .. 10
  BY DEF DirOrder
<1>4. IndexOf(DirOrder, dir) \in 1 .. 10
  BY <1>2, <1>3
<1>. QED  BY <1>4 DEF Rank

Allowed(only) == IF only = {} THEN Dirs ELSE only

(* The exits a search ranks are those of the rooms it discovered.          *)
Ranks(m, q, only, defer, E) ==
  /\ \A e \in E : \E i \in DOMAIN q : \E dir \in Frontier(m, q[i].at, only) :
       /\ e.path = Append(q[i].by, dir)
       /\ e.cost = <<Len(q[i].by), Rank(dir, defer), i>>
       /\ e.cost \in Nat \X Nat \X Nat
  /\ \A i \in DOMAIN q : \A dir \in Frontier(m, q[i].at, only) :
       \E e \in E : e.cost = <<Len(q[i].by), Rank(dir, defer), i>>

LEMMA ExitFacts ==
  ASSUME NEW m, MapOK(m), NEW q, Sound(m, q), NEW only, NEW defer
  PROVE  Ranks(m, q, Allowed(only), defer, FrontierExits(m, q, only, defer))
<1>. DEFINE Exit(i, dir) == [path |-> Append(q[i].by, dir),
                             cost |-> <<Len(q[i].by), Rank(dir, defer), i>>]
            Ok(i) == {d \in FrontierDirs(m, q[i].at) : only = {} \/ d \in only}
            E == FrontierExits(m, q, only, defer)
<1>0. q \in Seq(Entries(m))
  BY DEF Sound
<1>1. E = UNION {{Exit(i, dir) : dir \in Ok(i)} : i \in DOMAIN q}
  BY DEF FrontierExits
<1>2. ASSUME NEW i \in DOMAIN q PROVE Ok(i) = Frontier(m, q[i].at, Allowed(only))
  <2>1. m.rooms[q[i].at] \subseteq Dirs
    BY <1>0, EntryFacts DEF MapOK
  <2>. QED  BY <2>1 DEF FrontierDirs, Frontier, Allowed
<1>3. ASSUME NEW i \in DOMAIN q, NEW dir \in Frontier(m, q[i].at, Allowed(only))
      PROVE  Exit(i, dir).cost \in Nat \X Nat \X Nat
  <2>1. dir \in Dirs
    BY <1>0, EntryFacts DEF MapOK, Frontier
  <2>2. Rank(dir, defer) \in Nat
    BY <2>1, RankFacts
  <2>3. i \in Nat /\ Len(q[i].by) \in Nat
    BY <1>0, EntryFacts
  <2>. QED  BY <2>2, <2>3
<1>4. ASSUME NEW e \in E
      PROVE  \E i \in DOMAIN q : \E dir \in Frontier(m, q[i].at, Allowed(only)) : e = Exit(i, dir)
  <2>1. PICK i \in DOMAIN q : e \in {Exit(i, dir) : dir \in Ok(i)}
    BY <1>1
  <2>. QED  BY <1>2, <2>1
<1>5. ASSUME NEW i \in DOMAIN q, NEW dir \in Frontier(m, q[i].at, Allowed(only))
      PROVE  Exit(i, dir) \in E
  <2>. HIDE DEF E
  <2>1. dir \in Ok(i)
    BY <1>2
  <2>. HIDE DEF Ok, Exit
  <2>2. Exit(i, dir) \in {Exit(i, d) : d \in Ok(i)}
    BY <2>1
  <2>. QED  BY <1>1, <2>2
<1>. HIDE DEF E, Ok
<1>6. \A i \in DOMAIN q : \A dir \in Frontier(m, q[i].at, Allowed(only)) :
        \E e \in E : e.cost = <<Len(q[i].by), Rank(dir, defer), i>>
  BY <1>5
<1>7. ASSUME NEW e \in E
      PROVE  \E i \in DOMAIN q : \E dir \in Frontier(m, q[i].at, Allowed(only)) :
                /\ e.path = Append(q[i].by, dir)
                /\ e.cost = <<Len(q[i].by), Rank(dir, defer), i>>
                /\ e.cost \in Nat \X Nat \X Nat
  <2>1. PICK i \in DOMAIN q : \E dir \in Frontier(m, q[i].at, Allowed(only)) : e = Exit(i, dir)
    BY <1>4
  <2>2. PICK dir \in Frontier(m, q[i].at, Allowed(only)) : e = Exit(i, dir)
    BY <2>1
  <2>3. e.cost \in Nat \X Nat \X Nat
    BY <1>3, <2>2
  <2>. QED  BY <2>2, <2>3
<1>. QED  BY <1>6, <1>7 DEF E, Ranks

(* What is right of an answer of search_frontier: a shortest route into    *)
(* the unknown through the directions allowed, none exactly when no room   *)
(* within reach has such an exit, and a deferred direction only when none  *)
(* of the others is as near.                                               *)
RightAnswer(m, only, defer, path) ==
  /\ path = <<>> <=> \A p \in Reachable(m) : Frontier(m, p, only) = {}
  /\ path # <<>> => NearestFrontier(m, path, only)
  /\ path # <<>> /\ path[Len(path)] \in defer =>
       \A p \in Within(m)[Len(path) - 1] : Frontier(m, p, only \ defer) = {}

(* search_frontier answers right on every map, whatever directions are     *)
(* asked for and whatever are deferred.                                    *)
THEOREM SearchFrontierIsNearest ==
  ASSUME NEW m, MapOK(m), NEW only, NEW defer
  PROVE  /\ SearchFrontier(m, only, defer) \in Seq(Dirs)
         /\ RightAnswer(m, Allowed(only), defer, SearchFrontier(m, only, defer))
<1>. DEFINE path == SearchFrontier(m, only, defer)
<1>. SUFFICES
       /\ path \in Seq(Dirs)
       /\ path = <<>> <=> \A p \in Reachable(m) : Frontier(m, p, Allowed(only)) = {}
       /\ path # <<>> => NearestFrontier(m, path, Allowed(only))
       /\ path # <<>> /\ path[Len(path)] \in defer =>
            \A p \in Within(m)[Len(path) - 1] : Frontier(m, p, Allowed(only) \ defer) = {}
  BY DEF RightAnswer
<1>a. path = SearchFrontier(m, only, defer)
  OBVIOUS
<1>. HIDE DEF path
<1>0. Rooms(m) \in Nat /\ Reachable(m) = Within(m)[Rooms(m)]
  BY RoomsType DEF Reachable, Rooms
<1>1. CASE m.pos \notin Visited(m)
  <2>1. path = <<>>
    BY <1>1, <1>a DEF SearchFrontier
  <2>2. Rooms(m) \in 0 .. Rooms(m)
    BY <1>0
  <2>3. Reachable(m) = {}
    BY <1>0, <1>1, <2>2, WithinNothing
  <2>4. <<>> \in Seq(Dirs)
    OBVIOUS
  <2>. QED  BY <2>1, <2>3, <2>4
<1>2. CASE m.pos \in Visited(m)
  <2>. DEFINE q == Search(m)
              E == FrontierExits(m, q, only, defer)
  <2>1. Sound(m, q) /\ Discovered(q) = Reachable(m) /\ q \in Seq(Entries(m))
    BY <1>2, SearchSound, SearchReaches DEF Sound
  <2>2. path = Cheapest(E)
    BY <1>2, <1>a DEF SearchFrontier
  <2>. HIDE DEF q, E
  <2>3. /\ \A e \in E :
             \E i \in DOMAIN q : \E dir \in Frontier(m, q[i].at, Allowed(only)) :
               /\ e.path = Append(q[i].by, dir)
               /\ e.cost = <<Len(q[i].by), Rank(dir, defer), i>>
               /\ e.cost \in Nat \X Nat \X Nat
        /\ \A i \in DOMAIN q : \A dir \in Frontier(m, q[i].at, Allowed(only)) :
             \E e \in E : e.cost = <<Len(q[i].by), Rank(dir, defer), i>>
    <3>1. Ranks(m, q, Allowed(only), defer, E)
      BY <2>1, ExitFacts DEF E
    <3>. QED  BY <3>1 DEF Ranks
  <2>4. E = {} <=> \A p \in Reachable(m) : Frontier(m, p, Allowed(only)) = {}
    <3>1. ASSUME NEW e \in E
          PROVE  \E p \in Reachable(m) : Frontier(m, p, Allowed(only)) # {}
      <4>1. PICK i \in DOMAIN q : \E dir \in Frontier(m, q[i].at, Allowed(only)) : TRUE
        BY <2>3
      <4>2. q[i].at \in Reachable(m)
        BY <2>1 DEF Discovered
      <4>. QED  BY <4>1, <4>2
    <3>2. ASSUME NEW p \in Reachable(m), NEW dir \in Frontier(m, p, Allowed(only))
          PROVE  E # {}
      <4>1. PICK i \in DOMAIN q : q[i].at = p
        BY <2>1 DEF Discovered
      <4>. QED  BY <2>3, <4>1
    <3>. QED  BY <3>1, <3>2
  <2>5. CASE E = {}
    <3>1. path = <<>>
      BY <2>2, <2>5 DEF Cheapest
    <3>2. <<>> \in Seq(Dirs)
      OBVIOUS
    <3>. QED  BY <2>4, <2>5, <3>1, <3>2
  <2>6. CASE E # {}
    <3>1. \A e \in E : e.cost \in Nat \X Nat \X Nat
      BY <2>3
    <3>2. PICK e \in E : path = e.path /\ \A o \in E : Before(e.cost, o.cost)
      <4>. DEFINE best == CHOOSE e \in E : \A o \in E : Before(e.cost, o.cost)
      <4>1. best \in E /\ \A o \in E : Before(best.cost, o.cost)
        BY <2>6, <3>1, CheapestExists
      <4>2. path = best.path
        BY <2>2, <2>6 DEF Cheapest
      <4>. HIDE DEF best
      <4>. QED  BY <4>1, <4>2
    <3>3. PICK i \in DOMAIN q : \E dir \in Frontier(m, q[i].at, Allowed(only)) :
                                  /\ e.path = Append(q[i].by, dir)
                                  /\ e.cost = <<Len(q[i].by), Rank(dir, defer), i>>
      BY <2>3
    <3>4. PICK dir \in Frontier(m, q[i].at, Allowed(only)) :
                 /\ path = Append(q[i].by, dir)
                 /\ e.cost = <<Len(q[i].by), Rank(dir, defer), i>>
      BY <3>2, <3>3
    <3>. DEFINE d == Len(q[i].by)
                at == q[i].at
    <3>5. /\ i \in 1 .. Len(q) /\ at \in Visited(m) /\ q[i].by \in Seq(Dirs) /\ d \in Nat
          /\ Leads(m, q[i].by, at) /\ d < i
      BY <2>1, EntryFacts DEF Sound, Walked
    <3>6. /\ dir \in Dirs /\ dir \in m.rooms[at] /\ dir \in Allowed(only)
          /\ Plus(at, Delta[dir]) \notin Visited(m)
      BY <3>5 DEF Frontier, MapOK
    <3>7. /\ path \in Seq(Dirs) /\ path # <<>> /\ Len(path) = d + 1 /\ path[d + 1] = dir
      BY <3>4, <3>5, <3>6
    <3>8. Leads(m, path, Plus(at, Delta[dir]))
      BY <3>4, <3>5, <3>6, LeadsOn DEF MapOK
    <3>9. d \in 0 .. Rooms(m)
      <4>1. Len(q) \in Nat /\ Len(q) <= Rooms(m)
        BY <2>1, QueueFits
      <4>. QED  BY <1>0, <3>5, <4>1
    (* A rival exit of a room within n steps costs as much, at least.      *)
    <3>10. ASSUME NEW n \in 0 .. Rooms(m), NEW p \in Within(m)[n],
                  NEW other \in Frontier(m, p, Allowed(only))
           PROVE  /\ other \in Dirs
                  /\ \E k \in Nat : k <= n /\ (d < k \/ (d = k /\ Rank(dir, defer) <= Rank(other, defer)))
      <4>1. p \in Reachable(m)
        <5>1. n \in 0 .. Rooms(m) /\ Rooms(m) \in 0 .. Rooms(m) /\ n \in 0 .. Rooms(m)
          BY <1>0
        <5>2. n \in 0 .. Rooms(m) /\ Within(m)[n] \subseteq Within(m)[Rooms(m)]
          BY <5>1, WithinMonotone
        <5>. QED  BY <1>0, <5>2
      <4>2. PICK b \in DOMAIN q : q[b].at = p
        BY <2>1, <4>1 DEF Discovered
      <4>3. Len(q[b].by) \in Nat /\ b \in Nat /\ q[b].at \in Visited(m) /\ Len(q[b].by) <= n
        BY <2>1, <4>2, EntryFacts DEF Sound, Shortest
      <4>4. other \in Dirs
        BY <4>2, <4>3 DEF Frontier, MapOK
      <4>5. PICK o \in E : o.cost = <<Len(q[b].by), Rank(other, defer), b>>
        BY <2>3, <4>2
      <4>6. Before(e.cost, o.cost)
        BY <3>2
      <4>7. Rank(dir, defer) \in Nat /\ Rank(other, defer) \in Nat
        BY <3>6, <4>4, RankFacts
      <4>8. d < Len(q[b].by) \/ (d = Len(q[b].by) /\ Rank(dir, defer) <= Rank(other, defer))
        BY <3>4, <3>5, <4>3, <4>5, <4>6, <4>7 DEF Before
      <4>. QED  BY <4>3, <4>4, <4>8
    <3>. HIDE DEF d, at
    <3>11. NearestFrontier(m, path, Allowed(only))
      <4>1. IsWalk(m, path) /\ Trail(m, path)[d + 1] = Plus(at, Delta[dir])
        BY <3>7, <3>8 DEF Leads
      <4>2. d = 0 \/ \A p \in Within(m)[d - 1] : Frontier(m, p, Allowed(only)) = {}
        <5>1. ASSUME d # 0, NEW p \in Within(m)[d - 1], NEW other \in Frontier(m, p, Allowed(only))
              PROVE  FALSE
          <6>1. d - 1 \in 0 .. Rooms(m) /\ d \in Nat
            BY <1>0, <3>9, <5>1
          <6>2. PICK k \in Nat : k <= d - 1 /\ (d < k \/ d = k)
            BY <3>10, <5>1, <6>1
          <6>. QED  BY <6>1, <6>2
        <5>. QED  BY <5>1
      <4>3. (d + 1) - 1 = d
        BY <3>9
      <4>. QED  BY <3>6, <3>7, <4>1, <4>2, <4>3 DEF NearestFrontier
    <3>12. ASSUME path[Len(path)] \in defer, NEW p \in Within(m)[Len(path) - 1],
                  NEW other \in Frontier(m, p, Allowed(only) \ defer)
           PROVE  FALSE
      <4>1. Len(path) - 1 = d /\ d \in 0 .. Rooms(m) /\ d \in Nat
        BY <3>7, <3>9
      <4>2. p \in Within(m)[d] /\ dir \in defer
        BY <3>7, <3>12, <4>1
      <4>3. other \in Frontier(m, p, Allowed(only)) /\ other \notin defer
        BY DEF Frontier
      <4>4. /\ other \in Dirs
            /\ \E k \in Nat : k <= d /\ (d < k \/ (d = k /\ Rank(dir, defer) <= Rank(other, defer)))
        BY <3>10, <4>1, <4>2, <4>3
      <4>5. Rank(dir, defer) <= Rank(other, defer)
        BY <4>1, <4>4
      <4>6. /\ Rank(dir, defer) \in Nat /\ 200 < Rank(dir, defer)
            /\ Rank(other, defer) \in Nat /\ Rank(other, defer) <= 110
        BY <3>6, <4>2, <4>3, <4>4, RankFacts
      <4>. QED  BY <4>5, <4>6
    <3>. QED  BY <2>4, <2>6, <3>7, <3>11, <3>12
  <2>. QED  BY <2>5, <2>6
<1>. QED  BY <1>1, <1>2

LEMMA NextFrontierType ==
  ASSUME NEW m, MapOK(m), NEW policy, NEW dive, NEW defer
  PROVE  NextFrontier(m, policy, dive, defer) \in Seq(Dirs)
<1>1. \A only : SearchFrontier(m, only, defer) \in Seq(Dirs)
  BY SearchFrontierIsNearest
<1>. QED  BY <1>1 DEF NextFrontier

-----------------------------------------------------------------------------
(* The maps the explorer can make.                                         *)

(* A map is a record of finitely many rooms, with exits it can walk, and   *)
(* its position is on the lattice.                                         *)
Plotted(map) == DOMAIN map = {"rooms", "pos"} /\ MapOK(map)

LEMMA NewMapPlotted == Plotted(NewMap)
<1>1. DOMAIN NewMap = {"rooms", "pos"} /\ Visited(NewMap) = {} /\ NewMap.pos \in Int3
  BY DEF NewMap, Visited, Origin, Int3
<1>2. IsFiniteSet({})
  BY FS_EmptySet
<1>. QED  BY <1>1, <1>2 DEF Plotted, MapOK

LEMMA RecordPlotted ==
  ASSUME NEW map, Plotted(map), NEW exits
  PROVE  Plotted(Record(map, exits))
<1>. DEFINE r == Record(map, exits)
<1>1. /\ DOMAIN r = {"rooms", "pos"} /\ r.pos = map.pos
      /\ r.rooms = [p \in Visited(map) \cup {map.pos} |->
                      IF p = map.pos THEN exits \cap Dirs ELSE map.rooms[p]]
  BY DEF Record, Plotted
<1>2. Visited(r) = Visited(map) \cup {map.pos}
  BY <1>1 DEF Visited
<1>3. IsFiniteSet(Visited(r))
  BY <1>2, FS_AddElement DEF Plotted, MapOK
<1>4. \A p \in Visited(r) : r.rooms[p] \subseteq Dirs
  BY <1>1, <1>2 DEF Plotted, MapOK
<1>. QED  BY <1>1, <1>3, <1>4 DEF Plotted, MapOK

LEMMA PlacedPlotted ==
  ASSUME NEW map, Plotted(map), NEW p \in Int3
  PROVE  Plotted([map EXCEPT !.pos = p])
<1>. DEFINE r == [map EXCEPT !.pos = p]
<1>1. DOMAIN r = {"rooms", "pos"} /\ r.pos = p /\ r.rooms = map.rooms
  BY DEF Plotted
<1>. QED  BY <1>1 DEF Plotted, MapOK, Visited
=============================================================================
