------------------------------ MODULE SurveyProofs ------------------------------
(***************************************************************************)
(* What the explorer's map says is true, for every sea, lair and           *)
(* configuration and however often the player stops, starts, resets,       *)
(* leaves, walks by hand, redives, reloads or loses the connection, as     *)
(* long as nothing of a few kinds disturbs them (Undisturbed).             *)
(*                                                                         *)
(* The rooms have no numbers, so that the client knows where it is only    *)
(* from the moves it sent and the entries it was told of, in order.  A fix *)
(* says where the frames and commands under way will take the player from  *)
(* where the map says they are (Ahead).  The invariant (Knows) is that the *)
(* map is a chart and that while there is one, there is such a fix (Sure); *)
(* and that the last place told of, once all is told, is where the player  *)
(* is (Announced).  The game keeps Ahead true, whatever the client holds   *)
(* (GameAhead); the client keeps Sure true, whatever comes first, one      *)
(* lemma for each handler and command: it lets the map go (Loose), keeps   *)
(* it without another move (Retains), walks on from a fix with nothing     *)
(* left to walk (Walks), or takes the move that was made (CompleteTrue).   *)
(***************************************************************************)
EXTENDS AutoStepperProofs, SequenceTheorems

-----------------------------------------------------------------------------
(* Being taken somewhere step by step.                                     *)

(* Something is taken from x to y by the elements of s, each leading from  *)
(* one state of X to the next as R allows.                                 *)
Passes(R, X, s, x, y) ==
  \E h \in [0 .. Len(s) -> X] :
    /\ h[0] = x /\ h[Len(s)] = y
    /\ \A i \in 1 .. Len(s) : <<s[i], h[i - 1], h[i]>> \in R

(* By nothing it is taken nowhere.                                         *)
LEMMA PassesNothing ==
  ASSUME NEW R, NEW X, NEW x
  PROVE  /\ x \in X => Passes(R, X, <<>>, x, x)
         /\ \A y : Passes(R, X, <<>>, x, y) => x = y /\ x \in X
<1>1. ASSUME x \in X PROVE Passes(R, X, <<>>, x, x)
  <2>. DEFINE n == Len(<<>>)
              h == [i \in 0 .. 0 |-> x]
  <2>1. h \in [0 .. 0 -> X] /\ h[0] = x /\ n = 0
    BY <1>1
  <2>. HIDE DEF h, n
  <2>2. \A i \in 1 .. n : <<(<<>>)[i], h[i - 1], h[i]>> \in R
    BY <2>1
  <2>. QED  BY <2>1, <2>2 DEF Passes, n
<1>2. ASSUME NEW y, Passes(R, X, <<>>, x, y) PROVE x = y /\ x \in X
  BY <1>2 DEF Passes
<1>. QED  BY <1>1, <1>2

(* By one element it is taken one step.                                    *)
LEMMA PassesOne ==
  ASSUME NEW R, NEW X, NEW x \in X, NEW y \in X, NEW e, <<e, x, y>> \in R
  PROVE  Passes(R, X, <<e>>, x, y)
<1>. DEFINE s == <<e>>
            h == [i \in 0 .. 1 |-> IF i = 0 THEN x ELSE y]
<1>1. Len(s) = 1 /\ s[1] = e
  OBVIOUS
<1>2. h \in [0 .. 1 -> X] /\ h[0] = x /\ h[1] = y
  OBVIOUS
<1>. HIDE DEF s, h
<1>3. \A i \in 1 .. 1 : <<s[i], h[i - 1], h[i]>> \in R
  BY <1>1, <1>2
<1>4. Passes(R, X, s, x, y)
  BY <1>1, <1>2, <1>3 DEF Passes
<1>. QED  BY <1>4 DEF s

(* The first element takes it where the others start.                      *)
LEMMA PassesHead ==
  ASSUME NEW R, NEW X, NEW S, NEW s \in Seq(S), s # <<>>, NEW x, NEW y, Passes(R, X, s, x, y)
  PROVE  /\ x \in X
         /\ \E z \in X : <<Head(s), x, z>> \in R /\ Passes(R, X, Tail(s), z, y)
<1>1. PICK h \in [0 .. Len(s) -> X] :
         /\ h[0] = x /\ h[Len(s)] = y
         /\ \A i \in 1 .. Len(s) : <<s[i], h[i - 1], h[i]>> \in R
  BY DEF Passes
<1>. DEFINE t == Tail(s)
            n == Len(s)
            g == [i \in 0 .. n - 1 |-> h[i + 1]]
<1>2. n \in Nat \ {0} /\ Len(t) = n - 1 /\ (\A i \in 1 .. n - 1 : t[i] = s[i + 1]) /\ Head(s) = s[1]
  OBVIOUS
<1>. HIDE DEF t, n
<1>3. g \in [0 .. n - 1 -> X] /\ g[0] = h[1] /\ g[n - 1] = h[n]
  BY <1>1, <1>2 DEF n
<1>4. ASSUME NEW i \in 1 .. n - 1 PROVE <<t[i], g[i - 1], g[i]>> \in R
  <2>1. i \in Int /\ i + 1 \in 1 .. n /\ i - 1 \in 0 .. n - 1 /\ i \in 0 .. n - 1
    BY <1>2
  <2>2. g[i - 1] = h[(i - 1) + 1] /\ g[i] = h[i + 1] /\ t[i] = s[i + 1]
    BY <1>2, <2>1
  <2>3. <<s[i + 1], h[(i + 1) - 1], h[i + 1]>> \in R
    BY <1>1, <2>1 DEF n
  <2>4. (i + 1) - 1 = i /\ (i - 1) + 1 = i
    BY <2>1
  <2>. QED  BY <2>2, <2>3, <2>4
<1>. HIDE DEF g
<1>5. Passes(R, X, t, h[1], y)
  BY <1>1, <1>2, <1>3, <1>4 DEF Passes, n
<1>6. h[1] \in X /\ h[0] \in X /\ <<s[1], h[0], h[1]>> \in R
  <2>1. 1 \in 1 .. n /\ 1 \in 0 .. n /\ 0 \in 0 .. n /\ 1 - 1 = 0
    BY <1>2
  <2>. QED  BY <1>1, <2>1 DEF n
<1>. QED  BY <1>1, <1>2, <1>5, <1>6 DEF t

(* One sequence after the other.                                           *)
LEMMA PassesBoth ==
  ASSUME NEW R, NEW X, NEW S, NEW s \in Seq(S), NEW t \in Seq(S), NEW x, NEW y, NEW z,
         Passes(R, X, s, x, y), Passes(R, X, t, y, z)
  PROVE  Passes(R, X, s \o t, x, z)
<1>1. PICK h \in [0 .. Len(s) -> X] :
         /\ h[0] = x /\ h[Len(s)] = y
         /\ \A i \in 1 .. Len(s) : <<s[i], h[i - 1], h[i]>> \in R
  BY DEF Passes
<1>2. PICK g \in [0 .. Len(t) -> X] :
         /\ g[0] = y /\ g[Len(t)] = z
         /\ \A i \in 1 .. Len(t) : <<t[i], g[i - 1], g[i]>> \in R
  BY DEF Passes
<1>. DEFINE m == Len(s)
            n == Len(t)
            u == s \o t
            f == [i \in 0 .. m + n |-> IF i <= m THEN h[i] ELSE g[i - m]]
<1>3. /\ m \in Nat /\ n \in Nat /\ Len(u) = m + n
      /\ \A i \in 1 .. m + n : u[i] = IF i <= m THEN s[i] ELSE t[i - m]
  OBVIOUS
<1>. HIDE DEF m, n, u
<1>4. f \in [0 .. m + n -> X]
  <2>1. ASSUME NEW i \in 0 .. m + n PROVE (IF i <= m THEN h[i] ELSE g[i - m]) \in X
    <3>1. i <= m => i \in 0 .. m
      BY <1>3
    <3>2. ~(i <= m) => i - m \in 0 .. n
      BY <1>3
    <3>. QED  BY <1>1, <1>2, <3>1, <3>2 DEF m, n
  <2>. QED  BY <2>1
<1>5. f[0] = x
  BY <1>1, <1>3
<1>6. f[m + n] = z
  <2>1. m + n \in 0 .. m + n /\ (m + n <= m => n = 0) /\ (m + n) - m = n /\ m + 0 = m
    BY <1>3
  <2>2. f[m + n] = IF m + n <= m THEN h[m + n] ELSE g[(m + n) - m]
    BY <2>1
  <2>. QED  BY <1>1, <1>2, <2>1, <2>2 DEF m, n
<1>7. ASSUME NEW i \in 1 .. m + n PROVE <<u[i], f[i - 1], f[i]>> \in R
  <2>1. i \in Int /\ i \in 0 .. m + n /\ i - 1 \in 0 .. m + n
    BY <1>3
  <2>2. f[i] = (IF i <= m THEN h[i] ELSE g[i - m])
    BY <2>1
  <2>3. f[i - 1] = (IF i - 1 <= m THEN h[i - 1] ELSE g[(i - 1) - m])
    BY <2>1
  <2>4. CASE i <= m
    <3>1. i \in 1 .. m /\ i - 1 <= m
      BY <1>3, <2>1, <2>4
    <3>. QED  BY <1>1, <1>3, <2>2, <2>3, <2>4, <3>1 DEF m
  <2>5. CASE ~(i <= m)
    <3>1. i - m \in 1 .. n /\ (i - 1 <= m => i - 1 = m /\ (i - m) - 1 = 0) /\ (i - 1) - m = (i - m) - 1
      BY <1>3, <2>1, <2>5
    <3>2. <<t[i - m], g[(i - m) - 1], g[i - m]>> \in R
      BY <1>2, <3>1 DEF n
    <3>3. f[i - 1] = g[(i - m) - 1]
      BY <1>1, <1>2, <2>3, <3>1 DEF m
    <3>. QED  BY <1>3, <2>2, <2>5, <3>2, <3>3
  <2>. QED  BY <2>4, <2>5
<1>. HIDE DEF f
<1>8. Passes(R, X, u, x, z)
  BY <1>3, <1>4, <1>5, <1>6, <1>7 DEF Passes
<1>. QED  BY <1>8 DEF u

(* What each element allowed keeps, all of them keep.                      *)
LEMMA PassesWithin ==
  ASSUME NEW R, NEW X, NEW S, NEW s \in Seq(S), NEW x, NEW y, Passes(R, X, s, x, y),
         NEW I \in SUBSET X, x \in I,
         \A e \in S, a \in I, b \in X : <<e, a, b>> \in R => b \in I
  PROVE  Passes(R, I, s, x, y) /\ y \in I
<1>1. PICK h \in [0 .. Len(s) -> X] :
         /\ h[0] = x /\ h[Len(s)] = y
         /\ \A i \in 1 .. Len(s) : <<s[i], h[i - 1], h[i]>> \in R
  BY DEF Passes
<1>. DEFINE n == Len(s)
            T == {k \in 0 .. n : h[k] \in I}
<1>2. n \in Nat /\ \A i \in 1 .. n : s[i] \in S
  OBVIOUS
<1>. HIDE DEF n
<1>3. 0 \in T
  BY <1>1, <1>2
<1>4. ASSUME NEW k \in 0 .. n - 1, k \in T PROVE k + 1 \in T
  <2>1. k + 1 \in 1 .. n /\ k + 1 \in 0 .. n /\ (k + 1) - 1 = k
    BY <1>2
  <2>2. <<s[k + 1], h[k], h[k + 1]>> \in R /\ h[k + 1] \in X /\ s[k + 1] \in S /\ h[k] \in I
    BY <1>1, <1>2, <1>4, <2>1 DEF n
  <2>. QED  BY <2>1, <2>2
<1>5. \A k \in 0 .. n : k \in T
  <2>. HIDE DEF T
  <2>. QED  BY <1>2, <1>3, <1>4, CountsUp
<1>6. h \in [0 .. n -> I]
  BY <1>1, <1>5 DEF n
<1>7. h[n] \in I
  BY <1>2, <1>5
<1>. QED  BY <1>1, <1>6, <1>7 DEF Passes, n

(* States renamed by g go through as well, if every step does.             *)
LEMMA PassesRenamed ==
  ASSUME NEW R, NEW X, NEW S, NEW s \in Seq(S), NEW x, NEW y, Passes(R, X, s, x, y),
         NEW Y, NEW g \in [X -> Y],
         \A e \in S, a \in X, b \in X : <<e, a, b>> \in R => <<e, g[a], g[b]>> \in R
  PROVE  Passes(R, Y, s, g[x], g[y])
<1>1. PICK h \in [0 .. Len(s) -> X] :
         /\ h[0] = x /\ h[Len(s)] = y
         /\ \A i \in 1 .. Len(s) : <<s[i], h[i - 1], h[i]>> \in R
  BY DEF Passes
<1>. DEFINE n == Len(s)
            f == [k \in 0 .. n |-> g[h[k]]]
<1>2. n \in Nat /\ \A i \in 1 .. n : s[i] \in S
  OBVIOUS
<1>. HIDE DEF n
<1>3. f \in [0 .. n -> Y] /\ f[0] = g[x] /\ f[n] = g[y]
  BY <1>1, <1>2 DEF n
<1>4. ASSUME NEW i \in 1 .. n PROVE <<s[i], f[i - 1], f[i]>> \in R
  <2>1. i - 1 \in 0 .. n /\ i \in 0 .. n
    BY <1>2
  <2>2. <<s[i], h[i - 1], h[i]>> \in R /\ s[i] \in S /\ h[i - 1] \in X /\ h[i] \in X
    BY <1>1, <1>2, <2>1 DEF n
  <2>3. <<s[i], g[h[i - 1]], g[h[i]]>> \in R
    BY <2>2
  <2>. QED  BY <2>1, <2>3
<1>. HIDE DEF f
<1>. QED  BY <1>3, <1>4 DEF Passes, n

(* Only elements that lead somewhere are passed.                           *)
LEMMA PassesAllowed ==
  ASSUME NEW R, NEW X, NEW S, NEW s \in Seq(S), NEW x, NEW y, Passes(R, X, s, x, y),
         NEW E, \A e \in S, a \in X, b \in X : <<e, a, b>> \in R => e \in E
  PROVE  s \in Seq(E)
<1>1. PICK h \in [0 .. Len(s) -> X] :
         /\ h[0] = x /\ h[Len(s)] = y
         /\ \A i \in 1 .. Len(s) : <<s[i], h[i - 1], h[i]>> \in R
  BY DEF Passes
<1>2. ASSUME NEW i \in 1 .. Len(s) PROVE s[i] \in E
  <2>1. i - 1 \in 0 .. Len(s) /\ i \in 0 .. Len(s) /\ s[i] \in S
    OBVIOUS
  <2>. QED  BY <1>1, <2>1
<1>. QED  BY <1>2

(* Elements that may leave a state alone do.                               *)
LEMMA PassesIdle ==
  ASSUME NEW R, NEW X, NEW E, NEW s \in Seq(E), NEW x \in X,
         \A e \in E : <<e, x, x>> \in R
  PROVE  Passes(R, X, s, x, x)
<1>. DEFINE n == Len(s)
            h == [i \in 0 .. n |-> x]
<1>1. n \in Nat /\ \A i \in 1 .. n : s[i] \in E
  OBVIOUS
<1>. HIDE DEF n
<1>2. h \in [0 .. n -> X] /\ h[0] = x /\ h[n] = x
  BY <1>1
<1>3. \A i \in 1 .. n : <<s[i], h[i - 1], h[i]>> \in R
  BY <1>1
<1>. QED  BY <1>2, <1>3 DEF Passes, n

-----------------------------------------------------------------------------
(* Fixes: what frames and commands do to what is known of the player.      *)

(* Where a fix may be: a room of a sea, or a point of the lattice that is  *)
(* none.                                                                   *)
Spots == [sea : Nat, at : Int3]

Modes == {"live", "leaving", "gone", "stuck"}

(* A fix says where the frames and commands under way will take the        *)
(* player, seen from where the client believes them to be.  live: in the   *)
(* room `at`, with the directions `rest` still to be walked; leaving: told *)
(* of the lobby, not yet of its contents; gone: in the lobby; stuck: a     *)
(* direction of a speedwalk was blocked, and all is lost until the line    *)
(* that says so stops the run.  long: the directions are those of a        *)
(* speedwalk.  asked: every refresh under way was asked for after them, so *)
(* that it is answered last.                                               *)
Fixes == {z \in [mode : Modes, at : Spots, rest : Seq(Dirs), long : BOOLEAN, asked : BOOLEAN] :
            z.long \/ Len(z.rest) <= 1}

(* One of the moves is made.                                               *)
Moved(z) == [z EXCEPT !.at = Towards(@, Head(z.rest)), !.rest = Tail(@),
                      !.long = @ /\ Tail(z.rest) # <<>>]

(* What a frame f makes of a live fix z: news of the lobby, the entry its  *)
(* first direction leads to, the contents of the room it is in, a line     *)
(* that a direction was blocked (of a speedwalk, or of a single step,      *)
(* which may be walked all the same), a line of a fight.                   *)
Hears(f, z, n) ==
  \/ f.kind = "info" /\ f.place = Lobby /\ n = [z EXCEPT !.mode = "leaving"]
  \/ f.kind = "info" /\ f.place # Lobby /\ n = z
  \/ /\ f.kind = "contents" /\ f.entry
     /\ z.rest # <<>> /\ Head(z.rest) \in ExitsOf(z.at) /\ f.place = Towards(z.at, Head(z.rest))
     /\ n = Moved(z)
  \/ f.kind = "contents" /\ ~f.entry /\ f.place = z.at /\ (z.asked => z.rest = <<>>) /\ n = z
  \/ f.kind = "blocked" /\ z.rest # <<>> /\ z.long /\ n = [z EXCEPT !.mode = "stuck"]
  \/ f.kind = "blocked" /\ z.rest # <<>> /\ ~z.long /\ n \in {z, [z EXCEPT !.rest = <<>>]}
  \/ f.kind \in {"combat_end", "no_target"} /\ n = z

(* What a frame makes of any fix.                                          *)
Hearing(f, z, n) ==
  \/ z.mode = "stuck" /\ n = z
  \/ z.mode = "gone" /\ n = z /\ (f.kind \in {"info", "contents"} => f.place = Lobby)
  \/ /\ z.mode = "leaving" /\ f.kind = "contents" /\ f.entry /\ f.place = Lobby
     /\ n = [z EXCEPT !.mode = "gone"]
  \/ z.mode = "live" /\ Hears(f, z, n)

(* What a command still on the wire will do: a direction is the next of    *)
(* the fix, anything else moves nobody.                                    *)
Giving(cmd, z, n) ==
  \/ z.mode = "stuck" /\ n = z
  \/ z.mode = "gone" /\ cmd # "newsea" /\ n = z
  \/ z.mode = "live" /\ cmd \in Dirs /\ z.rest # <<>> /\ Head(z.rest) = cmd /\ n = Moved(z)
  \/ /\ z.mode = "live" /\ cmd \notin Dirs \cup {"newsea"}
     /\ cmd = "refresh" /\ z.asked => z.rest = <<>>
     /\ n = z

(* The two as relations.                                                   *)
Heard == {t \in Frames \X Fixes \X Fixes : Hearing(t[1], t[2], t[3])}
Given == {t \in Commands \X Fixes \X Fixes : Giving(t[1], t[2], t[3])}

(* A fix fits the room p the player is really in once every frame was      *)
(* heard.                                                                  *)
Stands(y, p) == /\ y.mode # "leaving"
                /\ y.mode = "live" => y.at = p
                /\ y.mode = "gone" => p = Lobby
(* No direction is left once every command was given.                      *)
Ends(w) == w.mode # "leaving" /\ (w.mode = "live" => w.rest = <<>>)

(* The commands s are those of the fix y.                                  *)
Lasts(s, y) == \E w \in Fixes : Passes(Given, Fixes, s, y, w) /\ Ends(w)

(* From the fix x, the frames f lead to one in the room p, and the         *)
(* commands s on from there to one with nothing left to walk.              *)
Ahead(f, s, p, x) ==
  \E y \in Fixes : Passes(Heard, Fixes, f, x, y) /\ Stands(y, p) /\ Lasts(s, y)

(* What it is for a frame to be heard.                                     *)
LEMMA HeardIs ==
  \A f, z, n : <<f, z, n>> \in Heard <=> f \in Frames /\ z \in Fixes /\ n \in Fixes /\ Hearing(f, z, n)
<1>. HIDE DEF Frames, Fixes, Hearing
<1>. QED  BY DEF Heard

(* What it is for a command to be given.                                   *)
LEMMA GivenIs ==
  \A cmd, z, n : <<cmd, z, n>> \in Given <=> cmd \in Commands /\ z \in Fixes /\ n \in Fixes /\ Giving(cmd, z, n)
<1>. HIDE DEF Commands, Fixes, Giving
<1>. QED  BY DEF Given

(* The fields of a fix.                                                    *)
LEMMA FixType ==
  ASSUME NEW z \in Fixes
  PROVE  /\ z.mode \in Modes /\ z.at \in Spots /\ z.rest \in Seq(Dirs) /\ z.long \in BOOLEAN
         /\ z.asked \in BOOLEAN /\ (z.long \/ Len(z.rest) <= 1)
BY DEF Fixes

(* Every room is a spot.                                                   *)
LEMMA PlacesSpots == Places \subseteq Spots
<1>. SUFFICES ASSUME NEW place \in Places PROVE place \in Spots
  OBVIOUS
<1>1. CASE place = Lobby
  BY <1>1, PlaceFacts DEF Lobby, Spots
<1>2. CASE place # Lobby
  <2>1. PICK k \in DOMAIN Maze : place \in SeaPlaces(k)
    BY <1>2 DEF Places
  <2>2. PICK p \in DOMAIN Maze[k] : place = [sea |-> k, at |-> p]
    BY <2>1 DEF SeaPlaces
  <2>3. k \in 1 .. Len(Maze) /\ Len(Maze) \in Nat /\ DOMAIN Maze[k] \subseteq Int3
    BY <2>1, MazeAssumption DEF Int3
  <2>4. k \in Nat /\ p \in Int3
    BY <2>2, <2>3
  <2>. HIDE DEF Int3
  <2>. QED  BY <2>2, <2>4 DEF Spots
<1>. QED  BY <1>1, <1>2

(* A direction leads from spot to spot of the same sea.                    *)
LEMMA TowardsSpot ==
  ASSUME NEW at \in Spots, NEW dir \in Dirs
  PROVE  /\ Towards(at, dir) \in Spots
         /\ Towards(at, dir).sea = at.sea /\ Towards(at, dir).at = Plus(at.at, Delta[dir])
<1>1. Plus(at.at, Delta[dir]) \in Int3
  BY DeltaType, PlusType DEF Spots
<1>. QED  BY <1>1 DEF Towards, Spots

(* A fix moved on is a fix.                                                *)
LEMMA MovedFix ==
  ASSUME NEW z \in Fixes, z.rest # <<>>
  PROVE  /\ Moved(z) \in Fixes
         /\ Moved(z).mode = z.mode /\ Moved(z).at = Towards(z.at, Head(z.rest))
         /\ Moved(z).rest = Tail(z.rest) /\ Moved(z).long = (z.long /\ Tail(z.rest) # <<>>)
         /\ Moved(z).asked = z.asked
<1>. DEFINE at == Towards(z.at, Head(z.rest))
            rest == Tail(z.rest)
            long == z.long /\ rest # <<>>
            n == [z EXCEPT !.at = at, !.rest = rest, !.long = long]
<1>1. Moved(z) = n
  BY DEF Moved
<1>2. /\ z \in [mode : Modes, at : Spots, rest : Seq(Dirs), long : BOOLEAN, asked : BOOLEAN]
      /\ z.long \/ Len(z.rest) <= 1
  BY DEF Fixes
<1>3. Head(z.rest) \in Dirs /\ rest \in Seq(Dirs) /\ Len(rest) = Len(z.rest) - 1
  BY <1>2
<1>4. at \in Spots
  BY <1>2, <1>3, TowardsSpot
<1>5. long \in BOOLEAN /\ (long \/ Len(rest) <= 1)
  <2>. DEFINE n1 == Len(rest)
              n2 == Len(z.rest)
  <2>2. n1 = n2 - 1 /\ n2 \in Nat /\ (z.long \/ n2 <= 1)
    BY <1>2, <1>3
  <2>. HIDE DEF rest
  <2>1. rest = <<>> => n1 = 0
    OBVIOUS
  <2>. HIDE DEF n1, n2
  <2>3. long \/ n1 <= 1
    BY <2>1, <2>2
  <2>4. long \in BOOLEAN
    OBVIOUS
  <2>. HIDE DEF long
  <2>. QED  BY <2>3, <2>4 DEF n1
<1>. HIDE DEF at, rest, long
<1>6. n \in [mode : Modes, at : Spots, rest : Seq(Dirs), long : BOOLEAN, asked : BOOLEAN]
  BY <1>2, <1>3, <1>4, <1>5
<1>7. n.mode = z.mode /\ n.at = at /\ n.rest = rest /\ n.asked = z.asked
  BY <1>2
<1>8. n.long = long
  BY <1>2
<1>. QED  BY <1>1, <1>5, <1>6, <1>7, <1>8 DEF Fixes, at, rest, long

(* A fix with another mode, or with other moves to come.                   *)
LEMMA FixMode ==
  ASSUME NEW z \in Fixes, NEW m \in Modes
  PROVE  LET n == [z EXCEPT !.mode = m]
         IN /\ n \in Fixes /\ n.mode = m /\ n.at = z.at /\ n.rest = z.rest
            /\ n.long = z.long /\ n.asked = z.asked
BY DEF Fixes

(* The same fix with other moves to come.                                  *)
Due(z, rest, long) == [z EXCEPT !.rest = rest, !.long = long, !.asked = FALSE]

(* The same fix with other directions to walk.                             *)
LEMMA DueFix ==
  ASSUME NEW z \in Fixes, NEW rest \in Seq(Dirs), NEW long \in BOOLEAN, long \/ Len(rest) <= 1
  PROVE  /\ Due(z, rest, long) \in Fixes
         /\ Due(z, rest, long).mode = z.mode /\ Due(z, rest, long).at = z.at
         /\ Due(z, rest, long).rest = rest
         /\ Due(z, rest, long).long <=> long
         /\ ~Due(z, rest, long).asked
<1>. DEFINE n == [z EXCEPT !.rest = rest, !.long = long, !.asked = FALSE]
<1>1. z \in [mode : Modes, at : Spots, rest : Seq(Dirs), long : BOOLEAN, asked : BOOLEAN]
  BY DEF Fixes
<1>2. n \in [mode : Modes, at : Spots, rest : Seq(Dirs), long : BOOLEAN, asked : BOOLEAN]
  BY <1>1
<1>3. n.mode = z.mode /\ n.at = z.at /\ n.rest = rest
  BY <1>1
<1>4. n.long = long
  BY <1>1
<1>5. n.asked = FALSE
  BY <1>1
<1>6. Due(z, rest, long) = n
  BY DEF Due
<1>. HIDE DEF n
<1>7. n \in Fixes
  BY <1>2, <1>3, <1>4 DEF Fixes
<1>. QED  BY <1>3, <1>4, <1>5, <1>6, <1>7

(* A fix whose directions were given up.                                   *)
LEMMA FixCut ==
  ASSUME NEW z \in Fixes
  PROVE  LET n == [z EXCEPT !.rest = <<>>]
         IN /\ n \in Fixes /\ n.mode = z.mode /\ n.at = z.at /\ n.rest = <<>>
            /\ n.long = z.long /\ n.asked = z.asked
<1>. DEFINE n == [z EXCEPT !.rest = <<>>]
<1>1. z \in [mode : Modes, at : Spots, rest : Seq(Dirs), long : BOOLEAN, asked : BOOLEAN]
  BY DEF Fixes
<1>2. <<>> \in Seq(Dirs)
  OBVIOUS
<1>3. n \in [mode : Modes, at : Spots, rest : Seq(Dirs), long : BOOLEAN, asked : BOOLEAN]
  BY <1>1, <1>2
<1>4. n.mode = z.mode /\ n.at = z.at /\ n.rest = <<>>
  BY <1>1
<1>5. n.long = z.long /\ n.asked = z.asked
  BY <1>1
<1>6. Len(n.rest) = 0
  BY <1>4
<1>. HIDE DEF n
<1>7. n \in Fixes
  BY <1>3, <1>6 DEF Fixes
<1>. QED  BY <1>4, <1>5, <1>7 DEF n

(* What a monster is called by is no other command.                        *)
LEMMA WordsApart ==
  /\ \A word \in Words : word \notin Dirs \cup {"refresh", "portal", "newsea", "out", "open"}
  /\ \A mob \in Monsters : Keyword[mob] \in Words
BY WordsAssumption DEF Orders

(* The commands that move nobody about a sea.                              *)
Plain == Commands \ (Dirs \cup {"newsea"})

(* Nothing is left to walk, and plain commands leave it so.                *)
LEMMA PlainGiven ==
  ASSUME NEW w \in Fixes, Ends(w)
  PROVE  \A e \in Plain : <<e, w, w>> \in Given
<1>. SUFFICES ASSUME NEW e \in Plain PROVE <<e, w, w>> \in Given
  OBVIOUS
<1>1. e \in Commands /\ e \notin Dirs \cup {"newsea"}
  BY DEF Plain
<1>2. e # "newsea"
  BY <1>1
<1>3. w.mode \in Modes
  BY FixType
<1>4. Giving(e, w, w)
  BY <1>1, <1>2, <1>3 DEF Giving, Ends, Modes
<1>. QED  BY <1>1, <1>4, GivenIs

(* Whatever does not move the player may be sent at any time.              *)
LEMMA AheadSent ==
  ASSUME NEW f, NEW s \in Seq(Commands), NEW p, NEW x, Ahead(f, s, p, x), NEW cmds \in Seq(Plain)
  PROVE  Ahead(f, s \o cmds, p, x)
<1>1. PICK y \in Fixes, w \in Fixes :
         /\ Passes(Heard, Fixes, f, x, y) /\ Stands(y, p)
         /\ Passes(Given, Fixes, s, y, w) /\ Ends(w)
  BY DEF Ahead, Lasts
<1>2. \A e \in Plain : <<e, w, w>> \in Given
  BY <1>1, PlainGiven
<1>3. Passes(Given, Fixes, cmds, w, w)
  BY <1>2, PassesIdle
<1>4. cmds \in Seq(Commands)
  <2>1. Plain \subseteq Commands
    BY DEF Plain
  <2>. HIDE DEF Plain, Commands
  <2>. QED  BY <2>1
<1>5. Passes(Given, Fixes, s \o cmds, y, w)
  BY <1>1, <1>3, <1>4, PassesBoth
<1>. QED  BY <1>1, <1>5 DEF Ahead, Lasts

(* The moves of a path, sent from a fix that expects them, are all made.   *)
LEMMA PathGiven ==
  ASSUME NEW z \in Fixes, z.mode = "live"
  PROVE  \E w \in Fixes : /\ Passes(Given, Fixes, z.rest, z, w)
                          /\ w.mode = "live" /\ w.rest = <<>>
<1>. DEFINE path == z.rest
            n == Len(path)
            Reached(k) == \E v \in Fixes : /\ v.mode = "live" /\ v.rest = SubSeq(path, k + 1, n)
                                           /\ Passes(Given, Fixes, SubSeq(path, 1, k), z, v)
            T == {k \in 0 .. n : Reached(k)}
<1>1. path \in Seq(Dirs) /\ n \in Nat
  BY FixType
<1>. HIDE DEF path, n
<1>2. 0 \in T
  <2>1. SubSeq(path, 1, 0) = <<>> /\ SubSeq(path, 0 + 1, n) = path
    BY <1>1 DEF n
  <2>2. Passes(Given, Fixes, <<>>, z, z)
    BY PassesNothing
  <2>3. Reached(0)
    BY <2>1, <2>2 DEF path
  <2>. QED  BY <1>1, <2>3
<1>3. ASSUME NEW k \in 0 .. n - 1, k \in T PROVE k + 1 \in T
  <2>1. PICK v \in Fixes : /\ v.mode = "live" /\ v.rest = SubSeq(path, k + 1, n)
                           /\ Passes(Given, Fixes, SubSeq(path, 1, k), z, v)
    BY <1>3
  <2>. DEFINE cmd == path[k + 1]
              tail == SubSeq(path, k + 1, n)
              done == SubSeq(path, 1, k)
              u == Moved(v)
  <2>2. k \in Nat /\ k + 1 \in 1 .. n /\ k + 1 \in 0 .. n /\ cmd \in Dirs
    BY <1>1 DEF n
  <2>3. tail # <<>> /\ Head(tail) = cmd /\ Tail(tail) = SubSeq(path, (k + 1) + 1, n)
    <3>1. Head(tail) = cmd /\ Tail(tail) = SubSeq(path, (k + 1) + 1, n)
      BY <1>1, <2>2, HeadTailOfSubSeq DEF n
    <3>2. Len(tail) = (n - (k + 1)) + 1
      BY <1>1, <2>2 DEF n
    <3>. HIDE DEF tail
    <3>3. tail # <<>>
      BY <1>1, <2>2, <3>2
    <3>. QED  BY <3>1, <3>3
  <2>4. SubSeq(path, 1, k + 1) = done \o <<cmd>> /\ done \in Seq(Dirs)
    BY <1>1, <2>2 DEF n
  <2>. HIDE DEF cmd, tail, done
  <2>5. v.rest = tail
    BY <2>1 DEF tail
  <2>6. /\ u \in Fixes /\ u.mode = "live" /\ u.rest = SubSeq(path, (k + 1) + 1, n)
    BY <2>1, <2>3, <2>5, MovedFix
  <2>7. Giving(cmd, v, u)
    BY <2>1, <2>2, <2>3, <2>5 DEF Giving
  <2>. HIDE DEF u
  <2>8. cmd \in Commands
    BY <2>2 DEF Commands, Orders
  <2>9. <<cmd, v, u>> \in Given
    BY <2>1, <2>6, <2>7, <2>8, GivenIs
  <2>10. Passes(Given, Fixes, <<cmd>>, v, u)
    BY <2>1, <2>6, <2>9, PassesOne
  <2>11. <<cmd>> \in Seq(Dirs)
    BY <2>2
  <2>12. Passes(Given, Fixes, done \o <<cmd>>, z, u)
    BY <2>1, <2>4, <2>10, <2>11, PassesBoth DEF done
  <2>13. Reached(k + 1)
    BY <2>4, <2>6, <2>12
  <2>. QED  BY <2>2, <2>13
<1>. HIDE DEF T
<1>4. n \in T
  <2>1. n \in 0 .. n
    BY <1>1
  <2>. QED  BY <1>1, <1>2, <1>3, <2>1, CountsUp
<1>5. Reached(n)
  BY <1>4 DEF T
<1>. HIDE DEF Reached
<1>6. SubSeq(path, n + 1, n) = <<>> /\ SubSeq(path, 1, n) = path
  BY <1>1 DEF n
<1>. QED  BY <1>5, <1>6 DEF Reached, path

(* Two fixes alike in everything are one.                                  *)
LEMMA FixSame ==
  ASSUME NEW a \in Fixes, NEW b \in Fixes, a.mode = b.mode, a.at = b.at, a.rest = b.rest,
         a.long <=> b.long, a.asked <=> b.asked
  PROVE  a = b
BY DEF Fixes

(* Where no move is to come, only news of the lobby changes a fix.         *)
Settled == {z \in Fixes : z.rest = <<>> /\ z.mode # "stuck"}

(* A frame leaves a settled fix settled: only news of the lobby changes    *)
(* it.                                                                     *)
LEMMA SettledHears ==
  ASSUME NEW f, NEW z \in Settled, NEW n, <<f, z, n>> \in Heard
  PROVE  /\ n \in Settled
         /\ \/ n = z
            \/ n = [z EXCEPT !.mode = "gone"] \/ n = [z EXCEPT !.mode = "leaving"]
<1>1. z \in Fixes /\ z.rest = <<>> /\ z.mode # "stuck" /\ n \in Fixes /\ Hearing(f, z, n)
  BY HeardIs DEF Settled
<1>2. \/ n = z
      \/ n = [z EXCEPT !.mode = "gone"] \/ n = [z EXCEPT !.mode = "leaving"]
  BY <1>1 DEF Hearing, Hears
<1>3. n.rest = <<>> /\ n.mode # "stuck"
  <2>1. "gone" \in Modes /\ "leaving" \in Modes
    BY DEF Modes
  <2>2. n = z => n.rest = <<>> /\ n.mode # "stuck"
    BY <1>1
  <2>3. n = [z EXCEPT !.mode = "gone"] => n.rest = <<>> /\ n.mode # "stuck"
    BY <1>1, <2>1, FixMode
  <2>4. n = [z EXCEPT !.mode = "leaving"] => n.rest = <<>> /\ n.mode # "stuck"
    BY <1>1, <2>1, FixMode
  <2>. QED  BY <1>2, <2>2, <2>3, <2>4
<1>. QED  BY <1>1, <1>2, <1>3 DEF Settled

(* And so does a command.                                                  *)
LEMMA SettledGiven ==
  ASSUME NEW cmd, NEW z \in Settled, NEW n, <<cmd, z, n>> \in Given
  PROVE  n = z
<1>1. z \in Fixes /\ z.rest = <<>> /\ z.mode # "stuck" /\ Giving(cmd, z, n)
  BY GivenIs DEF Settled
<1>. QED  BY <1>1 DEF Giving

(* Setting off from a settled fix.                                         *)
LEMMA DueHears ==
  ASSUME NEW f, NEW a \in Settled, NEW b \in Settled, <<f, a, b>> \in Heard,
         NEW rest \in Seq(Dirs), NEW long \in BOOLEAN, long \/ Len(rest) <= 1
  PROVE  <<f, Due(a, rest, long), Due(b, rest, long)>> \in Heard
<1>. DEFINE c == Due(a, rest, long)
            d == Due(b, rest, long)
<1>1. /\ a \in Fixes /\ a.rest = <<>> /\ a.mode # "stuck" /\ b \in Fixes
      /\ f \in Frames /\ Hearing(f, a, b)
  BY HeardIs DEF Settled
<1>2. /\ c \in Fixes /\ c.mode = a.mode /\ c.at = a.at /\ c.rest = rest /\ (c.long <=> long)
      /\ ~c.asked
  BY <1>1, DueFix
<1>3. /\ d \in Fixes /\ d.mode = b.mode /\ d.at = b.at /\ d.rest = rest /\ (d.long <=> long)
      /\ ~d.asked
  BY <1>1, DueFix
<1>4. a = b => c = d
  OBVIOUS
<1>. HIDE DEF c, d
<1>5. ASSUME NEW m \in Modes, b = [a EXCEPT !.mode = m] PROVE d = [c EXCEPT !.mode = m]
  <2>. DEFINE e == [c EXCEPT !.mode = m]
  <2>1. b.mode = m /\ b.at = a.at
    BY <1>1, <1>5, FixMode
  <2>2. e \in Fixes /\ e.mode = m /\ e.at = c.at /\ e.rest = rest /\ (e.long <=> long) /\ ~e.asked
    BY <1>2, FixMode
  <2>. HIDE DEF e
  <2>3. d = e
    BY <1>2, <1>3, <2>1, <2>2, FixSame
  <2>. QED  BY <2>3 DEF e
<1>6. CASE a.mode = "gone"
  <2>1. b = a
    BY <1>1, <1>6 DEF Hearing
  <2>2. Hearing(f, c, d)
    BY <1>1, <1>2, <1>4, <1>6, <2>1 DEF Hearing
  <2>. QED  BY <1>1, <1>2, <1>3, <2>2, HeardIs DEF c, d
<1>7. CASE a.mode = "leaving"
  <2>1. b = [a EXCEPT !.mode = "gone"] /\ f.kind = "contents" /\ f.entry /\ f.place = Lobby
    BY <1>1, <1>7 DEF Hearing
  <2>2. d = [c EXCEPT !.mode = "gone"]
    BY <1>5, <2>1 DEF Modes
  <2>3. Hearing(f, c, d)
    BY <1>2, <1>7, <2>1, <2>2 DEF Hearing
  <2>. QED  BY <1>1, <1>2, <1>3, <2>3, HeardIs DEF c, d
<1>8. CASE a.mode = "live"
  <2>1. Hears(f, a, b)
    BY <1>1, <1>8 DEF Hearing
  <2>2. \/ f.kind = "info" /\ f.place = Lobby /\ b = [a EXCEPT !.mode = "leaving"]
        \/ f.kind = "info" /\ f.place # Lobby /\ b = a
        \/ f.kind = "contents" /\ ~f.entry /\ f.place = a.at /\ b = a
        \/ f.kind \in {"combat_end", "no_target"} /\ b = a
    BY <1>1, <2>1 DEF Hears
  <2>3. b = [a EXCEPT !.mode = "leaving"] => d = [c EXCEPT !.mode = "leaving"]
    BY <1>5 DEF Modes
  <2>4. Hears(f, c, d)
    BY <1>2, <1>4, <2>2, <2>3 DEF Hears
  <2>. QED  BY <1>1, <1>2, <1>3, <1>8, <2>4, HeardIs DEF Hearing, c, d
<1>. QED  BY <1>1, <1>6, <1>7, <1>8, FixType DEF Modes

(* The commands given to a settled fix are given as well to one that has   *)
(* still to walk.                                                          *)
LEMMA DueGiven ==
  ASSUME NEW cmd, NEW a \in Settled, NEW b \in Settled, <<cmd, a, b>> \in Given,
         NEW rest \in Seq(Dirs), NEW long \in BOOLEAN, long \/ Len(rest) <= 1
  PROVE  <<cmd, Due(a, rest, long), Due(b, rest, long)>> \in Given
<1>. DEFINE c == Due(a, rest, long)
<1>1. b = a
  BY SettledGiven
<1>2. /\ a \in Fixes /\ a.rest = <<>> /\ a.mode # "stuck" /\ cmd \in Commands /\ Giving(cmd, a, a)
  BY <1>1, GivenIs DEF Settled
<1>3. c \in Fixes /\ c.mode = a.mode /\ ~c.asked
  BY <1>2, DueFix
<1>. HIDE DEF c
<1>4. Giving(cmd, c, c)
  BY <1>2, <1>3 DEF Giving
<1>. QED  BY <1>1, <1>2, <1>3, <1>4, GivenIs DEF c

(* A path is sent from where the player was last known to be.              *)
LEMMA AheadPath ==
  ASSUME NEW f \in Seq(Frames), NEW s \in Seq(Commands), NEW p, NEW x \in Settled,
         Ahead(f, s, p, x), NEW path \in Seq(Dirs), NEW long \in BOOLEAN, long \/ Len(path) <= 1
  PROVE  Ahead(f, s \o path, p, Due(x, path, long))
<1>. DEFINE g == [z \in Settled |-> Due(z, path, long)]
<1>1. PICK y \in Fixes, w \in Fixes :
         /\ Passes(Heard, Fixes, f, x, y) /\ Stands(y, p)
         /\ Passes(Given, Fixes, s, y, w) /\ Ends(w)
  BY DEF Ahead, Lasts
<1>2. Settled \in SUBSET Fixes
  BY DEF Settled
<1>3. Passes(Heard, Settled, f, x, y) /\ y \in Settled
  <2>1. \A e \in Frames, a \in Settled, b \in Fixes : <<e, a, b>> \in Heard => b \in Settled
    BY SettledHears
  <2>2. x \in Settled /\ f \in Seq(Frames) /\ Passes(Heard, Fixes, f, x, y)
    BY <1>1
  <2>. HIDE DEF Settled, Fixes, Frames
  <2>3. Passes(Heard, Settled, f, x, y) /\ y \in Settled
    BY <1>2, <2>1, <2>2, PassesWithin, SMTT(30)
  <2>. QED  BY <2>3
<1>4. Passes(Given, Settled, s, y, w) /\ w \in Settled
  <2>1. \A e \in Commands, a \in Settled, b \in Fixes : <<e, a, b>> \in Given => b \in Settled
    BY SettledGiven
  <2>2. Passes(Given, Fixes, s, y, w)
    BY <1>1
  <2>. HIDE DEF Settled, Fixes, Commands
  <2>3. Passes(Given, Settled, s, y, w) /\ w \in Settled
    BY <1>2, <1>3, <2>1, <2>2, PassesWithin, SMTT(30)
  <2>. QED  BY <2>3
<1>5. g \in [Settled -> Fixes] /\ \A z \in Settled : g[z] = Due(z, path, long)
  BY <1>2, DueFix
<1>. HIDE DEF g
<1>6. Passes(Heard, Fixes, f, g[x], g[y])
  <2>1. \A e \in Frames, a \in Settled, b \in Settled :
          <<e, a, b>> \in Heard => <<e, g[a], g[b]>> \in Heard
    BY <1>5, DueHears
  <2>. HIDE DEF Settled, Fixes, Frames
  <2>. QED  BY <1>3, <1>5, <2>1, PassesRenamed
<1>7. Passes(Given, Fixes, s, g[y], g[w])
  <2>1. \A e \in Commands, a \in Settled, b \in Settled :
          <<e, a, b>> \in Given => <<e, g[a], g[b]>> \in Given
    BY <1>5, DueGiven
  <2>. HIDE DEF Settled, Fixes, Commands
  <2>. QED  BY <1>4, <1>5, <2>1, PassesRenamed
<1>8. /\ g[y] \in Fixes /\ g[y].mode = y.mode /\ g[y].at = y.at
      /\ g[w] \in Fixes /\ g[w].mode = w.mode /\ g[w].rest = path
  BY <1>3, <1>4, <1>5, <1>2, DueFix
<1>9. Stands(g[y], p)
  BY <1>1, <1>8 DEF Stands
<1>10. \E v \in Fixes : Passes(Given, Fixes, path, g[w], v) /\ Ends(v)
  <2>1. CASE w.mode = "live"
    BY <1>8, <2>1, PathGiven DEF Ends
  <2>2. CASE w.mode = "gone"
    <3>1. \A e \in Dirs : e \in Commands /\ e # "newsea"
      BY DEF Dirs, Commands, Orders
    <3>2. \A e \in Dirs : Giving(e, g[w], g[w])
      BY <1>8, <2>2, <3>1 DEF Giving
    <3>3. \A e \in Dirs : <<e, g[w], g[w]>> \in Given
      BY <1>8, <3>1, <3>2, GivenIs
    <3>4. Passes(Given, Fixes, path, g[w], g[w])
      BY <1>8, <3>3, PassesIdle
    <3>. QED  BY <1>8, <2>2, <3>4 DEF Ends
  <2>. QED  BY <1>1, <1>4, <2>1, <2>2, FixType DEF Ends, Modes, Settled
<1>11. PICK v \in Fixes : Passes(Given, Fixes, path, g[w], v) /\ Ends(v)
  BY <1>10
<1>12. path \in Seq(Commands)
  <2>1. Dirs \subseteq Commands
    BY DEF Commands, Orders
  <2>. HIDE DEF Dirs, Commands
  <2>. QED  BY <2>1
<1>13. Passes(Given, Fixes, s \o path, g[y], v)
  BY <1>7, <1>11, <1>12, PassesBoth
<1>14. g[x] = Due(x, path, long)
  BY <1>5
<1>. QED  BY <1>6, <1>8, <1>9, <1>11, <1>13, <1>14 DEF Ahead, Lasts

(* Two elements take it two steps.                                         *)
LEMMA PassesTwo ==
  ASSUME NEW R, NEW X, NEW d, NEW e, NEW x \in X, NEW y \in X, NEW z \in X,
         <<d, x, y>> \in R, <<e, y, z>> \in R
  PROVE  Passes(R, X, <<d, e>>, x, z)
<1>. DEFINE s == <<d, e>>
            h == [i \in 0 .. 2 |-> IF i = 0 THEN x ELSE IF i = 1 THEN y ELSE z]
<1>1. Len(s) = 2 /\ s[1] = d /\ s[2] = e
  OBVIOUS
<1>2. h \in [0 .. 2 -> X] /\ h[0] = x /\ h[1] = y /\ h[2] = z
  OBVIOUS
<1>. HIDE DEF s, h
<1>3. ASSUME NEW i \in 1 .. 2 PROVE <<s[i], h[i - 1], h[i]>> \in R
  <2>1. i = 1 \/ i = 2
    OBVIOUS
  <2>. QED  BY <1>1, <1>2, <2>1
<1>4. Passes(R, X, s, x, z)
  BY <1>1, <1>2, <1>3 DEF Passes
<1>. QED  BY <1>4 DEF s

(* A fix that gave up is passed by everything.                             *)
LEMMA StuckPasses ==
  ASSUME NEW y \in Fixes, y.mode = "stuck"
  PROVE  /\ \A f \in Seq(Frames) : Passes(Heard, Fixes, f, y, y)
         /\ \A s \in Seq(Commands) : Lasts(s, y)
<1>1. \A e \in Frames : <<e, y, y>> \in Heard
  BY HeardIs DEF Hearing
<1>2. \A e \in Commands : <<e, y, y>> \in Given
  BY GivenIs DEF Giving
<1>3. \A f \in Seq(Frames) : Passes(Heard, Fixes, f, y, y)
  <2>. HIDE DEF Frames, Fixes
  <2>. QED  BY <1>1, PassesIdle
<1>4. \A s \in Seq(Commands) : Passes(Given, Fixes, s, y, y)
  <2>. HIDE DEF Commands, Fixes
  <2>. QED  BY <1>2, PassesIdle
<1>. QED  BY <1>3, <1>4 DEF Lasts, Ends

(* The first command, and what is left.                                    *)
LEMMA LastsHead ==
  ASSUME NEW s \in Seq(Commands), s # <<>>, NEW y, Lasts(s, y)
  PROVE  \E v \in Fixes : <<Head(s), y, v>> \in Given /\ Lasts(Tail(s), v)
<1>1. PICK w \in Fixes : Passes(Given, Fixes, s, y, w) /\ Ends(w)
  BY DEF Lasts
<1>2. PICK v \in Fixes : <<Head(s), y, v>> \in Given /\ Passes(Given, Fixes, Tail(s), v, w)
  <2>. HIDE DEF Fixes, Commands
  <2>. QED  BY <1>1, PassesHead
<1>. QED  BY <1>1, <1>2 DEF Lasts

(* Where no move is expected none is under way.                            *)
LEMMA LastsPlain ==
  ASSUME NEW s \in Seq(Commands), NEW y \in Fixes, y.mode = "live", y.rest = <<>>, Lasts(s, y)
  PROVE  s \in Seq(Plain)
<1>1. PICK w \in Fixes : Passes(Given, Fixes, s, y, w) /\ Ends(w)
  BY DEF Lasts
<1>2. \A e \in Commands, a \in {y}, b \in Fixes : <<e, a, b>> \in Given => b \in {y} /\ e \in Plain
  <2>. SUFFICES ASSUME NEW e \in Commands, NEW b \in Fixes, <<e, y, b>> \in Given
                PROVE  b = y /\ e \in Plain
    OBVIOUS
  <2>1. Giving(e, y, b)
    BY GivenIs
  <2>2. b = y /\ e \notin Dirs \cup {"newsea"}
    BY <2>1 DEF Giving
  <2>. QED  BY <2>2 DEF Plain
<1>. HIDE DEF Commands, Fixes, Plain
<1>3. Passes(Given, {y}, s, y, w)
  BY <1>1, <1>2, PassesWithin
<1>4. \A e \in Commands, a \in {y}, b \in {y} : <<e, a, b>> \in Given => e \in Plain
  BY <1>2
<1>. QED  BY <1>3, <1>4, PassesAllowed

(* Such commands may be given anywhere else.                               *)
LEMMA PlainLasts ==
  ASSUME NEW s \in Seq(Plain), NEW y \in Fixes, Ends(y)
  PROVE  Lasts(s, y)
<1>1. \A e \in Plain : <<e, y, y>> \in Given
  BY PlainGiven
<1>2. Passes(Given, Fixes, s, y, y)
  BY <1>1, PassesIdle
<1>. QED  BY <1>2 DEF Lasts

(* In the lobby everything but a new sea leaves the player where he is.    *)
LEMMA LobbyLasts ==
  ASSUME NEW s \in Seq(Commands), NEW y \in Fixes, y.mode = "live", Lasts(s, y),
         NEW z \in Fixes, z.mode = "gone"
  PROVE  Lasts(s, z)
<1>. DEFINE Live == {a \in Fixes : a.mode = "live"}
            Others == Commands \ {"newsea"}
<1>1. PICK w \in Fixes : Passes(Given, Fixes, s, y, w) /\ Ends(w)
  BY DEF Lasts
<1>2. \A e \in Commands, a \in Live, b \in Fixes : <<e, a, b>> \in Given => b \in Live /\ e \in Others
  <2>. SUFFICES ASSUME NEW e \in Commands, NEW a \in Live, NEW b \in Fixes, <<e, a, b>> \in Given
                PROVE  b \in Live /\ e \in Others
    OBVIOUS
  <2>1. Giving(e, a, b) /\ a \in Fixes /\ a.mode = "live"
    BY GivenIs
  <2>2. CASE e \in Dirs /\ a.rest # <<>> /\ b = Moved(a)
    <3>1. e # "newsea"
      BY <2>2 DEF Dirs
    <3>2. b.mode = "live"
      BY <2>1, <2>2, MovedFix
    <3>. QED  BY <3>1, <3>2
  <2>3. CASE e \notin Dirs \cup {"newsea"} /\ b = a
    BY <2>1, <2>3
  <2>. QED  BY <2>1, <2>2, <2>3 DEF Giving
<1>3. Live \in SUBSET Fixes /\ y \in Live
  OBVIOUS
<1>4. \A e \in Others : <<e, z, z>> \in Given
  <2>1. \A e \in Others : e \in Commands /\ Giving(e, z, z)
    BY DEF Giving
  <2>. QED  BY <2>1, GivenIs
<1>. HIDE DEF Commands, Fixes, Live, Others
<1>5. Passes(Given, Live, s, y, w)
  BY <1>1, <1>2, <1>3, PassesWithin
<1>6. \A e \in Commands, a \in Live, b \in Live : <<e, a, b>> \in Given => e \in Others
  BY <1>2, <1>3
<1>7. s \in Seq(Others)
  BY <1>5, <1>6, PassesAllowed
<1>8. Passes(Given, Fixes, s, z, z)
  BY <1>4, <1>7, PassesIdle
<1>. QED  BY <1>8 DEF Lasts, Ends

-----------------------------------------------------------------------------
(* Frames already under way are heard first.                               *)
LEMMA AheadOver ==
  ASSUME NEW f \in Seq(Frames), NEW g \in Seq(Frames), NEW s, NEW q, NEW x, NEW y,
         Passes(Heard, Fixes, f, x, y), Ahead(g, s, q, y)
  PROVE  Ahead(f \o g, s, q, x)
<1>1. PICK z \in Fixes : Passes(Heard, Fixes, g, y, z) /\ Stands(z, q) /\ Lasts(s, z)
  BY DEF Ahead
<1>2. Passes(Heard, Fixes, f \o g, x, z)
  <2>. HIDE DEF Frames, Fixes
  <2>. QED  BY <1>1, PassesBoth
<1>. QED  BY <1>1, <1>2 DEF Ahead

(* A frame is heard.                                                       *)
LEMMA AheadHeard ==
  ASSUME NEW f \in Seq(Frames), f # <<>>, NEW s, NEW p, NEW x, Ahead(f, s, p, x)
  PROVE  \E z \in Fixes : /\ Head(f) \in Frames /\ x \in Fixes /\ Hearing(Head(f), x, z)
                          /\ Ahead(Tail(f), s, p, z)
<1>1. PICK y \in Fixes : Passes(Heard, Fixes, f, x, y) /\ Stands(y, p) /\ Lasts(s, y)
  BY DEF Ahead
<1>2. PICK z \in Fixes : <<Head(f), x, z>> \in Heard /\ Passes(Heard, Fixes, Tail(f), z, y)
  <2>. HIDE DEF Frames, Fixes
  <2>. QED  BY <1>1, PassesHead
<1>3. Head(f) \in Frames /\ x \in Fixes /\ Hearing(Head(f), x, z)
  BY <1>2, HeardIs
<1>. QED  BY <1>1, <1>2, <1>3 DEF Ahead

(* With nothing under way a fix is where the player is.                    *)
LEMMA AheadQuiet ==
  ASSUME NEW p, NEW x, Ahead(<<>>, <<>>, p, x)
  PROVE  x \in Fixes /\ Stands(x, p) /\ Ends(x)
<1>1. PICK y \in Fixes : Passes(Heard, Fixes, <<>>, x, y) /\ Stands(y, p) /\ Lasts(<<>>, y)
  BY DEF Ahead
<1>2. PICK w \in Fixes : Passes(Given, Fixes, <<>>, y, w) /\ Ends(w)
  BY <1>1 DEF Lasts
<1>3. x = y /\ y = w
  BY <1>1, <1>2, PassesNothing
<1>. QED  BY <1>1, <1>2, <1>3

(* And conversely.                                                         *)
LEMMA QuietAhead ==
  ASSUME NEW p, NEW x \in Fixes, Stands(x, p), Ends(x)
  PROVE  Ahead(<<>>, <<>>, p, x)
<1>1. Passes(Heard, Fixes, <<>>, x, x) /\ Passes(Given, Fixes, <<>>, x, x)
  BY PassesNothing
<1>. QED  BY <1>1 DEF Ahead, Lasts

-----------------------------------------------------------------------------
(* The game keeps a fix ahead of it.                                       *)

(* An entry makes the move it answers, or is the way out.                  *)
LEMMA EntryHeard ==
  ASSUME World, NEW place \in Places, NEW seen \in MaySee, NEW y \in Fixes
  PROVE  /\ y.mode = "live" /\ y.rest # <<>> /\ Head(y.rest) \in ExitsOf(y.at)
              /\ place = Towards(y.at, Head(y.rest)) /\ place # Lobby
            => Passes(Heard, Fixes, Entry(place, seen), y, Moved(y))
         /\ y.mode = "live" /\ place = Lobby
            => Passes(Heard, Fixes, Entry(place, seen), y, [y EXCEPT !.mode = "gone"])
         /\ y.mode = "gone" /\ place = Lobby
            => Passes(Heard, Fixes, Entry(place, seen), y, y)
<1>. DEFINE i == [kind |-> "info", place |-> place]
            e == ContentsOf(place, TRUE, seen)
<1>1. i \in Frames /\ i.kind = "info" /\ i.place = place
  BY DEF Frames, Infos
<1>2. e \in Frames
  BY ContentsType DEF Frames
<1>3. e.kind = "contents" /\ e.entry /\ e.place = place
  BY DEF ContentsOf
<1>4. Entry(place, seen) = <<i, e>>
  BY DEF Entry
<1>. HIDE DEF i, e
<1>5. CASE /\ y.mode = "live" /\ y.rest # <<>> /\ Head(y.rest) \in ExitsOf(y.at)
           /\ place = Towards(y.at, Head(y.rest)) /\ place # Lobby
  <2>1. Moved(y) \in Fixes
    BY <1>5, MovedFix
  <2>2. Hearing(i, y, y) /\ Hearing(e, y, Moved(y))
    BY <1>1, <1>3, <1>5 DEF Hearing, Hears
  <2>3. <<i, y, y>> \in Heard /\ <<e, y, Moved(y)>> \in Heard
    BY <1>1, <1>2, <2>1, <2>2, HeardIs
  <2>4. Passes(Heard, Fixes, <<i, e>>, y, Moved(y))
    BY <2>1, <2>3, PassesTwo
  <2>. QED  BY <1>4, <1>5, <2>4
<1>6. CASE y.mode = "live" /\ place = Lobby
  <2>. DEFINE l == [y EXCEPT !.mode = "leaving"]
              g == [y EXCEPT !.mode = "gone"]
              h == [l EXCEPT !.mode = "gone"]
  <2>1. "leaving" \in Modes /\ "gone" \in Modes
    BY DEF Modes
  <2>2. /\ l \in Fixes /\ l.mode = "leaving" /\ l.at = y.at /\ l.rest = y.rest
       /\ l.long = y.long /\ l.asked = y.asked
    BY <2>1, FixMode
  <2>3. /\ g \in Fixes /\ g.mode = "gone" /\ g.at = y.at /\ g.rest = y.rest
       /\ g.long = y.long /\ g.asked = y.asked
    BY <2>1, FixMode
  <2>4. Hearing(i, y, l)
    BY <1>1, <1>6 DEF Hearing, Hears
  <2>. HIDE DEF l, g
  <2>5. /\ h \in Fixes /\ h.mode = "gone" /\ h.at = l.at /\ h.rest = l.rest
       /\ h.long = l.long /\ h.asked = l.asked
    BY <2>1, <2>2, FixMode
  <2>6. Hearing(e, l, h)
    BY <1>3, <1>6, <2>2 DEF Hearing
  <2>. HIDE DEF h
  <2>7. g = h
    BY <2>2, <2>3, <2>5, FixSame
  <2>8. <<i, y, l>> \in Heard /\ <<e, l, g>> \in Heard
    BY <1>1, <1>2, <2>2, <2>3, <2>4, <2>6, <2>7, HeardIs
  <2>9. Passes(Heard, Fixes, <<i, e>>, y, g)
    BY <2>2, <2>3, <2>8, PassesTwo
  <2>. QED  BY <1>4, <1>6, <2>9 DEF g
<1>7. CASE y.mode = "gone" /\ place = Lobby
  <2>1. Hearing(i, y, y) /\ Hearing(e, y, y)
    BY <1>1, <1>3, <1>7 DEF Hearing
  <2>2. <<i, y, y>> \in Heard /\ <<e, y, y>> \in Heard
    BY <1>1, <1>2, <2>1, HeardIs
  <2>3. Passes(Heard, Fixes, <<i, e>>, y, y)
    BY <2>2, PassesTwo
  <2>. QED  BY <1>4, <1>7, <2>3
<1>. QED  BY <1>5, <1>6, <1>7

(* The lines of a fight tell nothing of the way.                           *)
LEMMA FightHeard ==
  ASSUME NEW y \in Fixes, y.mode # "leaving"
  PROVE  /\ Passes(Heard, Fixes, CombatEnd, y, y) /\ Passes(Heard, Fixes, <<>>, y, y)
         /\ \A word \in Words : Passes(Heard, Fixes, NoTarget(word), y, y)
<1>1. ASSUME NEW e \in Frames, e.kind \in {"combat_end", "no_target"}
      PROVE  Passes(Heard, Fixes, <<e>>, y, y)
  <2>1. y.mode \in Modes
    BY FixType
  <2>2. Hearing(e, y, y)
    BY <1>1, <2>1 DEF Hearing, Hears, Modes
  <2>. QED  BY <2>2, HeardIs, PassesOne
<1>2. [kind |-> "combat_end"] \in Frames
  BY DEF Frames, Lines
<1>3. \A word \in Words : [kind |-> "no_target", word |-> word] \in Frames
  BY DEF Frames, Lines
<1>. HIDE DEF Frames
<1>. QED  BY <1>1, <1>2, <1>3, PassesNothing DEF CombatEnd, NoTarget

(* With an entry the end of a fight may be told.                           *)
LEMMA ArrivingHeard ==
  ASSUME World, NEW place \in Places, NEW seen \in MaySee, NEW y \in Fixes, NEW v \in Fixes,
         Passes(Heard, Fixes, Entry(place, seen), y, v), v.mode # "leaving"
  PROVE  Passes(Heard, Fixes, Arriving(place, seen), y, v)
<1>1. Entry(place, seen) \in Seq(Frames) /\ CombatEnd \in Seq(Frames) /\ <<>> \in Seq(Frames)
  BY EntryType, LinesType
<1>2. Passes(Heard, Fixes, CombatEnd, v, v) /\ Passes(Heard, Fixes, <<>>, v, v)
  BY FightHeard
<1>. HIDE DEF Frames, Fixes
<1>3. Passes(Heard, Fixes, Entry(place, seen) \o CombatEnd, y, v)
  BY <1>1, <1>2, PassesBoth
<1>4. Passes(Heard, Fixes, Entry(place, seen) \o <<>>, y, v)
  BY <1>1, <1>2, PassesBoth
<1>. QED  BY <1>3, <1>4 DEF Arriving

-----------------------------------------------------------------------------
(* The answers to a direction.                                             *)
LEMMA BlockAnswers ==
  ASSUME NEW y \in Fixes, NEW p \in Places, Stands(y, p), NEW dir \in Dirs, NEW v \in Fixes,
         <<dir, y, v>> \in Given, NEW t \in Seq(Commands), Lasts(t, v)
  PROVE  Ahead(Blocked, t, p, y)
<1>. DEFINE e == [kind |-> "blocked"]
<1>1. e \in Frames /\ e.kind = "blocked"
  BY DEF Frames, Lines
<1>2. Giving(dir, y, v) /\ dir \in Dirs
  BY GivenIs
<1>3. Blocked = <<e>>
  BY DEF Blocked
<1>. HIDE DEF e
<1>4. SUFFICES \E z \in Fixes : Hearing(e, y, z) /\ Stands(z, p) /\ Lasts(t, z)
  <2>1. PICK z \in Fixes : Hearing(e, y, z) /\ Stands(z, p) /\ Lasts(t, z)
    BY <1>4
  <2>2. <<e, y, z>> \in Heard
    BY <1>1, <2>1, HeardIs
  <2>3. Passes(Heard, Fixes, <<e>>, y, z)
    BY <2>2, PassesOne
  <2>. QED  BY <1>3, <2>1, <2>3 DEF Ahead
<1>5. CASE y.mode = "stuck"
  <2>1. Hearing(e, y, y)
    BY <1>5 DEF Hearing
  <2>. QED  BY <1>5, <2>1, StuckPasses
<1>6. CASE y.mode = "gone"
  <2>1. Hearing(e, y, y)
    BY <1>1, <1>6 DEF Hearing
  <2>2. v = y
    BY <1>2, <1>6 DEF Giving
  <2>. QED  BY <2>1, <2>2
<1>7. CASE y.mode = "live" /\ y.long
  <2>. DEFINE z == [y EXCEPT !.mode = "stuck"]
  <2>1. y.rest # <<>>
    BY <1>2, <1>7 DEF Giving
  <2>2. Hearing(e, y, z)
    BY <1>1, <1>7, <2>1 DEF Hearing, Hears
  <2>3. z \in Fixes /\ z.mode = "stuck"
    BY FixMode DEF Modes
  <2>. HIDE DEF z
  <2>. QED  BY <2>2, <2>3, StuckPasses DEF Stands
<1>8. CASE y.mode = "live" /\ ~y.long
  <2>. DEFINE z == [y EXCEPT !.rest = <<>>]
  <2>1. y.rest # <<>> /\ v = Moved(y)
    BY <1>2, <1>8 DEF Giving
  <2>2. Hearing(e, y, z)
    BY <1>1, <1>8, <2>1 DEF Hearing, Hears
  <2>3. z \in Fixes /\ z.mode = "live" /\ z.at = y.at /\ z.rest = <<>>
    BY <1>8, FixCut
  <2>. HIDE DEF z
  <2>4. v.mode = "live" /\ v.rest = Tail(y.rest)
    BY <1>8, <2>1, MovedFix
  <2>5. Len(y.rest) = 1 /\ y.rest \in Seq(Dirs)
    <3>. DEFINE r == y.rest
    <3>1. r \in Seq(Dirs) /\ Len(r) <= 1 /\ r # <<>>
      BY <1>8, <2>1, FixType
    <3>. HIDE DEF r
    <3>2. Len(r) \in Nat /\ (Len(r) = 0 => r = <<>>)
      BY <3>1
    <3>. DEFINE n == Len(r)
    <3>3. n \in Nat /\ n <= 1 /\ n # 0
      BY <3>1, <3>2
    <3>. HIDE DEF n
    <3>4. n = 1
      BY <3>3
    <3>. QED  BY <3>1, <3>4 DEF r, n
  <2>6. v.rest = <<>>
    BY <2>4, <2>5, TailOfOne
  <2>7. t \in Seq(Plain)
    BY <2>4, <2>6, LastsPlain
  <2>8. Lasts(t, z)
    BY <2>3, <2>7, PlainLasts DEF Ends
  <2>9. Stands(z, p)
    BY <1>8, <2>3 DEF Stands
  <2>. QED  BY <2>2, <2>3, <2>8, <2>9
<1>. QED  BY <1>5, <1>6, <1>7, <1>8, FixType DEF Stands, Modes

(* A direction that is walked is answered by its entry, after a line of a  *)
(* block or not.                                                           *)
LEMMA GoingAnswers ==
  ASSUME World, NEW y \in Fixes, NEW p \in Places, Stands(y, p), NEW dir \in Dirs, NEW v \in Fixes,
         <<dir, y, v>> \in Given, NEW t \in Seq(Commands), Lasts(t, v), dir \in ExitsOf(p),
         NEW seen \in MaySee, NEW before \in {<<>>, Blocked}
  PROVE  \E z \in Fixes : /\ Passes(Heard, Fixes, before, y, z)
                          /\ Ahead(Arriving(Towards(p, dir), seen), t, Towards(p, dir), z)
<1>. DEFINE e == [kind |-> "blocked"]
            q == Towards(p, dir)
<1>1. e \in Frames /\ e.kind = "blocked"
  BY DEF Frames, Lines
<1>2. Giving(dir, y, v)
  BY GivenIs
<1>3. Blocked = <<e>>
  BY DEF Blocked
<1>4. q \in Places /\ q # Lobby /\ p # Lobby
  <2>1. q \in Places
    BY DoorsType
  <2>2. p # Lobby
    BY DEF ExitsOf
  <2>3. PICK k \in DOMAIN Maze : p \in SeaPlaces(k)
    BY <2>2 DEF Places
  <2>4. p.sea = k /\ p.sea \in Nat
    <3>1. p.sea = k
      BY <2>3 DEF SeaPlaces
    <3>2. k \in 1 .. Len(Maze) /\ Len(Maze) \in Nat
      BY MazeAssumption
    <3>. QED  BY <3>1, <3>2
  <2>5. k # 0
    BY <2>3, MazeAssumption
  <2>6. q.sea = p.sea
    BY PlacesSpots, TowardsSpot
  <2>. QED  BY <2>1, <2>2, <2>4, <2>5, <2>6 DEF Lobby
<1>. HIDE DEF e, q
<1>5. Arriving(q, seen) \in Seq(Frames)
  BY <1>4, EntryType
<1>6. CASE y.mode = "stuck"
  <2>1. before \in Seq(Frames)
    BY LinesType
  <2>2. Passes(Heard, Fixes, before, y, y) /\ Passes(Heard, Fixes, Arriving(q, seen), y, y) /\ Lasts(t, y)
    BY <1>5, <1>6, <2>1, StuckPasses
  <2>. QED  BY <1>6, <2>2 DEF Ahead, Stands, q
<1>7. CASE y.mode = "live"
  <2>1. y.rest # <<>> /\ Head(y.rest) = dir /\ v = Moved(y) /\ y.at = p
    BY <1>2, <1>7 DEF Giving, Stands
  <2>2. v.mode = "live" /\ v.at = q
    BY <1>7, <2>1, MovedFix DEF q
  <2>3. Stands(v, q)
    BY <2>2 DEF Stands
  <2>4. Passes(Heard, Fixes, Entry(q, seen), y, v)
    BY <1>4, <1>7, <2>1, EntryHeard DEF q
  <2>5. Passes(Heard, Fixes, Arriving(q, seen), y, v)
    BY <1>4, <2>2, <2>4, ArrivingHeard
  <2>6. Ahead(Arriving(q, seen), t, q, y)
    BY <2>3, <2>5 DEF Ahead
  <2>7. CASE before = <<>> \/ ~y.long
    <3>1. Passes(Heard, Fixes, <<>>, y, y)
      BY PassesNothing
    <3>2. ~y.long => Hearing(e, y, y)
      BY <1>1, <1>7, <2>1 DEF Hearing, Hears
    <3>3. ~y.long => <<e, y, y>> \in Heard
      BY <1>1, <3>2, HeardIs
    <3>4. ~y.long => Passes(Heard, Fixes, Blocked, y, y)
      BY <1>3, <3>3, PassesOne
    <3>. QED  BY <2>6, <2>7, <3>1, <3>4 DEF q
  <2>8. CASE before = Blocked /\ y.long
    <3>. DEFINE z == [y EXCEPT !.mode = "stuck"]
    <3>1. Hearing(e, y, z)
      BY <1>1, <1>7, <2>1, <2>8 DEF Hearing, Hears
    <3>2. z \in Fixes /\ z.mode = "stuck"
      BY FixMode DEF Modes
    <3>. HIDE DEF z
    <3>3. <<e, y, z>> \in Heard
      BY <1>1, <3>1, <3>2, HeardIs
    <3>4. Passes(Heard, Fixes, Blocked, y, z)
      BY <1>3, <3>2, <3>3, PassesOne
    <3>5. Passes(Heard, Fixes, Arriving(q, seen), z, z) /\ Lasts(t, z)
      BY <1>5, <3>2, StuckPasses
    <3>6. Ahead(Arriving(q, seen), t, q, z)
      BY <3>2, <3>5 DEF Ahead, Stands
    <3>. QED  BY <2>8, <3>2, <3>4, <3>6 DEF q
  <2>. QED  BY <2>7, <2>8
<1>8. y.mode # "gone"
  BY <1>4 DEF Stands
<1>. QED  BY <1>6, <1>7, <1>8, FixType DEF Stands, Modes

(* Nobody has fled a fight, no direction was swallowed without a word, no  *)
(* entry was lost with the connection, and no farm restarts runs by        *)
(* itself; the player is patient and has no stored route.                  *)
Undisturbed == /\ ~Eager /\ Route = <<>>
               /\ \A kind \in {"wimpy", "silent", "hush", "farm"} : spent[kind] = 0

(* What is not spent cannot be spent by a step that leaves it unspent.     *)
LEMMA Unspent ==
  ASSUME Inv, Undisturbed', NEW kind \in {"wimpy", "silent", "hush", "farm"}
  PROVE  ~Spend(kind)
<1>1. kind \in Kinds /\ spent \in [Kinds -> Nat] /\ spent'[kind] = 0
  BY DEF Inv, World, Kinds, Undisturbed
<1>. SUFFICES ASSUME Spend(kind) PROVE FALSE
  OBVIOUS
<1>2. spent' = [spent EXCEPT ![kind] = spent[kind] + 1]
  BY DEF Spend
<1>3. spent'[kind] = spent[kind] + 1 /\ spent[kind] \in Nat
  BY <1>1, <1>2
<1>. QED  BY <1>1, <1>3

(* A command taken from the wire: what it may be, and what is left.        *)
LEMMA TakenAhead ==
  ASSUME Inv, client.wire # <<>>, NEW x, Ahead(frames, client.wire, here, x), client' = Taken
  PROVE  /\ client'.wire = Tail(client.wire) /\ client'.wire \in Seq(Commands)
         /\ \E y, v \in Fixes : /\ Passes(Heard, Fixes, frames, x, y) /\ Stands(y, here)
                                /\ <<Head(client.wire), y, v>> \in Given
                                /\ Lasts(client'.wire, v)
<1>1. client.wire \in Seq(Commands) /\ Shape(client)
  BY DEF Inv, Good, Able, Sends
<1>2. client'.wire = Tail(client.wire)
  BY <1>1 DEF Taken, Shape, Fields
<1>3. Tail(client.wire) \in Seq(Commands)
  BY <1>1
<1>4. PICK y \in Fixes : Passes(Heard, Fixes, frames, x, y) /\ Stands(y, here) /\ Lasts(client.wire, y)
  BY DEF Ahead
<1>5. PICK v \in Fixes : <<Head(client.wire), y, v>> \in Given /\ Lasts(Tail(client.wire), v)
  BY <1>1, <1>4, LastsHead
<1>. QED  BY <1>2, <1>3, <1>4, <1>5

(* A direction is answered by the entry or the line it is due.             *)
LEMMA MovesAhead ==
  ASSUME Inv, GameMoves, Undisturbed', NEW x, Ahead(frames, client.wire, here, x)
  PROVE  Ahead(frames', client'.wire, here', x)
<1>1. PICK dir \in Dirs :
        /\ Took(dir)
        /\ IF dir \in ExitsOf(here)
           THEN \/ Goes(Towards(here, dir), <<>>) /\ UNCHANGED spent
                \/ Spend("block") /\ Goes(Towards(here, dir), Blocked)
                \/ Spend("block") /\ Stays(Blocked)
                \/ Spend("hush") /\ Stays(<<>>)
           ELSE Stays(Blocked) /\ UNCHANGED spent
  BY DEF GameMoves
<1>2. client' = Taken /\ client.wire # <<>> /\ Head(client.wire) = dir
  BY <1>1 DEF GameMoves, Took
<1>. DEFINE t == client'.wire
<1>3. t \in Seq(Commands)
  BY <1>2, TakenAhead
<1>4. PICK y \in Fixes, v \in Fixes : /\ Passes(Heard, Fixes, frames, x, y) /\ Stands(y, here)
                                     /\ <<dir, y, v>> \in Given /\ Lasts(t, v)
  BY <1>2, TakenAhead
<1>5. World /\ here \in Places /\ frames \in Seq(Frames)
  BY DEF Inv, World
<1>. HIDE DEF t
<1>6. ~Spend("hush")
  BY Unspent
<1>7. CASE Stays(Blocked)
  <2>1. Ahead(Blocked, t, here, y)
    BY <1>3, <1>4, <1>5, BlockAnswers
  <2>2. Ahead(frames \o Blocked, t, here, x)
    BY <1>4, <1>5, <2>1, AheadOver, LinesType
  <2>. QED  BY <1>7, <2>2 DEF Stays, t
<1>8. ASSUME NEW before \in {<<>>, Blocked}, dir \in ExitsOf(here), Goes(Towards(here, dir), before)
      PROVE  Ahead(frames', client'.wire, here', x)
  <2>. DEFINE q == Towards(here, dir)
  <2>1. PICK seen \in MaySee : frames' = frames \o before \o Arriving(q, seen)
    BY <1>8 DEF Goes
  <2>2. here' = q
    BY <1>8 DEF Goes
  <2>3. PICK z \in Fixes : /\ Passes(Heard, Fixes, before, y, z)
                          /\ Ahead(Arriving(q, seen), t, q, z)
    BY <1>3, <1>4, <1>5, <1>8, GoingAnswers
  <2>4. q \in Places
    BY <1>5, <1>8, DoorsType
  <2>. HIDE DEF q
  <2>5. before \in Seq(Frames) /\ Arriving(q, seen) \in Seq(Frames) /\ frames \o before \in Seq(Frames)
    BY <1>5, <2>4, EntryType, LinesType, TogetherType
  <2>6. Passes(Heard, Fixes, frames \o before, x, z)
    <3>. HIDE DEF Frames, Fixes
    <3>. QED  BY <1>4, <1>5, <2>3, <2>5, PassesBoth
  <2>7. Ahead((frames \o before) \o Arriving(q, seen), t, q, x)
    BY <2>3, <2>5, <2>6, AheadOver
  <2>. QED  BY <2>1, <2>2, <2>7 DEF t
<1>. QED  BY <1>1, <1>6, <1>7, <1>8

(* Everything else the game answers leaves the way as it is, or leads out. *)
LEMMA AnswersAhead ==
  ASSUME Inv, GameLeaves \/ GameIgnores \/ GameFights \/ GameRefreshes \/ GameEntersSea,
         NEW x, Ahead(frames, client.wire, here, x)
  PROVE  Ahead(frames', client'.wire, here', x)
<1>. DEFINE t == client'.wire
            cmd == Head(client.wire)
<1>1. client' = Taken /\ client.wire # <<>>
  BY DEF GameLeaves, GameIgnores, GameFights, GameRefreshes, GameEntersSea, Took
<1>2. t \in Seq(Commands)
  BY <1>1, TakenAhead
<1>3. PICK y \in Fixes, v \in Fixes : /\ Passes(Heard, Fixes, frames, x, y) /\ Stands(y, here)
                                     /\ <<cmd, y, v>> \in Given /\ Lasts(t, v)
  BY <1>1, TakenAhead
<1>4. World /\ here \in Places /\ frames \in Seq(Frames)
  BY DEF Inv, World
<1>. HIDE DEF t
<1>5. Giving(cmd, y, v) /\ y.mode \in {"live", "gone", "stuck"}
  BY <1>3, GivenIs, FixType DEF Stands, Modes
<1>6. cmd \notin Dirs => v = y
  BY <1>5 DEF Giving
<1>7. ASSUME NEW q, NEW new \in Seq(Frames), Ahead(new, t, q, y), frames' = frames \o new, here' = q
      PROVE  Ahead(frames', client'.wire, here', x)
  <2>1. Ahead(frames \o new, t, q, x)
    BY <1>3, <1>4, <1>7, AheadOver
  <2>. QED  BY <1>7, <2>1 DEF t
<1>8. ASSUME NEW new \in Seq(Frames), Passes(Heard, Fixes, new, y, y), cmd \notin Dirs
      PROVE  Ahead(new, t, here, y)
  BY <1>3, <1>6, <1>8 DEF Ahead
<1>9. y.mode # "leaving"
  BY <1>5
<1>10. CASE GameLeaves
  <2>1. cmd \in {"out", "portal"} /\ Goes(Lobby, <<>>)
    BY <1>10 DEF GameLeaves, Took
  <2>2. cmd \notin Dirs /\ cmd # "newsea"
    BY <2>1 DEF Dirs
  <2>3. PICK seen \in MaySee : frames' = frames \o <<>> \o Arriving(Lobby, seen)
    BY <2>1 DEF Goes
  <2>4. here' = Lobby /\ Lobby \in Places
    BY <2>1, PlaceFacts DEF Goes
  <2>5. Arriving(Lobby, seen) \in Seq(Frames)
    BY <1>4, <2>4, EntryType
  <2>6. frames' = frames \o Arriving(Lobby, seen)
    <3>1. frames \o <<>> = frames
      <4>. HIDE DEF Frames
      <4>. QED  BY <1>4
    <3>. QED  BY <2>3, <3>1
  <2>7. Ahead(Arriving(Lobby, seen), t, Lobby, y)
    <3>1. CASE y.mode = "stuck"
      BY <1>2, <2>5, <3>1, StuckPasses DEF Ahead, Stands
    <3>2. CASE y.mode = "gone"
      <4>1. Passes(Heard, Fixes, Entry(Lobby, seen), y, y)
        BY <1>4, <2>4, <3>2, EntryHeard
      <4>2. Passes(Heard, Fixes, Arriving(Lobby, seen), y, y)
        BY <1>4, <2>4, <3>2, <4>1, ArrivingHeard
      <4>. QED  BY <1>3, <1>6, <2>2, <3>2, <4>2 DEF Ahead, Stands
    <3>3. CASE y.mode = "live"
      <4>. DEFINE g == [y EXCEPT !.mode = "gone"]
      <4>1. g \in Fixes /\ g.mode = "gone"
        BY FixMode DEF Modes
      <4>2. Passes(Heard, Fixes, Entry(Lobby, seen), y, g)
        BY <1>4, <2>4, <3>3, EntryHeard
      <4>. HIDE DEF g
      <4>3. Passes(Heard, Fixes, Arriving(Lobby, seen), y, g)
        BY <1>4, <2>4, <4>1, <4>2, ArrivingHeard
      <4>4. Lasts(t, y)
        BY <1>3, <1>6, <2>2
      <4>5. Lasts(t, g)
        BY <1>2, <3>3, <4>1, <4>4, LobbyLasts
      <4>. QED  BY <4>1, <4>3, <4>5 DEF Ahead, Stands
    <3>. QED  BY <1>5, <3>1, <3>2, <3>3
  <2>. QED  BY <1>7, <2>4, <2>5, <2>6, <2>7
<1>11. CASE GameIgnores
  <2>1. cmd \in {"out", "portal", "newsea", "open"} /\ frames' = frames /\ here' = here
    BY <1>11 DEF GameIgnores, Took
  <2>2. cmd \notin Dirs
    BY <2>1 DEF Dirs
  <2>. QED  BY <1>3, <1>6, <2>1, <2>2 DEF Ahead, t
<1>12. CASE GameFights
  <2>1. PICK word \in Words : /\ Took(word) /\ here' = here
                              /\ frames' \in {frames, frames \o NoTarget(word)}
    BY <1>12 DEF GameFights, Stays
  <2>2. cmd \notin Dirs
    BY <2>1, WordsApart DEF Took
  <2>3. here' = here /\ frames' \in {frames, frames \o NoTarget(word)}
    BY <2>1
  <2>4. CASE frames' = frames
    BY <1>3, <1>6, <2>2, <2>3, <2>4 DEF Ahead, t
  <2>5. CASE frames' = frames \o NoTarget(word)
    BY <1>7, <1>8, <1>9, <2>2, <2>3, <2>5, FightHeard, LinesType
  <2>. QED  BY <2>3, <2>4, <2>5
<1>13. CASE GameRefreshes
  <2>1. cmd = "refresh" /\ here' = here
    BY <1>13 DEF GameRefreshes, Took
  <2>2. cmd \notin Dirs
    BY <2>1 DEF Dirs
  <2>3. CASE frames' = frames
    BY <1>3, <1>6, <2>1, <2>2, <2>3 DEF Ahead, t
  <2>4. CASE frames' # frames
    <3>1. PICK seen \in MaySee : frames' = Append(frames, ContentsOf(here, FALSE, seen))
      BY <1>13, <2>4 DEF GameRefreshes
    <3>. DEFINE e == ContentsOf(here, FALSE, seen)
    <3>2. e \in Frames /\ e.kind = "contents" /\ ~e.entry /\ e.place = here
      <4>1. e.kind = "contents" /\ ~e.entry /\ e.place = here
        BY DEF ContentsOf
      <4>. QED  BY <1>4, <4>1, ContentsType DEF Frames
    <3>. HIDE DEF e
    <3>3. Hearing(e, y, y)
      BY <1>3, <1>5, <2>1, <2>2, <3>2 DEF Hearing, Hears, Giving, Stands
    <3>4. <<e, y, y>> \in Heard
      BY <3>2, <3>3, HeardIs
    <3>5. Passes(Heard, Fixes, <<e>>, y, y)
      BY <3>4, PassesOne
    <3>6. <<e>> \in Seq(Frames) /\ Append(frames, e) = frames \o <<e>>
      <4>. HIDE DEF Frames
      <4>. QED  BY <1>4, <3>2
    <3>. QED  BY <1>7, <1>8, <2>1, <2>2, <3>1, <3>5, <3>6 DEF e
  <2>. QED  BY <2>3, <2>4
<1>14. CASE GameEntersSea
  <2>1. cmd = "newsea" /\ Goes(Entrance(sea + 1), <<>>) /\ sea < Len(Maze)
    BY <1>14 DEF GameEntersSea, Took
  <2>2. y.mode = "stuck"
    BY <1>5, <2>1 DEF Giving, Dirs
  <2>3. PICK seen \in MaySee : frames' = frames \o <<>> \o Arriving(Entrance(sea + 1), seen)
    BY <2>1 DEF Goes
  <2>4. Entrance(sea + 1) \in Places
    <3>1. sea + 1 \in 1 .. Len(Maze)
      BY <1>4, <2>1, MazeAssumption DEF World
    <3>. QED  BY <3>1, DoorsType
  <2>5. Arriving(Entrance(sea + 1), seen) \in Seq(Frames)
    BY <1>4, <2>4, EntryType
  <2>6. frames' = frames \o Arriving(Entrance(sea + 1), seen)
    <3>1. frames \o <<>> = frames
      <4>. HIDE DEF Frames
      <4>. QED  BY <1>4
    <3>. QED  BY <2>3, <3>1
  <2>7. Ahead(Arriving(Entrance(sea + 1), seen), t, here', y)
    BY <1>2, <2>2, <2>5, StuckPasses DEF Ahead, Stands
  <2>. QED  BY <1>7, <2>5, <2>6, <2>7
<1>. QED  BY <1>10, <1>11, <1>12, <1>13, <1>14

(* So does the end of a fight.                                             *)
LEMMA FightAhead ==
  ASSUME Inv, MonsterDies \/ StrayCombatFrame, NEW x, Ahead(frames, client.wire, here, x)
  PROVE  Ahead(frames', client'.wire, here', x)
<1>1. frames' = frames \o CombatEnd /\ client' = client /\ here' = here
  BY DEF MonsterDies, StrayCombatFrame
<1>2. frames \in Seq(Frames) /\ CombatEnd \in Seq(Frames)
  BY LinesType DEF Inv, World
<1>3. PICK y \in Fixes : Passes(Heard, Fixes, frames, x, y) /\ Stands(y, here) /\ Lasts(client.wire, y)
  BY DEF Ahead
<1>4. Passes(Heard, Fixes, CombatEnd, y, y)
  BY <1>3, FightHeard DEF Stands
<1>5. Ahead(CombatEnd, client.wire, here, y)
  BY <1>3, <1>4 DEF Ahead
<1>6. Ahead(frames \o CombatEnd, client.wire, here, x)
  BY <1>2, <1>3, <1>5, AheadOver
<1>. QED  BY <1>1, <1>6

(* Whatever the game does, undisturbed, the fix stays ahead of it.         *)
LEMMA GameAhead ==
  ASSUME Inv, Game \/ Wimpy \/ StrayCombatFrame, Undisturbed', NEW x, Ahead(frames, client.wire, here, x)
  PROVE  Ahead(frames', client'.wire, here', x)
<1>1. ~Wimpy
  BY Unspent DEF Wimpy
<1>. QED  BY <1>1, MovesAhead, AnswersAhead, FightAhead DEF Game

-----------------------------------------------------------------------------
(* The client and the fix.                                                 *)

(* No map is being made and none is kept.                                  *)
Loose(c) == ~c.active /\ ~HoldsRooms(c)

(* What the explorer's fields say of each other, undisturbed.              *)
Ordered(c) ==
  /\ ~c.farm /\ c.arrival # "setup"
  /\ c.enabled => c.mode = "explore" /\ (c.active <=> c.held)
  /\ c.active => c.enabled
  /\ HoldsRooms(c) => c.held
  /\ c.active /\ c.pending # <<>> => c.arrival = "move"
  /\ c.batch => c.active /\ c.arrival = "move"
  /\ Len(c.pending) > 1 => c.batch

(* The rooms a and b lie to each other as the coordinates p and q do.      *)
Apart(a, b, p, q) == a.sea = b.sea /\ \A i \in 1 .. 3 : a.at[i] - p[i] = b.at[i] - q[i]

(* The map is a chart: it holds the room its position names, and every     *)
(* coordinate lies where the room filed under it does, with its exits and  *)
(* in its layer.                                                           *)
Charts(c) ==
  /\ HoldsRooms(c) => c.map.pos \in Visited(c.map)
  /\ \A p \in Visited(c.map) : /\ c.map.rooms[p] = Walkable(c.filed[p]) \cap Dirs
                               /\ c.filed[p].at[3] = p[3]
  /\ \A p, q \in Visited(c.map) : Apart(c.filed[p], c.filed[q], p, q)

(* Why a step may be under way that is not pending: nobody waits any more, *)
(* or somebody waits for a refresh asked for after it, or for the first    *)
(* room of a map.                                                          *)
Lags(c, x) ==
  \/ ~c.enabled
  \/ c.arrival = "refresh" /\ x.asked
  \/ c.arrival = "move" /\ ~HoldsRooms(c)

(* The fix is what the client c believes: in the lobby it has a map of     *)
(* nothing, elsewhere its map's position is where the player is and its    *)
(* pending moves are those still to be walked, or they were all walked or  *)
(* given up, or one step lags behind.                                      *)
Fits(c, x) ==
  /\ x.mode # "stuck"
  /\ x.mode = "leaving" => c.info = Lobby
  /\ x.mode = "gone" => c.info = Lobby /\ ~HoldsRooms(c)
  /\ x.mode = "live" =>
       /\ x.long <=> c.batch
       /\ x.at \in Places \ {Lobby}
       /\ HoldsRooms(c) => x.at = c.filed[c.map.pos]
       /\ \/ x.rest = c.pending
          \/ x.rest = <<>> /\ ~c.batch
          \/ c.pending = <<>> /\ Len(x.rest) = 1 /\ ~c.batch /\ Lags(c, x)

(* What the client believes of its map is where the player will be.        *)
Tracked(c, f, p, x) == x \in Fixes /\ Fits(c, x) /\ Ahead(f, c.wire, p, x)

(* Nothing is left to walk.                                                *)
Rested(x) == x.mode # "leaving" /\ (x.mode = "live" => x.rest = <<>>)

(* The inductive invariant of the client's map, undisturbed: its fields    *)
(* are in order, its map is a chart, and while it makes or keeps one there *)
(* is a fix that tracks it.                                                *)
Sure(c, f, p) ==
  /\ Ordered(c) /\ Charts(c)
  /\ ~Loose(c) => \E x \in Fixes : Tracked(c, f, p, x)

(* From c to d the map is kept and no move is sent; one that was held may  *)
(* be let go.                                                              *)
Retains(c, d) ==
  /\ d.map = c.map /\ d.filed = c.filed
  /\ d.batch <=> c.batch
  /\ d.pending = c.pending \/ (d.pending = <<>> /\ ~d.enabled /\ ~c.batch)
  /\ d.enabled => c.enabled /\ d.arrival = c.arrival
  /\ d.active => c.active
  /\ \E cmds \in Seq(Plain) : d.wire = c.wire \o cmds

(* From c to d the map is kept and the pending moves are sent.             *)
Walks(c, d) ==
  /\ d.map = c.map /\ d.filed = c.filed /\ HoldsRooms(c)
  /\ ~c.batch /\ c.active /\ d.active
  /\ d.pending \in Seq(Dirs) /\ (d.batch <=> Len(d.pending) > 1)
  /\ d.wire = c.wire \o d.pending

(* How a handler may leave the client: in order, and with no map, with the *)
(* map kept, or walking on over it.                                        *)
Settles(c, d) ==
  /\ Ordered(d) /\ d.info = c.info
  /\ Loose(d) \/ Retains(c, d) \/ Walks(c, d)

(* Where the map is kept the fix still fits.                               *)
LEMMA RetainsFits ==
  ASSUME NEW c, Able(c), Ordered(c), NEW d, Ordered(d), d.info = c.info, Retains(c, d),
         NEW x \in Fixes, Fits(c, x)
  PROVE  Fits(d, x)
<1>1. HoldsRooms(d) <=> HoldsRooms(c)
  BY DEF Retains, HoldsRooms
<1>2. d.map = c.map /\ d.filed = c.filed /\ d.info = c.info
  BY DEF Retains
<1>3. ASSUME x.mode = "live"
      PROVE  \/ x.rest = d.pending
             \/ x.rest = <<>> /\ ~d.batch
             \/ d.pending = <<>> /\ Len(x.rest) = 1 /\ ~d.batch /\ Lags(d, x)
  <2>1. d.batch <=> c.batch
    BY DEF Retains
  <2>2. CASE d.pending = c.pending
    <3>1. Lags(c, x) => Lags(d, x)
      BY <1>1 DEF Retains, Lags
    <3>. QED  BY <1>3, <2>1, <2>2, <3>1 DEF Fits
  <2>3. CASE d.pending = <<>> /\ ~d.enabled /\ ~c.batch
    <3>. DEFINE r == x.rest
                n == Len(r)
    <3>1. r \in Seq(Dirs)
      BY FixType
    <3>2. x.long \/ n <= 1
      BY FixType
    <3>3. ~x.long
      BY <1>3, <2>3 DEF Fits
    <3>. HIDE DEF r
    <3>4. n \in Nat /\ (n = 0 => r = <<>>)
      BY <3>1
    <3>. HIDE DEF n
    <3>5. n = 0 \/ n = 1
      BY <3>2, <3>3, <3>4
    <3>. QED  BY <2>1, <2>3, <3>4, <3>5 DEF Lags, r, n
  <2>. QED  BY <2>2, <2>3 DEF Retains
<1>4. d.batch <=> c.batch
  BY DEF Retains
<1>. QED  BY <1>1, <1>2, <1>3, <1>4 DEF Fits

(* Where moves are sent it fits with those to walk.                        *)
LEMMA WalksFits ==
  ASSUME NEW c, NEW d, d.info = c.info, Walks(c, d), NEW x \in Settled, x.mode = "live", Fits(c, x)
  PROVE  \E long \in BOOLEAN : /\ long \/ Len(d.pending) <= 1
                               /\ Due(x, d.pending, long) \in Fixes
                               /\ Fits(d, Due(x, d.pending, long))
<1>. DEFINE path == d.pending
            long == Len(path) > 1
            y == Due(x, path, long)
<1>1. path \in Seq(Dirs) /\ (d.batch <=> long) /\ x \in Fixes /\ long \in BOOLEAN
  BY DEF Walks, Settled
<1>2. long \/ Len(path) <= 1
  <2>. HIDE DEF path
  <2>1. Len(path) \in Nat
    BY <1>1
  <2>. QED  BY <2>1
<1>3. HoldsRooms(d) <=> HoldsRooms(c)
  BY DEF Walks, HoldsRooms
<1>4. d.map = c.map /\ d.filed = c.filed
  BY DEF Walks
<1>. HIDE DEF long
<1>5. /\ y \in Fixes /\ y.mode = x.mode /\ y.at = x.at /\ y.rest = path /\ (y.long <=> long)
  BY <1>1, <1>2, DueFix
<1>. HIDE DEF y, path
<1>6. Fits(d, y)
  BY <1>1, <1>3, <1>4, <1>5 DEF Fits, path
<1>. QED  BY <1>1, <1>2, <1>5, <1>6 DEF y, path

(* A chart is the map and what was filed.                                  *)
LEMMA ChartsSame ==
  ASSUME NEW c, Charts(c), NEW d, d.map = c.map, d.filed = c.filed
  PROVE  Charts(d)
BY DEF Charts, HoldsRooms

(* Without a map there is nothing to be wrong about.                       *)
LEMMA LooseSure ==
  ASSUME NEW c, Ordered(c), Loose(c), NEW f, NEW p
  PROVE  Sure(c, f, p)
<1>1. Visited(c.map) = {}
  BY DEF Loose, HoldsRooms
<1>2. Charts(c)
  BY <1>1 DEF Charts, HoldsRooms
<1>. QED  BY <1>2 DEF Sure

(* Whatever settles a tracked client leaves it tracked.                    *)
LEMMA SettlesSure ==
  ASSUME NEW f \in Seq(Frames), NEW p, NEW c, Able(c), Ordered(c), Charts(c), NEW d, Settles(c, d),
         ~Loose(c) => \E x \in Fixes : Tracked(c, f, p, x) /\ (Walks(c, d) => Rested(x))
  PROVE  Sure(d, f, p)
<1>1. CASE Loose(d)
  BY <1>1, LooseSure DEF Settles
<1>2. ASSUME ~Loose(d), Retains(c, d) PROVE Sure(d, f, p)
  <2>1. Ordered(d) /\ d.info = c.info /\ d.map = c.map /\ d.filed = c.filed
    BY <1>2 DEF Settles, Retains
  <2>2. ~Loose(c)
    BY <1>2 DEF Loose, Retains, HoldsRooms
  <2>3. PICK x \in Fixes : Tracked(c, f, p, x)
    BY <2>2
  <2>4. Fits(d, x)
    BY <1>2, <2>1, <2>3, RetainsFits DEF Tracked
  <2>5. PICK cmds \in Seq(Plain) : d.wire = c.wire \o cmds
    BY <1>2 DEF Retains
  <2>6. c.wire \in Seq(Commands)
    BY DEF Able, Sends
  <2>7. Ahead(f, c.wire \o cmds, p, x)
    BY <2>3, <2>6, AheadSent DEF Tracked
  <2>8. Charts(d)
    BY <2>1, ChartsSame
  <2>. QED  BY <2>1, <2>3, <2>4, <2>5, <2>7, <2>8 DEF Sure, Tracked
<1>3. ASSUME ~Loose(d), Walks(c, d) PROVE Sure(d, f, p)
  <2>1. Ordered(d) /\ d.info = c.info /\ d.map = c.map /\ d.filed = c.filed /\ HoldsRooms(c)
    BY <1>3 DEF Settles, Walks
  <2>2. ~Loose(c)
    BY <2>1 DEF Loose
  <2>3. PICK x \in Fixes : Tracked(c, f, p, x) /\ Rested(x)
    BY <1>3, <2>2
  <2>4. x.mode = "live" /\ x \in Settled
    BY <2>1, <2>3, FixType DEF Tracked, Fits, Rested, Settled, Modes
  <2>5. PICK long \in BOOLEAN : /\ long \/ Len(d.pending) <= 1
                               /\ Due(x, d.pending, long) \in Fixes
                               /\ Fits(d, Due(x, d.pending, long))
    BY <1>3, <2>1, <2>3, <2>4, WalksFits DEF Tracked
  <2>6. c.wire \in Seq(Commands) /\ d.pending \in Seq(Dirs) /\ d.wire = c.wire \o d.pending
    BY <1>3 DEF Able, Sends, Walks
  <2>7. Ahead(f, c.wire \o d.pending, p, Due(x, d.pending, long))
    BY <2>3, <2>4, <2>5, <2>6, AheadPath DEF Tracked
  <2>8. Charts(d)
    BY <2>1, ChartsSame
  <2>. QED  BY <2>1, <2>5, <2>6, <2>7, <2>8 DEF Sure, Tracked
<1>. QED  BY <1>1, <1>2, <1>3 DEF Settles

-----------------------------------------------------------------------------
(* Stops and decisions.                                                    *)

(* Nothing sent is a sequence of plain commands.                           *)
LEMMA NothingSent ==
  ASSUME NEW c, Able(c)
  PROVE  <<>> \in Seq(Plain) /\ c.wire = c.wire \o <<>>
<1>1. c.wire \in Seq(Commands)
  BY DEF Able, Sends
<1>. HIDE DEF Commands, Plain
<1>. QED  BY <1>1

(* A plain command sent changes the wire and nothing else.                 *)
LEMMA PlainSent ==
  ASSUME NEW c, Able(c), NEW cmd \in {"refresh", "portal", "out", "open"}
  PROVE  /\ <<cmd>> \in Seq(Plain) /\ Shape(Send(c, <<cmd>>))
         /\ \E cmds \in Seq(Plain) : Send(c, <<cmd>>).wire = c.wire \o cmds
         /\ \A field \in Fields \ {"wire"} : Send(c, <<cmd>>)[field] = c[field]
<1>1. cmd \in Plain
  BY DEF Plain, Commands, Orders, Dirs
<1>2. <<cmd>> \in Seq(Plain)
  <2>. HIDE DEF Plain
  <2>. QED  BY <1>1
<1>3. c.online => Send(c, <<cmd>>).wire = c.wire \o <<cmd>>
  BY DEF Send, Able, Shape, Fields
<1>4. ~c.online => Send(c, <<cmd>>).wire = c.wire
  BY DEF Send
<1>5. <<>> \in Seq(Plain) /\ c.wire = c.wire \o <<>>
  BY NothingSent
<1>6. \A field \in Fields \ {"wire"} : Send(c, <<cmd>>)[field] = c[field]
  BY DEF Send, Able, Shape
<1>7. Shape(Send(c, <<cmd>>))
  BY DEF Send, Able, Shape
<1>8. \E cmds \in Seq(Plain) : Send(c, <<cmd>>).wire = c.wire \o cmds
  <2>. HIDE DEF Plain
  <2>. QED  BY <1>2, <1>3, <1>4, <1>5
<1>. QED  BY <1>2, <1>6, <1>7, <1>8

(* An emptied map of an explorer at rest tells of nothing.                 *)
LEMMA EmptiedLoose ==
  ASSUME NEW d, d.map = NewMap, ~d.active PROVE Loose(d)
BY DEF Loose, HoldsRooms, NewMap, Visited

(* A stopped run settles what it held, a speedwalk by giving up the map.   *)
LEMMA StopSettles ==
  ASSUME NEW c, Able(c), ~c.farm, HoldsRooms(c) => c.held, NEW timed_out \in BOOLEAN
  PROVE  /\ Settles(c, Stop(c, timed_out)) /\ ~Stop(c, timed_out).active
         /\ ~Walks(c, Stop(c, timed_out))
         /\ Loose(Stop(c, timed_out)) \/ (~c.batch /\ Retains(c, Stop(c, timed_out)))
<1>. DEFINE hold == /\ c.enabled /\ c.mode = "explore" /\ c.state = "stepping"
                    /\ c.arrival = "move" /\ ~timed_out /\ ~c.batch
            paused == IF c.batch THEN Discard(c) ELSE IF c.active THEN Pause(c, hold) ELSE c
            window == hold /\ c.active /\ InFlight(paused)
            d == [paused EXCEPT !.enabled = FALSE, !.mode = "none", !.state = "idle",
                                !.arrival = "none", !.batch = FALSE, !.waits = 0,
                                !.walk = <<>>, !.target = NoMonster, !.farm_timer = FALSE,
                                !.hold_timer = window]
<1>1. Stop(c, timed_out) = d
  BY DEF Stop
<1>2. hold \in BOOLEAN
  OBVIOUS
<1>. HIDE DEF hold
<1>3. Shape(c)
  BY DEF Able
<1>4. /\ Shape(paused) /\ paused.info = c.info /\ paused.wire = c.wire /\ paused.farm = c.farm
      /\ ~paused.active
  BY <1>3 DEF Discard, Blank, Pause, Shape, Fields
<1>5. c.batch => paused.map = NewMap
  BY <1>3 DEF Discard, Blank, Shape, Fields
<1>6. ~c.batch => /\ paused.map = c.map /\ paused.filed = c.filed /\ paused.held = c.held
                  /\ paused.pending \in {c.pending, <<>>}
  BY <1>3 DEF Pause, Shape, Fields
<1>. HIDE DEF paused, window
<1>7. /\ d.map = paused.map /\ d.filed = paused.filed /\ d.info = paused.info /\ d.wire = paused.wire
      /\ d.pending = paused.pending /\ d.farm = paused.farm /\ d.active = paused.active
      /\ d.held = paused.held /\ d.arrival = "none"
  BY <1>4 DEF Shape, Fields
<1>8. ~d.enabled /\ ~d.batch
  BY <1>4 DEF Shape, Fields
<1>9. Good(d)
  BY <1>1, StopGood
<1>. HIDE DEF d
<1>10. ~(Len(d.pending) > 1)
  <2>1. d.pending # <<>> => Len(d.pending) = 1
    BY <1>4, <1>7, <1>9 DEF Good, Able, Holding, InFlight
  <2>2. d.pending = <<>> => ~(Len(d.pending) > 1)
    OBVIOUS
  <2>3. \A n : n = 1 => ~(n > 1)
    OBVIOUS
  <2>. QED  BY <2>1, <2>2, <2>3
<1>11. CASE c.batch
  <2>1. Loose(d)
    BY <1>4, <1>5, <1>7, <1>11, EmptiedLoose
  <2>2. Ordered(d)
    BY <1>4, <1>7, <1>8, <1>10, <2>1 DEF Ordered, Loose
  <2>. QED  BY <1>1, <1>4, <1>7, <1>11, <2>1, <2>2 DEF Settles, Walks
<1>12. CASE ~c.batch
  <2>1. HoldsRooms(d) => d.held
    BY <1>6, <1>7, <1>12 DEF HoldsRooms
  <2>2. Ordered(d)
    BY <1>4, <1>7, <1>8, <1>10, <2>1 DEF Ordered
  <2>3. \E cmds \in Seq(Plain) : d.wire = c.wire \o cmds
    BY <1>4, <1>7, NothingSent
  <2>4. Retains(c, d)
    BY <1>4, <1>6, <1>7, <1>8, <1>12, <2>3 DEF Retains
  <2>5. ~Walks(c, d)
    BY <1>4, <1>7 DEF Walks
  <2>. QED  BY <1>1, <1>4, <1>7, <1>12, <2>2, <2>4, <2>5 DEF Settles
<1>. QED  BY <1>11, <1>12

(* The state in which the plugin decides what to do in a room.             *)
Deciding(c) == Good(c) /\ Ordered(c) /\ Ready(c) /\ c.online /\ c.pending = <<>> /\ ~c.batch

(* A run that ends at once, with the explorer at rest.                     *)
LEMMA EndSettles ==
  ASSUME NEW c, Deciding(c), NEW why
  PROVE  /\ ~c.active => Settles(c, EndRun(c, why))
         /\ Settles(c, Pause(EndRun(c, why), FALSE))
         /\ Able(EndRun(c, why)) /\ ~EndRun(c, why).farm
         /\ \A field \in {"map", "filed", "info", "wire", "active", "held", "batch", "pending",
                          "contents", "online"} : EndRun(c, why)[field] = c[field]
<1>. DEFINE e == EndRun(c, why)
            d == Pause(e, FALSE)
<1>1. Shape(c) /\ Good(c)
  BY DEF Deciding, Good, Able
<1>2. Shape(e) /\ ~e.enabled /\ e.arrival = "none"
  BY <1>1 DEF EndRun, Shape, Fields
<1>3. \A field \in Fields \ {"enabled", "state", "arrival", "ended"} : e[field] = c[field]
  BY <1>1 DEF EndRun, Shape
<1>4. /\ e.map = c.map /\ e.filed = c.filed /\ e.info = c.info /\ e.wire = c.wire /\ e.active = c.active
      /\ e.held = c.held /\ e.batch = c.batch /\ e.pending = c.pending /\ e.farm = c.farm
      /\ e.contents = c.contents /\ e.online = c.online
  BY <1>3 DEF Fields
<1>5. Able(e)
  BY <1>1, EndRunGood DEF Good
<1>. HIDE DEF e
<1>6. /\ Shape(d) /\ ~d.active /\ d.enabled = e.enabled /\ d.arrival = e.arrival /\ d.map = e.map
      /\ d.filed = e.filed /\ d.info = e.info /\ d.wire = e.wire /\ d.held = e.held
      /\ d.batch = e.batch /\ d.farm = e.farm /\ d.pending = <<>>
  BY <1>2 DEF Pause, Shape, Fields
<1>. HIDE DEF d
<1>7. <<>> \in Seq(Plain) /\ c.wire = c.wire \o <<>>
  BY <1>1, NothingSent DEF Good
<1>8. Len(<<>>) = 0 /\ ~(0 > 1)
  OBVIOUS
<1>9. /\ c.pending = <<>> /\ ~c.batch /\ ~c.farm /\ (HoldsRooms(c) => c.held)
  BY DEF Deciding, Ordered
<1>10. (HoldsRooms(e) <=> HoldsRooms(c)) /\ (HoldsRooms(d) <=> HoldsRooms(c))
  BY <1>4, <1>6 DEF HoldsRooms
<1>. DEFINE Longer(s) == Len(s) > 1
<1>11. ~Longer(<<>>)
  BY <1>8
<1>12. /\ \E cmds \in Seq(Plain) : e.wire = c.wire \o cmds
       /\ \E cmds \in Seq(Plain) : d.wire = c.wire \o cmds
  BY <1>4, <1>6, <1>7
<1>. HIDE DEF Longer
<1>13. ~Longer(e.pending) /\ ~Longer(d.pending)
  BY <1>4, <1>6, <1>9, <1>11
<1>14. ~c.active => Ordered(e)
  BY <1>2, <1>4, <1>9, <1>10, <1>13 DEF Ordered, Longer
<1>15. Ordered(d)
  BY <1>2, <1>4, <1>6, <1>9, <1>10, <1>13 DEF Ordered, Longer
<1>16. Retains(c, e) /\ Retains(c, d)
  BY <1>2, <1>4, <1>6, <1>9, <1>12 DEF Retains
<1>. QED  BY <1>4, <1>5, <1>6, <1>9, <1>14, <1>15, <1>16 DEF Settles, e, d

(* An attack settles.                                                      *)
LEMMA AttackSettles ==
  ASSUME NEW c, Deciding(c), NEW mob \in Monsters
  PROVE  Settles(c, Attack(c, mob))
<1>. DEFINE word == Keyword[mob]
            a == [c EXCEPT !.state = "fighting", !.target = mob]
            d == Send(a, <<word>>)
<1>1. Shape(c) /\ Good(c) /\ c.online
  BY DEF Deciding, Good, Able
<1>2. d = [a EXCEPT !.wire = @ \o <<word>>] /\ Attack(c, mob) = d
  BY <1>1 DEF Attack, Send, Shape, Fields
<1>3. /\ d.map = c.map /\ d.filed = c.filed /\ d.info = c.info /\ d.active = c.active
      /\ d.held = c.held /\ d.batch = c.batch /\ d.pending = c.pending /\ d.farm = c.farm
      /\ d.enabled = c.enabled /\ d.arrival = c.arrival /\ d.mode = c.mode
  BY <1>1, <1>2 DEF Shape, Fields
<1>4. d.wire = c.wire \o <<word>>
  BY <1>1, <1>2 DEF Shape, Fields
<1>. HIDE DEF d
<1>5. <<word>> \in Seq(Plain)
  <2>1. word \in Plain
    BY WordsApart DEF Plain, Commands
  <2>. HIDE DEF word
  <2>. HIDE DEF Plain
  <2>. QED  BY <2>1
<1>6. HoldsRooms(d) <=> HoldsRooms(c)
  BY <1>3 DEF HoldsRooms
<1>7. Ordered(d)
  BY <1>3, <1>6 DEF Ordered, Deciding
<1>8. Retains(c, d)
  <2>1. \E cmds \in Seq(Plain) : d.wire = c.wire \o cmds
    BY <1>4, <1>5
  <2>2. (d.batch <=> c.batch) /\ (d.enabled => c.enabled) /\ (d.active => c.active)
    BY <1>3
  <2>3. d.map = c.map /\ d.filed = c.filed /\ d.pending = c.pending /\ d.arrival = c.arrival
    BY <1>3
  <2>. QED  BY <2>1, <2>2, <2>3 DEF Retains
<1>. QED  BY <1>2, <1>3, <1>7, <1>8 DEF Settles

(* So does the end of a sea.                                               *)
LEMMA FinishSettles ==
  ASSUME NEW c, Deciding(c)
  PROVE  Settles(c, FinishSea(c))
<1>. DEFINE e == EndRun(c, "complete")
            d == Send(Discard(e), <<"portal">>)
<1>1. Able(c) /\ ~c.farm /\ (HoldsRooms(c) => c.held)
  BY DEF Deciding, Good, Ordered
<1>2. CASE c.contents.truncated
  BY <1>1, <1>2, StopSettles DEF FinishSea
<1>3. CASE ~c.contents.truncated
  <2>1. Able(e) /\ ~e.farm /\ e.info = c.info /\ ~e.enabled /\ Shape(e) /\ e.arrival = "none"
    <3>1. Able(e) /\ ~e.farm /\ e.info = c.info
      BY EndSettles
    <3>2. ~e.enabled /\ e.arrival = "none"
      BY <1>1 DEF EndRun, Able, Shape, Fields
    <3>. QED  BY <3>1, <3>2 DEF Able
  <2>2. FinishSea(c) = d
    BY <1>1, <1>3 DEF FinishSea
  <2>. DEFINE g == Discard(e)
  <2>. HIDE DEF e
  <2>3. /\ Shape(g) /\ g.map = NewMap /\ ~g.active /\ g.pending = <<>> /\ g.info = e.info
        /\ g.enabled = e.enabled /\ g.farm = e.farm /\ g.arrival = e.arrival /\ g.batch = e.batch
    BY <2>1 DEF Discard, Blank, Shape, Fields
  <2>4. Able(g)
    BY <2>1, DiscardGood DEF Good
  <2>. HIDE DEF g
  <2>5. \A field \in Fields \ {"wire"} : d[field] = g[field]
    BY <2>4, PlainSent DEF g
  <2>6. /\ d.map = NewMap /\ ~d.active /\ d.pending = <<>> /\ d.info = c.info
        /\ ~d.enabled /\ ~d.farm /\ d.arrival = "none" /\ d.batch = e.batch
    BY <2>1, <2>3, <2>5 DEF Fields
  <2>7. ~e.batch
    <3>1. e.batch = c.batch
      BY EndSettles DEF e
    <3>. QED  BY <3>1 DEF Deciding
  <2>. HIDE DEF d
  <2>8. Loose(d)
    BY <2>6, EmptiedLoose
  <2>9. ~(Len(d.pending) > 1)
    BY <2>6
  <2>10. Ordered(d)
    BY <2>6, <2>7, <2>8, <2>9 DEF Ordered, Loose
  <2>. QED  BY <2>2, <2>6, <2>8, <2>10 DEF Settles
<1>. QED  BY <1>2, <1>3

(* So does a step of the explorer, which may be a speedwalk.               *)
LEMMA TakeSettles ==
  ASSUME NEW c, Deciding(c), c.active
  PROVE  Settles(c, Take(c, NextStep(c)))
<1>. DEFINE next == NextStep(c)
            path == next.path
            a == AwaitArrival(c, "move")
            rest == IF c.leaving THEN Tail(a.leave) ELSE a.leave
            long == Len(path) > 1
            b == [a EXCEPT !.pending = path, !.leave = rest, !.batch = long]
            d == [b EXCEPT !.wire = @ \o path]
<1>1. Shape(c) /\ Good(c) /\ c.online /\ Ordered(c) /\ c.enabled
  BY DEF Deciding, Good, Able, Ready
<1>2. path \in Seq(Dirs) /\ (path # <<>> => HoldsRooms(c))
  BY <1>1, NextStepType
<1>3. CASE path = <<>>
  <2>1. Take(c, next) = Pause(EndRun(c, next.why), FALSE)
    BY <1>3 DEF Take
  <2>2. Settles(c, Pause(EndRun(c, next.why), FALSE))
    BY EndSettles
  <2>. QED  BY <2>1, <2>2
<1>4. CASE path # <<>>
  <2>1. Shape(b) /\ b.online = c.online
    BY <1>1 DEF AwaitArrival, Shape, Fields
  <2>2. Take(c, next) = d
    BY <1>1, <1>4, <2>1 DEF Take, Send
  <2>. HIDE DEF next, path, rest, long
  <2>3. /\ d.map = c.map /\ d.filed = c.filed /\ d.info = c.info /\ d.active = c.active
        /\ d.held = c.held /\ d.pending = path /\ d.farm = c.farm
        /\ d.enabled = c.enabled /\ d.arrival = "move" /\ d.mode = c.mode
    BY <1>1 DEF AwaitArrival, Shape, Fields
  <2>4. d.batch = long
    BY <1>1 DEF AwaitArrival, Shape, Fields
  <2>5. d.wire = c.wire \o path
    BY <1>1 DEF AwaitArrival, Shape, Fields
  <2>. HIDE DEF d
  <2>6. HoldsRooms(d) <=> HoldsRooms(c)
    BY <2>3 DEF HoldsRooms
  <2>7. Ordered(d)
    BY <1>1, <2>3, <2>4, <2>6 DEF Ordered, long
  <2>8. Walks(c, d)
    BY <1>1, <1>2, <1>4, <2>3, <2>4, <2>5 DEF Walks, Deciding, long
  <2>. QED  BY <2>2, <2>3, <2>7, <2>8 DEF Settles, next
<1>. QED  BY <1>3, <1>4

(* A look at the room first changes nothing that counts.                   *)
LEMMA DecidingAlike ==
  ASSUME NEW c, Deciding(c)
  PROVE  Deciding(SyncView(c)) /\ \A d : Settles(SyncView(c), d) => Settles(c, d)
<1>. DEFINE s == SyncView(c)
<1>1. Shape(c) /\ Good(c) /\ c.online /\ Ordered(c) /\ Ready(c)
  BY DEF Deciding, Good, Able
<1>2. Good(s) /\ s.online
  BY <1>1, SyncViewGood
<1>3. Ready(s)
  BY <1>1, SyncViewSame, SameReady
<1>4. /\ s.map = c.map /\ s.filed = c.filed /\ s.info = c.info /\ s.active = c.active
      /\ s.held = c.held /\ s.pending = c.pending /\ s.farm = c.farm
      /\ s.enabled = c.enabled /\ s.arrival = c.arrival /\ s.mode = c.mode /\ s.batch = c.batch
      /\ s.wire = c.wire
  BY <1>1 DEF SyncView, Shape, Fields
<1>. HIDE DEF s
<1>5. HoldsRooms(s) <=> HoldsRooms(c)
  BY <1>4 DEF HoldsRooms
<1>6. Ordered(s)
  BY <1>1, <1>4, <1>5 DEF Ordered
<1>7. ASSUME NEW d, Settles(s, d) PROVE Settles(c, d)
  <2>1. Retains(s, d) => Retains(c, d)
    BY <1>4 DEF Retains
  <2>2. Walks(s, d) => Walks(c, d)
    BY <1>4, <1>5 DEF Walks
  <2>. QED  BY <1>4, <1>7, <2>1, <2>2 DEF Settles
<1>. QED  BY <1>2, <1>3, <1>4, <1>6, <1>7 DEF Deciding, s

(* So every decision in a room settles (process_room).                     *)
LEMMA ProcessSettles ==
  ASSUME NEW c0, Deciding(c0)
  PROVE  Settles(c0, ProcessRoom(c0))
<1>. DEFINE c == SyncView(c0)
            d == ProcessRoom(c0)
<1>1. Deciding(c) /\ \A e : Settles(c, e) => Settles(c0, e)
  BY DecidingAlike
<1>2. d \in {Stop(c, FALSE), DoStep(c)} \/ \E mob \in Monsters : d = Attack(c, mob)
  BY ProcessChoices DEF Deciding
<1>. HIDE DEF c, d
<1>3. Settles(c, Stop(c, FALSE))
  BY <1>1, StopSettles DEF Deciding, Good, Ordered
<1>4. Settles(c, DoStep(c))
  <2>1. DoStep(c) = ExploreStep(c)
    BY <1>1 DEF DoStep, Deciding, Ready, Ordered
  <2>2. CASE ~c.active
    BY <1>1, <2>1, <2>2, EndSettles DEF ExploreStep
  <2>3. CASE c.active
    BY <1>1, <2>1, <2>3, FinishSettles, TakeSettles DEF ExploreStep
  <2>. QED  BY <2>2, <2>3
<1>5. \A mob \in Monsters : Settles(c, Attack(c, mob))
  BY <1>1, AttackSettles
<1>. QED  BY <1>1, <1>2, <1>3, <1>4, <1>5 DEF d

-----------------------------------------------------------------------------
(* What a decision sends, and of what room it was made.                    *)

(* The chart and whether one is being made.                                *)
SameChart(c, d) == d.map = c.map /\ d.filed = c.filed /\ d.active = c.active

(* What a decision in the room sends, and how it leaves the client: the    *)
(* run is over, or the sea is left, or a monster is attacked, or moves are *)
(* sent over the map.                                                      *)
Outcome(c, d, cmds) ==
  \/ cmds = <<>> /\ ~d.enabled
  \/ cmds = <<"portal">> /\ ~d.enabled /\ Loose(d)
  \/ /\ \E word \in Words : cmds = <<word>>
     /\ d.state = "fighting" /\ d.arrival = "none" /\ SameChart(c, d)
  \/ /\ cmds \in Seq(Dirs) /\ cmds # <<>> /\ c.active /\ HoldsRooms(c)
     /\ d.state = "stepping" /\ d.arrival = "move" /\ SameChart(c, d)

(* A decision touches neither the view nor the news it was made from.      *)
Faces(c, d) ==
  /\ d.view = c.view /\ d.contents = c.contents
  /\ \E cmds \in Seq(Commands) : d.wire = c.wire \o cmds /\ Outcome(c, d, cmds)

(* To send nothing is to send the empty sequence.                          *)
LEMMA NothingFaces ==
  ASSUME NEW c, Able(c), NEW d, d.view = c.view, d.contents = c.contents, d.wire = c.wire, ~d.enabled
  PROVE  Faces(c, d)
<1>1. c.wire \in Seq(Commands)
  BY DEF Able, Sends
<1>2. <<>> \in Seq(Commands) /\ c.wire = c.wire \o <<>>
  <2>. HIDE DEF Commands
  <2>. QED  BY <1>1
<1>3. Outcome(c, d, <<>>)
  BY DEF Outcome
<1>. QED  BY <1>2, <1>3 DEF Faces

(* A stop keeps the view and the news.                                     *)
LEMMA StopSeen ==
  ASSUME NEW c, Shape(c), NEW timed_out
  PROVE  LET d == Stop(c, timed_out)
         IN /\ d.view = c.view /\ d.contents = c.contents /\ d.wire = c.wire
            /\ ~d.enabled /\ d.arrival = "none" /\ d.state = "idle"
<1>. DEFINE hold == /\ c.enabled /\ c.mode = "explore" /\ c.state = "stepping"
                    /\ c.arrival = "move" /\ ~timed_out /\ ~c.batch
            paused == IF c.batch THEN Discard(c) ELSE IF c.active THEN Pause(c, hold) ELSE c
            window == hold /\ c.active /\ InFlight(paused)
            d == [paused EXCEPT !.enabled = FALSE, !.mode = "none", !.state = "idle",
                                !.arrival = "none", !.batch = FALSE, !.waits = 0,
                                !.walk = <<>>, !.target = NoMonster, !.farm_timer = FALSE,
                                !.hold_timer = window]
<1>1. Stop(c, timed_out) = d
  BY DEF Stop
<1>. HIDE DEF hold
<1>2. /\ Shape(paused) /\ paused.view = c.view /\ paused.contents = c.contents
      /\ paused.wire = c.wire
  BY DEF Discard, Blank, Pause, Shape, Fields
<1>. HIDE DEF paused, window
<1>3. /\ d.view = paused.view /\ d.contents = paused.contents /\ d.wire = paused.wire
      /\ ~d.enabled /\ d.arrival = "none" /\ d.state = "idle"
  BY <1>2 DEF Shape, Fields
<1>. QED  BY <1>1, <1>2, <1>3

(* The ways a run ends where it is decided.                                *)
LEMMA EndFaces ==
  ASSUME NEW c, Able(c), NEW why
  PROVE  /\ Faces(c, Stop(c, FALSE))
         /\ Faces(c, EndRun(c, why)) /\ Faces(c, Pause(EndRun(c, why), FALSE))
<1>1. Shape(c)
  BY DEF Able
<1>2. Faces(c, Stop(c, FALSE))
  <2>. DEFINE halted == Stop(c, FALSE)
  <2>1. /\ halted.view = c.view /\ halted.contents = c.contents
        /\ halted.wire = c.wire /\ ~halted.enabled
    BY <1>1, StopSeen
  <2>. HIDE DEF halted
  <2>2. Faces(c, halted)
    BY <2>1, NothingFaces
  <2>. QED  BY <2>2 DEF halted
<1>. DEFINE e == EndRun(c, why)
            d == Pause(e, FALSE)
<1>3. Shape(e) /\ e.view = c.view /\ e.contents = c.contents /\ e.wire = c.wire /\ ~e.enabled
  BY <1>1 DEF EndRun, Shape, Fields
<1>. HIDE DEF e
<1>4. d.view = e.view /\ d.contents = e.contents /\ d.wire = e.wire /\ d.enabled = e.enabled
  BY <1>3 DEF Pause, Shape, Fields
<1>. HIDE DEF d
<1>. QED  BY <1>2, <1>3, <1>4, NothingFaces DEF e, d

(* An attack.                                                              *)
LEMMA AttackFaces ==
  ASSUME NEW c, Deciding(c), NEW mob \in Monsters
  PROVE  Faces(c, Attack(c, mob))
<1>. DEFINE word == Keyword[mob]
            a == [c EXCEPT !.state = "fighting", !.target = mob]
            d == [a EXCEPT !.wire = @ \o <<word>>]
<1>1. Shape(c) /\ c.online /\ c.arrival = "none"
  BY DEF Deciding, Good, Able, Ready
<1>2. Attack(c, mob) = d
  BY <1>1 DEF Attack, Send, Shape, Fields
<1>3. /\ d.view = c.view /\ d.contents = c.contents /\ d.wire = c.wire \o <<word>>
      /\ d.state = "fighting" /\ d.arrival = "none" /\ SameChart(c, d)
  BY <1>1 DEF Shape, Fields, SameChart
<1>. HIDE DEF d
<1>4. word \in Words
  BY WordsApart
<1>. HIDE DEF word
<1>5. Outcome(c, d, <<word>>)
  BY <1>3, <1>4 DEF Outcome
<1>. QED  BY <1>2, <1>3, <1>4, <1>5, CommandTypes DEF Faces

(* The end of a sea.                                                       *)
LEMMA FinishFaces ==
  ASSUME NEW c, Deciding(c)
  PROVE  Faces(c, FinishSea(c))
<1>. DEFINE e == EndRun(c, "complete")
            g == Discard(e)
            d == [g EXCEPT !.wire = @ \o <<"portal">>]
<1>1. Shape(c) /\ Able(c) /\ c.online /\ ~c.farm
  BY DEF Deciding, Good, Able, Ordered
<1>2. CASE c.contents.truncated
  BY <1>1, <1>2, EndFaces DEF FinishSea
<1>3. CASE ~c.contents.truncated
  <2>1. /\ Shape(e) /\ e.view = c.view /\ e.contents = c.contents /\ e.wire = c.wire /\ ~e.enabled
        /\ e.online = c.online
    BY <1>1 DEF EndRun, Shape, Fields
  <2>2. FinishSea(c) = Send(g, <<"portal">>)
    BY <1>1, <1>3 DEF FinishSea
  <2>. HIDE DEF e
  <2>3. /\ Shape(g) /\ g.view = e.view /\ g.contents = e.contents /\ g.wire = e.wire
        /\ g.enabled = e.enabled /\ g.online = e.online /\ g.map = NewMap /\ ~g.active
    BY <2>1 DEF Discard, Blank, Shape, Fields
  <2>. HIDE DEF g
  <2>4. FinishSea(c) = d
    BY <1>1, <2>1, <2>2, <2>3 DEF Send
  <2>5. /\ d.view = c.view /\ d.contents = c.contents /\ d.wire = c.wire \o <<"portal">>
        /\ ~d.enabled /\ d.map = NewMap /\ ~d.active
    BY <2>1, <2>3 DEF Shape, Fields
  <2>. HIDE DEF d
  <2>6. Loose(d)
    BY <2>5, EmptiedLoose
  <2>7. Outcome(c, d, <<"portal">>)
    BY <2>5, <2>6 DEF Outcome
  <2>. QED  BY <2>4, <2>5, <2>7, CommandTypes DEF Faces
<1>. QED  BY <1>2, <1>3

(* A step of the explorer.                                                 *)
LEMMA TakeFaces ==
  ASSUME NEW c, Deciding(c), c.active
  PROVE  Faces(c, Take(c, NextStep(c)))
<1>. DEFINE next == NextStep(c)
            path == next.path
            a == AwaitArrival(c, "move")
            rest == IF c.leaving THEN Tail(a.leave) ELSE a.leave
            long == Len(path) > 1
            b == [a EXCEPT !.pending = path, !.leave = rest, !.batch = long]
            d == [b EXCEPT !.wire = @ \o path]
<1>1. Shape(c) /\ Good(c) /\ Able(c) /\ c.online
  BY DEF Deciding, Good, Able
<1>2. path \in Seq(Dirs) /\ (path # <<>> => HoldsRooms(c))
  BY <1>1, NextStepType
<1>3. CASE path = <<>>
  <2>1. Take(c, next) = Pause(EndRun(c, next.why), FALSE)
    BY <1>3 DEF Take
  <2>. QED  BY <1>1, <2>1, EndFaces
<1>4. CASE path # <<>>
  <2>1. Shape(b) /\ b.online = c.online
    BY <1>1 DEF AwaitArrival, Shape, Fields
  <2>2. Take(c, next) = d
    BY <1>1, <1>4, <2>1 DEF Take, Send
  <2>. HIDE DEF next, path, rest, long
  <2>3. /\ d.view = c.view /\ d.contents = c.contents /\ d.state = "stepping"
        /\ d.arrival = "move" /\ SameChart(c, d)
    BY <1>1 DEF AwaitArrival, Shape, Fields, SameChart
  <2>4. d.wire = c.wire \o path
    BY <1>1 DEF AwaitArrival, Shape, Fields
  <2>. HIDE DEF d
  <2>5. Outcome(c, d, path)
    BY <1>2, <1>4, <2>3 DEF Outcome
  <2>6. path \in Seq(Commands)
    BY <1>2, CommandTypes
  <2>. QED  BY <2>2, <2>3, <2>4, <2>5, <2>6 DEF Faces, next
<1>. QED  BY <1>3, <1>4

(* A look at the room is a view of the present one: it is under the key    *)
(* the room has now, of what was last listed unless the key was that one.  *)
Looks(c, s) ==
  /\ s.view.key = Key(c)
  /\ Key(c) = c.view.key => s.view = c.view
  /\ Key(c) # c.view.key => s.view.of = c.contents.place

(* It changes nothing else that counts.                                    *)
LEMMA SyncLooks ==
  ASSUME NEW c, Deciding(c)
  PROVE  LET s == SyncView(c)
         IN /\ Looks(c, s) /\ SameChart(c, s) /\ s.contents = c.contents /\ s.wire = c.wire
            /\ Deciding(s) /\ s.enabled = c.enabled
<1>. DEFINE s == SyncView(c)
<1>1. Shape(c)
  BY DEF Deciding, Good, Able
<1>2. SameChart(c, s) /\ s.contents = c.contents /\ s.wire = c.wire /\ s.enabled = c.enabled
  BY <1>1 DEF SyncView, Shape, Fields, SameChart
<1>3. Deciding(s)
  BY DecidingAlike
<1>4. ASSUME Key(c) = c.view.key PROVE Looks(c, s)
  <2>1. s = c
    BY <1>4 DEF SyncView
  <2>. HIDE DEF s
  <2>. QED  BY <1>4, <2>1 DEF Looks
<1>5. ASSUME Key(c) # c.view.key PROVE Looks(c, s)
  <2>. DEFINE k == Key(c)
              v == SeenIn(c, k)
  <2>1. s = [c EXCEPT !.view = v, !.target = NoMonster]
    BY <1>5 DEF SyncView
  <2>2. v.key = k /\ v.of = c.contents.place
    BY DEF SeenIn
  <2>. HIDE DEF v, k
  <2>3. s.view = v
    BY <1>1, <2>1 DEF Shape, Fields
  <2>. QED  BY <1>5, <2>2, <2>3 DEF Looks, k
<1>. QED  BY <1>2, <1>3, <1>4, <1>5

(* Every decision in a room.                                               *)
LEMMA ProcessFaces ==
  ASSUME NEW c0, Deciding(c0)
  PROVE  Faces(SyncView(c0), ProcessRoom(c0))
<1>. DEFINE c == SyncView(c0)
            d == ProcessRoom(c0)
<1>1. Deciding(c)
  BY DecidingAlike
<1>2. d \in {Stop(c, FALSE), DoStep(c)} \/ \E mob \in Monsters : d = Attack(c, mob)
  BY ProcessChoices DEF Deciding
<1>. HIDE DEF c, d
<1>3. Able(c)
  BY <1>1 DEF Deciding, Good
<1>4. Faces(c, DoStep(c))
  <2>1. DoStep(c) = ExploreStep(c)
    BY <1>1 DEF DoStep, Deciding, Ready, Ordered
  <2>2. CASE ~c.active
    BY <1>3, <2>1, <2>2, EndFaces DEF ExploreStep
  <2>3. CASE c.active
    BY <1>1, <2>1, <2>3, FinishFaces, TakeFaces DEF ExploreStep
  <2>. QED  BY <2>2, <2>3
<1>. QED  BY <1>1, <1>2, <1>3, <1>4, EndFaces, AttackFaces DEF c, d

(* The explorer's position is the room whose contents were last listed.    *)
Placed(c) == c.map.pos \in Visited(c.map) /\ c.filed[c.map.pos] = c.contents.place

(* Of what room the view is: of none a run has started in; of the one the  *)
(* step under way leaves, under its coordinate; of the present one in a    *)
(* fight.                                                                  *)
Present(c) ==
  /\ c.arrival = "refresh" => c.view.key.kind = "none"
  /\ c.arrival = "move" => c.view.key.kind = "xyz"
  /\ c.arrival = "move" /\ c.active => /\ c.view.key.is \in Visited(c.map)
                                        /\ c.filed[c.view.key.is] = c.view.of
  /\ c.state = "fighting" => c.view.of = c.contents.place
  /\ c.state = "fighting" /\ c.active => Placed(c)

(* Where a decision is made: what view there is of the room is of what was *)
(* listed there.                                                           *)
Looking(e) ==
  /\ Key(e) = e.view.key => e.view.of = e.contents.place
  /\ e.active => Placed(e)

(* A handler leaves c as d, and nothing is sent.                           *)
Halts(c, d) == d.wire = c.wire /\ (Loose(c) => Loose(d)) /\ (Present(c) => Present(d))

(* A handler takes c to e, which decides in a room it looks at, with       *)
(* nothing left to walk.                                                   *)
Decides(c, e, f, p) ==
  /\ Deciding(e) /\ e.wire = c.wire /\ e.contents = c.contents
  /\ Loose(c) => Loose(e)
  /\ ~Loose(e) => \E x \in Fixes : Tracked(e, f, p, x) /\ Rested(x)
  /\ Present(c) => Looking(e)

(* What follows from a frame: nothing is sent, or a decision is.           *)
Follows(c, d, f, p) == Halts(c, d) \/ \E e : Decides(c, e, f, p) /\ d = ProcessRoom(e)

(* A run that is over looks at nothing.                                    *)
LEMMA StoppedHalts ==
  ASSUME NEW c, NEW a, Shape(a), a.wire = c.wire, NEW timed_out,
         Loose(c) => Loose(Stop(a, timed_out))
  PROVE  Halts(c, Stop(a, timed_out))
BY StopSeen DEF Halts, Present

-----------------------------------------------------------------------------
(* Dead reckoning: arrivals on a chart.                                    *)

(* A sum of coordinates is the sum of their parts.                         *)
LEMMA PlusParts ==
  ASSUME NEW p \in Int3, NEW v \in Int3
  PROVE  \A i \in 1 .. 3 : Plus(p, v)[i] = p[i] + v[i]
BY DEF Int3, Plus

(* A coordinate is its three parts.                                        *)
LEMMA TripleParts ==
  ASSUME NEW p \in Int3, NEW q \in Int3
  PROVE  /\ \A i \in 1 .. 3 : p[i] \in Int
         /\ (\A i \in 1 .. 3 : p[i] = q[i]) => p = q
         /\ p = <<p[1], p[2], p[3]>>
BY DEF Int3

(* A room is its sea and its place in it.                                  *)
LEMMA SamePlace ==
  ASSUME NEW a \in Places, NEW b \in Places, a.sea = b.sea, a.at = b.at
  PROVE  a = b
<1>1. a \in Spots /\ b \in Spots
  BY PlacesSpots
<1>. QED  BY <1>1 DEF Spots

(* Moves that shift a room and its coordinate alike keep them apart alike. *)
LEMMA ApartMoved ==
  ASSUME NEW a \in Spots, NEW b \in Spots, NEW p \in Int3, NEW q \in Int3, Apart(a, b, p, q),
         NEW dir \in Dirs
  PROVE  Apart(Towards(a, dir), b, Plus(p, Delta[dir]), q)
<1>. DEFINE v == Delta[dir]
            c == Towards(a, dir)
            r == Plus(p, v)
<1>1. v \in Int3 /\ a.at \in Int3 /\ b.at \in Int3
  BY DeltaType DEF Spots
<1>2. c.sea = a.sea /\ c.at = Plus(a.at, v)
  BY TowardsSpot
<1>3. ASSUME NEW i \in 1 .. 3 PROVE c.at[i] - r[i] = b.at[i] - q[i]
  <2>1. c.at[i] = a.at[i] + v[i] /\ r[i] = p[i] + v[i]
    BY <1>1, <1>2, PlusParts
  <2>2. a.at[i] \in Int /\ v[i] \in Int /\ p[i] \in Int /\ b.at[i] \in Int /\ q[i] \in Int
    BY <1>1, TripleParts
  <2>3. a.at[i] - p[i] = b.at[i] - q[i]
    BY DEF Apart
  <2>. HIDE DEF c, r, v
  <2>. QED  BY <2>1, <2>2, <2>3
<1>. QED  BY <1>2, <1>3 DEF Apart

(* Under one coordinate there is one room.                                 *)
LEMMA ApartSame ==
  ASSUME NEW a \in Places, NEW b \in Places, NEW p \in Int3, Apart(a, b, p, p)
  PROVE  a = b
<1>1. a.at \in Int3 /\ b.at \in Int3 /\ a.sea = b.sea
  BY PlaceFacts DEF Apart
<1>2. ASSUME NEW i \in 1 .. 3 PROVE a.at[i] = b.at[i]
  <2>1. a.at[i] \in Int /\ b.at[i] \in Int /\ p[i] \in Int
    BY <1>1, TripleParts
  <2>2. a.at[i] - p[i] = b.at[i] - p[i]
    BY DEF Apart
  <2>. QED  BY <2>1, <2>2
<1>. QED  BY <1>1, <1>2, TripleParts, SamePlace

(* The news the plugin expects: the room its last move led to.             *)
Expects(c) ==
  /\ InArea(c.info)
  /\ HoldsRooms(c) => LET at == c.filed[c.map.pos]
                      IN IF c.pending = <<>> THEN c.info = at
                         ELSE /\ Head(c.pending) \in ExitsOf(at)
                              /\ c.info = Towards(at, Head(c.pending))

(* Where the arrival is reckoned.                                          *)
Reckoned(c) ==
  LET m == IF c.pending = <<>> THEN c.map ELSE Move(c.map, Head(c.pending))
  IN <<m.pos[1], m.pos[2], c.info.at[3]>>

(* On a chart dead reckoning is right: the coordinate reached lies to all  *)
(* others as the room entered does, and neither layer nor exits contradict *)
(* it.                                                                     *)
LEMMA ReckonedTrue ==
  ASSUME NEW c, Able(c), Charts(c), Expects(c)
  PROVE  LET m == IF c.pending = <<>> THEN c.map ELSE Move(c.map, Head(c.pending))
             pos == Reckoned(c)
         IN /\ pos \in Int3 /\ pos[3] = c.info.at[3]
            /\ Plotted(m) /\ m.rooms = c.map.rooms
            /\ HoldsRooms(c) => m.pos = pos
            /\ \A q \in Visited(c.map) : Apart(c.info, c.filed[q], pos, q)
            /\ ~(pos \in Visited(m) /\ m.rooms[pos] # Walkable(c.info) \cap Dirs)
<1>. DEFINE m == IF c.pending = <<>> THEN c.map ELSE Move(c.map, Head(c.pending))
            pos == <<m.pos[1], m.pos[2], c.info.at[3]>>
            old == c.map.pos
            at == c.filed[old]
<1>1. /\ Plotted(c.map) /\ Visited(c.map) \subseteq Int3 /\ old \in Int3
      /\ c.filed \in [Visited(c.map) -> Places \ {Lobby}] /\ c.pending \in Seq(Dirs)
      /\ c.info.at \in Int3 /\ c.info \in Places
  BY PlaceFacts DEF Able, Mapped, Plotted, MapOK, Told
<1>2. Reckoned(c) = pos
  BY DEF Reckoned
<1>3. c.pending # <<>> => HoldsRooms(c) /\ Head(c.pending) \in Dirs
  BY <1>1 DEF Able, Holding
<1>4. /\ Plotted(m) /\ m.rooms = c.map.rooms /\ m.pos \in Int3
      /\ m.pos = IF c.pending = <<>> THEN old ELSE Plus(old, Delta[Head(c.pending)])
  <2>1. CASE c.pending = <<>>
    BY <1>1, <2>1
  <2>2. CASE c.pending # <<>>
    <3>1. Head(c.pending) \in Dirs
      BY <1>3, <2>2
    <3>2. Plus(old, Delta[Head(c.pending)]) \in Int3
      BY <1>1, <3>1, DeltaType, PlusType
    <3>3. m = [c.map EXCEPT !.pos = Plus(old, Delta[Head(c.pending)])]
      BY <2>2 DEF Move
    <3>4. Plotted(m)
      BY <1>1, <3>2, <3>3, PlacedPlotted
    <3>5. m.rooms = c.map.rooms /\ m.pos = Plus(old, Delta[Head(c.pending)])
      BY <1>1, <3>3 DEF Plotted
    <3>. QED  BY <2>2, <3>2, <3>4, <3>5
  <2>. QED  BY <2>1, <2>2
<1>. HIDE DEF m
<1>5. pos \in Int3 /\ pos[3] = c.info.at[3] /\ pos[1] = m.pos[1] /\ pos[2] = m.pos[2]
  BY <1>1, <1>4 DEF Int3
<1>. HIDE DEF pos
<1>6. ASSUME HoldsRooms(c)
      PROVE  m.pos = pos /\ \A q \in Visited(c.map) : Apart(c.info, c.filed[q], pos, q)
  <2>1. old \in Visited(c.map) /\ at \in Places \ {Lobby} /\ at.at[3] = old[3]
    BY <1>1, <1>6 DEF Charts
  <2>2. \A q \in Visited(c.map) : Apart(at, c.filed[q], old, q)
    BY <2>1 DEF Charts
  <2>3. at \in Spots /\ at.at \in Int3
    BY <2>1, PlacesSpots, PlaceFacts
  <2>4. CASE c.pending = <<>>
    <3>1. c.info = at /\ m.pos = old
      BY <1>4, <1>6, <2>4 DEF Expects
    <3>2. \A i \in 1 .. 3 : m.pos[i] = pos[i]
      BY <1>5, <2>1, <3>1
    <3>3. m.pos = pos
      BY <1>4, <1>5, <3>2, TripleParts
    <3>. QED  BY <2>2, <3>1, <3>3
  <2>5. CASE c.pending # <<>>
    <3>. DEFINE dir == Head(c.pending)
    <3>1. c.info = Towards(at, dir) /\ m.pos = Plus(old, Delta[dir]) /\ dir \in Dirs
      BY <1>3, <1>4, <1>6, <2>5 DEF Expects
    <3>. HIDE DEF dir
    <3>2. c.info.at = Plus(at.at, Delta[dir]) /\ Delta[dir] \in Int3
      BY <2>3, <3>1, TowardsSpot, DeltaType
    <3>3. c.info.at[3] = at.at[3] + Delta[dir][3] /\ m.pos[3] = old[3] + Delta[dir][3]
      BY <1>1, <2>3, <3>1, <3>2, PlusParts
    <3>4. \A i \in 1 .. 3 : m.pos[i] = pos[i]
      BY <1>5, <2>1, <3>3
    <3>5. m.pos = pos
      BY <1>4, <1>5, <3>4, TripleParts
    <3>6. ASSUME NEW q \in Visited(c.map) PROVE Apart(c.info, c.filed[q], pos, q)
      <4>1. q \in Int3 /\ c.filed[q] \in Spots
        BY <1>1, PlacesSpots
      <4>2. Apart(Towards(at, dir), c.filed[q], Plus(old, Delta[dir]), q)
        BY <1>1, <2>2, <2>3, <3>1, <4>1, ApartMoved
      <4>. QED  BY <3>1, <3>5, <4>2
    <3>. QED  BY <3>5, <3>6
  <2>. QED  BY <2>4, <2>5
<1>7. \A q \in Visited(c.map) : Apart(c.info, c.filed[q], pos, q)
  BY <1>6 DEF HoldsRooms
<1>8. ~(pos \in Visited(m) /\ m.rooms[pos] # Walkable(c.info) \cap Dirs)
  <2>1. SUFFICES ASSUME pos \in Visited(c.map) PROVE c.map.rooms[pos] = Walkable(c.info) \cap Dirs
    BY <1>4 DEF Visited
  <2>2. c.info = c.filed[pos]
    BY <1>1, <1>5, <1>7, <2>1, ApartSame
  <2>. QED  BY <2>1, <2>2 DEF Charts
<1>. QED  BY <1>2, <1>4, <1>5, <1>6, <1>7, <1>8 DEF m

(* The rooms on the map.                                                   *)
Filed(c) == {c.filed[p] : p \in Visited(c.map)}

(* No room on the map is lost or moved.                                    *)
Grows(c, d) == \A q \in Visited(c.map) : q \in Visited(d.map) /\ d.filed[q] = c.filed[q]

(* What an arrival does to a chart: the room entered is on it, and the     *)
(* map's position is there.                                                *)
Arrives(c, d) ==
  /\ Charts(d) /\ HoldsRooms(d)
  /\ d.filed[d.map.pos] = c.info
  /\ d.pending = IF c.pending = <<>> THEN c.pending ELSE Tail(c.pending)
  /\ Rests(c, d) /\ d.farm = c.farm
  /\ HoldsRooms(c) => ~d.disputed
  /\ Filed(d) = Filed(c) \cup {c.info} /\ Grows(c, d)

(* Filing a room where it lies keeps the chart.                            *)
LEMMA FiledTrue ==
  ASSUME NEW b, Able(b), InArea(b.info),
         b.map.pos[3] = b.info.at[3],
         \A q \in Visited(b.map) : Apart(b.info, b.filed[q], b.map.pos, q),
         \A p \in Visited(b.map) : b.map.rooms[p] = Walkable(b.filed[p]) \cap Dirs
                                   /\ b.filed[p].at[3] = p[3],
         \A p, q \in Visited(b.map) : Apart(b.filed[p], b.filed[q], p, q),
         b.map.pos \in Visited(b.map) => b.filed[b.map.pos] = b.info
  PROVE  /\ Charts(FileRoom(b)) /\ HoldsRooms(FileRoom(b))
         /\ FileRoom(b).filed[FileRoom(b).map.pos] = b.info
         /\ Filed(FileRoom(b)) = Filed(b) \cup {b.info}
         /\ FileRoom(b).disputed = b.disputed /\ FileRoom(b).farm = b.farm
         /\ Grows(b, FileRoom(b))
<1>. DEFINE m == Record(b.map, Walkable(b.info))
            names == [p \in Visited(m) |-> IF p = m.pos THEN b.info ELSE b.filed[p]]
            d == [b EXCEPT !.map = m, !.filed = names]
            pos == b.map.pos
            old == Visited(b.map)
            exits == [p \in old \cup {pos} |-> IF p = pos THEN Walkable(b.info) \cap Dirs ELSE b.map.rooms[p]]
<1>1. FileRoom(b) = d
  BY DEF FileRoom
<1>2. Plotted(b.map) /\ b.filed \in [old -> Places \ {Lobby}]
  BY DEF Able, Mapped
<1>3. m.pos = pos /\ m.rooms = exits /\ Visited(m) = old \cup {pos}
  BY <1>2 DEF Record, Plotted, Visited
<1>4. /\ d.map = m /\ d.filed = names /\ d.disputed = b.disputed /\ d.farm = b.farm
  BY DEF Able, Shape, Fields
<1>. HIDE DEF m
<1>5. \A p \in old \cup {pos} : names[p] = IF p = pos THEN b.info ELSE b.filed[p]
  BY <1>3
<1>6. \A p \in old \cup {pos} : exits[p] = IF p = pos THEN Walkable(b.info) \cap Dirs ELSE b.map.rooms[p]
  OBVIOUS
<1>. HIDE DEF names, d, exits
<1>7. d.map.pos = pos /\ Visited(d.map) = old \cup {pos} /\ d.map.rooms = exits
  BY <1>3, <1>4
<1>8. HoldsRooms(d) /\ d.filed[d.map.pos] = b.info
  BY <1>4, <1>5, <1>7 DEF HoldsRooms
<1>9. ASSUME NEW p \in old \cup {pos}
      PROVE  exits[p] = Walkable(names[p]) \cap Dirs /\ names[p].at[3] = p[3]
  BY <1>5, <1>6
<1>10. ASSUME NEW p \in old \cup {pos}, NEW q \in old \cup {pos}
       PROVE  Apart(names[p], names[q], p, q)
  <2>1. CASE p = pos /\ q = pos
    BY <2>1 DEF Apart
  <2>2. CASE p = pos /\ q # pos
    BY <1>5, <2>2
  <2>3. CASE p # pos /\ q = pos
    <3>1. Apart(b.info, b.filed[p], pos, p)
      BY <2>3
    <3>2. names[p] = b.filed[p] /\ names[q] = b.info /\ q = pos
      BY <1>5, <2>3
    <3>. QED  BY <3>1, <3>2 DEF Apart
  <2>4. CASE p # pos /\ q # pos
    BY <1>5, <2>4
  <2>. QED  BY <2>1, <2>2, <2>3, <2>4
<1>11. Charts(d)
  BY <1>4, <1>7, <1>9, <1>10 DEF Charts
<1>12. Filed(d) = {names[p] : p \in old \cup {pos}}
  BY <1>4, <1>7 DEF Filed
<1>13. {names[p] : p \in old \cup {pos}} = {b.filed[p] : p \in old} \cup {b.info}
  <2>1. ASSUME NEW p \in old \cup {pos} PROVE names[p] \in {b.filed[q] : q \in old} \cup {b.info}
    BY <1>5
  <2>2. ASSUME NEW p \in old PROVE b.filed[p] \in {names[q] : q \in old \cup {pos}}
    BY <1>5
  <2>3. b.info \in {names[q] : q \in old \cup {pos}}
    BY <1>5
  <2>. QED  BY <2>1, <2>2, <2>3
<1>14. Grows(b, d)
  <2>1. \A q \in old : q = pos => b.info = b.filed[q]
    OBVIOUS
  <2>. QED  BY <1>4, <1>5, <1>7, <2>1 DEF Grows
<1>. QED  BY <1>1, <1>4, <1>8, <1>11, <1>12, <1>13, <1>14 DEF Filed

(* An arrival in the room that was expected keeps the chart (mode.lua      *)
(* arrive).                                                                *)
LEMMA ArriveTrue ==
  ASSUME NEW c, Good(c), Charts(c), Expects(c)
  PROVE  Arrives(c, Arrive(c))
<1>. DEFINE m == IF c.pending = <<>> THEN c.map ELSE Move(c.map, Head(c.pending))
            layer == c.info.at[3]
            pos == <<m.pos[1], m.pos[2], layer>>
            corrected == layer # m.pos[3] /\ ~(c.unanchored /\ ~HoldsRooms(c))
            contradicted == pos \in Visited(m) /\ m.rooms[pos] # Walkable(c.info) \cap Dirs
            placed == SetPosition(m, pos)
            rest == IF c.pending = <<>> THEN c.pending ELSE Tail(c.pending)
            moved == [c EXCEPT !.map = placed, !.unanchored = FALSE,
                               !.disputed = corrected, !.pending = rest]
            begun == [ResetMap(moved) EXCEPT !.map.pos = <<0, 0, layer>>, !.disputed = TRUE]
<1>1. Arrive(c) = IF ~InArea(c.info) THEN Discard(c)
                  ELSE IF contradicted THEN FileRoom(begun) ELSE FileRoom(moved)
  BY DEF Arrive
<1>2. Able(c) /\ InArea(c.info)
  BY DEF Good, Expects
<1>3. /\ pos \in Int3 /\ pos[3] = layer /\ Plotted(m) /\ m.rooms = c.map.rooms
      /\ HoldsRooms(c) => m.pos = pos
      /\ \A q \in Visited(c.map) : Apart(c.info, c.filed[q], pos, q)
      /\ ~contradicted
  BY <1>2, ReckonedTrue DEF Reckoned
<1>4. Arrive(c) = FileRoom(moved)
  BY <1>1, <1>2, <1>3
<1>5. HoldsRooms(c) => ~corrected
  BY <1>3
<1>6. /\ c.pending \in Seq(Dirs) /\ Visited(c.map) \subseteq Int3
      /\ c.filed \in [Visited(c.map) -> Places \ {Lobby}]
  BY <1>2 DEF Able, Mapped
<1>7. /\ rest \in Seq(Dirs) /\ (rest # <<>> => c.pending # <<>>)
      /\ Len(c.pending) = 1 \/ c.pending = <<>> => rest = <<>>
  <2>1. CASE c.pending = <<>>
    BY <2>1, EmptySequences
  <2>2. CASE c.pending # <<>>
    <3>1. Tail(c.pending) \in Seq(Dirs)
      BY <1>6, <2>2
    <3>2. Len(c.pending) = 1 => Tail(c.pending) = <<>>
      BY <1>6, TailOfOne
    <3>. QED  BY <2>2, <3>1, <3>2
  <2>. QED  BY <2>1, <2>2
<1>. HIDE DEF contradicted, layer, m, rest, corrected
<1>8. /\ Plotted(placed) /\ placed.rooms = c.map.rooms /\ placed.pos = pos
      /\ Visited(placed) = Visited(c.map)
  BY <1>3, PlacedPlotted DEF SetPosition, Visited, Plotted
<1>. HIDE DEF pos, placed
<1>9. Shape(moved) /\ ControlType(moved)
  <2>1. corrected \in BOOLEAN
    BY DEF corrected
  <2>. QED  BY <1>2, <2>1 DEF Able, Shape, Fields, ControlType
<1>10. /\ Rests(c, moved) /\ moved.map = placed /\ moved.filed = c.filed /\ moved.pending = rest
       /\ moved.leave = c.leave /\ moved.farm = c.farm
  BY <1>2 DEF Able, Shape, Fields, Rests, SameView, SameNews, SameWire, SameHold
<1>11. moved.disputed = corrected
  BY <1>2 DEF Able, Shape, Fields
<1>. HIDE DEF moved
<1>12. Able(moved) /\ moved.info = c.info
  <2>1. Mapped(moved)
    BY <1>6, <1>7, <1>8, <1>10, <1>2 DEF Able, Mapped
  <2>2. Viewed(moved) /\ Told(moved) /\ Sends(moved)
    BY <1>2, <1>10, SameParts DEF Able, Rests
  <2>3. ~moved.active => rest = <<>>
    BY <1>2, <1>7, <1>10 DEF Able, Holding, InFlight, Rests, SameHold
  <2>4. Holding(moved)
    BY <1>2, <1>7, <1>8, <1>10, <2>3
       DEF Able, Holding, Rests, SameHold, SameWire, InFlight, HoldsRooms
  <2>. QED  BY <1>9, <1>10, <2>1, <2>2, <2>4 DEF Able, Rests, SameNews
<1>13. /\ moved.map.pos = pos /\ Visited(moved.map) = Visited(c.map)
       /\ moved.map.rooms = c.map.rooms
  BY <1>8, <1>10
<1>14. /\ \A p \in Visited(c.map) : /\ c.map.rooms[p] = Walkable(c.filed[p]) \cap Dirs
                                    /\ c.filed[p].at[3] = p[3]
       /\ \A p, q \in Visited(c.map) : Apart(c.filed[p], c.filed[q], p, q)
  BY DEF Charts
<1>15. pos \in Visited(c.map) => c.filed[pos] = c.info
  <2>1. pos \in Visited(c.map) => c.filed[pos] \in Places
    BY <1>6
  <2>2. c.info \in Places
    BY <1>2 DEF Able, Told
  <2>. QED  BY <1>3, <2>1, <2>2, ApartSame
<1>16. pos[3] = c.info.at[3]
  BY <1>3 DEF layer
<1>17. /\ Charts(FileRoom(moved)) /\ HoldsRooms(FileRoom(moved))
       /\ FileRoom(moved).filed[FileRoom(moved).map.pos] = c.info
       /\ Filed(FileRoom(moved)) = Filed(moved) \cup {c.info}
       /\ FileRoom(moved).disputed = moved.disputed /\ FileRoom(moved).farm = moved.farm
       /\ Grows(moved, FileRoom(moved))
  BY <1>2, <1>3, <1>10, <1>12, <1>13, <1>14, <1>15, <1>16, FiledTrue
<1>18. Filed(moved) = Filed(c)
  BY <1>10, <1>13 DEF Filed
<1>19. Rests(moved, FileRoom(moved)) /\ FileRoom(moved).pending = moved.pending
  BY <1>2, <1>12, FileRoomAble
<1>20. Rests(c, FileRoom(moved))
  BY <1>10, <1>19 DEF Rests, SameView, SameNews, SameWire, SameHold
<1>21. HoldsRooms(c) => ~FileRoom(moved).disputed
  BY <1>5, <1>11, <1>17
<1>22. Grows(c, FileRoom(moved))
  BY <1>10, <1>13, <1>17 DEF Grows
<1>. QED  BY <1>4, <1>10, <1>17, <1>18, <1>19, <1>20, <1>21, <1>22 DEF Arrives, rest

-----------------------------------------------------------------------------
(* Arrivals, asked for and not.                                            *)

(* What a step may do to the rooms on the map: lose them all, leave them,  *)
(* or add one, the first or a neighbour of one that is known.              *)
Surveys(c, d) ==
  \/ Filed(d) = {} \/ Filed(d) = Filed(c)
  \/ \E room \in Places \ {Lobby} :
       /\ Filed(d) = Filed(c) \cup {room}
       /\ Filed(c) = {} \/ \E known \in Filed(c) : room \in Neighbours(known)

(* How a handler leaves the client: as sure, and with the survey going.    *)
Result(c, d, f, p) == Sure(d, f, p) /\ d.info = c.info /\ Surveys(c, d)

(* What the rooms on the map depend on.                                    *)
LEMMA FiledFacts ==
  ASSUME NEW c
  PROVE  /\ ~HoldsRooms(c) <=> Filed(c) = {}
         /\ Loose(c) => Filed(c) = {}
         /\ \A d : d.map = c.map /\ d.filed = c.filed => Filed(d) = Filed(c)
BY DEF HoldsRooms, Filed, Loose

(* To settle adds no room.                                                 *)
LEMMA SettlesFiled ==
  ASSUME NEW c, NEW d, Settles(c, d)
  PROVE  /\ Filed(d) = {} \/ Filed(d) = Filed(c)
         /\ Loose(c) => Loose(d)
<1>1. Retains(c, d) \/ Walks(c, d) => Filed(d) = Filed(c)
  BY FiledFacts DEF Retains, Walks
<1>2. Loose(c) /\ Retains(c, d) => Loose(d)
  BY DEF Loose, Retains, HoldsRooms
<1>3. ~(Loose(c) /\ Walks(c, d))
  BY DEF Loose, Walks
<1>. QED  BY <1>1, <1>2, <1>3, FiledFacts DEF Settles

(* Nor does any client without a run.                                      *)
LEMMA QuietHalts ==
  ASSUME NEW c, NEW d, d.wire = c.wire, d.arrival = "none", d.state = "idle",
         Loose(c) => Loose(d)
  PROVE  Halts(c, d)
BY DEF Halts, Present

(* To stop keeps no map where there was none.                              *)
LEMMA StopHalts ==
  ASSUME NEW c, Able(c), Ordered(c), NEW timed_out \in BOOLEAN
  PROVE  Halts(c, Stop(c, timed_out))
<1>1. Settles(c, Stop(c, timed_out))
  BY StopSettles DEF Ordered
<1>2. Loose(c) => Loose(Stop(c, timed_out))
  BY <1>1, SettlesFiled
<1>. QED  BY <1>2, StoppedHalts DEF Able

(* To settle is as sure, when nothing is left to walk where moves are      *)
(* sent.                                                                   *)
LEMMA SettlesResult ==
  ASSUME NEW f \in Seq(Frames), NEW p, NEW c, Able(c), Ordered(c), Charts(c), NEW d, Settles(c, d),
         ~Loose(c) => \E x \in Fixes : Tracked(c, f, p, x) /\ (Walks(c, d) => Rested(x))
  PROVE  Result(c, d, f, p)
<1>1. Sure(d, f, p)
  BY SettlesSure
<1>. QED  BY <1>1, SettlesFiled DEF Settles, Result, Surveys

(* To give the map up is safe.                                             *)
LEMMA LooseResult ==
  ASSUME NEW c, NEW d, Ordered(d), Loose(d), d.info = c.info, NEW f, NEW p
  PROVE  Result(c, d, f, p)
BY LooseSure, FiledFacts DEF Result, Surveys

(* One step after the other.                                               *)
LEMMA ResultAfter ==
  ASSUME NEW c, NEW a, NEW d, NEW f, NEW p, Surveys(c, a), a.info = c.info, Result(a, d, f, p),
         Filed(d) = {} \/ Filed(d) = Filed(a)
  PROVE  Result(c, d, f, p)
<1>1. Surveys(c, d)
  BY DEF Surveys
<1>. QED  BY <1>1 DEF Result

(* An arrival adds a neighbour to the chart, or begins one.                *)
LEMMA ArrivesSurveys ==
  ASSUME NEW c, Able(c), Charts(c), Expects(c), NEW d, Arrives(c, d)
  PROVE  Surveys(c, d)
<1>. DEFINE at == c.filed[c.map.pos]
<1>1. c.info \in Places \ {Lobby} /\ c.pending \in Seq(Dirs)
  BY DEF Able, Told, Mapped, Expects, InArea
<1>2. Filed(d) = Filed(c) \cup {c.info}
  BY DEF Arrives
<1>3. CASE ~HoldsRooms(c)
  BY <1>1, <1>2, <1>3, FiledFacts DEF Surveys
<1>4. CASE HoldsRooms(c)
  <2>1. at \in Filed(c)
    BY <1>4 DEF Charts, Filed
  <2>2. CASE c.pending = <<>>
    <3>1. c.info = at
      BY <1>4, <2>2 DEF Expects
    <3>2. Filed(d) = Filed(c)
      BY <1>2, <2>1, <3>1
    <3>. QED  BY <3>2 DEF Surveys
  <2>3. CASE c.pending # <<>>
    <3>1. Head(c.pending) \in ExitsOf(at) \cap Dirs /\ c.info = Towards(at, Head(c.pending))
      BY <1>1, <1>4, <2>3 DEF Expects
    <3>2. c.info \in Neighbours(at)
      BY <3>1 DEF Neighbours
    <3>. QED  BY <1>1, <1>2, <2>1, <3>2 DEF Surveys
  <2>. QED  BY <2>2, <2>3
<1>. QED  BY <1>3, <1>4

(* Two clients that differ in nothing the map depends on.                  *)
Alike(c, d) ==
  /\ d.map = c.map /\ d.filed = c.filed /\ d.info = c.info /\ d.wire = c.wire
  /\ d.active = c.active /\ d.held = c.held /\ d.pending = c.pending /\ d.farm = c.farm
  /\ d.enabled = c.enabled /\ d.mode = c.mode /\ d.online = c.online

(* Where one may decide so may the other.                                  *)
LEMMA AlikeDecides ==
  ASSUME NEW c, Ordered(c), c.enabled, c.pending = <<>>, c.online,
         NEW e, Good(e), Ready(e), ~e.batch, Alike(c, e)
  PROVE  Deciding(e)
<1>1. HoldsRooms(e) <=> HoldsRooms(c)
  BY DEF Alike, HoldsRooms
<1>2. e.arrival = "none"
  BY DEF Ready
<1>3. ~(Len(e.pending) > 1)
  BY DEF Alike
<1>4. e.pending = <<>> /\ e.online
  BY DEF Alike
<1>5. Ordered(e)
  <2>1. ~e.farm /\ e.enabled /\ e.mode = "explore" /\ (e.active <=> e.held)
    BY DEF Alike, Ordered
  <2>2. HoldsRooms(e) => e.held
    BY <1>1 DEF Alike, Ordered
  <2>. QED  BY <1>2, <1>3, <1>4, <2>1, <2>2 DEF Ordered
<1>. QED  BY <1>4, <1>5 DEF Deciding

(* The client once an arrival is complete, before it decides.              *)
Idle(a) == [a EXCEPT !.batch = FALSE, !.arrival = "none", !.state = "idle"]

(* It may decide.                                                          *)
LEMMA IdleDecides ==
  ASSUME NEW a, Good(a),
         Ordered(a) \/ (~a.farm /\ a.mode = "explore" /\ ~a.active /\ ~a.held /\ ~HoldsRooms(a)),
         a.enabled, a.waits = 0, a.online, a.pending = <<>>, ~a.farm_timer
  PROVE  /\ Deciding(Idle(a)) /\ Alike(a, Idle(a)) /\ ~Idle(a).batch
         /\ Idle(a).view = a.view /\ Idle(a).contents = a.contents
<1>. DEFINE e == Idle(a)
<1>1. Shape(a) /\ ControlType(a) /\ Viewed(a)
  BY DEF Good, Able
<1>2. Shape(e) /\ ControlType(e)
  BY <1>1 DEF Idle, Shape, Fields, ControlType
<1>3. Alike(a, e)
  BY <1>1 DEF Idle, Shape, Fields, Alike
<1>4. e.view = a.view /\ e.target = a.target /\ SameMap(a, e) /\ SameNews(a, e)
  BY <1>1 DEF Idle, Shape, Fields, SameMap, SameNews
<1>5. SameWire(a, e) /\ SameHold(a, e)
  BY <1>1 DEF Idle, Shape, Fields, SameWire, SameHold
<1>6. ~e.batch /\ e.arrival = "none" /\ e.waits = 0 /\ ~e.farm_timer
  BY <1>1 DEF Idle, Shape, Fields
<1>. HIDE DEF e
<1>7. Viewed(e)
  BY <1>1, <1>4 DEF Viewed
<1>8. Good(e)
  <2>1. e.enabled => a.enabled /\ e.mode = a.mode
    BY <1>3 DEF Alike
  <2>. QED  BY <1>2, <1>4, <1>5, <1>7, <2>1, LooksGood
<1>9. Ready(e)
  <2>1. e.enabled
    BY <1>3 DEF Alike
  <2>. QED  BY <1>2, <1>6, <2>1 DEF Ready
<1>10. ASSUME Ordered(a) PROVE Deciding(e)
  BY <1>3, <1>6, <1>8, <1>9, <1>10, AlikeDecides
<1>11. ASSUME ~a.farm, a.mode = "explore", ~a.active, ~a.held, ~HoldsRooms(a)
       PROVE  Deciding(e)
  <2>1. /\ ~e.farm /\ e.mode = "explore" /\ ~e.active /\ ~e.held /\ e.pending = <<>> /\ e.online
        /\ ~HoldsRooms(e)
    BY <1>3, <1>11 DEF Alike, HoldsRooms
  <2>2. ~(Len(e.pending) > 1)
    BY <2>1
  <2>3. Ordered(e)
    BY <1>6, <2>1, <2>2 DEF Ordered
  <2>. QED  BY <1>3, <1>6, <1>8, <1>9, <2>1, <2>3 DEF Deciding
<1>12. e.contents = a.contents
  BY <1>4 DEF SameNews
<1>. QED  BY <1>3, <1>4, <1>6, <1>10, <1>11, <1>12 DEF e

(* A decision in a room with nothing left to walk is as sure.              *)
LEMMA DecisionResult ==
  ASSUME NEW f \in Seq(Frames), NEW p, NEW e, Deciding(e), Charts(e),
         ~Loose(e) => \E x \in Fixes : Tracked(e, f, p, x) /\ Rested(x)
  PROVE  /\ Result(e, ProcessRoom(e), f, p)
         /\ Filed(ProcessRoom(e)) = {} \/ Filed(ProcessRoom(e)) = Filed(e)
<1>1. Settles(e, ProcessRoom(e))
  BY ProcessSettles
<1>2. Able(e) /\ Ordered(e)
  BY DEF Deciding, Good
<1>. QED  BY <1>1, <1>2, SettlesResult, SettlesFiled

(* An arrival with no explorer, or out of the area, keeps no map.          *)
LEMMA CompleteLoose ==
  ASSUME NEW c, Good(c), Control(c), Ordered(c), c.online, c.enabled, c.state = "stepping",
         ~c.active \/ ~InArea(c.info)
  PROVE  /\ Loose(CompleteArrival(c)) /\ Ordered(CompleteArrival(c))
         /\ CompleteArrival(c).info = c.info
         /\ \A f, p : Follows(c, CompleteArrival(c), f, p)
<1>. DEFINE b == [c EXCEPT !.disputed = FALSE]
            a == IF c.active THEN Arrive(b) ELSE c
            d == CompleteArrival(c)
<1>1. d = IF c.batch /\ (~a.active \/ a.disputed) THEN Stop(a, FALSE)
          ELSE IF c.batch /\ a.pending # <<>> THEN AwaitArrival(a, "move")
          ELSE ProcessRoom(Idle(a))
  BY DEF CompleteArrival, Idle
<1>2. Shape(c) /\ Able(c) /\ c.waits = 0 /\ ~c.farm_timer
  <2>1. c.waits \in 0 .. 3 /\ ~(c.waits > 0)
    BY DEF Control, Waiting
  <2>2. ~c.farm_timer
    BY DEF Control, Farming, Ordered
  <2>. QED  BY <2>1, <2>2 DEF Good, Able
<1>3. /\ Good(a) /\ Loose(a) /\ a.pending = <<>> /\ a.enabled /\ ~a.held /\ ~a.farm
      /\ a.mode = "explore" /\ a.waits = 0 /\ a.online /\ a.info = c.info /\ (a.batch <=> c.batch)
      /\ ~a.farm_timer /\ a.wire = c.wire /\ a.view = c.view /\ a.contents = c.contents
  <2>1. CASE ~c.active
    <3>1. ~c.held /\ ~HoldsRooms(c) /\ c.mode = "explore" /\ ~c.farm
      BY <2>1 DEF Ordered
    <3>2. c.pending = <<>>
      BY <1>2, <3>1 DEF Able, Holding
    <3>. QED  BY <1>2, <2>1, <3>1, <3>2 DEF Loose
  <2>2. CASE c.active
    <3>1. Shape(b) /\ b.info = c.info /\ ~InArea(b.info)
      BY <1>2, <2>2 DEF Shape, Fields
    <3>2. a = Discard(b)
      BY <2>2, <3>1 DEF Arrive
    <3>3. /\ Good(b) /\ b.enabled = c.enabled /\ b.farm = c.farm /\ b.mode = c.mode /\ b.waits = c.waits
          /\ b.online = c.online /\ b.batch = c.batch /\ b.farm_timer = c.farm_timer
          /\ b.wire = c.wire /\ b.view = c.view /\ b.contents = c.contents
      <4>1. /\ b.enabled = c.enabled /\ b.farm = c.farm /\ b.mode = c.mode /\ b.waits = c.waits
            /\ b.online = c.online /\ b.batch = c.batch /\ b.farm_timer = c.farm_timer
            /\ b.wire = c.wire /\ b.view = c.view /\ b.contents = c.contents
        BY <1>2 DEF Shape, Fields
      <4>2. ControlType(b)
        BY <1>2 DEF Able, Shape, Fields, ControlType
      <4>3. Steers(c, b)
        BY <1>2 DEF Shape, Fields, Steers, SameMap, SameView, SameNews, SameWire, SameHold
      <4>. HIDE DEF b
      <4>4. Good(b)
        BY <3>1, <4>1, <4>2, <4>3, SteersGood
      <4>. QED  BY <4>1, <4>4
    <3>. HIDE DEF b
    <3>4. /\ a.map = NewMap /\ ~a.active /\ a.pending = <<>> /\ ~a.held
          /\ a.enabled = b.enabled /\ a.farm = b.farm /\ a.mode = b.mode /\ a.waits = b.waits
          /\ a.online = b.online /\ a.batch = b.batch /\ a.info = b.info
          /\ a.farm_timer = b.farm_timer
          /\ a.wire = b.wire /\ a.view = b.view /\ a.contents = b.contents
      <4>1. /\ a.map = NewMap /\ ~a.active /\ a.pending = <<>> /\ ~a.held
        BY <3>1, <3>2 DEF Discard, Blank, Shape, Fields
      <4>2. a.enabled = b.enabled /\ a.farm = b.farm
        BY <3>1, <3>2 DEF Discard, Blank, Shape, Fields
      <4>3. a.mode = b.mode /\ a.waits = b.waits
        BY <3>1, <3>2 DEF Discard, Blank, Shape, Fields
      <4>4. a.online = b.online /\ a.batch = b.batch
        BY <3>1, <3>2 DEF Discard, Blank, Shape, Fields
      <4>5. a.info = b.info /\ a.farm_timer = b.farm_timer
        BY <3>1, <3>2 DEF Discard, Blank, Shape, Fields
      <4>6. a.wire = b.wire /\ a.view = b.view /\ a.contents = b.contents
        BY <3>1, <3>2 DEF Discard, Blank, Shape, Fields
      <4>. QED  BY <4>1, <4>2, <4>3, <4>4, <4>5, <4>6
    <3>5. Good(a)
      BY <3>2, <3>3, DiscardGood DEF Good
    <3>6. Loose(a)
      BY <3>4, EmptiedLoose
    <3>. HIDE DEF a
    <3>. QED  BY <1>2, <3>1, <3>3, <3>4, <3>5, <3>6 DEF Ordered
  <2>. QED  BY <2>1, <2>2
<1>. HIDE DEF a, d
<1>4. ~a.active /\ ~HoldsRooms(a)
  BY <1>3 DEF Loose
<1>5. CASE c.batch
  <2>1. d = Stop(a, FALSE)
    BY <1>1, <1>4, <1>5
  <2>2. Settles(a, d)
    BY <1>3, <1>4, <2>1, StopSettles DEF Good
  <2>3. Loose(d) /\ Ordered(d) /\ d.info = c.info
    BY <1>3, <2>2, SettlesFiled DEF Settles
  <2>4. Halts(c, d)
    BY <1>3, <2>1, <2>3, StoppedHalts DEF Good, Able
  <2>. QED  BY <2>3, <2>4 DEF Follows, d
<1>6. CASE ~c.batch
  <2>1. d = ProcessRoom(Idle(a))
    BY <1>1, <1>6
  <2>2. /\ Deciding(Idle(a)) /\ Alike(a, Idle(a))
        /\ Idle(a).view = a.view /\ Idle(a).contents = a.contents
    BY <1>3, <1>4, IdleDecides
  <2>3. Settles(Idle(a), d)
    BY <2>1, <2>2, ProcessSettles
  <2>4. Loose(Idle(a)) /\ Idle(a).info = a.info
    BY <1>3, <2>2 DEF Alike, Loose, HoldsRooms
  <2>5. Loose(d) /\ Ordered(d) /\ d.info = c.info
    BY <1>3, <2>3, <2>4, SettlesFiled DEF Settles
  <2>. DEFINE e == Idle(a)
  <2>6. /\ e.wire = c.wire /\ e.contents = c.contents /\ e.view = c.view /\ ~e.active
        /\ Deciding(e) /\ Loose(e)
    BY <1>3, <1>4, <2>2, <2>4 DEF Alike
  <2>7. c.arrival \in {"refresh", "move"}
    BY <1>2 DEF Control, Waiting, Able, ControlType, Ordered
  <2>. HIDE DEF e
  <2>8. Present(c) => Looking(e)
    BY <2>6, <2>7 DEF Present, Looking, Key
  <2>9. \A f, p : Decides(c, e, f, p)
    BY <2>6, <2>8 DEF Decides
  <2>. QED  BY <2>1, <2>5, <2>9 DEF Follows, d, e
<1>. QED  BY <1>5, <1>6

(* The moves left once the one under way has been made.                    *)
Remain(c) == IF c.pending = <<>> THEN c.pending ELSE Tail(c.pending)

(* The fix once the awaited entry was heard: in the room it names, with    *)
(* the rest of the moves to walk.                                          *)
Awaited(c, f, p, z) ==
  /\ z \in Fixes /\ z.mode = "live" /\ z.at = c.info /\ z.rest = Remain(c)
  /\ z.long <=> (c.batch /\ Remain(c) # <<>>)
  /\ Ahead(f, c.wire, p, z)

(* A single move leaves none.                                              *)
LEMMA RemainOfShort ==
  ASSUME NEW c, Able(c), ~(Len(c.pending) > 1)
  PROVE  Remain(c) = <<>>
<1>. DEFINE s == c.pending
            n == Len(s)
<1>1. s \in Seq(Dirs)
  BY DEF Able, Mapped
<1>. HIDE DEF s
<1>2. n \in Nat /\ (n = 0 => s = <<>>)
  BY <1>1
<1>3. ~(n > 1)
  BY DEF s
<1>. HIDE DEF n
<1>4. n = 0 \/ n = 1
  BY <1>2, <1>3
<1>5. CASE s = <<>>
  BY <1>5 DEF Remain, s
<1>6. CASE s # <<>>
  <2>1. n = 1
    BY <1>2, <1>4, <1>6
  <2>2. Tail(s) = <<>>
    BY <1>1, <2>1, TailOfOne DEF n
  <2>. QED  BY <1>6, <2>2 DEF Remain, s
<1>. QED  BY <1>5, <1>6

(* That an arrival was not disputed is no news.                            *)
LEMMA UndisputedAlike ==
  ASSUME NEW c, Good(c)
  PROVE  LET b == [c EXCEPT !.disputed = FALSE]
         IN /\ Good(b) /\ Alike(c, b) /\ b.batch = c.batch /\ b.arrival = c.arrival
            /\ SameControl(c, b)
<1>. DEFINE b == [c EXCEPT !.disputed = FALSE]
<1>1. Shape(c) /\ Able(c)
  BY DEF Good, Able
<1>2. Shape(b) /\ Alike(c, b) /\ b.batch = c.batch /\ b.arrival = c.arrival /\ SameControl(c, b)
  BY <1>1 DEF Shape, Fields, Alike, SameControl
<1>3. ControlType(b)
  BY <1>1 DEF Able, Shape, Fields, ControlType
<1>4. Steers(c, b)
  BY <1>1 DEF Shape, Fields, Steers, SameMap, SameView, SameNews, SameWire, SameHold
<1>. HIDE DEF b
<1>5. b.enabled => c.enabled /\ b.mode = c.mode
  BY <1>2 DEF Alike
<1>6. Good(b)
  BY <1>2, <1>3, <1>4, <1>5, SteersGood
<1>. QED  BY <1>2, <1>6 DEF b

(* Charts, and what they expect, are alike.                                *)
LEMMA AlikeCharts ==
  ASSUME NEW c, NEW b, Alike(c, b)
  PROVE  /\ Charts(c) => Charts(b)
         /\ Expects(c) => Expects(b)
         /\ HoldsRooms(b) <=> HoldsRooms(c)
         /\ Filed(b) = Filed(c) /\ Remain(b) = Remain(c)
         /\ Loose(c) => Loose(b)
<1>1. HoldsRooms(b) <=> HoldsRooms(c)
  BY DEF Alike, HoldsRooms
<1>. QED  BY <1>1, ChartsSame, FiledFacts DEF Alike, Expects, InArea, Remain, Loose

(* Completing the arrival that was expected is as sure: the room is filed, *)
(* and the run decides, or waits for the rest of its speedwalk.            *)
LEMMA CompleteTrue ==
  ASSUME NEW f \in Seq(Frames), NEW p, NEW c, Good(c), Control(c), Ordered(c), Charts(c), c.online,
         c.enabled, c.state = "stepping", c.active, Expects(c),
         c.batch => HoldsRooms(c) /\ c.pending # <<>>, c.contents.place = c.info,
         NEW z, Awaited(c, f, p, z)
  PROVE  Result(c, CompleteArrival(c), f, p) /\ Follows(c, CompleteArrival(c), f, p)
<1>. DEFINE b == [c EXCEPT !.disputed = FALSE]
            a == Arrive(b)
            d == CompleteArrival(c)
<1>1. d = IF c.batch /\ (~a.active \/ a.disputed) THEN Stop(a, FALSE)
          ELSE IF c.batch /\ a.pending # <<>> THEN AwaitArrival(a, "move")
          ELSE ProcessRoom(Idle(a))
  BY DEF CompleteArrival, Idle
<1>2. Able(c) /\ Shape(c) /\ c.waits = 0 /\ ~c.farm_timer
  <2>1. c.waits \in 0 .. 3 /\ ~(c.waits > 0)
    BY DEF Control, Waiting
  <2>2. ~c.farm_timer
    BY DEF Control, Farming, Ordered
  <2>. QED  BY <2>1, <2>2 DEF Good, Able
<1>3. /\ Good(b) /\ Alike(c, b) /\ b.batch = c.batch /\ b.arrival = c.arrival
      /\ SameControl(c, b)
  BY UndisputedAlike
<1>. HIDE DEF b
<1>14. b.view = c.view /\ b.contents = c.contents
  BY <1>2 DEF Shape, Fields, b
<1>4. Charts(b) /\ Expects(b) /\ (HoldsRooms(b) <=> HoldsRooms(c)) /\ Filed(b) = Filed(c)
      /\ Remain(b) = Remain(c)
  BY <1>3, AlikeCharts
<1>5. Arrives(b, a) /\ Good(a)
  BY <1>3, <1>4, ArriveTrue, ArriveGood
<1>6. SameControl(b, a)
  BY <1>3, ArriveSame DEF SameControl
<1>7. Surveys(c, a)
  <2>1. Surveys(b, a)
    BY <1>3, <1>4, <1>5, ArrivesSurveys DEF Good
  <2>. QED  BY <1>4, <2>1 DEF Surveys
<1>. HIDE DEF a, d
<1>8. /\ Charts(a) /\ HoldsRooms(a) /\ a.filed[a.map.pos] = c.info /\ a.pending = Remain(c)
      /\ a.info = c.info /\ a.wire = c.wire /\ (HoldsRooms(c) => ~a.disputed)
  <2>1. b.info = c.info /\ b.wire = c.wire
    BY <1>3 DEF Alike
  <2>. QED  BY <1>4, <1>5, <2>1 DEF Arrives, Remain, Rests, SameNews, SameWire
<1>9. /\ a.active /\ a.held /\ a.enabled /\ a.mode = "explore" /\ ~a.farm /\ a.waits = 0 /\ a.online
      /\ ~a.farm_timer
  <2>1. /\ a.active = c.active /\ a.held = c.held /\ a.enabled = c.enabled /\ a.mode = c.mode
        /\ a.farm = c.farm /\ a.online = c.online
    BY <1>3, <1>5 DEF Arrives, Rests, SameHold, Alike
  <2>2. a.waits = c.waits /\ a.farm_timer = c.farm_timer
    BY <1>3, <1>6 DEF SameControl
  <2>3. c.held /\ c.mode = "explore" /\ ~c.farm
    BY DEF Ordered
  <2>. QED  BY <1>2, <2>1, <2>2, <2>3
<1>10. a.batch = c.batch /\ a.arrival = c.arrival
  BY <1>3, <1>5 DEF Arrives, Rests
<1>11. /\ z \in Fixes /\ z.mode = "live" /\ z.at = c.info /\ z.rest = Remain(c)
       /\ z.long <=> (c.batch /\ Remain(c) # <<>>)
       /\ Ahead(f, c.wire, p, z) /\ c.info \in Places \ {Lobby}
  BY <1>2 DEF Awaited, Expects, InArea, Able, Told
<1>15. Grows(c, a) /\ a.view = c.view /\ a.contents = c.contents
  BY <1>3, <1>5, <1>14 DEF Arrives, Grows, Alike, Rests, SameView, SameNews
<1>16. c.arrival \in {"refresh", "move"} /\ ~Loose(c) /\ (c.batch => c.arrival = "move")
  BY <1>2 DEF Control, Waiting, Able, ControlType, Ordered, Loose
<1>12. CASE c.batch /\ Remain(c) # <<>>
  <2>1. d = AwaitArrival(a, "move")
    BY <1>1, <1>8, <1>9, <1>12
  <2>2. Shape(a)
    BY <1>5 DEF Good, Able
  <2>3. /\ d.map = a.map /\ d.filed = a.filed /\ d.info = a.info /\ d.wire = a.wire
        /\ d.active = a.active /\ d.held = a.held /\ d.enabled = a.enabled /\ d.mode = a.mode
        /\ d.farm = a.farm /\ d.batch = a.batch /\ d.pending = a.pending /\ d.arrival = "move"
        /\ d.state = "stepping" /\ d.view = a.view
    BY <2>1, <2>2 DEF AwaitArrival, Shape, Fields
  <2>4. HoldsRooms(d)
    BY <1>8, <2>3 DEF HoldsRooms
  <2>5. d.batch
    BY <1>10, <1>12, <2>3
  <2>6. Ordered(d)
    BY <1>9, <2>3, <2>5 DEF Ordered
  <2>7. Fits(d, z)
    BY <1>8, <1>11, <1>12, <2>3, <2>4, <2>5 DEF Fits
  <2>8. Charts(d) /\ Filed(d) = Filed(a)
    BY <1>8, <2>3, ChartsSame, FiledFacts
  <2>9. Sure(d, f, p)
    BY <1>8, <1>11, <2>3, <2>6, <2>7, <2>8 DEF Sure, Tracked
  <2>10. Surveys(c, d)
    BY <1>7, <2>8 DEF Surveys
  <2>11. Present(c) => Present(d)
    BY <1>12, <1>15, <1>16, <2>3 DEF Present, Grows
  <2>12. Halts(c, d)
    BY <1>8, <1>16, <2>3, <2>11 DEF Halts
  <2>. QED  BY <1>8, <2>3, <2>9, <2>10, <2>12 DEF Result, Follows, d
<1>13. CASE ~(c.batch /\ Remain(c) # <<>>)
  <2>1. Remain(c) = <<>>
    <3>1. ~c.batch => ~(Len(c.pending) > 1)
      BY DEF Ordered
    <3>. QED  BY <1>2, <1>13, <3>1, RemainOfShort
  <2>. DEFINE e == Idle(a)
  <2>2. d = ProcessRoom(e)
    BY <1>1, <1>8, <1>9, <2>1
  <2>3. Ordered(a)
    <3>1. a.batch => a.arrival = "move"
      BY <1>10 DEF Ordered
    <3>2. a.pending = <<>> /\ ~(Len(a.pending) > 1) /\ a.arrival # "setup"
      BY <1>8, <1>10, <2>1 DEF Ordered
    <3>. QED  BY <1>9, <3>1, <3>2 DEF Ordered
  <2>4. Deciding(e) /\ Alike(a, e) /\ ~e.batch /\ e.view = a.view /\ e.contents = a.contents
    BY <1>5, <1>8, <1>9, <2>1, <2>3, IdleDecides
  <2>. HIDE DEF e
  <2>5. Charts(e) /\ (HoldsRooms(e) <=> HoldsRooms(a)) /\ Filed(e) = Filed(a)
    BY <1>8, <2>4, AlikeCharts
  <2>6. e.map = a.map /\ e.filed = a.filed /\ e.info = c.info /\ e.wire = c.wire /\ e.pending = <<>>
    BY <1>8, <2>1, <2>4 DEF Alike
  <2>7. Fits(e, z)
    BY <1>8, <1>11, <1>13, <2>1, <2>4, <2>6 DEF Fits
  <2>8. Tracked(e, f, p, z) /\ Rested(z)
    BY <1>11, <2>1, <2>6, <2>7 DEF Tracked, Rested
  <2>9. Result(e, d, f, p) /\ (Filed(d) = {} \/ Filed(d) = Filed(e))
    BY <1>11, <2>2, <2>4, <2>5, <2>8, DecisionResult
  <2>10. Surveys(c, e)
    BY <1>7, <2>5 DEF Surveys
  <2>11. Placed(e) /\ e.active
    BY <1>8, <1>9, <1>15, <2>4, <2>5, <2>6 DEF Placed, Charts, Alike
  <2>12. Present(c) => Looking(e)
    <3>1. SUFFICES ASSUME Present(c), Key(e) = e.view.key PROVE e.view.of = e.contents.place
      BY <2>11 DEF Looking
    <3>2. e.view.key.kind = "xyz" /\ e.view.key.is = e.map.pos
      BY <2>11, <3>1 DEF Key
    <3>3. c.arrival = "move" /\ e.map.pos \in Visited(c.map) /\ c.filed[e.map.pos] = c.view.of
      BY <1>15, <1>16, <2>4, <3>1, <3>2 DEF Present
    <3>4. e.filed[e.map.pos] = c.view.of
      BY <1>15, <2>6, <3>3 DEF Grows
    <3>. QED  BY <1>15, <2>4, <2>11, <3>4 DEF Placed
  <2>13. Decides(c, e, f, p)
    BY <1>11, <1>15, <1>16, <2>4, <2>6, <2>8, <2>12 DEF Decides
  <2>14. Follows(c, d, f, p)
    BY <2>2, <2>13 DEF Follows
  <2>. QED  BY <2>6, <2>9, <2>10, <2>14, ResultAfter DEF d
<1>. QED  BY <1>12, <1>13

(* What is said of a client's order and of a fix depends on few fields.    *)
LEMMA AlikeFits ==
  ASSUME NEW c, NEW d, Alike(c, d), d.arrival = c.arrival, d.batch = c.batch
  PROVE  /\ Ordered(c) => Ordered(d)
         /\ \A x : Fits(c, x) => Fits(d, x)
<1>1. HoldsRooms(d) <=> HoldsRooms(c)
  BY DEF Alike, HoldsRooms
<1>2. Ordered(c) => Ordered(d)
  BY <1>1 DEF Alike, Ordered
<1>4. ASSUME NEW x, Fits(c, x) PROVE Fits(d, x)
  <2>1. Lags(c, x) => Lags(d, x)
    BY <1>1 DEF Alike, Lags
  <2>. QED  BY <1>1, <1>4, <2>1 DEF Alike, Fits
<1>. QED  BY <1>2, <1>4

(* The contents of a room are noted; the rest is as it was.                *)
LEMMA NewsAlike ==
  ASSUME NEW c0, Good(c0), Control(c0), NEW frame \in Contents
  PROVE  LET c == [c0 EXCEPT !.contents = frame]
         IN /\ Good(c) /\ Control(c) /\ Alike(c0, c) /\ c.contents = frame
            /\ c.arrival = c0.arrival /\ c.batch = c0.batch
<1>. DEFINE c == [c0 EXCEPT !.contents = frame]
<1>1. Shape(c0) /\ Able(c0)
  BY DEF Good, Able
<1>2. /\ Shape(c) /\ Alike(c0, c) /\ c.batch = c0.batch /\ c.arrival = c0.arrival
      /\ SameControl(c0, c) /\ c.contents = frame
  BY <1>1 DEF Shape, Fields, Alike, SameControl
<1>3. ControlType(c)
  BY <1>1 DEF Able, Shape, Fields, ControlType
<1>4. SameMap(c0, c) /\ SameView(c0, c) /\ SameWire(c0, c) /\ SameHold(c0, c)
  BY <1>1 DEF Shape, Fields, SameMap, SameView, SameWire, SameHold
<1>. HIDE DEF c
<1>5. Told(c)
  BY <1>1, <1>2 DEF Able, Told, Alike
<1>6. c.wire = c0.wire
  BY <1>4 DEF SameWire
<1>7. Mapped(c) /\ Viewed(c) /\ Sends(c) /\ Holding(c)
  BY <1>1, <1>4, <1>6, SameParts DEF Able
<1>8. Beside(c)
  BY <1>2 DEF Good, Beside, Alike, InFlight
<1>9. Good(c)
  BY <1>2, <1>3, <1>5, <1>7, <1>8 DEF Good, Able
<1>10. Control(c)
  BY <1>2, SameControlKeeps
<1>. QED  BY <1>2, <1>9, <1>10 DEF c

(* An entry into a room of the sea is the move the fix was about to make.  *)
LEMMA EntryMoves ==
  ASSUME NEW c, Ordered(c), InArea(c.info), NEW frame, frame.kind = "contents", frame.entry,
         frame.place = c.info, NEW x \in Fixes, Fits(c, x), NEW z, Hearing(frame, x, z)
  PROVE  /\ x.mode = "live" /\ x.rest # <<>> /\ Head(x.rest) \in ExitsOf(x.at)
         /\ c.info = Towards(x.at, Head(x.rest)) /\ z = Moved(x)
         /\ \/ x.rest = c.pending
            \/ c.pending = <<>> /\ Len(x.rest) = 1 /\ ~c.batch /\ Lags(c, x)
<1>1. x.mode = "live" /\ Hears(frame, x, z)
  BY DEF Hearing, Fits, InArea
<1>2. /\ x.rest # <<>> /\ Head(x.rest) \in ExitsOf(x.at)
      /\ c.info = Towards(x.at, Head(x.rest)) /\ z = Moved(x)
  BY <1>1 DEF Hears
<1>. QED  BY <1>1, <1>2 DEF Fits

(* The contents of the present room, asked for: the fix stays.             *)
LEMMA RefreshStays ==
  ASSUME NEW frame, frame.kind = "contents", ~frame.entry, NEW x \in Fixes, NEW z,
         Hearing(frame, x, z), x.mode # "stuck"
  PROVE  /\ z = x /\ x.mode # "leaving" /\ (x.mode = "live" => frame.place = x.at)
         /\ (x.mode = "live" /\ x.asked => x.rest = <<>>)
BY DEF Hearing, Hears

(* The frame at the head is heard, and the rest lies ahead.                *)
Told1(c, frame, f, p) ==
  \E x, z \in Fixes : Fits(c, x) /\ Hearing(frame, x, z) /\ Ahead(f, c.wire, p, z)

(* A held move is settled by the entry it led to.                          *)
LEMMA HeldResult ==
  ASSUME NEW f \in Seq(Frames), NEW p, NEW c, Good(c), Control(c), Ordered(c), Charts(c),
         NEW frame, frame.kind = "contents", frame.entry, frame.place = c.info,
         ~Loose(c) => Told1(c, frame, f, p), ~c.enabled, InFlight(c)
  PROVE  LET b == [c EXCEPT !.hold_timer = FALSE]
         IN Result(c, Arrive(b), f, p) /\ Halts(c, Arrive(b))
<1>. DEFINE b == [c EXCEPT !.hold_timer = FALSE]
            d == Arrive(b)
<1>1. Able(c) /\ Shape(c) /\ ~c.active /\ ~c.batch /\ c.arrival = "none"
      /\ c.state = "idle"
  BY DEF Good, Able, Control, Waiting, InFlight
<1>2. /\ Shape(b) /\ Alike(c, b) /\ b.batch = c.batch /\ b.arrival = c.arrival
      /\ Steers(c, b) /\ b.state = c.state
  BY <1>1 DEF Shape, Fields, Alike, Steers, SameMap, SameView, SameNews, SameWire, SameHold
<1>3. ControlType(b)
  BY <1>1 DEF Able, Shape, Fields, ControlType
<1>. HIDE DEF b
<1>4. Good(b)
  <2>1. b.enabled => c.enabled /\ b.mode = c.mode
    BY <1>2 DEF Alike
  <2>. QED  BY <1>2, <1>3, <2>1, SteersGood
<1>5. Ordered(b) /\ (HoldsRooms(b) <=> HoldsRooms(c)) /\ Charts(b)
  BY <1>2, AlikeFits, AlikeCharts
<1>6. HoldsRooms(c) /\ c.held /\ Len(c.pending) = 1 /\ c.pending \in Seq(Dirs) /\ c.pending # <<>>
  BY <1>1 DEF Able, Holding, InFlight, Mapped
<1>9. ~Loose(c)
  BY <1>6 DEF Loose
<1>7. CASE ~InArea(c.info)
  <2>1. ~InArea(b.info)
    BY <1>2, <1>7 DEF Alike
  <2>2. d = Discard(b)
    BY <2>1 DEF Arrive
  <2>3. /\ d.map = NewMap /\ d.info = b.info /\ d.pending = <<>> /\ ~d.active /\ ~d.held
        /\ d.farm = b.farm /\ d.arrival = b.arrival /\ d.batch = b.batch /\ d.enabled = b.enabled
        /\ d.mode = b.mode /\ d.state = b.state /\ d.wire = b.wire
    BY <1>2, <2>2 DEF Discard, Blank, Shape, Fields
  <2>. HIDE DEF d
  <2>4. Loose(d)
    BY <2>3, EmptiedLoose
  <2>5. ~(Len(d.pending) > 1)
    BY <2>3
  <2>6. Ordered(d)
    BY <1>1, <1>2, <1>5, <2>3, <2>4, <2>5 DEF Ordered, Loose, Alike
  <2>7. Halts(c, d)
    BY <1>1, <1>2, <1>9, <2>3, QuietHalts DEF Alike
  <2>. QED  BY <1>2, <2>3, <2>4, <2>6, <2>7, LooseResult DEF d, b, Alike
<1>8. CASE InArea(c.info)
  <2>1. ~Loose(c)
    BY <1>6 DEF Loose
  <2>2. PICK x, z \in Fixes : Fits(c, x) /\ Hearing(frame, x, z) /\ Ahead(f, c.wire, p, z)
    BY <2>1 DEF Told1
  <2>3. /\ x.mode = "live" /\ x.rest # <<>> /\ Head(x.rest) \in ExitsOf(x.at)
        /\ c.info = Towards(x.at, Head(x.rest)) /\ z = Moved(x) /\ x.rest = c.pending
    BY <1>6, <1>8, <2>2, EntryMoves
  <2>4. Tail(c.pending) = <<>>
    BY <1>6, TailOfOne
  <2>5. /\ z.mode = "live" /\ z.at = c.info /\ z.rest = <<>> /\ ~z.long
    BY <2>2, <2>3, <2>4, MovedFix
  <2>6. x.at = c.filed[c.map.pos]
    BY <1>6, <2>2, <2>3 DEF Fits
  <2>7. Expects(c)
    BY <1>6, <1>8, <2>3, <2>6 DEF Expects
  <2>8. Expects(b)
    BY <1>2, <2>7, AlikeCharts
  <2>9. Arrives(b, d)
    BY <1>4, <1>5, <2>8, ArriveTrue
  <2>. HIDE DEF d
  <2>10. Able(b) /\ b.pending = c.pending /\ b.info = c.info
    BY <1>2, <1>4 DEF Good, Alike
  <2>11. /\ Charts(d) /\ HoldsRooms(d) /\ d.filed[d.map.pos] = c.info /\ d.pending = <<>>
         /\ d.farm = c.farm /\ d.info = c.info /\ d.wire = c.wire /\ d.active = c.active
         /\ d.held = c.held /\ d.enabled = c.enabled /\ d.arrival = c.arrival
         /\ (d.batch <=> c.batch) /\ d.state = c.state
    BY <1>2, <1>6, <2>4, <2>9, <2>10 DEF Arrives, Alike, Rests, SameHold, SameNews, SameWire
  <2>12. c.info \in Places \ {Lobby}
    BY <1>1, <1>8 DEF Able, Told, InArea
  <2>13. Ordered(d)
    <3>1. ~(Len(d.pending) > 1)
      BY <2>11
    <3>. QED  BY <1>1, <1>6, <2>11, <3>1 DEF Ordered
  <2>14. Fits(d, z)
    BY <1>1, <2>5, <2>11, <2>12 DEF Fits
  <2>15. Surveys(b, d)
    BY <1>5, <2>8, <2>9, <2>10, ArrivesSurveys
  <2>16. Filed(b) = Filed(c)
    BY <1>2, AlikeCharts
  <2>17. Surveys(c, d)
    BY <2>15, <2>16 DEF Surveys
  <2>18. Sure(d, f, p)
    BY <2>2, <2>11, <2>13, <2>14 DEF Sure, Tracked
  <2>19. Halts(c, d)
    BY <1>1, <1>9, <2>11, QuietHalts
  <2>. QED  BY <2>11, <2>17, <2>18, <2>19 DEF Result, d, b
<1>. QED  BY <1>7, <1>8

(* Resetting a map, or having none, leaves a client with no rooms.         *)
LEMMA ResetEmpties ==
  ASSUME NEW c, Good(c), Ordered(c)
  PROVE  LET d == IF HoldsRooms(c) THEN ResetMap(c) ELSE c
         IN /\ Good(d) /\ ~HoldsRooms(d) /\ ~d.farm /\ d.info = c.info /\ d.enabled = c.enabled
            /\ d.mode = c.mode /\ d.state = c.state /\ d.arrival = c.arrival
            /\ (d.active <=> c.active) /\ (d.batch <=> c.batch) /\ (d.held <=> c.held)
            /\ d.pending = <<>> /\ d.wire = c.wire
<1>. DEFINE d == IF HoldsRooms(c) THEN ResetMap(c) ELSE c
<1>1. Able(c) /\ Shape(c)
  BY DEF Good, Able
<1>2. CASE ~HoldsRooms(c)
  <2>1. d = c
    BY <1>2
  <2>2. c.pending = <<>>
    BY <1>1, <1>2 DEF Able, Holding
  <2>. QED  BY <1>2, <2>1, <2>2 DEF Ordered
<1>3. CASE HoldsRooms(c)
  <2>1. c.held
    BY <1>3 DEF Ordered
  <2>2. d = [Blank(c) EXCEPT !.unanchored = TRUE]
    BY <1>3, <2>1 DEF ResetMap
  <2>3. /\ d.map = NewMap /\ d.farm = c.farm /\ d.info = c.info /\ d.enabled = c.enabled
        /\ d.mode = c.mode /\ d.state = c.state /\ d.arrival = c.arrival
        /\ d.active = c.active /\ d.batch = c.batch /\ d.pending = <<>> /\ d.held = c.held
        /\ d.wire = c.wire
    <3>1. d.map = NewMap /\ d.farm = c.farm /\ d.info = c.info /\ d.enabled = c.enabled
      BY <1>1, <2>2 DEF Blank, Shape, Fields
    <3>2. d.mode = c.mode /\ d.state = c.state /\ d.arrival = c.arrival
      BY <1>1, <2>2 DEF Blank, Shape, Fields
    <3>3. d.active = c.active /\ d.batch = c.batch /\ d.pending = <<>> /\ d.held = c.held
      BY <1>1, <2>2 DEF Blank, Shape, Fields
    <3>4. d.wire = c.wire
      BY <1>1, <2>2 DEF Blank, Shape, Fields
    <3>. QED  BY <3>1, <3>2, <3>3, <3>4
  <2>4. Good(d)
    BY <1>1, <1>3, ResetMapAble DEF Good
  <2>. HIDE DEF d
  <2>5. ~HoldsRooms(d)
    BY <2>3 DEF HoldsRooms, NewMap, Visited
  <2>6. ~d.farm
    BY <2>3 DEF Ordered
  <2>. QED  BY <2>3, <2>4, <2>5, <2>6 DEF d
<1>. QED  BY <1>2, <1>3

(* An entry nobody asked for, outside a held move: the map is gone.        *)
LEMMA UnaskedLoose ==
  ASSUME NEW c, Good(c), Control(c), Ordered(c), ~(~c.enabled /\ InFlight(c))
  PROVE  LET d == OnUnaskedEntry(c).client
         IN /\ Ordered(d) /\ Loose(d) /\ d.info = c.info /\ (~OnUnaskedEntry(c).handled => ~d.enabled)
            /\ Halts(c, d)
<1>. DEFINE d == IF HoldsRooms(c) THEN ResetMap(c) ELSE c
<1>1. /\ Good(d) /\ ~HoldsRooms(d) /\ ~d.farm /\ d.info = c.info /\ d.enabled = c.enabled
      /\ d.mode = c.mode /\ d.state = c.state /\ d.arrival = c.arrival
      /\ (d.active <=> c.active) /\ (d.batch <=> c.batch) /\ (d.held <=> c.held) /\ d.pending = <<>>
      /\ d.wire = c.wire
  BY ResetEmpties
<1>2. c.enabled => c.mode = "explore"
  BY DEF Ordered
<1>3. CASE c.enabled
  <2>1. OnUnaskedEntry(c) = [handled |-> TRUE, client |-> Stop(d, FALSE)]
    BY <1>2, <1>3 DEF OnUnaskedEntry
  <2>. HIDE DEF d
  <2>2. /\ Settles(d, Stop(d, FALSE)) /\ ~Stop(d, FALSE).active
        /\ Loose(Stop(d, FALSE)) \/ (~d.batch /\ Retains(d, Stop(d, FALSE)))
    BY <1>1, StopSettles DEF Good
  <2>3. Loose(Stop(d, FALSE))
    BY <1>1, <2>2 DEF Loose, Retains, HoldsRooms
  <2>4. Ordered(Stop(d, FALSE)) /\ Stop(d, FALSE).info = c.info
    BY <1>1, <2>2 DEF Settles
  <2>5. OnUnaskedEntry(c).handled = TRUE /\ OnUnaskedEntry(c).client = Stop(d, FALSE)
    BY <2>1
  <2>6. Halts(c, Stop(d, FALSE))
    BY <1>1, <2>3, StoppedHalts DEF Good, Able
  <2>. QED  BY <2>3, <2>4, <2>5, <2>6
<1>4. CASE ~c.enabled
  <2>1. OnUnaskedEntry(c) = [handled |-> FALSE, client |-> d]
    BY <1>4 DEF OnUnaskedEntry
  <2>. HIDE DEF d
  <2>2. ~c.active /\ ~d.active
    BY <1>1, <1>4 DEF Ordered
  <2>3. Loose(d)
    BY <1>1, <2>2 DEF Loose
  <2>4. Ordered(d)
    <3>1. ~(Len(d.pending) > 1)
      BY <1>1
    <3>. QED  BY <1>1, <1>4, <2>2, <3>1 DEF Ordered
  <2>5. d.arrival = "none" /\ d.state = "idle"
    BY <1>1, <1>4 DEF Control, Waiting
  <2>6. Halts(c, d)
    BY <1>1, <2>3, <2>5, QuietHalts
  <2>. QED  BY <1>1, <1>4, <2>1, <2>3, <2>4, <2>6
<1>. QED  BY <1>3, <1>4

(* The entry a step asked for.                                             *)
LEMMA AskedEntryResult ==
  ASSUME NEW f \in Seq(Frames), NEW p, NEW c, Good(c), Control(c), Ordered(c), Charts(c), c.online,
         NEW frame, c.contents = frame, frame.kind = "contents", frame.entry, frame.place = c.info,
         ~Loose(c) => Told1(c, frame, f, p), c.enabled, c.state = "stepping",
         ~(c.arrival = "refresh" /\ HoldsRooms(c))
  PROVE  Result(c, CompleteArrival(c), f, p) /\ Follows(c, CompleteArrival(c), f, p)
<1>1. CASE ~c.active \/ ~InArea(c.info)
  BY <1>1, CompleteLoose, LooseResult
<1>2. CASE c.active /\ InArea(c.info)
  <2>1. Able(c) /\ c.arrival # "none" /\ c.arrival # "setup" /\ c.held
    BY <1>2 DEF Good, Able, Holding, Control, Waiting, Ordered
  <2>2. HoldsRooms(c) => c.arrival = "move"
    BY <2>1 DEF Able, ControlType
  <2>3. PICK x, z \in Fixes : Fits(c, x) /\ Hearing(frame, x, z) /\ Ahead(f, c.wire, p, z)
    BY <1>2 DEF Told1, Loose
  <2>4. /\ x.mode = "live" /\ x.rest # <<>> /\ Head(x.rest) \in ExitsOf(x.at)
        /\ c.info = Towards(x.at, Head(x.rest)) /\ z = Moved(x)
        /\ \/ x.rest = c.pending
           \/ c.pending = <<>> /\ Len(x.rest) = 1 /\ ~c.batch /\ Lags(c, x)
    BY <1>2, <2>3, EntryMoves
  <2>5. HoldsRooms(c) => x.rest = c.pending
    BY <2>1, <2>2, <2>4 DEF Lags
  <2>6. ~HoldsRooms(c) => c.pending = <<>>
    BY <2>1 DEF Able, Holding
  <2>7. c.batch => HoldsRooms(c) /\ c.pending # <<>>
    BY <2>4, <2>6
  <2>8. HoldsRooms(c) => x.at = c.filed[c.map.pos]
    BY <2>3, <2>4 DEF Fits
  <2>9. Expects(c)
    BY <1>2, <2>4, <2>5, <2>8 DEF Expects
  <2>10. /\ z.mode = "live" /\ z.at = c.info /\ z.rest = Tail(x.rest)
         /\ z.long <=> (x.long /\ Tail(x.rest) # <<>>)
    BY <2>3, <2>4, MovedFix
  <2>11. x.rest \in Seq(Dirs)
    BY <2>3, FixType
  <2>12. Tail(x.rest) = Remain(c)
    <3>1. CASE x.rest = c.pending
      BY <2>4, <3>1 DEF Remain
    <3>2. CASE c.pending = <<>> /\ Len(x.rest) = 1
      <4>1. Tail(x.rest) = <<>>
        BY <2>11, <3>2, TailOfOne
      <4>. QED  BY <3>2, <4>1 DEF Remain
    <3>. QED  BY <2>4, <3>1, <3>2
  <2>13. x.long <=> c.batch
    BY <2>3, <2>4 DEF Fits
  <2>14. Awaited(c, f, p, z)
    BY <2>3, <2>10, <2>12, <2>13 DEF Awaited
  <2>. QED  BY <1>2, <2>7, <2>9, <2>14, CompleteTrue
<1>. QED  BY <1>1, <1>2

(* Looked at again, or as it stands: the room is decided in.               *)
LEMMA LookedResult ==
  ASSUME NEW f \in Seq(Frames), NEW p, NEW c, Good(c), Control(c), Ordered(c), Charts(c), c.online,
         c.state = "fighting",
         ~Loose(c) => \E x \in Fixes : Tracked(c, f, p, x) /\ x.mode # "leaving",
         NEW e, Shape(e), ControlType(e), Viewed(e), Alike(c, e), SameNews(c, e),
         SameMap(c, e), SameWire(c, e), e.batch = c.batch, e.arrival = c.arrival, e.waits = 0,
         e.farm_timer = c.farm_timer
  PROVE  /\ Result(c, ProcessRoom(e), f, p)
         /\ (Present(c) => e.view.of = c.contents.place) => Follows(c, ProcessRoom(e), f, p)
<1>1. c.enabled /\ c.arrival = "none" /\ ~c.batch /\ ~c.farm_timer
  BY FightingReady
<1>2. Able(c) /\ c.mode = "explore" /\ (c.active <=> c.held)
  BY <1>1 DEF Good, Ordered
<1>3. c.pending = <<>>
  <2>1. CASE c.active
    BY <1>1, <2>1 DEF Ordered
  <2>2. CASE ~c.active
    BY <1>2, <2>2 DEF Able, Holding, InFlight
  <2>. QED  BY <2>1, <2>2
<1>4. Good(e)
  <2>1. SameHold(c, e) /\ (e.enabled => c.enabled /\ e.mode = c.mode)
    BY DEF Alike, SameHold
  <2>. QED  BY <2>1, LooksGood
<1>5. Ready(e)
  BY <1>1 DEF Ready, Alike
<1>6. Deciding(e)
  BY <1>1, <1>3, <1>4, <1>5, AlikeDecides
<1>7. Charts(e) /\ Filed(e) = Filed(c) /\ (Loose(c) => Loose(e))
  BY AlikeCharts
<1>8. ~Loose(e) => \E x \in Fixes : Tracked(e, f, p, x) /\ Rested(x)
  <2>1. SUFFICES ASSUME ~Loose(e)
                 PROVE  \E x \in Fixes : Tracked(e, f, p, x) /\ Rested(x)
    OBVIOUS
  <2>2. PICK x \in Fixes : Tracked(c, f, p, x) /\ x.mode # "leaving"
    BY <1>7, <2>1
  <2>3. Fits(c, x) /\ Fits(e, x)
    BY <2>2, AlikeFits DEF Tracked
  <2>4. Tracked(e, f, p, x)
    BY <2>2, <2>3 DEF Tracked, Alike
  <2>5. x.mode = "live" => x.rest = <<>>
    BY <1>1, <1>3, <2>3 DEF Fits, Lags
  <2>. QED  BY <2>2, <2>4, <2>5 DEF Rested
<1>9. Result(e, ProcessRoom(e), f, p)
  BY <1>6, <1>7, <1>8, DecisionResult
<1>10. ASSUME Present(c) => e.view.of = c.contents.place PROVE Decides(c, e, f, p)
  <2>1. e.wire = c.wire /\ e.contents = c.contents /\ e.map = c.map /\ e.filed = c.filed
        /\ e.active = c.active
    BY DEF Alike, SameNews
  <2>2. Present(c) => Looking(e)
    BY <1>10, <2>1 DEF Present, Looking, Placed
  <2>. QED  BY <1>6, <1>7, <1>8, <2>1, <2>2 DEF Decides
<1>. QED  BY <1>7, <1>9, <1>10 DEF Result, Surveys, Alike, Follows

(* The contents of the present room, when no entry.                        *)
LEMMA RefreshResult ==
  ASSUME NEW f \in Seq(Frames), NEW p, NEW c, Good(c), Control(c), Ordered(c), Charts(c), c.online,
         NEW frame, c.contents = frame, frame.kind = "contents", ~frame.entry, frame.place = c.info,
         ~Loose(c) => Told1(c, frame, f, p)
  PROVE  Result(c, OnAskedContents(c), f, p) /\ Follows(c, OnAskedContents(c), f, p)
<1>1. Able(c) /\ Shape(c)
  BY DEF Good, Able
<1>2. ~Loose(c) => \E x \in Fixes : /\ Tracked(c, f, p, x) /\ x.mode # "leaving"
                                    /\ x.mode = "live" => c.info = x.at
                                    /\ x.mode = "live" /\ x.asked => x.rest = <<>>
  <2>1. SUFFICES ASSUME ~Loose(c)
                 PROVE  \E x \in Fixes : /\ Tracked(c, f, p, x) /\ x.mode # "leaving"
                                         /\ x.mode = "live" => c.info = x.at
                                         /\ x.mode = "live" /\ x.asked => x.rest = <<>>
    OBVIOUS
  <2>2. PICK x, z \in Fixes : Fits(c, x) /\ Hearing(frame, x, z) /\ Ahead(f, c.wire, p, z)
    BY <2>1 DEF Told1
  <2>3. x.mode # "stuck"
    BY <2>2 DEF Fits
  <2>4. z = x /\ x.mode # "leaving" /\ (x.mode = "live" => frame.place = x.at)
        /\ (x.mode = "live" /\ x.asked => x.rest = <<>>)
    BY <2>2, <2>3, RefreshStays
  <2>. QED  BY <2>2, <2>4 DEF Tracked
<1>3. CASE OnAskedContents(c) = c
  <2>1. Sure(c, f, p)
    BY <1>2 DEF Sure
  <2>. QED  BY <1>3, <2>1 DEF Result, Surveys, Follows, Halts
<1>4. CASE c.enabled /\ c.waits > 0
  <2>. DEFINE v == SeenIn(c, c.view.key)
              e == [c EXCEPT !.waits = 0, !.view = v, !.target = NoMonster, !.state = "idle"]
  <2>1. OnAskedContents(c) = ProcessRoom(e)
    BY <1>4 DEF OnAskedContents, ReseedAndDecide
  <2>2. c.state = "fighting"
    BY <1>4 DEF Control, Waiting
  <2>. HIDE DEF v
  <2>3. /\ Shape(e) /\ Alike(c, e) /\ e.batch = c.batch /\ e.arrival = c.arrival /\ e.waits = 0
        /\ e.farm_timer = c.farm_timer
    BY <1>1 DEF Shape, Fields, Alike
  <2>4. SameMap(c, e) /\ SameNews(c, e) /\ SameWire(c, e)
    BY <1>1 DEF Shape, Fields, SameMap, SameNews, SameWire
  <2>5. ControlType(e)
    <3>1. /\ e.state = "idle" /\ e.leaving = c.leaving /\ e.unanchored = c.unanchored
          /\ e.hold_timer = c.hold_timer
      BY <1>1 DEF Shape, Fields
    <3>. HIDE DEF e
    <3>. QED  BY <1>1, <2>3, <3>1 DEF Able, ControlType, Alike
  <2>6. e.view = v /\ e.target = NoMonster
    BY <1>1 DEF Shape, Fields
  <2>9. e.view.of = c.contents.place
    BY <2>6 DEF SeenIn, v
  <2>7. Viewed(e)
    BY <1>1, <2>6, SeenInViewed DEF Viewed, v
  <2>. HIDE DEF e
  <2>8. ~Loose(c) => \E x \in Fixes : Tracked(c, f, p, x) /\ x.mode # "leaving"
    BY <1>2
  <2>. QED  BY <2>1, <2>2, <2>3, <2>4, <2>5, <2>7, <2>8, <2>9, LookedResult
<1>5. CASE c.enabled /\ ~(c.waits > 0) /\ c.state = "stepping" /\ c.arrival = "refresh"
  <2>1. OnAskedContents(c) = CompleteArrival(c)
    BY <1>5 DEF OnAskedContents
  <2>2. CASE ~c.active \/ ~InArea(c.info)
    BY <1>5, <2>1, <2>2, CompleteLoose, LooseResult
  <2>3. CASE c.active /\ InArea(c.info)
    <3>1. c.pending = <<>> /\ ~c.batch
      BY <1>5, <2>3 DEF Ordered
    <3>2. PICK x \in Fixes : /\ Tracked(c, f, p, x) /\ x.mode # "leaving"
                             /\ x.mode = "live" => c.info = x.at
                             /\ x.mode = "live" /\ x.asked => x.rest = <<>>
      BY <1>2, <2>3 DEF Loose
    <3>3. x.mode = "live" /\ c.info = x.at
      BY <2>3, <3>2, FixType DEF Tracked, Fits, InArea, Modes
    <3>4. x.rest = <<>>
      <4>1. Lags(c, x) => x.asked
        BY <1>5 DEF Lags
      <4>. QED  BY <3>1, <3>2, <3>3, <4>1 DEF Tracked, Fits
    <3>5. HoldsRooms(c) => c.info = c.filed[c.map.pos]
      BY <3>2, <3>3 DEF Tracked, Fits
    <3>6. Expects(c)
      BY <2>3, <3>1, <3>5 DEF Expects
    <3>7. ~x.long
      BY <3>1, <3>2, <3>3 DEF Tracked, Fits
    <3>8. Awaited(c, f, p, x)
      BY <3>1, <3>2, <3>3, <3>4, <3>7 DEF Awaited, Remain, Tracked
    <3>. QED  BY <1>5, <2>1, <2>3, <3>1, <3>6, <3>8, CompleteTrue
  <2>. QED  BY <2>2, <2>3
<1>6. \/ OnAskedContents(c) = c
      \/ c.enabled /\ c.waits > 0
      \/ c.enabled /\ ~(c.waits > 0) /\ c.state = "stepping" /\ c.arrival = "refresh"
  BY DEF OnAskedContents
<1>. QED  BY <1>3, <1>4, <1>5, <1>6

(* What a contents list does to a client it finds tracked.                 *)
LEMMA ContentsResult ==
  ASSUME NEW f \in Seq(Frames), NEW p, NEW c0, Good(c0), Control(c0), Ordered(c0), Charts(c0),
         c0.online, NEW frame \in Contents, frame.place = c0.info,
         ~Loose(c0) => Told1(c0, frame, f, p)
  PROVE  /\ Result(c0, OnRoomContents(c0, frame), f, p)
         /\ Follows([c0 EXCEPT !.contents = frame], OnRoomContents(c0, frame), f, p)
<1>. DEFINE c == [c0 EXCEPT !.contents = frame]
            ours == c.enabled /\ c.state = "stepping"
                    /\ ~(c.arrival = "refresh" /\ c.mode = "explore" /\ HoldsRooms(c))
            u == OnUnaskedEntry(c)
            d == OnRoomContents(c0, frame)
<1>1. d = IF frame.entry /\ ~ours
          THEN IF u.handled THEN u.client ELSE OnAskedContents(u.client)
          ELSE OnAskedContents(c)
  BY DEF OnRoomContents
<1>2. /\ Good(c) /\ Control(c) /\ Alike(c0, c) /\ c.contents = frame
      /\ c.arrival = c0.arrival /\ c.batch = c0.batch
  BY NewsAlike
<1>. HIDE DEF c
<1>3. /\ Ordered(c) /\ Charts(c) /\ Filed(c) = Filed(c0) /\ (Loose(c0) => Loose(c))
      /\ c.online /\ c.info = c0.info
  BY <1>2, AlikeFits, AlikeCharts DEF Alike
<1>4. ~Loose(c) => Told1(c, frame, f, p)
  <2>1. SUFFICES ASSUME ~Loose(c) PROVE Told1(c, frame, f, p)
    OBVIOUS
  <2>2. PICK x, z \in Fixes : Fits(c0, x) /\ Hearing(frame, x, z) /\ Ahead(f, c0.wire, p, z)
    BY <1>3, <2>1 DEF Told1
  <2>3. Fits(c, x) /\ c.wire = c0.wire
    BY <1>2, <2>2, AlikeFits DEF Alike
  <2>. QED  BY <2>2, <2>3 DEF Told1
<1>5. frame.kind = "contents" /\ frame.place = c.info
  BY <1>3 DEF Contents
<1>. SUFFICES Result(c, d, f, p) /\ Follows(c, d, f, p)
  BY <1>3 DEF Result, Surveys, c
<1>6. CASE ~frame.entry
  BY <1>1, <1>2, <1>3, <1>4, <1>5, <1>6, RefreshResult
<1>7. CASE frame.entry /\ ours
  <2>1. ~(c.waits > 0)
    BY <1>2, <1>7 DEF Control, Waiting
  <2>2. c.arrival # "setup" /\ c.mode = "explore"
    BY <1>3, <1>7 DEF Ordered
  <2>3. d = CompleteArrival(c)
    BY <1>1, <1>2, <1>7, <2>1, <2>2 DEF OnAskedContents
  <2>4. ~(c.arrival = "refresh" /\ HoldsRooms(c))
    BY <1>7, <2>2
  <2>. QED  BY <1>2, <1>3, <1>4, <1>5, <1>7, <2>3, <2>4, AskedEntryResult
<1>8. CASE frame.entry /\ ~ours /\ ~c.enabled /\ InFlight(c)
  <2>1. u = [handled |-> TRUE, client |-> Arrive([c EXCEPT !.hold_timer = FALSE])]
    BY <1>8 DEF OnUnaskedEntry
  <2>2. u.handled = TRUE /\ u.client = Arrive([c EXCEPT !.hold_timer = FALSE])
    BY <2>1
  <2>. HIDE DEF u
  <2>3. d = Arrive([c EXCEPT !.hold_timer = FALSE])
    BY <1>1, <1>8, <2>2
  <2>. HIDE DEF d
  <2>. QED  BY <1>2, <1>3, <1>4, <1>5, <1>8, <2>3, HeldResult DEF Follows
<1>9. CASE frame.entry /\ ~ours /\ ~(~c.enabled /\ InFlight(c))
  <2>1. /\ Ordered(u.client) /\ Loose(u.client) /\ u.client.info = c.info
        /\ (~u.handled => ~u.client.enabled) /\ Halts(c, u.client)
    BY <1>2, <1>3, <1>9, UnaskedLoose
  <2>. HIDE DEF u, ours
  <2>2. ~u.handled => OnAskedContents(u.client) = u.client
    BY <2>1 DEF OnAskedContents
  <2>3. d = u.client
    BY <1>1, <1>9, <2>2
  <2>. HIDE DEF d
  <2>. QED  BY <2>1, <2>3, LooseResult DEF Follows
<1>. QED  BY <1>6, <1>7, <1>8, <1>9

-----------------------------------------------------------------------------
(* The other frames, and the timers.                                       *)

(* The map kept and a fix still tracked: the survey goes on.               *)
LEMMA TrackedResult ==
  ASSUME NEW c, Charts(c), NEW d, Ordered(d), d.info = c.info, d.map = c.map, d.filed = c.filed,
         NEW f, NEW p, ~Loose(d) => \E x \in Fixes : Tracked(d, f, p, x)
  PROVE  Result(c, d, f, p)
<1>1. Charts(d) /\ Filed(d) = Filed(c)
  BY ChartsSame, FiledFacts
<1>. QED  BY <1>1 DEF Result, Sure, Surveys

(* What is retained is still tracked.                                      *)
LEMMA RetainsResult ==
  ASSUME NEW f \in Seq(Frames), NEW p, NEW c, Able(c), Sure(c, f, p), NEW d, Ordered(d),
         d.info = c.info, Retains(c, d)
  PROVE  Result(c, d, f, p)
<1>1. d.map = c.map /\ d.filed = c.filed /\ Ordered(c) /\ Charts(c)
  BY DEF Retains, Sure
<1>2. ASSUME ~Loose(d) PROVE \E x \in Fixes : Tracked(d, f, p, x)
  <2>1. ~Loose(c)
    BY <1>2 DEF Loose, Retains, HoldsRooms
  <2>2. PICK x \in Fixes : Tracked(c, f, p, x)
    BY <2>1 DEF Sure
  <2>3. Fits(d, x)
    BY <1>1, <2>2, RetainsFits DEF Tracked
  <2>4. PICK cmds \in Seq(Plain) : d.wire = c.wire \o cmds
    BY DEF Retains
  <2>5. c.wire \in Seq(Commands)
    BY DEF Able, Sends
  <2>6. Ahead(f, c.wire \o cmds, p, x)
    BY <2>2, <2>5, AheadSent DEF Tracked
  <2>. QED  BY <2>2, <2>3, <2>4, <2>6 DEF Tracked
<1>. QED  BY <1>1, <1>2, TrackedResult

(* Stopping keeps the map and what was sent, or gives the map up.          *)
LEMMA StopResult ==
  ASSUME NEW f \in Seq(Frames), NEW p, NEW c, Able(c), Sure(c, f, p), NEW timed_out \in BOOLEAN
  PROVE  Result(c, Stop(c, timed_out), f, p)
<1>. DEFINE d == Stop(c, timed_out)
<1>1. ~c.farm /\ (HoldsRooms(c) => c.held)
  BY DEF Sure, Ordered
<1>2. Settles(c, d) /\ (Loose(d) \/ Retains(c, d))
  BY <1>1, StopSettles
<1>. HIDE DEF d
<1>3. Ordered(d) /\ d.info = c.info
  BY <1>2 DEF Settles
<1>. QED  BY <1>2, <1>3, RetainsResult, LooseResult DEF d

(* Another client alike is as sure, and what becomes of it counts for both. *)
LEMMA AlikeSure ==
  ASSUME NEW c, NEW e, Alike(c, e), e.arrival = c.arrival, e.batch = c.batch, NEW f, NEW p,
         Sure(c, f, p)
  PROVE  Sure(e, f, p) /\ \A d : Result(e, d, f, p) => Result(c, d, f, p)
<1>1. Ordered(e) /\ Charts(e) /\ Filed(e) = Filed(c) /\ (Loose(c) => Loose(e))
  BY AlikeFits, AlikeCharts DEF Sure
<1>2. ASSUME ~Loose(e) PROVE \E x \in Fixes : Tracked(e, f, p, x)
  <2>1. PICK x \in Fixes : Tracked(c, f, p, x)
    BY <1>1, <1>2 DEF Sure
  <2>2. Fits(e, x) /\ e.wire = c.wire
    BY <2>1, AlikeFits DEF Tracked, Alike
  <2>. QED  BY <2>1, <2>2 DEF Tracked
<1>3. \A d : Result(e, d, f, p) => Result(c, d, f, p)
  BY <1>1 DEF Result, Surveys, Alike
<1>. QED  BY <1>1, <1>2, <1>3 DEF Sure

(* A plain command sent changes nothing else.                              *)
LEMMA PlainResult ==
  ASSUME NEW f \in Seq(Frames), NEW p, NEW c, Able(c), Sure(c, f, p),
         NEW cmd \in {"refresh", "portal", "out", "open"}
  PROVE  Result(c, Send(c, <<cmd>>), f, p)
<1>. DEFINE d == Send(c, <<cmd>>)
<1>1. /\ \E cmds \in Seq(Plain) : d.wire = c.wire \o cmds
      /\ \A field \in Fields \ {"wire"} : d[field] = c[field]
  BY PlainSent
<1>. HIDE DEF d
<1>2. /\ d.map = c.map /\ d.filed = c.filed /\ d.pending = c.pending /\ d.batch = c.batch
      /\ d.enabled = c.enabled /\ d.arrival = c.arrival /\ d.active = c.active /\ d.info = c.info
      /\ d.farm = c.farm /\ d.held = c.held /\ d.mode = c.mode
  BY <1>1 DEF Fields
<1>3. Retains(c, d)
  BY <1>1, <1>2 DEF Retains
<1>4. HoldsRooms(d) <=> HoldsRooms(c)
  BY <1>2 DEF HoldsRooms
<1>5. Ordered(d)
  BY <1>2, <1>4 DEF Ordered, Sure
<1>. QED  BY <1>2, <1>3, <1>5, RetainsResult DEF d

(* Asking for the room again changes nothing but the wire.                 *)
LEMMA RefreshedResult ==
  ASSUME NEW f \in Seq(Frames), NEW p, NEW c, Able(c), Sure(c, f, p), NEW e, Able(e), Alike(c, e),
         e.arrival = c.arrival, e.batch = c.batch
  PROVE  Result(c, RequestRefresh(e), f, p)
<1>1. Sure(e, f, p)
  BY AlikeSure
<1>2. CASE e.online
  <2>1. Result(e, Send(e, <<"refresh">>), f, p)
    BY <1>1, PlainResult
  <2>. QED  BY <1>2, <2>1, AlikeSure DEF RequestRefresh
<1>3. CASE ~e.online
  <2>1. Result(e, Stop(e, FALSE), f, p)
    BY <1>1, StopResult
  <2>. QED  BY <1>3, <2>1, AlikeSure DEF RequestRefresh
<1>. QED  BY <1>2, <1>3

(* Waiting once more for the room is no move.                              *)
LEMMA WaitsAlike ==
  ASSUME NEW c, Able(c), NEW n \in 0 .. 3
  PROVE  LET e == [c EXCEPT !.waits = n]
         IN Able(e) /\ Alike(c, e) /\ e.arrival = c.arrival /\ e.batch = c.batch
<1>. DEFINE e == [c EXCEPT !.waits = n]
<1>1. /\ Shape(e) /\ Alike(c, e) /\ e.arrival = c.arrival /\ e.batch = c.batch
      /\ Steers(c, e)
  BY DEF Able, Shape, Fields, Alike, Steers, SameMap, SameView, SameNews, SameWire, SameHold
<1>2. ControlType(e)
  <2>1. /\ e.state = c.state /\ e.leaving = c.leaving /\ e.unanchored = c.unanchored
        /\ e.hold_timer = c.hold_timer /\ e.farm_timer = c.farm_timer /\ e.waits = n
    BY DEF Able, Shape, Fields
  <2>. HIDE DEF e
  <2>. QED  BY <1>1, <2>1 DEF Able, ControlType, Alike
<1>. HIDE DEF e
<1>3. Able(e)
  BY <1>1, <1>2, SteersKeeps
<1>. QED  BY <1>1, <1>3 DEF e

(* A frame tells a client that believes to be at a that it is at b: contents *)
(* lists speak of the room last announced.                                 *)
Telling(f, a, b) ==
  IF f.kind = "info" THEN b = f.place ELSE b = a /\ (f.kind = "contents" => f.place = a)

(* The relation.                                                           *)
Tells == {t \in Frames \X Places \X Places : Telling(t[1], t[2], t[3])}

(* What is under way tells the client, in the end, where the player is.    *)
Announced(c, f, p) == c.online => Passes(Tells, Places, f, c.info, p)

(* What it is for a frame to tell of a place.                              *)
LEMMA TellsIs ==
  \A f, a, b : <<f, a, b>> \in Tells <=> f \in Frames /\ a \in Places /\ b \in Places /\ Telling(f, a, b)
<1>. HIDE DEF Frames, Places, Telling
<1>. QED  BY DEF Tells

(* What the game says besides news of a room.                              *)
Remarks == {CombatEnd, Blocked, <<>>} \cup {NoTarget(word) : word \in Words}

LEMMA RemarksAre ==
  /\ \A lines \in Remarks : /\ lines \in Seq(Frames)
                            /\ lines = <<>> \/ \E e \in Lines : lines = <<e>>
  /\ {CombatEnd, Blocked, <<>>} \subseteq Remarks
  /\ \A word \in Words : NoTarget(word) \in Remarks
<1>1. ASSUME NEW lines \in Remarks PROVE lines = <<>> \/ \E e \in Lines : lines = <<e>>
  <2>1. [kind |-> "combat_end"] \in Lines /\ [kind |-> "blocked"] \in Lines
    BY DEF Lines
  <2>2. \A word \in Words : [kind |-> "no_target", word |-> word] \in Lines
    BY DEF Lines
  <2>. HIDE DEF Lines
  <2>. QED  BY <1>1, <2>1, <2>2 DEF Remarks, CombatEnd, Blocked, NoTarget
<1>. QED  BY <1>1, LinesType DEF Remarks

(* What each answer of the game tells.                                     *)
LEMMA AnswersTell ==
  ASSUME World, NEW p \in Places
  PROVE  /\ \A lines \in Remarks : Passes(Tells, Places, lines, p, p)
         /\ \A seen \in MaySee : Passes(Tells, Places, <<ContentsOf(p, FALSE, seen)>>, p, p)
         /\ \A seen \in MaySee, entry \in BOOLEAN, q \in Places :
              Passes(Tells, Places,
                     <<[kind |-> "info", place |-> p], ContentsOf(p, entry, seen)>>, q, p)
<1>1. ASSUME NEW e \in Lines PROVE Passes(Tells, Places, <<e>>, p, p)
  <2>1. e \in Frames /\ e.kind \notin {"info", "contents"}
    BY DEF Frames, Lines
  <2>2. <<e, p, p>> \in Tells
    BY <2>1, TellsIs DEF Telling
  <2>. QED  BY <2>1, <2>2, PassesOne
<1>2. Passes(Tells, Places, <<>>, p, p)
  BY PassesNothing
<1>3. ASSUME NEW lines \in Remarks PROVE Passes(Tells, Places, lines, p, p)
  BY <1>1, <1>2, RemarksAre
<1>4. ASSUME NEW seen \in MaySee, NEW entry \in BOOLEAN, NEW q \in Places
      PROVE  /\ Passes(Tells, Places, <<ContentsOf(p, entry, seen)>>, p, p)
             /\ Passes(Tells, Places,
                     <<[kind |-> "info", place |-> p], ContentsOf(p, entry, seen)>>, q, p)
  <2>. DEFINE i == [kind |-> "info", place |-> p]
              e == ContentsOf(p, entry, seen)
  <2>1. i \in Frames /\ i.kind = "info" /\ i.place = p
    BY DEF Frames, Infos
  <2>2. e \in Frames
    BY ContentsType DEF Frames
  <2>3. e.kind = "contents" /\ e.place = p
    BY DEF ContentsOf
  <2>. HIDE DEF i, e
  <2>4. <<i, q, p>> \in Tells /\ <<e, p, p>> \in Tells
    BY <2>1, <2>2, <2>3, TellsIs DEF Telling
  <2>5. Passes(Tells, Places, <<e>>, p, p) /\ Passes(Tells, Places, <<i, e>>, q, p)
    BY <2>4, PassesOne, PassesTwo
  <2>. QED  BY <2>5 DEF i, e
<1>. QED  BY <1>3, <1>4

(* An arrival tells the room it is in.                                     *)
LEMMA ArrivingTells ==
  ASSUME World, NEW p \in Places, NEW q \in Places, NEW seen \in MaySee, NEW before \in {<<>>, Blocked}
  PROVE  Passes(Tells, Places, before \o Arriving(p, seen), q, p)
<1>1. Entry(p, seen) \in Seq(Frames) /\ CombatEnd \in Seq(Frames) /\ <<>> \in Seq(Frames)
      /\ before \in Seq(Frames) /\ Arriving(p, seen) \in Seq(Frames)
  BY EntryType, LinesType
<1>2. Passes(Tells, Places, Entry(p, seen), q, p)
  BY AnswersTell DEF Entry
<1>3. Passes(Tells, Places, CombatEnd, p, p) /\ Passes(Tells, Places, <<>>, p, p)
      /\ Passes(Tells, Places, before, q, q)
  BY AnswersTell, RemarksAre
<1>4. \A tail \in {CombatEnd, <<>>} : Passes(Tells, Places, Entry(p, seen) \o tail, q, p)
  <2>. HIDE DEF Frames
  <2>. QED  BY <1>1, <1>2, <1>3, PassesBoth
<1>5. Passes(Tells, Places, Arriving(p, seen), q, p)
  BY <1>4 DEF Arriving
<1>. HIDE DEF Frames
<1>. QED  BY <1>1, <1>3, <1>5, PassesBoth

(* Whatever the game does, what is under way still tells where the player is. *)
LEMMA GameAnnounced ==
  ASSUME Inv, Announced(client, frames, here), Game \/ StrayCombatFrame
  PROVE  Announced(client', frames', here')
<1>1. World /\ here \in Places /\ frames \in Seq(Frames) /\ Shape(client)
  BY DEF Inv, World, Good, Able
<1>2. client'.info = client.info /\ client'.online = client.online
  BY <1>1 DEF Game, GameMoves, GameLeaves, GameEntersSea, GameIgnores, GameFights, GameRefreshes,
              MonsterDies, StrayCombatFrame, Taken, Shape, Fields
<1>3. SUFFICES ASSUME client.online
               PROVE  Passes(Tells, Places, frames', client.info, here')
  BY <1>2 DEF Announced
<1>4. Passes(Tells, Places, frames, client.info, here)
  BY <1>3 DEF Announced
<1>5. ASSUME NEW new \in Seq(Frames), Passes(Tells, Places, new, here, here'), frames' = frames \o new
      PROVE  Passes(Tells, Places, frames', client.info, here')
  <2>. HIDE DEF Frames
  <2>. QED  BY <1>1, <1>4, <1>5, PassesBoth
<1>6. ASSUME NEW lines \in Remarks, Stays(lines)
      PROVE  Passes(Tells, Places, frames', client.info, here')
  <2>1. \A said \in Remarks : Passes(Tells, Places, said, here, here)
    BY <1>1, AnswersTell
  <2>2. lines \in Seq(Frames)
    BY RemarksAre
  <2>. QED  BY <1>5, <1>6, <2>1, <2>2 DEF Stays
<1>7. ASSUME NEW place \in Places, NEW before \in {<<>>, Blocked}, Goes(place, before)
      PROVE  Passes(Tells, Places, frames', client.info, here')
  <2>1. here' = place
    BY <1>7 DEF Goes
  <2>2. PICK seen \in MaySee : frames' = frames \o before \o Arriving(place, seen)
    BY <1>7 DEF Goes
  <2>3. before \in Seq(Frames) /\ Arriving(place, seen) \in Seq(Frames)
    BY <1>1, LinesType, EntryType
  <2>4. Passes(Tells, Places, before \o Arriving(place, seen), here, place)
    BY <1>1, ArrivingTells
  <2>5. frames' = frames \o (before \o Arriving(place, seen))
        /\ before \o Arriving(place, seen) \in Seq(Frames)
    <3>. HIDE DEF Frames, Arriving
    <3>. QED  BY <1>1, <2>2, <2>3
  <2>. QED  BY <1>5, <2>1, <2>4, <2>5
<1>8. ASSUME frames' = frames, here' = here
      PROVE  Passes(Tells, Places, frames', client.info, here')
  BY <1>4, <1>8
<1>9. CASE GameMoves
  <2>1. PICK dir \in Dirs :
          IF dir \in ExitsOf(here)
          THEN \/ Goes(Towards(here, dir), <<>>) \/ Goes(Towards(here, dir), Blocked)
               \/ Stays(Blocked) \/ Stays(<<>>)
          ELSE Stays(Blocked)
    BY <1>9 DEF GameMoves
  <2>2. dir \in ExitsOf(here) => Towards(here, dir) \in Places
    BY <1>1, DoorsType
  <2>. QED  BY RemarksAre, <1>6, <1>7, <2>1, <2>2
<1>10. CASE GameLeaves
  BY <1>7, <1>10, PlaceFacts DEF GameLeaves
<1>11. CASE GameEntersSea
  <2>1. Goes(Entrance(sea + 1), <<>>) /\ sea < Len(Maze)
    BY <1>11 DEF GameEntersSea
  <2>2. Entrance(sea + 1) \in Places
    <3>1. sea + 1 \in 1 .. Len(Maze)
      BY <1>1, <2>1, MazeAssumption DEF World
    <3>. QED  BY <3>1, DoorsType
  <2>. QED  BY <1>7, <2>1, <2>2
<1>12. CASE GameIgnores
  BY <1>8, <1>12 DEF GameIgnores
<1>13. CASE GameFights
  <2>1. (\E lines \in Remarks : Stays(lines)) \/ (frames' = frames /\ here' = here)
    BY <1>13, RemarksAre DEF GameFights
  <2>. QED  BY <1>6, <1>8, <2>1
<1>14. CASE GameRefreshes
  <2>1. here' = here
    BY <1>14 DEF GameRefreshes
  <2>2. CASE frames' = frames
    BY <1>8, <2>1, <2>2
  <2>3. ASSUME NEW seen \in MaySee, frames' = Append(frames, ContentsOf(here, FALSE, seen))
        PROVE  Passes(Tells, Places, frames', client.info, here')
    <3>. DEFINE e == ContentsOf(here, FALSE, seen)
    <3>1. e \in Frames
      BY <1>1, ContentsType DEF Frames
    <3>2. Passes(Tells, Places, <<e>>, here, here)
      BY <1>1, AnswersTell
    <3>. HIDE DEF e
    <3>3. frames' = Append(frames, e)
      BY <2>3 DEF e
    <3>4. <<e>> \in Seq(Frames) /\ frames' = frames \o <<e>>
      <4>. HIDE DEF Frames
      <4>. QED  BY <1>1, <3>1, <3>3
    <3>. QED  BY <1>5, <2>1, <3>2, <3>4
  <2>. QED  BY <1>14, <2>2, <2>3 DEF GameRefreshes
<1>15. CASE MonsterDies \/ StrayCombatFrame
  <2>1. frames' = frames \o CombatEnd /\ here' = here
    BY <1>15 DEF MonsterDies, StrayCombatFrame
  <2>2. CombatEnd \in Seq(Frames) /\ Passes(Tells, Places, CombatEnd, here, here)
    BY <1>1, AnswersTell, RemarksAre, LinesType
  <2>. QED  BY <1>5, <2>1, <2>2
<1>. QED  BY <1>9, <1>10, <1>11, <1>12, <1>13, <1>14, <1>15 DEF Game

(* The inductive invariant: the client is sure of its map, and the frames  *)
(* under way tell where the player is.                                     *)
Knows(c, f, p) == Sure(c, f, p) /\ Announced(c, f, p)

(* A callback that reads no frame keeps what is known, given its result.   *)
LEMMA ResultKnows ==
  ASSUME NEW c, NEW d, NEW f, NEW p, Announced(c, f, p), Result(c, d, f, p), d.online => c.online
  PROVE  Knows(d, f, p) /\ Surveys(c, d)
BY DEF Result, Knows, Announced

(* The first frame under way, and what is known once it is read.           *)
LEMMA HeadTold ==
  ASSUME NEW f \in Seq(Frames), f # <<>>, NEW c, c.online, NEW p, Announced(c, f, p)
  PROVE  \E place \in Places : Telling(Head(f), c.info, place) /\ Passes(Tells, Places, Tail(f), place, p)
<1>1. Passes(Tells, Places, f, c.info, p)
  BY DEF Announced
<1>2. PICK place \in Places : <<Head(f), c.info, place>> \in Tells
                              /\ Passes(Tells, Places, Tail(f), place, p)
  <2>. HIDE DEF Frames, Places, Tells
  <2>. QED  BY <1>1, PassesHead
<1>. QED  BY <1>2, TellsIs

(* The first frame is heard by the fix.                                    *)
LEMMA HeadHeard ==
  ASSUME NEW f \in Seq(Frames), f # <<>>, NEW p, NEW c, Sure(c, f, p), ~Loose(c)
  PROVE  Told1(c, Head(f), Tail(f), p)
<1>1. PICK x \in Fixes : Tracked(c, f, p, x)
  BY DEF Sure
<1>2. PICK z \in Fixes : Hearing(Head(f), x, z) /\ Ahead(Tail(f), c.wire, p, z)
  BY <1>1, AheadHeard DEF Tracked
<1>. QED  BY <1>1, <1>2 DEF Told1, Tracked

(* A line that says nothing of the player's place.                         *)
LEMMA LineStays ==
  ASSUME NEW frame, frame.kind \in {"combat_end", "no_target"}, NEW x \in Fixes, NEW z,
         Hearing(frame, x, z), x.mode # "stuck"
  PROVE  z = x /\ x.mode # "leaving"
BY DEF Hearing, Hears

(* A line of a fight leaves the fix tracked.                               *)
LEMMA LineTracked ==
  ASSUME NEW f, NEW p, NEW c, NEW frame, frame.kind \in {"combat_end", "no_target"},
         Told1(c, frame, f, p)
  PROVE  \E x \in Fixes : Tracked(c, f, p, x) /\ x.mode # "leaving"
<1>1. PICK x, z \in Fixes : Fits(c, x) /\ Hearing(frame, x, z) /\ Ahead(f, c.wire, p, z)
  BY DEF Told1
<1>2. x.mode # "stuck"
  BY <1>1 DEF Fits
<1>3. z = x /\ x.mode # "leaving"
  BY <1>1, <1>2, LineStays
<1>. QED  BY <1>1, <1>3 DEF Tracked

(* An attack that does not resolve (handle_no_target).                     *)
LEMMA NoTargetResult ==
  ASSUME NEW f \in Seq(Frames), NEW p, NEW c, Good(c), Control(c), Ordered(c), Charts(c), c.online,
         ~Loose(c) => \E x \in Fixes : Tracked(c, f, p, x) /\ x.mode # "leaving"
  PROVE  \A word : Result(c, OnNoTarget(c, word), f, p) /\ Follows(c, OnNoTarget(c, word), f, p)
<1>. TAKE word
<1>1. Able(c) /\ Shape(c) /\ c.waits \in 0 .. 3
  BY DEF Good, Able, Control
<1>2. CASE Elsewhere(c, word)
  <2>1. OnNoTarget(c, word) = c
    BY <1>2 DEF OnNoTarget
  <2>2. Sure(c, f, p)
    BY DEF Sure
  <2>. QED  BY <2>1, <2>2 DEF Result, Surveys, Follows, Halts
<1>3. CASE ~Elsewhere(c, word)
  <2>. DEFINE v == [c.view EXCEPT !.monsters = Forget(c.view.monsters, c.target)]
              e == [c EXCEPT !.view = v, !.target = NoMonster, !.state = "idle"]
  <2>0. c.state = "fighting" /\ ~(c.waits > 0)
    BY <1>3 DEF Elsewhere
  <2>1. OnNoTarget(c, word) = ProcessRoom(e)
    BY <1>1, <1>3 DEF OnNoTarget, Shape, Fields
  <2>2. DOMAIN v = {"key", "monsters", "players", "of"} /\ v.monsters \in Seq(Monsters)
    <3>1. c.view.monsters \in Seq(Monsters) /\ DOMAIN c.view = {"key", "monsters", "players", "of"}
      BY <1>1 DEF Able, Viewed
    <3>2. Forget(c.view.monsters, c.target) \in Seq(Monsters)
      BY <3>1, ForgetType
    <3>. QED  BY <3>1, <3>2
  <2>9. v.of = c.view.of
    BY <1>1 DEF Able, Viewed
  <2>. HIDE DEF v
  <2>3. /\ Shape(e) /\ Alike(c, e) /\ e.batch = c.batch /\ e.arrival = c.arrival
        /\ e.waits = c.waits /\ e.farm_timer = c.farm_timer
    BY <1>1 DEF Shape, Fields, Alike
  <2>4. SameMap(c, e) /\ SameNews(c, e) /\ SameWire(c, e)
    BY <1>1 DEF Shape, Fields, SameMap, SameNews, SameWire
  <2>5. e.waits = 0
    BY <1>1, <2>0, <2>3
  <2>6. ControlType(e)
    <3>1. /\ e.state = "idle" /\ e.leaving = c.leaving /\ e.unanchored = c.unanchored
          /\ e.hold_timer = c.hold_timer
      BY <1>1 DEF Shape, Fields
    <3>. HIDE DEF e
    <3>. QED  BY <1>1, <2>3, <2>5, <3>1 DEF Able, ControlType, Alike
  <2>7. e.view = v /\ e.target = NoMonster
    BY <1>1 DEF Shape, Fields
  <2>. HIDE DEF e
  <2>8. Viewed(e)
    BY <2>2, <2>7 DEF Viewed
  <2>10. Present(c) => e.view.of = c.contents.place
    BY <2>0, <2>7, <2>9 DEF Present
  <2>. QED  BY <2>0, <2>1, <2>3, <2>4, <2>5, <2>6, <2>8, <2>10, LookedResult
<1>. QED  BY <1>2, <1>3

(* The end of a fight (handle_combat_end).                                 *)
LEMMA CombatEndResult ==
  ASSUME NEW f \in Seq(Frames), NEW p, NEW c, Able(c), Sure(c, f, p)
  PROVE  Result(c, OnCombatEnd(c), f, p)
<1>1. CASE c.state # "fighting" \/ c.waits > 0
  <2>1. OnCombatEnd(c) = c
    BY <1>1 DEF OnCombatEnd
  <2>. QED  BY <2>1 DEF Result, Surveys
<1>2. CASE ~(c.state # "fighting" \/ c.waits > 0)
  <2>. DEFINE e == [c EXCEPT !.waits = 1]
  <2>1. OnCombatEnd(c) = RequestRefresh(e)
    BY <1>2 DEF OnCombatEnd
  <2>2. Able(e) /\ Alike(c, e) /\ e.arrival = c.arrival /\ e.batch = c.batch
    <3>1. 1 \in 0 .. 3
      OBVIOUS
    <3>. QED  BY <3>1, WaitsAlike
  <2>. HIDE DEF e
  <2>. QED  BY <2>1, <2>2, RefreshedResult
<1>. QED  BY <1>1, <1>2

(* A warning that the way is barred: the move stays due, or is none.       *)
LEMMA BlockedResult ==
  ASSUME NEW f \in Seq(Frames), NEW p, NEW c, Good(c), Control(c), Ordered(c), Charts(c),
         NEW frame, frame.kind = "blocked", ~Loose(c) => Told1(c, frame, f, p)
  PROVE  Result(c, OnBlocked(c), f, p)
<1>1. Able(c)
  BY DEF Good
<1>2. CASE c.batch
  <2>1. c.enabled /\ c.state = "stepping" /\ c.arrival = "move" /\ ~c.farm
        /\ (HoldsRooms(c) => c.held)
    BY <1>2 DEF Ordered, Control, Waiting
  <2>2. OnBlocked(c) = Stop(c, FALSE)
    BY <1>2, <2>1 DEF OnBlocked
  <2>3. /\ Settles(c, Stop(c, FALSE))
        /\ Loose(Stop(c, FALSE)) \/ (~c.batch /\ Retains(c, Stop(c, FALSE)))
    BY <1>1, <2>1, StopSettles
  <2>4. Ordered(Stop(c, FALSE)) /\ Loose(Stop(c, FALSE)) /\ Stop(c, FALSE).info = c.info
    BY <1>2, <2>3 DEF Settles
  <2>. QED  BY <2>2, <2>4, LooseResult
<1>3. CASE ~c.batch
  <2>1. OnBlocked(c) = c
    BY <1>3 DEF OnBlocked
  <2>2. ASSUME ~Loose(c) PROVE \E x \in Fixes : Tracked(c, f, p, x)
    <3>1. PICK x, z \in Fixes : Fits(c, x) /\ Hearing(frame, x, z) /\ Ahead(f, c.wire, p, z)
      BY <2>2 DEF Told1
    <3>2. x.mode # "stuck" /\ (x.mode = "live" => ~x.long)
      BY <1>3, <3>1 DEF Fits
    <3>3. z = x \/ (x.mode = "live" /\ z = [x EXCEPT !.rest = <<>>])
      BY <3>1, <3>2 DEF Hearing, Hears
    <3>4. CASE z = x
      BY <3>1, <3>4 DEF Tracked
    <3>5. CASE x.mode = "live" /\ z = [x EXCEPT !.rest = <<>>]
      <4>1. z.mode = x.mode /\ z.at = x.at /\ z.rest = <<>> /\ z.long = x.long
        BY <3>1, <3>5, FixCut
      <4>2. x.long <=> c.batch
        BY <3>1, <3>5 DEF Fits
      <4>3. x.at \in Places \ {Lobby} /\ (HoldsRooms(c) => x.at = c.filed[c.map.pos])
        BY <3>1, <3>5 DEF Fits
      <4>4. Fits(c, z)
        BY <1>3, <3>5, <4>1, <4>2, <4>3 DEF Fits
      <4>. QED  BY <3>1, <4>4 DEF Tracked
    <3>. QED  BY <3>3, <3>4, <3>5
  <2>3. Sure(c, f, p)
    BY <2>2 DEF Sure
  <2>. QED  BY <2>1, <2>3 DEF Result, Surveys
<1>. QED  BY <1>2, <1>3

(* A room announced: the lobby, on the way out, or the room of the move.   *)
LEMMA InfoSure ==
  ASSUME NEW f \in Seq(Frames), NEW p, NEW c, Good(c), Ordered(c), Charts(c),
         NEW frame, frame.kind = "info", ~Loose(c) => Told1(c, frame, f, p)
  PROVE  LET d == [c EXCEPT !.info = frame.place]
         IN Sure(d, f, p) /\ Filed(d) = Filed(c) /\ d.info = frame.place /\ d.online = c.online
<1>. DEFINE d == [c EXCEPT !.info = frame.place]
<1>1. Able(c) /\ Shape(c)
  BY DEF Good, Able
<1>2. /\ d.map = c.map /\ d.filed = c.filed /\ d.pending = c.pending /\ d.batch = c.batch
      /\ d.enabled = c.enabled /\ d.arrival = c.arrival /\ d.active = c.active
      /\ d.farm = c.farm /\ d.held = c.held /\ d.mode = c.mode /\ d.wire = c.wire
      /\ d.online = c.online /\ d.info = frame.place
  BY <1>1 DEF Shape, Fields
<1>. HIDE DEF d
<1>3. HoldsRooms(d) <=> HoldsRooms(c)
  BY <1>2 DEF HoldsRooms
<1>4. Ordered(d)
  BY <1>2, <1>3 DEF Ordered
<1>5. Charts(d) /\ Filed(d) = Filed(c)
  BY <1>2, ChartsSame, FiledFacts
<1>6. ASSUME ~Loose(d) PROVE \E x \in Fixes : Tracked(d, f, p, x)
  <2>1. ~Loose(c)
    BY <1>2, <1>3, <1>6 DEF Loose
  <2>2. PICK x, z \in Fixes : Fits(c, x) /\ Hearing(frame, x, z) /\ Ahead(f, c.wire, p, z)
    BY <2>1 DEF Told1
  <2>3. x.mode # "stuck"
    BY <2>2 DEF Fits
  <2>4. \/ x.mode = "gone" /\ z = x /\ frame.place = Lobby
        \/ x.mode = "live" /\ z = [x EXCEPT !.mode = "leaving"] /\ frame.place = Lobby
        \/ x.mode = "live" /\ z = x
    BY <2>2, <2>3 DEF Hearing, Hears
  <2>5. z.mode = "live" => x.mode = "live" /\ z = x
    <3>1. [x EXCEPT !.mode = "leaving"].mode = "leaving"
      BY <2>2, FixMode DEF Modes
    <3>. QED  BY <2>4, <3>1
  <2>6. z.mode # "stuck" /\ (z.mode \in {"leaving", "gone"} => frame.place = Lobby)
        /\ (z.mode = "gone" => x.mode = "gone")
    <3>1. [x EXCEPT !.mode = "leaving"].mode = "leaving"
      BY <2>2, FixMode DEF Modes
    <3>. QED  BY <2>4, <3>1
  <2>7. Lags(c, x) => Lags(d, x)
    BY <1>2, <1>3 DEF Lags
  <2>8. Fits(d, z)
    BY <1>2, <1>3, <2>2, <2>5, <2>6, <2>7 DEF Fits
  <2>. QED  BY <1>2, <2>2, <2>8 DEF Tracked
<1>. QED  BY <1>2, <1>4, <1>5, <1>6 DEF Sure, d

(* Reading what is under way keeps the client sure of its map.             *)
LEMMA ReceiveKnows ==
  ASSUME Inv, Control(client), Knows(client, frames, here), Receive
  PROVE  Knows(client', frames', here') /\ Surveys(client, client')
<1>. DEFINE frame == Head(frames)
            f == Tail(frames)
<1>1. /\ frames # <<>> /\ frames' = f /\ here' = here
      /\ frame.kind \in {"info", "contents", "combat_end", "no_target", "blocked"}
  BY DEF Receive, ReceiveInfo, ReceiveContents, ReceiveCombatEnd, ReceiveNoTarget, ReceiveBlocked,
         Next1, Client
<1>2. /\ frames \in Seq(Frames) /\ f \in Seq(Frames) /\ frame \in Frames /\ client.online
  BY <1>1, TogetherType DEF Inv, World
<1>3. /\ Good(client) /\ Able(client) /\ Ordered(client) /\ Charts(client) /\ Sure(client, frames, here)
      /\ Announced(client, frames, here)
  BY DEF Inv, Good, Knows, Sure
<1>4. ~Loose(client) => Told1(client, frame, f, here)
  BY <1>1, <1>2, <1>3, HeadHeard
<1>5. PICK place \in Places : Telling(frame, client.info, place) /\ Passes(Tells, Places, f, place, here)
  BY <1>1, <1>2, <1>3, HeadTold
<1>. HIDE DEF f, frame
<1>6. CASE frame.kind = "info"
  <2>1. client' = [client EXCEPT !.info = frame.place]
    BY <1>6 DEF Receive, ReceiveInfo, ReceiveContents, ReceiveCombatEnd, ReceiveNoTarget,
                ReceiveBlocked, Next1, Client, frame
  <2>2. /\ Sure(client', f, here) /\ Filed(client') = Filed(client) /\ client'.info = frame.place
    <3>. DEFINE d == [client EXCEPT !.info = frame.place]
    <3>1. Sure(d, f, here) /\ Filed(d) = Filed(client) /\ d.info = frame.place
      BY <1>2, <1>3, <1>4, <1>6, InfoSure
    <3>2. client' = d
      BY <2>1
    <3>. HIDE DEF d
    <3>. QED  BY <3>1, <3>2
  <2>3. place = frame.place
    BY <1>5, <1>6 DEF Telling
  <2>4. Announced(client', f, here)
    BY <1>5, <2>2, <2>3 DEF Announced
  <2>. QED  BY <1>1, <2>2, <2>4 DEF Knows, Surveys
<1>7. CASE frame.kind # "info"
  <2>1. place = client.info /\ (frame.kind = "contents" => frame.place = client.info)
    BY <1>5, <1>7 DEF Telling
  <2>2. Announced(client, f, here)
    BY <1>5, <2>1 DEF Announced
  <2>. SUFFICES Result(client, client', f, here)
    BY <1>1, <1>2, <2>2, ResultKnows
  <2>3. CASE frame.kind = "contents"
    <3>1. client' = OnRoomContents(client, frame)
      BY <2>3 DEF Receive, ReceiveInfo, ReceiveContents, ReceiveCombatEnd, ReceiveNoTarget,
                  ReceiveBlocked, Next1, Client, frame
    <3>2. frame \in Contents
      BY <1>2, <2>3 DEF Frames, Infos, Lines
    <3>. QED  BY <1>2, <1>3, <1>4, <2>1, <2>3, <3>1, <3>2, ContentsResult
  <2>4. CASE frame.kind \in {"combat_end", "no_target"}
    <3>1. ~Loose(client) => \E x \in Fixes : Tracked(client, f, here, x) /\ x.mode # "leaving"
      BY <1>4, <2>4, LineTracked
    <3>2. Sure(client, f, here)
      BY <1>3, <3>1 DEF Sure
    <3>3. CASE frame.kind = "combat_end"
      <4>1. client' = OnCombatEnd(client)
        BY <3>3 DEF Receive, ReceiveInfo, ReceiveContents, ReceiveCombatEnd, ReceiveNoTarget,
                    ReceiveBlocked, Next1, Client, frame
      <4>. QED  BY <1>2, <1>3, <3>2, <4>1, CombatEndResult
    <3>4. CASE frame.kind = "no_target"
      <4>1. client' = OnNoTarget(client, frame.word)
        BY <3>4 DEF Receive, ReceiveInfo, ReceiveContents, ReceiveCombatEnd, ReceiveNoTarget,
                    ReceiveBlocked, Next1, Client, frame
      <4>. QED  BY <1>2, <1>3, <3>1, <4>1, NoTargetResult
    <3>. QED  BY <2>4, <3>3, <3>4
  <2>5. CASE frame.kind = "blocked"
    <3>1. client' = OnBlocked(client)
      BY <2>5 DEF Receive, ReceiveInfo, ReceiveContents, ReceiveCombatEnd, ReceiveNoTarget,
                  ReceiveBlocked, Next1, Client, frame
    <3>. QED  BY <1>2, <1>3, <1>4, <2>5, <3>1, BlockedResult
  <2>. QED  BY <1>1, <1>7, <2>3, <2>4, <2>5 DEF frame
<1>. QED  BY <1>6, <1>7

(* A held move is let go of: the run it came from is over.                 *)
LEMMA LetGoResult ==
  ASSUME NEW f \in Seq(Frames), NEW p, NEW c, Good(c), Control(c), Sure(c, f, p)
  PROVE  Result(c, [c EXCEPT !.hold_timer = FALSE,
                             !.pending = IF InFlight(c) THEN <<>> ELSE @], f, p)
<1>. DEFINE d == [c EXCEPT !.hold_timer = FALSE, !.pending = IF InFlight(c) THEN <<>> ELSE @]
<1>1. Able(c) /\ Shape(c) /\ Ordered(c)
  BY DEF Good, Able, Sure
<1>2. /\ d.map = c.map /\ d.filed = c.filed /\ d.batch = c.batch
      /\ d.enabled = c.enabled /\ d.arrival = c.arrival /\ d.active = c.active
      /\ d.farm = c.farm /\ d.held = c.held /\ d.mode = c.mode /\ d.wire = c.wire
      /\ d.info = c.info /\ d.pending = IF InFlight(c) THEN <<>> ELSE c.pending
  BY <1>1 DEF Shape, Fields
<1>. HIDE DEF d
<1>3. InFlight(c) => ~c.enabled /\ ~c.batch
  BY <1>1 DEF Good, Beside, Ordered, Control, Waiting
<1>4. Retains(c, d)
  <2>1. d.pending = c.pending \/ (d.pending = <<>> /\ ~d.enabled /\ ~c.batch)
    BY <1>2, <1>3
  <2>2. \E cmds \in Seq(Plain) : d.wire = c.wire \o cmds
    BY <1>1, <1>2, NothingSent
  <2>. QED  BY <1>2, <2>1, <2>2 DEF Retains
<1>5. HoldsRooms(d) <=> HoldsRooms(c)
  BY <1>2 DEF HoldsRooms
<1>6. Ordered(d)
  <2>1. ~InFlight(c) => d.pending = c.pending
    BY <1>2
  <2>2. InFlight(c) => d.pending = <<>> /\ ~(Len(d.pending) > 1)
    BY <1>2
  <2>. QED  BY <1>1, <1>2, <1>5, <2>1, <2>2 DEF Ordered
<1>. QED  BY <1>1, <1>2, <1>4, <1>6, RetainsResult DEF d

(* So does the end of a wait.                                              *)
LEMMA TimersKnows ==
  ASSUME Inv, Control(client), Knows(client, frames, here), Timers
  PROVE  Knows(client', frames', here') /\ Surveys(client, client')
<1>1. /\ Good(client) /\ Able(client) /\ Ordered(client) /\ Sure(client, frames, here)
      /\ Announced(client, frames, here) /\ frames \in Seq(Frames) /\ client.waits \in 0 .. 3
  BY DEF Inv, World, Good, Knows, Sure, Control
<1>2. /\ frames' = frames /\ here' = here
      /\ \/ client' = Stop(client, TRUE)
         \/ client' = [client EXCEPT !.hold_timer = FALSE,
                                     !.pending = IF InFlight(client) THEN <<>> ELSE @]
         \/ client' = RequestRefresh([client EXCEPT !.waits = client.waits + 1]) /\ client.waits < 3
         \/ client' = Stop(client, FALSE)
  <2>1. ~FarmTimer
    BY <1>1 DEF FarmTimer, Control, Farming, Ordered
  <2>2. CASE RefreshTimeout
    BY <2>2 DEF RefreshTimeout, Client
  <2>. QED  BY <2>1, <2>2 DEF Timers, ArrivalTimeout, HeldMoveTimeout, Client
<1>3. Result(client, client', frames, here)
  <2>1. CASE client' = Stop(client, TRUE) \/ client' = Stop(client, FALSE)
    BY <1>1, <2>1, StopResult
  <2>2. CASE client' = [client EXCEPT !.hold_timer = FALSE,
                                      !.pending = IF InFlight(client) THEN <<>> ELSE @]
    BY <1>1, <2>2, LetGoResult
  <2>3. CASE client' = RequestRefresh([client EXCEPT !.waits = client.waits + 1]) /\ client.waits < 3
    <3>. DEFINE n == client.waits + 1
                e == [client EXCEPT !.waits = n]
    <3>1. n \in 0 .. 3
      BY <1>1, <2>3
    <3>. HIDE DEF n
    <3>2. Able(e) /\ Alike(client, e) /\ e.arrival = client.arrival /\ e.batch = client.batch
      BY <1>1, <3>1, WaitsAlike
    <3>. HIDE DEF e
    <3>3. client' = RequestRefresh(e)
      BY <2>3 DEF e, n
    <3>. QED  BY <1>1, <3>2, <3>3, RefreshedResult
  <2>. QED  BY <1>2, <2>1, <2>2, <2>3
<1>4. client'.online => client.online
  <2>1. ASSUME NEW timed_out \in BOOLEAN, client' = Stop(client, timed_out)
        PROVE  client'.online = client.online
    BY <1>1, <2>1, StopGood
  <2>2. ASSUME client' = [client EXCEPT !.hold_timer = FALSE,
                                        !.pending = IF InFlight(client) THEN <<>> ELSE @]
        PROVE  client'.online = client.online
    BY <1>1, <2>2 DEF Able, Shape, Fields
  <2>3. ASSUME client' = RequestRefresh([client EXCEPT !.waits = client.waits + 1])
        PROVE  client'.online = client.online
    <3>. DEFINE e == [client EXCEPT !.waits = client.waits + 1]
    <3>1. Shape(e) /\ e.online = client.online
      BY <1>1 DEF Able, Shape, Fields
    <3>. HIDE DEF e
    <3>2. RequestRefresh(e).online = e.online
      BY <3>1 DEF RequestRefresh, Send, Stop, Discard, Pause, Blank, Shape, Fields
    <3>. QED  BY <2>3, <3>1, <3>2 DEF e
  <2>4. TRUE \in BOOLEAN /\ FALSE \in BOOLEAN
    OBVIOUS
  <2>. QED  BY <1>2, <2>1, <2>2, <2>3, <2>4
<1>. QED  BY <1>1, <1>2, <1>3, <1>4, ResultKnows

-----------------------------------------------------------------------------
(* The player.                                                             *)

(* Pausing first makes no difference to what a stop retains.               *)
LEMMA OffResult ==
  ASSUME NEW f \in Seq(Frames), NEW p, NEW c, Good(c), Sure(c, f, p)
  PROVE  Result(c, ExploreOffCommand(c), f, p)
<1>1. Able(c) /\ Shape(c) /\ Ordered(c)
  BY DEF Good, Able, Sure
<1>2. CASE ~c.active
  BY <1>1, <1>2, StopResult DEF ExploreOffCommand
<1>3. CASE c.active
  <2>. DEFINE e == Pause(c, FALSE)
              d == Stop(e, FALSE)
  <2>1. ExploreOffCommand(c) = d
    BY <1>3 DEF ExploreOffCommand
  <2>2. Able(e)
    BY <1>1, PauseAble
  <2>3. /\ e.map = c.map /\ e.filed = c.filed /\ e.batch = c.batch /\ e.farm = c.farm
        /\ e.held = c.held /\ e.wire = c.wire /\ e.info = c.info /\ e.pending = <<>>
    BY <1>1 DEF Pause, Shape, Fields
  <2>. HIDE DEF e
  <2>4. ~e.farm /\ (HoldsRooms(e) => e.held)
    BY <1>1, <2>3 DEF Ordered, HoldsRooms
  <2>5. /\ Settles(e, d) /\ ~d.active
        /\ Loose(d) \/ (~e.batch /\ Retains(e, d))
    BY <2>2, <2>4, StopSettles
  <2>6. ~d.enabled
    BY <2>2, StopGood
  <2>. HIDE DEF d
  <2>7. Ordered(d) /\ d.info = c.info
    BY <2>3, <2>5 DEF Settles
  <2>8. CASE Loose(d)
    BY <2>1, <2>7, <2>8, LooseResult
  <2>9. CASE ~e.batch /\ Retains(e, d)
    <3>1. d.pending = <<>>
      BY <2>3, <2>9 DEF Retains
    <3>2. Retains(c, d)
      BY <2>3, <2>5, <2>6, <2>9, <3>1 DEF Retains
    <3>. QED  BY <1>1, <2>1, <2>7, <3>2, RetainsResult
  <2>. QED  BY <2>5, <2>8, <2>9
<1>. QED  BY <1>2, <1>3

(* A reset empties the map around the fix; a move under way then leads to  *)
(* the first room of the new map.                                          *)
LEMMA BlankedFits ==
  ASSUME NEW c, Able(c), Ordered(c), c.active, ~c.batch, NEW d, ~HoldsRooms(d),
         d.pending = <<>>, d.info = c.info, d.arrival = c.arrival, d.enabled = c.enabled, ~d.batch,
         NEW x \in Fixes, Fits(c, x)
  PROVE  Fits(d, x)
<1>. DEFINE r == x.rest
            n == Len(r)
<1>1. r \in Seq(Dirs) /\ (x.long \/ n <= 1)
  BY FixType
<1>. HIDE DEF r
<1>2. n \in Nat /\ (n = 0 => r = <<>>)
  BY <1>1
<1>. HIDE DEF n
<1>3. ASSUME x.mode = "live"
      PROVE  r = <<>> \/ (n = 1 /\ Lags(d, x))
  <2>1. ~x.long
    BY <1>3 DEF Fits
  <2>2. n = 0 \/ n = 1
    BY <1>1, <1>2, <2>1
  <2>3. r = c.pending \/ r = <<>> \/ Lags(c, x)
    BY <1>3 DEF Fits, r
  <2>4. Lags(c, x) => Lags(d, x)
    BY DEF Lags
  <2>5. r = c.pending /\ r # <<>> => Lags(d, x)
    BY DEF Ordered, Lags
  <2>. QED  BY <1>2, <2>2, <2>3, <2>4, <2>5
<1>4. ASSUME x.mode = "live"
      PROVE  \/ x.rest = <<>> /\ ~d.batch
             \/ d.pending = <<>> /\ Len(x.rest) = 1 /\ ~d.batch /\ Lags(d, x)
  BY <1>3, <1>4 DEF r, n
<1>5. x.mode = "live" => ~x.long /\ x.at \in Places \ {Lobby}
  BY DEF Fits
<1>6. /\ x.mode # "stuck" /\ (x.mode = "leaving" => d.info = Lobby)
      /\ (x.mode = "gone" => d.info = Lobby)
  BY DEF Fits
<1>. QED  BY <1>4, <1>5, <1>6 DEF Fits

(* "/step explore reset" (explore_reset).                                  *)
LEMMA ResetResult ==
  ASSUME NEW f \in Seq(Frames), NEW p, NEW c, Good(c), Sure(c, f, p)
  PROVE  Result(c, ExploreResetCommand(c), f, p)
<1>1. Able(c) /\ Shape(c) /\ Ordered(c)
  BY DEF Good, Able, Sure
<1>2. CASE c.batch
  BY <1>1, <1>2, StopResult DEF ExploreResetCommand
<1>3. CASE ~c.batch /\ ~c.held
  BY <1>3 DEF ExploreResetCommand, Result, Surveys
<1>4. CASE ~c.batch /\ c.held
  <2>. DEFINE e == [Blank(c) EXCEPT !.unanchored = TRUE]
              d == Send(e, <<"refresh">>)
  <2>1. ExploreResetCommand(c) = d
    BY <1>4 DEF ExploreResetCommand, ResetMap
  <2>2. Able(e)
    BY <1>1, <1>4, ResetMapAble DEF ResetMap
  <2>3. /\ e.map = NewMap /\ e.pending = <<>> /\ e.info = c.info /\ e.enabled = c.enabled
        /\ e.arrival = c.arrival /\ e.active = c.active /\ e.batch = c.batch /\ e.farm = c.farm
        /\ e.held = c.held /\ e.mode = c.mode /\ e.wire = c.wire
    BY <1>1 DEF Blank, Shape, Fields
  <2>. HIDE DEF e
  <2>4. /\ \E cmds \in Seq(Plain) : d.wire = e.wire \o cmds
        /\ \A field \in Fields \ {"wire"} : d[field] = e[field]
    BY <2>2, PlainSent
  <2>. HIDE DEF d
  <2>5. /\ d.map = NewMap /\ d.pending = <<>> /\ d.info = c.info /\ d.enabled = c.enabled
        /\ d.arrival = c.arrival /\ d.active = c.active /\ d.batch = c.batch /\ d.farm = c.farm
        /\ d.held = c.held /\ d.mode = c.mode
    BY <2>3, <2>4 DEF Fields
  <2>6. ~HoldsRooms(d)
    BY <2>5 DEF HoldsRooms, NewMap, Visited
  <2>7. Ordered(d)
    <3>1. ~(Len(d.pending) > 1)
      BY <2>5
    <3>. QED  BY <1>1, <2>5, <2>6, <3>1 DEF Ordered
  <2>8. ASSUME ~Loose(d) PROVE \E x \in Fixes : Tracked(d, f, p, x)
    <3>1. c.active /\ ~Loose(c)
      BY <2>5, <2>6, <2>8 DEF Loose
    <3>2. PICK x \in Fixes : Tracked(c, f, p, x)
      BY <3>1 DEF Sure
    <3>3. Fits(d, x)
      BY <1>1, <1>4, <2>5, <2>6, <3>1, <3>2, BlankedFits DEF Tracked
    <3>4. PICK cmds \in Seq(Plain) : d.wire = c.wire \o cmds
      BY <2>3, <2>4
    <3>5. c.wire \in Seq(Commands)
      BY <1>1 DEF Able, Sends
    <3>6. Ahead(f, c.wire \o cmds, p, x)
      BY <3>2, <3>5, AheadSent DEF Tracked
    <3>. QED  BY <3>2, <3>3, <3>4, <3>6 DEF Tracked
  <2>9. Filed(d) = {} /\ Charts(d)
    <3>1. Visited(d.map) = {}
      BY <2>6 DEF HoldsRooms
    <3>. QED  BY <3>1 DEF Filed, Charts, HoldsRooms
  <2>. QED  BY <2>1, <2>5, <2>7, <2>8, <2>9 DEF Result, Sure, Surveys
<1>. QED  BY <1>2, <1>3, <1>4

(* The way home is planned; nothing is sent yet.                           *)
LEMMA LeaveResult ==
  ASSUME NEW f \in Seq(Frames), NEW p, NEW c, Able(c), Sure(c, f, p)
  PROVE  Result(c, Leave(c), f, p)
<1>. DEFINE d == Leave(c)
<1>1. Shape(c) /\ Ordered(c)
  BY DEF Able, Sure
<1>2. /\ d.map = c.map /\ d.filed = c.filed /\ d.pending = c.pending /\ d.batch = c.batch
      /\ d.enabled = c.enabled /\ d.arrival = c.arrival /\ d.active = c.active /\ d.info = c.info
      /\ d.farm = c.farm /\ d.held = c.held /\ d.mode = c.mode /\ d.wire = c.wire
  BY <1>1 DEF Leave, Shape, Fields
<1>. HIDE DEF d
<1>3. \E cmds \in Seq(Plain) : d.wire = c.wire \o cmds
  BY <1>2, NothingSent
<1>4. Retains(c, d)
  BY <1>2, <1>3 DEF Retains
<1>5. HoldsRooms(d) <=> HoldsRooms(c)
  BY <1>2 DEF HoldsRooms
<1>6. Ordered(d)
  BY <1>1, <1>2, <1>5 DEF Ordered
<1>. QED  BY <1>2, <1>4, <1>6, RetainsResult DEF d

(* A client with no map, and none being made.                              *)
Mapless(c, d) == Ordered(d) /\ Loose(d) /\ d.info = c.info

(* Sending more leaves a client with no map so.                            *)
LEMMA MaplessSends ==
  ASSUME NEW c, NEW d, Shape(d), Mapless(c, d), NEW cmds
  PROVE  Mapless(c, Send(d, cmds))
<1>. DEFINE e == Send(d, cmds)
<1>1. /\ e.map = d.map /\ e.filed = d.filed /\ e.pending = d.pending /\ e.batch = d.batch
      /\ e.enabled = d.enabled /\ e.arrival = d.arrival /\ e.active = d.active /\ e.info = d.info
      /\ e.farm = d.farm /\ e.held = d.held /\ e.mode = d.mode
  BY DEF Send, Shape, Fields
<1>. HIDE DEF e
<1>2. HoldsRooms(e) <=> HoldsRooms(d)
  BY <1>1 DEF HoldsRooms
<1>. QED  BY <1>1, <1>2 DEF Mapless, Ordered, Loose, e

(* Giving up the map between steps leaves none.                            *)
LEMMA DiscardMapless ==
  ASSUME NEW c, Shape(c), Ordered(c), ~c.batch
  PROVE  Mapless(c, Discard(c)) /\ Shape(Discard(c))
<1>. DEFINE d == Discard(c)
<1>1. /\ d.map = NewMap /\ d.info = c.info /\ d.pending = <<>> /\ ~d.active /\ ~d.held
      /\ d.farm = c.farm /\ d.arrival = c.arrival /\ d.batch = c.batch /\ d.enabled = c.enabled
      /\ d.mode = c.mode /\ Shape(d)
  BY DEF Discard, Blank, Shape, Fields
<1>. HIDE DEF d
<1>2. Loose(d)
  BY <1>1, EmptiedLoose
<1>3. ~(Len(d.pending) > 1)
  BY <1>1
<1>4. Ordered(d)
  BY <1>1, <1>2, <1>3 DEF Ordered, Loose
<1>. QED  BY <1>1, <1>2, <1>4 DEF Mapless, d

(* So does resetting the map of a paused explorer.                         *)
LEMMA ResetMapless ==
  ASSUME NEW c, Able(c), Ordered(c), ~c.active
  PROVE  Mapless(c, ResetMap(c)) /\ Shape(ResetMap(c))
<1>1. Shape(c)
  BY DEF Able
<1>2. CASE ~c.held
  BY <1>1, <1>2 DEF ResetMap, Mapless, Loose, Ordered
<1>3. CASE c.held
  <2>. DEFINE d == [Blank(c) EXCEPT !.unanchored = TRUE]
  <2>1. ResetMap(c) = d
    BY <1>3 DEF ResetMap
  <2>2. /\ d.map = NewMap /\ d.info = c.info /\ d.pending = <<>> /\ d.active = c.active
        /\ d.held = c.held /\ d.farm = c.farm /\ d.arrival = c.arrival /\ d.batch = c.batch
        /\ d.enabled = c.enabled /\ d.mode = c.mode /\ Shape(d)
    BY <1>1 DEF Blank, Shape, Fields
  <2>. HIDE DEF d
  <2>3. Loose(d)
    BY <2>2, EmptiedLoose
  <2>4. ~(Len(d.pending) > 1)
    BY <2>2
  <2>5. Ordered(d)
    BY <2>2, <2>3, <2>4 DEF Ordered, Loose
  <2>. QED  BY <2>1, <2>2, <2>3, <2>5 DEF Mapless
<1>. QED  BY <1>2, <1>3

(* What a stop leaves may be given up or reset like any paused explorer.   *)
LEMMA StoppedOrdered ==
  ASSUME NEW c, Able(c), Ordered(c)
  PROVE  LET s == Stop(c, FALSE)
         IN Able(s) /\ Ordered(s) /\ ~s.active /\ ~s.batch /\ s.info = c.info
<1>. DEFINE s == Stop(c, FALSE)
<1>1. ~c.farm /\ (HoldsRooms(c) => c.held)
  BY DEF Ordered
<1>2. Settles(c, s) /\ ~s.active
  BY <1>1, StopSettles
<1>3. Able(s)
  BY StopGood DEF Good
<1>. HIDE DEF s
<1>4. Ordered(s) /\ s.info = c.info
  BY <1>2 DEF Settles
<1>5. ~s.batch
  BY <1>2, <1>4 DEF Ordered
<1>. QED  BY <1>2, <1>3, <1>4, <1>5 DEF s

(* A direction typed by hand leaves no map, once a run has its first room. *)
LEMMA HandMapless ==
  ASSUME NEW c, Good(c), Ordered(c), HoldsRooms(c) \/ ~c.enabled
  PROVE  Mapless(c, OnHandMove(c)) /\ Shape(OnHandMove(c))
<1>1. Able(c) /\ Shape(c)
  BY DEF Good, Able
<1>2. CASE ~HoldsRooms(c)
  <2>1. ~c.active
    BY <1>2 DEF Ordered
  <2>. QED  BY <1>1, <1>2, <2>1 DEF OnHandMove, Mapless, Loose
<1>3. CASE HoldsRooms(c)
  <2>. DEFINE s == IF c.enabled /\ c.mode = "explore" THEN Stop(c, FALSE) ELSE c
              b == [s EXCEPT !.hold_timer = FALSE]
  <2>1. OnHandMove(c) = ResetMap(b)
    BY <1>3 DEF OnHandMove
  <2>2. Able(s) /\ Ordered(s) /\ ~s.active /\ s.info = c.info
    BY <1>1, StoppedOrdered DEF Ordered
  <2>. HIDE DEF s
  <2>3. Shape(s)
    BY <2>2 DEF Able
  <2>4. /\ Shape(b) /\ Alike(s, b) /\ b.arrival = s.arrival /\ b.batch = s.batch
        /\ Steers(s, b)
    BY <2>3 DEF Shape, Fields, Alike, Steers, SameMap, SameView, SameNews, SameWire, SameHold
  <2>5. ControlType(b)
    <3>1. /\ b.state = s.state /\ b.leaving = s.leaving /\ b.unanchored = s.unanchored
          /\ ~b.hold_timer /\ b.hold_timer \in BOOLEAN /\ b.farm_timer = s.farm_timer
          /\ b.waits = s.waits
      BY <2>3 DEF Shape, Fields
    <3>. HIDE DEF b
    <3>. QED  BY <2>2, <2>4, <3>1 DEF Able, ControlType, Alike
  <2>. HIDE DEF b
  <2>6. Able(b)
    BY <2>2, <2>4, <2>5, SteersKeeps
  <2>7. Ordered(b) /\ ~b.active /\ b.info = c.info
    <3>1. Ordered(b)
      BY <2>2, <2>4, AlikeFits
    <3>. QED  BY <2>2, <2>4, <3>1 DEF Alike
  <2>8. Mapless(b, ResetMap(b)) /\ Shape(ResetMap(b))
    BY <2>6, <2>7, ResetMapless
  <2>. QED  BY <2>1, <2>7, <2>8 DEF Mapless
<1>. QED  BY <1>2, <1>3

(* A new sea, or a reload, leaves none either.                             *)
LEMMA RediveMapless ==
  ASSUME NEW c, Able(c), Ordered(c)
  PROVE  /\ Mapless(c, Redive(c)) /\ Shape(Redive(c))
         /\ Mapless(c, Unload(c))
<1>1. Shape(c)
  BY DEF Able
<1>2. ASSUME ~c.held PROVE Mapless(c, Redive(c)) /\ Shape(Redive(c))
  <2>1. ~c.active /\ ~HoldsRooms(c)
    BY <1>2 DEF Able, Holding, Ordered
  <2>. QED  BY <1>1, <1>2, <2>1 DEF Redive, Mapless, Loose
<1>. DEFINE s == Stop(c, FALSE)
<1>3. Able(s) /\ Ordered(s) /\ ~s.active /\ ~s.batch /\ s.info = c.info /\ Shape(s)
  BY StoppedOrdered DEF Able
<1>4. ASSUME c.held PROVE Mapless(c, Redive(c)) /\ Shape(Redive(c))
  <2>. DEFINE b == IF c.batch THEN s ELSE c
  <2>1. Redive(c) = Discard(b)
    BY <1>4 DEF Redive
  <2>. HIDE DEF s
  <2>2. Shape(b) /\ Ordered(b) /\ ~b.batch /\ b.info = c.info
    BY <1>1, <1>3
  <2>. HIDE DEF b
  <2>3. Mapless(b, Discard(b)) /\ Shape(Discard(b))
    BY <2>2, DiscardMapless
  <2>. QED  BY <2>1, <2>2, <2>3 DEF Mapless
<1>5. Mapless(c, Unload(c))
  <2>. DEFINE d == Discard(s)
              u == [d EXCEPT !.farm = FALSE]
  <2>1. Unload(c) = u
    BY DEF Unload
  <2>. HIDE DEF s
  <2>2. Mapless(s, d) /\ Shape(d)
    BY <1>3, DiscardMapless
  <2>. HIDE DEF d
  <2>3. /\ u.map = d.map /\ u.filed = d.filed /\ u.pending = d.pending /\ u.batch = d.batch
        /\ u.enabled = d.enabled /\ u.arrival = d.arrival /\ u.active = d.active /\ u.info = d.info
        /\ ~u.farm /\ u.held = d.held /\ u.mode = d.mode
    BY <2>2 DEF Shape, Fields
  <2>. HIDE DEF u
  <2>4. HoldsRooms(u) <=> HoldsRooms(d)
    BY <2>3 DEF HoldsRooms
  <2>5. Ordered(u) /\ Loose(u) /\ u.info = c.info
    BY <1>3, <2>2, <2>3, <2>4 DEF Mapless, Ordered, Loose
  <2>. QED  BY <2>1, <2>5 DEF Mapless
<1>. QED  BY <1>2, <1>4, <1>5

(* To have no map is safe.                                                 *)
LEMMA MaplessResult ==
  ASSUME NEW c, NEW d, Mapless(c, d), NEW f, NEW p
  PROVE  Result(c, d, f, p)
BY LooseResult DEF Mapless

(* What the player does other than starting or losing the connection.      *)
LEMMA ActsKnows ==
  ASSUME Inv, Control(client), Knows(client, frames, here), Undisturbed',
         \/ PlayerStops \/ PlayerResets \/ PlayerLeaves \/ PlayerFarms \/ PlayerWalks
         \/ PlayerWalksOut \/ PlayerRedives \/ Reload
  PROVE  Knows(client', frames', here') /\ Surveys(client, client')
<1>1. /\ Good(client) /\ Able(client) /\ Ordered(client) /\ Sure(client, frames, here)
      /\ Announced(client, frames, here) /\ frames \in Seq(Frames) /\ Shape(client)
      /\ FALSE \in BOOLEAN
  BY DEF Inv, World, Good, Able, Knows, Sure
<1>2. ~Spend("farm") /\ ~Eager
  BY Unspent DEF Undisturbed
<1>3. ASSUME NEW kind, NEW d, Command(kind, d), Result(client, d, frames, here),
             d.online = client.online
      PROVE  Knows(client', frames', here') /\ Surveys(client, client')
  <2>1. client' = d /\ frames' = frames /\ here' = here
    BY <1>3 DEF Command, Client
  <2>2. Knows(d, frames, here) /\ Surveys(client, d)
    BY <1>1, <1>3, ResultKnows
  <2>. QED  BY <2>1, <2>2
<1>4. CASE PlayerStops
  <2>1. \/ Command("stop", Stop(client, FALSE)) \/ Command("stop", ExploreOffCommand(client))
    BY <1>4 DEF PlayerStops
  <2>2. Result(client, Stop(client, FALSE), frames, here)
        /\ Result(client, ExploreOffCommand(client), frames, here)
    BY <1>1, StopResult, OffResult
  <2>3. Stop(client, FALSE).online = client.online
        /\ ExploreOffCommand(client).online = client.online
    BY <1>1, StopGood, ExploreOffGood
  <2>. QED  BY <1>3, <2>1, <2>2, <2>3
<1>5. CASE PlayerResets
  <2>1. Result(client, ExploreResetCommand(client), frames, here)
        /\ ExploreResetCommand(client).online = client.online
    BY <1>1, ResetResult, ExploreResetGood
  <2>. QED  BY <1>3, <1>5, <2>1 DEF PlayerResets
<1>6. CASE PlayerLeaves
  <2>1. Result(client, Leave(client), frames, here) /\ Leave(client).online = client.online
    BY <1>1, LeaveResult, LeaveGood
  <2>. QED  BY <1>3, <1>6, <2>1 DEF PlayerLeaves
<1>7. CASE PlayerFarms
  BY <1>2, <1>7 DEF PlayerFarms, Command
<1>8. CASE PlayerWalks
  <2>1. HoldsRooms(client) \/ ~client.enabled
    BY <1>2, <1>8 DEF PlayerWalks, MayWalk
  <2>2. PICK dir \in Dirs : Command("hand", Send(OnHandMove(client), <<dir>>))
    BY <1>8 DEF PlayerWalks
  <2>3. Mapless(client, OnHandMove(client)) /\ Shape(OnHandMove(client))
    BY <1>1, <2>1, HandMapless
  <2>4. Result(client, Send(OnHandMove(client), <<dir>>), frames, here)
    BY <2>3, MaplessSends, MaplessResult
  <2>5. Send(OnHandMove(client), <<dir>>).online = client.online
    <3>1. OnHandMove(client).online = client.online
      BY <1>1, OnHandMoveGood
    <3>2. Send(OnHandMove(client), <<dir>>).online = OnHandMove(client).online
      <4>. DEFINE d == OnHandMove(client)
      <4>1. Shape(d)
        BY <2>3
      <4>. HIDE DEF d
      <4>2. Send(d, <<dir>>).online = d.online
        BY <4>1 DEF Send, Shape, Fields
      <4>. QED  BY <4>2 DEF d
    <3>. QED  BY <3>1, <3>2
  <2>. QED  BY <1>3, <2>2, <2>4, <2>5
<1>9. CASE PlayerWalksOut
  <2>1. Result(client, Send(client, <<"out">>), frames, here)
    BY <1>1, PlainResult
  <2>2. Send(client, <<"out">>).online = client.online
    BY <1>1 DEF Send, Shape, Fields
  <2>. QED  BY <1>3, <1>9, <2>1, <2>2 DEF PlayerWalksOut
<1>10. CASE PlayerRedives
  <2>1. Mapless(client, Redive(client)) /\ Shape(Redive(client))
    BY <1>1, RediveMapless
  <2>2. Result(client, Send(Redive(client), <<"newsea">>), frames, here)
    BY <2>1, MaplessSends, MaplessResult
  <2>3. Send(Redive(client), <<"newsea">>).online = client.online
    <3>1. Redive(client).online = client.online
      BY <1>1, RediveGood
    <3>. DEFINE d == Redive(client)
    <3>2. Shape(d)
      BY <2>1
    <3>. HIDE DEF d
    <3>3. Send(d, <<"newsea">>).online = d.online
      BY <3>2 DEF Send, Shape, Fields
    <3>. QED  BY <3>1, <3>3 DEF d
  <2>. QED  BY <1>3, <1>10, <2>2, <2>3 DEF PlayerRedives
<1>11. CASE Reload
  <2>1. Mapless(client, Unload(client))
    BY <1>1, RediveMapless
  <2>2. Result(client, Unload(client), frames, here) /\ Unload(client).online = client.online
    BY <1>1, <2>1, MaplessResult, UnloadGood
  <2>. QED  BY <1>3, <1>11, <2>2 DEF Reload
<1>. QED  BY <1>4, <1>5, <1>6, <1>7, <1>8, <1>9, <1>10, <1>11

(* A refresh has been asked for after everything under way.                *)
Asked(z) == [z EXCEPT !.asked = TRUE]

(* A fix whose directions come before any refresh.                         *)
LEMMA AskedFix ==
  ASSUME NEW z \in Fixes
  PROVE  /\ Asked(z) \in Fixes /\ Asked(z).mode = z.mode /\ Asked(z).at = z.at
         /\ Asked(z).rest = z.rest /\ (Asked(z).long <=> z.long) /\ Asked(z).asked
<1>. DEFINE n == [z EXCEPT !.asked = TRUE]
<1>1. z \in [mode : Modes, at : Spots, rest : Seq(Dirs), long : BOOLEAN, asked : BOOLEAN]
      /\ (z.long \/ Len(z.rest) <= 1)
  BY DEF Fixes
<1>2. n \in [mode : Modes, at : Spots, rest : Seq(Dirs), long : BOOLEAN, asked : BOOLEAN]
  BY <1>1
<1>3. n.mode = z.mode /\ n.at = z.at /\ n.rest = z.rest
  BY <1>1
<1>4. (n.long <=> z.long) /\ n.asked
  BY <1>1
<1>. HIDE DEF n
<1>5. n \in Fixes
  BY <1>1, <1>2, <1>3, <1>4 DEF Fixes
<1>. QED  BY <1>3, <1>4, <1>5 DEF Asked, n

(* Answers to refreshes, and refreshes, apart, it may be asked as well.    *)
Unasked == {e \in Frames : ~(e.kind = "contents" /\ ~e.entry)}

(* No frame but the answer to a refresh tells the two apart,               *)
LEMMA AskedHears ==
  ASSUME NEW f \in Unasked, NEW a \in Fixes, NEW b \in Fixes, <<f, a, b>> \in Heard
  PROVE  <<f, Asked(a), Asked(b)>> \in Heard
<1>. DEFINE c == Asked(a)
            d == Asked(b)
<1>1. f \in Frames /\ Hearing(f, a, b) /\ ~(f.kind = "contents" /\ ~f.entry)
  BY HeardIs DEF Unasked
<1>2. /\ c \in Fixes /\ c.mode = a.mode /\ c.at = a.at /\ c.rest = a.rest /\ (c.long <=> a.long)
      /\ c.asked
  BY AskedFix
<1>3. /\ d \in Fixes /\ d.mode = b.mode /\ d.at = b.at /\ d.rest = b.rest /\ (d.long <=> b.long)
      /\ d.asked
  BY AskedFix
<1>4. a = b => c = d
  OBVIOUS
<1>. HIDE DEF c, d
<1>5. ASSUME NEW m \in Modes, b = [a EXCEPT !.mode = m] PROVE d = [c EXCEPT !.mode = m]
  <2>. DEFINE e == [c EXCEPT !.mode = m]
  <2>1. b.mode = m /\ b.at = a.at /\ b.rest = a.rest /\ b.long = a.long
    BY <1>5, FixMode
  <2>2. e \in Fixes /\ e.mode = m /\ e.at = c.at /\ e.rest = c.rest /\ e.long = c.long
        /\ e.asked = c.asked
    BY <1>2, FixMode
  <2>. HIDE DEF e
  <2>3. /\ d \in Fixes /\ e \in Fixes /\ d.mode = e.mode /\ d.at = e.at /\ d.rest = e.rest
        /\ (d.long <=> e.long) /\ (d.asked <=> e.asked)
    BY <1>2, <1>3, <2>1, <2>2
  <2>. HIDE DEF Fixes
  <2>4. d = e
    BY <2>3, FixSame
  <2>. QED  BY <2>4 DEF e
<1>6. ASSUME b = [a EXCEPT !.rest = <<>>] PROVE d = [c EXCEPT !.rest = <<>>]
  <2>. DEFINE e == [c EXCEPT !.rest = <<>>]
  <2>1. b.mode = a.mode /\ b.at = a.at /\ b.rest = <<>> /\ b.long = a.long
    BY <1>6, FixCut
  <2>2. e \in Fixes /\ e.mode = c.mode /\ e.at = c.at /\ e.rest = <<>> /\ e.long = c.long
        /\ e.asked = c.asked
    BY <1>2, FixCut
  <2>. HIDE DEF e
  <2>3. /\ d \in Fixes /\ e \in Fixes /\ d.mode = e.mode /\ d.at = e.at /\ d.rest = e.rest
        /\ (d.long <=> e.long) /\ (d.asked <=> e.asked)
    BY <1>2, <1>3, <2>1, <2>2
  <2>. HIDE DEF Fixes
  <2>4. d = e
    BY <2>3, FixSame
  <2>. QED  BY <2>4 DEF e
<1>7. ASSUME a.rest # <<>>, b = Moved(a) PROVE d = Moved(c)
  <2>. DEFINE e == Moved(c)
  <2>1. /\ b.mode = a.mode /\ b.at = Towards(a.at, Head(a.rest)) /\ b.rest = Tail(a.rest)
        /\ b.long <=> (a.long /\ Tail(a.rest) # <<>>)
    BY <1>7, MovedFix
  <2>2. /\ e \in Fixes /\ e.mode = c.mode /\ e.at = Towards(c.at, Head(c.rest))
        /\ e.rest = Tail(c.rest) /\ e.asked = c.asked
        /\ e.long <=> (c.long /\ Tail(c.rest) # <<>>)
    BY <1>2, <1>7, MovedFix
  <2>. HIDE DEF e
  <2>3. (e.long <=> d.long) /\ (e.asked <=> d.asked)
    BY <1>2, <1>3, <2>1, <2>2
  <2>4. d.mode = e.mode /\ d.at = e.at /\ d.rest = e.rest
    BY <1>2, <1>3, <2>1, <2>2
  <2>5. d = e
    BY <1>3, <2>2, <2>3, <2>4, FixSame
  <2>. QED  BY <2>5 DEF e
<1>8. CASE a.mode = "stuck"
  <2>1. Hearing(f, c, d)
    BY <1>1, <1>2, <1>4, <1>8 DEF Hearing
  <2>. QED  BY <1>1, <1>2, <1>3, <2>1, HeardIs DEF c, d
<1>9. CASE a.mode = "gone"
  <2>1. Hearing(f, c, d)
    BY <1>1, <1>2, <1>4, <1>9 DEF Hearing
  <2>. QED  BY <1>1, <1>2, <1>3, <2>1, HeardIs DEF c, d
<1>10. CASE a.mode = "leaving"
  <2>1. b = [a EXCEPT !.mode = "gone"] /\ f.kind = "contents" /\ f.entry /\ f.place = Lobby
    BY <1>1, <1>10 DEF Hearing
  <2>2. d = [c EXCEPT !.mode = "gone"]
    BY <1>5, <2>1 DEF Modes
  <2>3. Hearing(f, c, d)
    BY <1>2, <1>10, <2>1, <2>2 DEF Hearing
  <2>. QED  BY <1>1, <1>2, <1>3, <2>3, HeardIs DEF c, d
<1>11. CASE a.mode = "live"
  <2>1. \/ f.kind = "info" /\ f.place = Lobby /\ b = [a EXCEPT !.mode = "leaving"]
        \/ f.kind = "info" /\ f.place # Lobby /\ b = a
        \/ /\ f.kind = "contents" /\ f.entry
           /\ a.rest # <<>> /\ Head(a.rest) \in ExitsOf(a.at)
           /\ f.place = Towards(a.at, Head(a.rest)) /\ b = Moved(a)
        \/ f.kind = "blocked" /\ a.rest # <<>> /\ a.long /\ b = [a EXCEPT !.mode = "stuck"]
        \/ f.kind = "blocked" /\ a.rest # <<>> /\ ~a.long /\ b = a
        \/ f.kind = "blocked" /\ a.rest # <<>> /\ ~a.long /\ b = [a EXCEPT !.rest = <<>>]
        \/ f.kind \in {"combat_end", "no_target"} /\ b = a
    BY <1>1, <1>11 DEF Hearing, Hears
  <2>2. /\ b = [a EXCEPT !.mode = "leaving"] => d = [c EXCEPT !.mode = "leaving"]
        /\ b = [a EXCEPT !.mode = "stuck"] => d = [c EXCEPT !.mode = "stuck"]
    BY <1>5 DEF Modes
  <2>3. Hears(f, c, d)
    BY <1>2, <1>4, <1>6, <1>7, <2>1, <2>2 DEF Hears
  <2>. QED  BY <1>1, <1>2, <1>3, <1>11, <2>3, HeardIs DEF Hearing, c, d
<1>. QED  BY <1>8, <1>9, <1>10, <1>11, FixType DEF Modes

(* nor any command but another refresh.                                    *)
LEMMA AskedGiven ==
  ASSUME NEW cmd \in Commands \ {"refresh"}, NEW a \in Fixes, NEW b \in Fixes, <<cmd, a, b>> \in Given
  PROVE  <<cmd, Asked(a), Asked(b)>> \in Given
<1>. DEFINE c == Asked(a)
            d == Asked(b)
<1>1. cmd \in Commands /\ Giving(cmd, a, b)
  BY GivenIs
<1>2. /\ c \in Fixes /\ c.mode = a.mode /\ c.at = a.at /\ c.rest = a.rest /\ (c.long <=> a.long)
      /\ c.asked
  BY AskedFix
<1>3. /\ d \in Fixes /\ d.mode = b.mode /\ d.at = b.at /\ d.rest = b.rest /\ (d.long <=> b.long)
      /\ d.asked
  BY AskedFix
<1>4. a = b => c = d
  OBVIOUS
<1>. HIDE DEF c, d
<1>5. ASSUME a.rest # <<>>, b = Moved(a) PROVE d = Moved(c)
  <2>. DEFINE e == Moved(c)
  <2>1. /\ b.mode = a.mode /\ b.at = Towards(a.at, Head(a.rest)) /\ b.rest = Tail(a.rest)
        /\ b.long <=> (a.long /\ Tail(a.rest) # <<>>)
    BY <1>5, MovedFix
  <2>2. /\ e \in Fixes /\ e.mode = c.mode /\ e.at = Towards(c.at, Head(c.rest))
        /\ e.rest = Tail(c.rest) /\ e.asked = c.asked
        /\ e.long <=> (c.long /\ Tail(c.rest) # <<>>)
    BY <1>2, <1>5, MovedFix
  <2>. HIDE DEF e
  <2>3. (e.long <=> d.long) /\ (e.asked <=> d.asked)
    BY <1>2, <1>3, <2>1, <2>2
  <2>4. d.mode = e.mode /\ d.at = e.at /\ d.rest = e.rest
    BY <1>2, <1>3, <2>1, <2>2
  <2>5. d = e
    BY <1>3, <2>2, <2>3, <2>4, FixSame
  <2>. QED  BY <2>5 DEF e
<1>6. Giving(cmd, c, d)
  BY <1>1, <1>2, <1>4, <1>5 DEF Giving
<1>. QED  BY <1>1, <1>2, <1>3, <1>6, GivenIs DEF c, d

(* Where no refresh is under way another may be asked for.                 *)
LEMMA AheadAsked ==
  ASSUME NEW f \in Seq(Frames), NEW s \in Seq(Commands), NEW p, NEW x, Ahead(f, s, p, x),
         \A i \in DOMAIN s : s[i] # "refresh",
         \A i \in DOMAIN f : ~(f[i].kind = "contents" /\ ~f[i].entry)
  PROVE  Ahead(f, s, p, Asked(x))
<1>. DEFINE g == [z \in Fixes |-> Asked(z)]
            E == Commands \ {"refresh"}
<1>1. PICK y \in Fixes, w \in Fixes :
         /\ Passes(Heard, Fixes, f, x, y) /\ Stands(y, p)
         /\ Passes(Given, Fixes, s, y, w) /\ Ends(w)
  BY DEF Ahead, Lasts
<1>2. g \in [Fixes -> Fixes] /\ \A z \in Fixes : g[z] = Asked(z)
  BY AskedFix
<1>. HIDE DEF g
<1>3. f \in Seq(Unasked) /\ s \in Seq(E)
  <2>1. \A i \in DOMAIN f : f[i] \in Unasked
    <3>1. \A i \in DOMAIN f : f[i] \in Frames
      <4>. HIDE DEF Frames
      <4>. QED  OBVIOUS
    <3>. QED  BY <3>1 DEF Unasked
  <2>2. \A i \in DOMAIN s : s[i] \in E
    <3>1. \A i \in DOMAIN s : s[i] \in Commands
      <4>. HIDE DEF Commands
      <4>. QED  OBVIOUS
    <3>. QED  BY <3>1
  <2>. HIDE DEF Frames, Commands, Unasked, E
  <2>. QED  BY <2>1, <2>2
<1>4. Passes(Heard, Fixes, f, g[x], g[y])
  <2>1. \A e \in Unasked, a \in Fixes, b \in Fixes : <<e, a, b>> \in Heard => <<e, g[a], g[b]>> \in Heard
    BY <1>2, AskedHears
  <2>. HIDE DEF Fixes, Unasked
  <2>. QED  BY <1>1, <1>2, <1>3, <2>1, PassesRenamed
<1>5. Passes(Given, Fixes, s, g[y], g[w])
  <2>1. \A e \in E, a \in Fixes, b \in Fixes : <<e, a, b>> \in Given => <<e, g[a], g[b]>> \in Given
    BY <1>2, AskedGiven
  <2>. HIDE DEF Fixes, E
  <2>. QED  BY <1>1, <1>2, <1>3, <2>1, PassesRenamed
<1>6. x \in Fixes
  <2>1. PICK h \in [0 .. Len(f) -> Fixes] : h[0] = x
    BY <1>1 DEF Passes
  <2>2. 0 \in 0 .. Len(f)
    <3>. HIDE DEF Frames
    <3>. QED  OBVIOUS
  <2>. HIDE DEF Fixes
  <2>. QED  BY <2>1, <2>2
<1>7. /\ g[y] \in Fixes /\ g[y].mode = y.mode /\ g[y].at = y.at
      /\ g[w] \in Fixes /\ g[w].mode = w.mode /\ g[w].rest = w.rest
  BY <1>1, <1>2, AskedFix
<1>8. Stands(g[y], p) /\ Ends(g[w])
  BY <1>1, <1>7 DEF Stands, Ends
<1>9. g[x] = Asked(x)
  BY <1>2, <1>6
<1>. QED  BY <1>4, <1>5, <1>7, <1>8, <1>9 DEF Ahead, Lasts

(* Nothing but the wire changed: a client as sure of the same map.         *)
LEMMA WireOnly ==
  ASSUME NEW c, Shape(c), NEW d, \A field \in Fields \ {"wire"} : d[field] = c[field]
  PROVE  /\ Ordered(c) => Ordered(d)
         /\ Charts(c) => Charts(d)
         /\ Loose(d) <=> Loose(c)
         /\ HoldsRooms(d) <=> HoldsRooms(c)
         /\ Filed(d) = Filed(c) /\ Surveys(c, d)
         /\ d.info = c.info /\ d.online = c.online
         /\ \A x : Fits(c, x) => Fits(d, x)
<1>1. /\ d.map = c.map /\ d.filed = c.filed /\ d.pending = c.pending /\ d.batch = c.batch
      /\ d.enabled = c.enabled /\ d.arrival = c.arrival /\ d.active = c.active /\ d.info = c.info
      /\ d.farm = c.farm /\ d.held = c.held /\ d.mode = c.mode /\ d.online = c.online
  BY DEF Fields
<1>2. HoldsRooms(d) <=> HoldsRooms(c)
  BY <1>1 DEF HoldsRooms
<1>3. (Ordered(c) => Ordered(d)) /\ (Loose(d) <=> Loose(c))
  BY <1>1, <1>2 DEF Ordered, Loose
<1>4. (Charts(c) => Charts(d)) /\ Filed(d) = Filed(c)
  BY <1>1, ChartsSame, FiledFacts
<1>5. \A x : Fits(c, x) => Fits(d, x)
  BY <1>1, <1>2 DEF Fits, Lags
<1>. QED  BY <1>1, <1>2, <1>3, <1>4, <1>5 DEF Surveys

(* What the game does keeps the client as sure as it was.                  *)
LEMMA GameKnows ==
  ASSUME Inv, Knows(client, frames, here), Undisturbed', Game \/ Wimpy \/ StrayCombatFrame
  PROVE  Knows(client', frames', here') /\ Surveys(client, client')
<1>1. Shape(client) /\ Sure(client, frames, here) /\ Announced(client, frames, here)
  BY DEF Inv, Good, Able, Knows
<1>2. ~Wimpy
  BY Unspent DEF Wimpy
<1>3. client' = Taken \/ client' = client
  BY <1>2 DEF Game, GameMoves, GameLeaves, GameEntersSea, GameIgnores, GameFights,
              GameRefreshes, MonsterDies, StrayCombatFrame
<1>4. \A field \in Fields \ {"wire"} : (client')[field] = client[field]
  BY <1>1, <1>3 DEF Taken, Shape, Fields
<1>. DEFINE d == client'
<1>5. /\ Ordered(client) => Ordered(d)
      /\ Charts(client) => Charts(d)
      /\ Loose(d) <=> Loose(client)
      /\ Surveys(client, d)
      /\ \A x : Fits(client, x) => Fits(d, x)
  BY <1>1, <1>4, WireOnly
<1>6. ASSUME ~Loose(d) PROVE \E x \in Fixes : Tracked(d, frames', here', x)
  <2>1. PICK x \in Fixes : Tracked(client, frames, here, x)
    BY <1>1, <1>5, <1>6 DEF Sure
  <2>2. Ahead(frames', client'.wire, here', x)
    BY <2>1, GameAhead DEF Tracked
  <2>. QED  BY <1>5, <2>1, <2>2 DEF Tracked
<1>7. Sure(d, frames', here')
  BY <1>1, <1>5, <1>6 DEF Sure
<1>8. Announced(client', frames', here')
  BY <1>1, <1>2, GameAnnounced
<1>. QED  BY <1>5, <1>7, <1>8 DEF Knows

(* The plugin is loaded knowing where the player is, and nothing more.     *)
LEMMA LoadedKnows == Init => Knows(client, frames, here)
<1>. SUFFICES ASSUME Init PROVE Knows(client, frames, here)
  OBVIOUS
<1>1. /\ client.enabled = FALSE /\ client.active = FALSE /\ client.batch = FALSE
      /\ client.farm = FALSE /\ client.arrival = "none" /\ client.pending = <<>>
      /\ client.map = NewMap /\ client.info = Entrance(1)
      /\ frames = <<>> /\ here = Entrance(1)
  BY DEF Init, Loaded
<1>2. Loose(client)
  BY <1>1, EmptiedLoose
<1>3. Ordered(client)
  BY <1>1, <1>2 DEF Ordered, Loose
<1>4. Sure(client, frames, here)
  BY <1>2, <1>3, LooseSure
<1>5. Entrance(1) \in Places
  BY DoorsType, MazeAssumption
<1>6. Announced(client, frames, here)
  BY <1>1, <1>5, PassesNothing DEF Announced
<1>. QED  BY <1>4, <1>6 DEF Knows

(* A new session tells where the player is.                                *)
LEMMA ReconnectKnows ==
  ASSUME Inv, Knows(client, frames, here), Reconnect
  PROVE  Knows(client', frames', here') /\ Surveys(client, client')
<1>. DEFINE d == [client EXCEPT !.online = TRUE]
<1>1. PICK seen \in MaySee :
        /\ client' = d /\ here' = here
        /\ frames' = <<[kind |-> "info", place |-> here], ContentsOf(here, FALSE, seen)>>
  BY DEF Reconnect
<1>2. /\ Shape(client) /\ Sure(client, frames, here) /\ client.wire = <<>> /\ World
      /\ here \in Places /\ client.info \in Places /\ frames = <<>>
  BY DEF Inv, Good, Able, Holding, Knows, World, Reconnect, Told
<1>3. /\ d.map = client.map /\ d.filed = client.filed /\ d.info = client.info
      /\ d.wire = client.wire /\ d.active = client.active /\ d.held = client.held
      /\ d.pending = client.pending /\ d.farm = client.farm /\ d.enabled = client.enabled
      /\ d.mode = client.mode /\ d.arrival = client.arrival /\ d.batch = client.batch
  BY <1>2 DEF Shape, Fields
<1>. HIDE DEF d
<1>4. HoldsRooms(d) <=> HoldsRooms(client)
  BY <1>3 DEF HoldsRooms
<1>5. /\ Ordered(d) /\ Charts(d) /\ (Loose(d) <=> Loose(client)) /\ Surveys(client, d)
      /\ \A x : Fits(client, x) => Fits(d, x)
  <2>1. Ordered(d) /\ (Loose(d) <=> Loose(client))
    BY <1>2, <1>3, <1>4 DEF Ordered, Loose, Sure
  <2>2. Charts(d) /\ Surveys(client, d)
    BY <1>2, <1>3, ChartsSame, FiledFacts DEF Sure, Surveys
  <2>3. \A x : Fits(client, x) => Fits(d, x)
    BY <1>3, <1>4 DEF Fits, Lags
  <2>. QED  BY <2>1, <2>2, <2>3
<1>. DEFINE info == [kind |-> "info", place |-> here]
            news == ContentsOf(here, FALSE, seen)
<1>6. Announced(d, frames', here')
  BY <1>1, <1>2, <1>3, AnswersTell DEF Announced
<1>7. ASSUME ~Loose(d) PROVE \E x \in Fixes : Tracked(d, frames', here', x)
  <2>1. PICK x \in Fixes : Tracked(client, frames, here, x)
    BY <1>2, <1>5, <1>7 DEF Sure
  <2>2. Stands(x, here) /\ Ends(x)
    BY <1>2, <2>1, AheadQuiet DEF Tracked
  <2>3. Fits(client, x) /\ x.mode # "stuck" /\ x.mode \in Modes
    BY <2>1, FixType DEF Tracked, Fits
  <2>4. x.mode = "gone" \/ x.mode = "live"
    BY <2>2, <2>3 DEF Stands, Modes
  <2>5. x.mode = "live" => here # Lobby /\ here = x.at /\ x.rest = <<>>
    BY <2>2, <2>3 DEF Stands, Ends, Fits
  <2>6. x.mode = "gone" => here = Lobby
    BY <2>2 DEF Stands
  <2>7. info \in Frames /\ news \in Frames
    <3>1. info \in Infos
      BY <1>2 DEF Infos
    <3>2. news \in Contents
      BY <1>2, ContentsType
    <3>. QED  BY <3>1, <3>2 DEF Frames
  <2>8. /\ info.kind = "info" /\ info.place = here
        /\ news.kind = "contents" /\ news.place = here /\ ~news.entry
    BY DEF ContentsOf
  <2>. HIDE DEF info, news
  <2>9. Hearing(info, x, x) /\ Hearing(news, x, x)
    BY <2>4, <2>5, <2>6, <2>8 DEF Hearing, Hears
  <2>10. <<info, x, x>> \in Heard /\ <<news, x, x>> \in Heard
    BY <2>7, <2>9, HeardIs
  <2>11. Passes(Heard, Fixes, <<info, news>>, x, x)
    BY <2>10, PassesTwo
  <2>12. Lasts(<<>>, x)
    BY <2>2, PassesNothing DEF Lasts
  <2>13. Ahead(<<info, news>>, d.wire, here, x)
    BY <1>2, <1>3, <2>2, <2>11, <2>12 DEF Ahead
  <2>. QED  BY <1>1, <1>5, <2>3, <2>13 DEF Tracked, info, news
<1>8. Sure(d, frames', here')
  BY <1>5, <1>7 DEF Sure
<1>. QED  BY <1>1, <1>5, <1>6, <1>8 DEF Knows

(* Frames and lines that are no entries.                                   *)
Entryless == {e \in Frames : ~(e.kind = "contents" /\ e.entry)}

(* The fixes on their way out, and those with them that stay in a room.    *)
Leavers == {z \in Fixes : z.mode = "leaving"}
(* Those with them that stay in a room.                                    *)
Around(at) == Leavers \cup {z \in Fixes : z.mode = "live" /\ z.at = at /\ ~z.long}

(* Without an entry under way the player still stands where they stood.    *)
LEMMA EntrylessStays ==
  ASSUME NEW f \in Seq(Entryless), NEW s, NEW p, NEW x \in Fixes, Ahead(f, s, p, x),
         x.mode \in {"live", "leaving"}
  PROVE  x.mode = "live" /\ (~x.long => p = x.at)
<1>1. PICK y \in Fixes : Passes(Heard, Fixes, f, x, y) /\ Stands(y, p)
  BY DEF Ahead
<1>2. \A e \in Entryless, a \in Leavers, b \in Fixes : <<e, a, b>> \in Heard => b \in Leavers
  <2>. SUFFICES ASSUME NEW e \in Entryless, NEW a \in Leavers, NEW b \in Fixes, <<e, a, b>> \in Heard
                PROVE  FALSE
    OBVIOUS
  <2>1. Hearing(e, a, b) /\ ~(e.kind = "contents" /\ e.entry) /\ a.mode = "leaving"
    BY HeardIs DEF Entryless, Leavers
  <2>. QED  BY <2>1 DEF Hearing
<1>3. \A e \in Entryless, a \in Around(x.at), b \in Fixes : <<e, a, b>> \in Heard => b \in Around(x.at)
  <2>. SUFFICES ASSUME NEW e \in Entryless, NEW a \in Around(x.at), NEW b \in Fixes, <<e, a, b>> \in Heard
                PROVE  b \in Around(x.at)
    OBVIOUS
  <2>1. Hearing(e, a, b) /\ ~(e.kind = "contents" /\ e.entry) /\ a \in Fixes
    BY HeardIs DEF Entryless
  <2>2. a.mode # "leaving"
    BY <2>1 DEF Hearing
  <2>3. a.mode = "live" /\ a.at = x.at /\ ~a.long /\ Hears(e, a, b)
    BY <2>1, <2>2 DEF Hearing, Leavers, Around
  <2>4. \/ b = a \/ b = [a EXCEPT !.mode = "leaving"] \/ b = [a EXCEPT !.rest = <<>>]
    BY <2>1, <2>3 DEF Hears
  <2>5. CASE b = a
    BY <2>5
  <2>6. CASE b = [a EXCEPT !.mode = "leaving"]
    <3>1. "leaving" \in Modes
      BY DEF Modes
    <3>2. b.mode = "leaving"
      BY <2>1, <2>6, <3>1, FixMode
    <3>. QED  BY <3>2 DEF Leavers, Around
  <2>7. CASE b = [a EXCEPT !.rest = <<>>]
    <3>1. b.mode = a.mode /\ b.at = a.at /\ b.long = a.long
      BY <2>1, <2>7, FixCut
    <3>. QED  BY <2>3, <3>1 DEF Leavers, Around
  <2>. QED  BY <2>4, <2>5, <2>6, <2>7
<1>4. Leavers \in SUBSET Fixes /\ Around(x.at) \in SUBSET Fixes
  BY DEF Leavers, Around
<1>5. (x.mode = "leaving" => x \in Leavers) /\ (x.mode = "live" /\ ~x.long => x \in Around(x.at))
  BY DEF Leavers, Around
<1>6. /\ y \in Leavers => y.mode = "leaving"
      /\ y \in Around(x.at) => y.mode = "leaving" \/ (y.mode = "live" /\ y.at = x.at)
  BY DEF Leavers, Around
<1>. HIDE DEF Fixes, Entryless
<1>7. Passes(Heard, Fixes, f, x, y)
  BY <1>1
<1>8. ASSUME x \in Leavers PROVE y \in Leavers
  <2>1. Passes(Heard, Leavers, f, x, y) /\ y \in Leavers
    BY <1>2, <1>4, <1>7, <1>8, PassesWithin
  <2>. QED  BY <2>1
<1>9. ASSUME x \in Around(x.at) PROVE y \in Around(x.at)
  <2>. DEFINE I == Around(x.at)
  <2>1. /\ I \in SUBSET Fixes /\ x \in I
        /\ \A e \in Entryless, a \in I, b \in Fixes : <<e, a, b>> \in Heard => b \in I
    BY <1>3, <1>4, <1>9
  <2>. HIDE DEF I
  <2>2. Passes(Heard, I, f, x, y) /\ y \in I
    BY <1>7, <2>1, PassesWithin
  <2>. QED  BY <2>2 DEF I
<1>10. x.mode = "live"
  BY <1>1, <1>5, <1>6, <1>8 DEF Stands
<1>11. ~x.long => p = x.at
  BY <1>1, <1>5, <1>6, <1>9, <1>10 DEF Stands
<1>. QED  BY <1>10, <1>11

(* What a lost connection leaves.                                          *)
LEMMA DisconnectFields ==
  ASSUME NEW c, Able(c), Ordered(c)
  PROVE  LET d == [OnDisconnect(c) EXCEPT !.online = FALSE, !.wire = <<>>]
             s == Stop(c, FALSE)
         IN /\ Ordered(d) /\ d.info = c.info /\ ~d.online /\ d.wire = <<>> /\ d.pending = <<>>
            /\ ~d.enabled /\ ~d.batch /\ ~d.active /\ d.map = s.map /\ d.filed = s.filed
<1>. DEFINE s == Stop(c, FALSE)
            o == [s EXCEPT !.hold_timer = FALSE, !.pending = <<>>]
            d == [o EXCEPT !.online = FALSE, !.wire = <<>>]
<1>1. Able(s) /\ Ordered(s) /\ ~s.active /\ ~s.batch /\ s.info = c.info /\ Shape(s)
  BY StoppedOrdered DEF Able
<1>2. ~s.enabled
  BY StopControl DEF Able
<1>3. d = [OnDisconnect(c) EXCEPT !.online = FALSE, !.wire = <<>>]
  BY DEF OnDisconnect
<1>. HIDE DEF s
<1>4. /\ d.map = s.map /\ d.filed = s.filed /\ d.pending = <<>> /\ d.batch = s.batch
      /\ d.enabled = s.enabled /\ d.arrival = s.arrival /\ d.active = s.active /\ d.info = s.info
      /\ d.farm = s.farm /\ d.held = s.held /\ d.mode = s.mode
      /\ ~d.online /\ d.wire = <<>>
  BY <1>1 DEF Shape, Fields
<1>. HIDE DEF d, o
<1>5. HoldsRooms(d) <=> HoldsRooms(s)
  BY <1>4 DEF HoldsRooms
<1>6. Ordered(d)
  BY <1>1, <1>2, <1>4, <1>5 DEF Ordered
<1>. QED  BY <1>1, <1>2, <1>3, <1>4, <1>6 DEF s

(* A connection lost keeps the map only where the player is still known to *)
(* stand in the room it says (on_disconnect, M.stop).                      *)
LEMMA DisconnectKnows ==
  ASSUME Inv, Knows(client, frames, here), Undisturbed', Disconnect
  PROVE  Knows(client', frames', here') /\ Surveys(client, client')
<1>. DEFINE d == [OnDisconnect(client) EXCEPT !.online = FALSE, !.wire = <<>>]
            s == Stop(client, FALSE)
<1>1. client' = d /\ here' = here /\ frames' = <<>>
  BY DEF Disconnect
<1>2. /\ Able(client) /\ Sure(client, frames, here) /\ Ordered(client) /\ Charts(client)
      /\ frames \in Seq(Frames)
  BY DEF Inv, Good, Knows, Sure, World
<1>3. /\ Ordered(d) /\ d.info = client.info /\ ~d.online /\ d.wire = <<>> /\ d.pending = <<>>
      /\ ~d.enabled /\ ~d.batch /\ ~d.active /\ d.map = s.map /\ d.filed = s.filed
  BY <1>2, DisconnectFields
<1>4. Loose(s) \/ (~client.batch /\ Retains(client, s))
  <2>1. ~client.farm /\ (HoldsRooms(client) => client.held) /\ FALSE \in BOOLEAN
    BY <1>2 DEF Ordered
  <2>. QED  BY <1>2, <2>1, StopSettles
<1>5. frames \in Seq(Entryless)
  <2>1. spent'.silent = 0 /\ spent \in [Kinds -> Nat] /\ "silent" \in Kinds /\ "drop" \in Kinds
    BY DEF Undisturbed, Inv, World, Kinds
  <2>2. spent' # [spent EXCEPT !.drop = @ + 1, !.silent = @ + 1]
    <3>. SUFFICES ASSUME spent' = [spent EXCEPT !.drop = @ + 1, !.silent = @ + 1] PROVE FALSE
      OBVIOUS
    <3>1. spent'.silent = spent.silent + 1 /\ spent.silent \in Nat
      BY <2>1
    <3>. QED  BY <2>1, <3>1
  <2>3. ~\E i \in DOMAIN frames : frames[i].kind = "contents" /\ frames[i].entry
    BY <2>2 DEF Disconnect
  <2>4. \A i \in DOMAIN frames : frames[i] \in Frames
    <3>. HIDE DEF Frames
    <3>. QED  BY <1>2
  <2>5. \A i \in DOMAIN frames : frames[i] \in Entryless
    BY <2>3, <2>4 DEF Entryless
  <2>. HIDE DEF Frames, Entryless
  <2>. QED  BY <1>2, <2>5
<1>. HIDE DEF d, s
<1>6. HoldsRooms(d) <=> HoldsRooms(s)
  BY <1>3 DEF HoldsRooms
<1>7. CASE Loose(s)
  <2>1. Loose(d)
    BY <1>3, <1>6, <1>7 DEF Loose
  <2>2. Result(client, d, <<>>, here)
    BY <1>3, <2>1, LooseResult
  <2>. QED  BY <1>1, <1>3, <2>2 DEF Result, Knows, Announced
<1>8. CASE ~Loose(s) /\ ~client.batch /\ Retains(client, s)
  <2>1. d.map = client.map /\ d.filed = client.filed
    BY <1>3, <1>8 DEF Retains
  <2>2. HoldsRooms(d) <=> HoldsRooms(client)
    BY <2>1 DEF HoldsRooms
  <2>3. ASSUME ~Loose(d) PROVE \E x \in Fixes : Tracked(d, <<>>, here, x)
    <3>1. HoldsRooms(d) /\ HoldsRooms(client) /\ ~Loose(client)
      BY <1>3, <2>2, <2>3 DEF Loose
    <3>2. PICK x \in Fixes : Fits(client, x) /\ Ahead(frames, client.wire, here, x)
      BY <1>2, <3>1 DEF Sure, Tracked
    <3>3. x.mode \in {"live", "leaving"}
      BY <3>1, <3>2, FixType DEF Modes, Fits
    <3>4. x.mode = "live" /\ (~x.long => here = x.at)
      BY <1>5, <3>2, <3>3, EntrylessStays
    <3>5. /\ ~x.long /\ x.at \in Places \ {Lobby} /\ x.at = client.filed[client.map.pos]
      BY <1>8, <3>1, <3>2, <3>4 DEF Fits
    <3>. DEFINE z == [mode |-> "live", at |-> here, rest |-> <<>>, long |-> FALSE, asked |-> FALSE]
    <3>6. z \in Fixes
      BY <3>4, <3>5, PlacesSpots DEF Fixes, Modes
    <3>7. Ahead(<<>>, <<>>, here, z)
      <4>1. Stands(z, here) /\ Ends(z)
        BY DEF Stands, Ends
      <4>. HIDE DEF z
      <4>. QED  BY <3>6, <4>1, QuietAhead
    <3>8. Fits(d, z)
      BY <1>3, <2>1, <3>4, <3>5 DEF Fits
    <3>. QED  BY <1>3, <3>6, <3>7, <3>8 DEF Tracked
  <2>4. Result(client, d, <<>>, here)
    BY <1>2, <1>3, <2>1, <2>3, TrackedResult
  <2>. QED  BY <1>1, <1>3, <2>4 DEF Result, Knows, Announced
<1>. QED  BY <1>4, <1>7, <1>8

(* A run of the explorer just begun (M.start), before it asks for its room. *)
Begun(r) ==
  AwaitArrival([r EXCEPT !.mode = "explore", !.farm_timer = FALSE, !.hold_timer = FALSE,
                         !.enabled = TRUE, !.waits = 0, !.target = NoMonster, !.walk = <<>>,
                         !.view.key = [kind |-> "none", is |-> <<>>], !.ended = "none"],
               "refresh")

(* A start over an active explorer begins a run of it.                     *)
LEMMA BegunRun ==
  ASSUME NEW c, ~c.enabled, Resume(c).active
  PROVE  StartRun(c, FALSE) = RequestRefresh(Begun(Resume(c)))
<1>. DEFINE r == Resume(c)
            e == RequestRefresh(Begun(r))
<1>1. r.active
  OBVIOUS
<1>2. StartRun(c, FALSE) =
        RequestRefresh(AwaitArrival(
          [r EXCEPT !.mode = "explore", !.farm_timer = FALSE, !.hold_timer = FALSE,
                    !.enabled = TRUE, !.waits = 0, !.target = NoMonster, !.walk = <<>>,
                    !.view.key = [kind |-> "none", is |-> <<>>], !.ended = "none"], "refresh"))
  BY <1>1 DEF StartRun
<1>. QED  BY <1>2 DEF Begun

(* What beginning a run changes: neither map, wire nor held move.          *)
LEMMA BegunAble ==
  ASSUME NEW r, Good(r), r.active, ~r.enabled
  PROVE  LET b == Begun(r)
         IN /\ Able(b) /\ b.enabled /\ b.mode = "explore" /\ b.arrival = "refresh"
            /\ b.map = r.map /\ b.filed = r.filed /\ b.info = r.info /\ b.wire = r.wire
            /\ b.active = r.active /\ b.held = r.held /\ b.pending = r.pending
            /\ b.farm = r.farm /\ b.batch = r.batch /\ b.online = r.online
<1>. DEFINE key == [kind |-> "none", is |-> <<>>]
            fresh == [r EXCEPT !.mode = "explore", !.farm_timer = FALSE, !.hold_timer = FALSE,
                               !.enabled = TRUE, !.waits = 0, !.target = NoMonster, !.walk = <<>>,
                               !.view.key = key, !.ended = "none"]
            e == AwaitArrival(fresh, "setup")
            b == AwaitArrival(fresh, "refresh")
<1>1. Resume(r) = r
  BY DEF Resume
<1>2. StartRun(r, TRUE) = e
  BY <1>1 DEF StartRun
<1>3. Good(e)
  BY <1>2, StartRunGood
<1>4. Shape(r) /\ Shape(e)
  BY <1>3 DEF Good, Able
<1>5. b = [e EXCEPT !.arrival = "refresh"]
  BY DEF AwaitArrival
<1>6. /\ fresh.enabled /\ fresh.mode = "explore" /\ fresh.map = r.map /\ fresh.filed = r.filed
      /\ fresh.info = r.info /\ fresh.wire = r.wire /\ fresh.active = r.active
      /\ fresh.held = r.held /\ fresh.pending = r.pending /\ fresh.farm = r.farm
      /\ fresh.batch = r.batch /\ fresh.online = r.online /\ DOMAIN fresh = Fields
  BY <1>4 DEF Shape, Fields
<1>. HIDE DEF fresh
<1>7. /\ b.enabled = fresh.enabled /\ b.mode = fresh.mode /\ b.map = fresh.map
      /\ b.filed = fresh.filed /\ b.info = fresh.info /\ b.wire = fresh.wire
      /\ b.active = fresh.active /\ b.held = fresh.held /\ b.pending = fresh.pending
      /\ b.farm = fresh.farm /\ b.batch = fresh.batch /\ b.online = fresh.online
      /\ b.arrival = "refresh"
  BY <1>6 DEF AwaitArrival, Fields
<1>. HIDE DEF e, b
<1>8. /\ Shape(b) /\ Steers(e, b) /\ b.arrival = "refresh"
      /\ b.enabled = e.enabled /\ b.mode = e.mode /\ b.state = e.state /\ b.batch = e.batch
      /\ b.leaving = e.leaving /\ b.unanchored = e.unanchored /\ b.waits = e.waits
      /\ b.hold_timer = e.hold_timer /\ b.farm = e.farm /\ b.farm_timer = e.farm_timer
      /\ b.active = e.active /\ b.held = e.held /\ b.online = e.online
  BY <1>4, <1>5 DEF Shape, Fields, Steers, SameMap, SameView, SameNews, SameWire, SameHold
<1>9. ControlType(b)
  BY <1>3, <1>8 DEF Good, Able, ControlType
<1>10. Able(b)
  BY <1>3, <1>8, <1>9, SteersKeeps DEF Good
<1>11. Begun(r) = b
  BY DEF Begun, fresh, b
<1>. QED  BY <1>6, <1>7, <1>10, <1>11

(* A run may begin where it is known which room the refresh will tell of:  *)
(* over a map that is kept, or once nothing is under way.                  *)
Beginning(c, r, f, p) ==
  /\ Good(r) /\ r.active /\ r.held /\ ~r.enabled /\ r.pending = <<>> /\ ~r.batch /\ ~r.farm
  /\ r.info = c.info /\ r.wire = c.wire
  /\ HoldsRooms(r) => r.map = c.map /\ r.filed = c.filed /\ InArea(c.info)
  /\ HoldsRooms(r) => /\ \A i \in DOMAIN c.wire : c.wire[i] # "refresh"
                      /\ \A i \in DOMAIN f : ~(f[i].kind = "contents" /\ ~f[i].entry)
  /\ ~HoldsRooms(r) => f = <<>> /\ c.wire = <<>> /\ c.info = p

(* Offline the refresh fails, and the run with it.                         *)
LEMMA BeginsOffline ==
  ASSUME NEW f \in Seq(Frames), NEW p, NEW c, Able(c), Sure(c, f, p), ~c.enabled,
         NEW b, Able(b), ~b.online, b.held, ~b.batch, ~b.farm, b.pending = <<>>,
         b.info = c.info, b.wire = c.wire, HoldsRooms(b) => b.map = c.map /\ b.filed = c.filed
  PROVE  Result(c, RequestRefresh(b), f, p)
<1>. DEFINE d == Stop(b, FALSE)
<1>1. RequestRefresh(b) = d
  BY DEF RequestRefresh
<1>2. /\ Settles(b, d) /\ ~d.active
      /\ Loose(d) \/ Retains(b, d)
  <2>1. FALSE \in BOOLEAN
    OBVIOUS
  <2>. QED  BY <2>1, StopSettles
<1>3. ~d.enabled
  BY StopControl DEF Able
<1>. HIDE DEF d
<1>4. Ordered(d) /\ d.info = c.info
  BY <1>2 DEF Settles
<1>5. CASE Loose(d)
  BY <1>1, <1>4, <1>5, LooseResult
<1>6. CASE ~Loose(d) /\ Retains(b, d)
  <2>1. HoldsRooms(d) /\ d.map = b.map /\ d.filed = b.filed
    BY <1>2, <1>6 DEF Loose, Retains
  <2>2. b.map = c.map /\ b.filed = c.filed
    BY <2>1 DEF HoldsRooms
  <2>3. ~c.batch
    BY DEF Sure, Ordered
  <2>4. d.pending = <<>> /\ (d.batch <=> c.batch)
    BY <1>6, <2>3 DEF Retains
  <2>5. \E cmds \in Seq(Plain) : d.wire = c.wire \o cmds
    BY <1>6 DEF Retains
  <2>6. Retains(c, d)
    BY <1>2, <1>3, <2>1, <2>2, <2>3, <2>4, <2>5 DEF Retains
  <2>. QED  BY <1>1, <1>4, <2>6, RetainsResult
<1>. QED  BY <1>2, <1>5, <1>6

(* A run begun over a kept map: the refresh will find the player where the *)
(* fix says, or just where the one move under way takes them.              *)
LEMMA BegunFits ==
  ASSUME NEW c, Able(c), Ordered(c), ~c.enabled, HoldsRooms(c), InArea(c.info),
         NEW x \in Fixes, Fits(c, x),
         NEW d, d.map = c.map, d.filed = c.filed, d.info = c.info, d.pending = <<>>,
         ~d.batch, d.arrival = "refresh"
  PROVE  Fits(d, Asked(x))
<1>1. ~c.batch /\ ~c.active
  BY DEF Ordered
<1>2. c.pending # <<>> => Len(c.pending) = 1
  BY <1>1 DEF Able, Holding, InFlight
<1>3. x.mode = "live"
  BY FixType DEF Fits, Modes, InArea
<1>4. /\ ~x.long /\ x.at \in Places \ {Lobby} /\ x.at = c.filed[c.map.pos]
      /\ x.rest = <<>> \/ Len(x.rest) = 1
  BY <1>1, <1>2, <1>3 DEF Fits
<1>5. /\ Asked(x).mode = x.mode /\ Asked(x).at = x.at /\ Asked(x).rest = x.rest
      /\ (Asked(x).long <=> x.long) /\ Asked(x).asked
  BY AskedFix
<1>6. Lags(d, Asked(x))
  BY <1>5 DEF Lags
<1>. QED  BY <1>3, <1>4, <1>5, <1>6 DEF Fits

(* A run so begun is as sure.                                              *)
LEMMA BeginsResult ==
  ASSUME NEW f \in Seq(Frames), NEW p \in Places, NEW c, Able(c), Sure(c, f, p), ~c.enabled,
         NEW r, Beginning(c, r, f, p)
  PROVE  Result(c, RequestRefresh(Begun(r)), f, p)
<1>. DEFINE b == Begun(r)
            d == Send(b, <<"refresh">>)
<1>1. /\ Able(b) /\ b.enabled /\ b.mode = "explore" /\ b.arrival = "refresh"
      /\ b.map = r.map /\ b.filed = r.filed /\ b.info = c.info /\ b.wire = c.wire
      /\ b.active /\ b.held /\ b.pending = <<>> /\ ~b.farm /\ ~b.batch
  BY BegunAble DEF Beginning
<1>. HIDE DEF b
<1>2. HoldsRooms(b) <=> HoldsRooms(r)
  BY <1>1 DEF HoldsRooms
<1>3. HoldsRooms(b) => b.map = c.map /\ b.filed = c.filed /\ InArea(c.info)
  BY <1>1, <1>2 DEF Beginning
<1>4. ASSUME ~b.online PROVE Result(c, RequestRefresh(b), f, p)
  BY <1>1, <1>3, <1>4, BeginsOffline
<1>5. ASSUME b.online PROVE Result(c, RequestRefresh(b), f, p)
  <2>1. RequestRefresh(b) = d
    BY <1>5 DEF RequestRefresh
  <2>2. d.wire = c.wire \o <<"refresh">>
    BY <1>1, <1>5 DEF Send, Able, Shape, Fields
  <2>3. \A field \in Fields \ {"wire"} : d[field] = b[field]
    BY <1>1, PlainSent
  <2>. HIDE DEF d
  <2>4. /\ d.map = b.map /\ d.filed = b.filed /\ d.pending = <<>> /\ ~d.batch
        /\ d.enabled /\ d.arrival = "refresh" /\ d.active /\ d.info = c.info
        /\ ~d.farm /\ d.held /\ d.mode = "explore"
    BY <1>1, <2>3 DEF Fields
  <2>5. HoldsRooms(d) <=> HoldsRooms(b)
    BY <2>4 DEF HoldsRooms
  <2>6. Ordered(d)
    BY <2>4, <2>5 DEF Ordered
  <2>7. CASE HoldsRooms(r)
    <3>1. d.map = c.map /\ d.filed = c.filed /\ InArea(c.info) /\ HoldsRooms(c)
      BY <1>2, <1>3, <2>4, <2>5, <2>7 DEF HoldsRooms
    <3>2. Charts(c) /\ Ordered(c) /\ ~Loose(c)
      BY <3>1 DEF Sure, Loose
    <3>3. PICK x \in Fixes : Fits(c, x) /\ Ahead(f, c.wire, p, x)
      BY <3>2 DEF Sure, Tracked
    <3>4. Fits(d, Asked(x)) /\ Asked(x) \in Fixes
      BY <2>4, <3>1, <3>2, <3>3, BegunFits, AskedFix
    <3>5. c.wire \in Seq(Commands)
      BY DEF Able, Sends
    <3>6. Ahead(f, c.wire, p, Asked(x))
      BY <2>7, <3>3, <3>5, AheadAsked DEF Beginning
    <3>7. <<"refresh">> \in Seq(Plain)
      BY <1>1, PlainSent
    <3>8. Ahead(f, d.wire, p, Asked(x))
      BY <2>2, <3>5, <3>6, <3>7, AheadSent
    <3>9. \E y \in Fixes : Tracked(d, f, p, y)
      BY <3>4, <3>8 DEF Tracked
    <3>10. Result(c, d, f, p)
      BY <2>4, <2>6, <3>1, <3>2, <3>9, TrackedResult
    <3>. QED  BY <2>1, <3>10
  <2>8. CASE ~HoldsRooms(r)
    <3>1. f = <<>> /\ c.wire = <<>> /\ c.info = p /\ ~HoldsRooms(d)
      BY <1>2, <2>5, <2>8 DEF Beginning
    <3>. DEFINE x == [mode |-> IF p = Lobby THEN "gone" ELSE "live", at |-> p, rest |-> <<>>,
                      long |-> FALSE, asked |-> FALSE]
    <3>2. x \in Fixes
      BY PlacesSpots DEF Fixes, Modes
    <3>3. Stands(x, p) /\ Ends(x)
      BY DEF Stands, Ends
    <3>4. Fits(d, x)
      BY <2>4, <3>1 DEF Fits
    <3>. HIDE DEF x
    <3>5. Ahead(<<>>, <<>>, p, x)
      BY <3>2, <3>3, QuietAhead
    <3>6. <<>> \in Seq(Commands) /\ <<"refresh">> \in Seq(Plain) /\ d.wire = <<>> \o <<"refresh">>
      BY <1>1, <2>2, <3>1, PlainSent
    <3>7. Ahead(<<>>, d.wire, p, x)
      BY <3>5, <3>6, AheadSent
    <3>8. Charts(d) /\ Filed(d) = {}
      BY <3>1, FiledFacts DEF Charts, HoldsRooms
    <3>. QED  BY <2>1, <2>4, <2>6, <3>1, <3>2, <3>4, <3>7, <3>8
              DEF Result, Sure, Surveys, Tracked
  <2>. QED  BY <2>7, <2>8
<1>. QED  BY <1>4, <1>5 DEF b

(* "/step" on a client that waits for nothing.                             *)
LEMMA RefusedResult ==
  ASSUME NEW f \in Seq(Frames), NEW p, NEW c, Able(c), Sure(c, f, p), ~c.enabled
  PROVE  LET d == [c EXCEPT !.mode = "route"]
         IN Result(c, d, f, p) /\ d.online = c.online
<1>. DEFINE d == [c EXCEPT !.mode = "route"]
<1>1. /\ d.map = c.map /\ d.filed = c.filed /\ d.pending = c.pending /\ d.batch = c.batch
      /\ d.enabled = c.enabled /\ d.arrival = c.arrival /\ d.active = c.active /\ d.info = c.info
      /\ d.farm = c.farm /\ d.held = c.held /\ d.wire = c.wire /\ d.online = c.online
  BY DEF Able, Shape, Fields
<1>. HIDE DEF d
<1>2. HoldsRooms(d) <=> HoldsRooms(c)
  BY <1>1 DEF HoldsRooms
<1>3. Ordered(d)
  BY <1>1, <1>2 DEF Ordered, Sure
<1>4. \E cmds \in Seq(Plain) : d.wire = c.wire \o cmds
  BY <1>1, NothingSent
<1>5. Retains(c, d)
  BY <1>1, <1>4 DEF Retains
<1>6. Result(c, d, f, p)
  BY <1>1, <1>3, <1>5, RetainsResult
<1>. QED  BY <1>1, <1>6 DEF d

(* What the commands that start a run amount to.                           *)
LEMMA StartsAre ==
  ASSUME NEW c, Able(c), Ordered(c), Route = <<>>,
         NEW d \in {StartRun(c, FALSE), ExploreCommand(c), ExploreAreaCommand(c)}, d # c
  PROVE  /\ ~c.enabled
         /\ \/ d = [c EXCEPT !.mode = "route"]
            \/ d = RequestRefresh(Begun(ExploreStart(c)))
            \/ /\ c.held /\ InArea(c.info) /\ ~c.active
               /\ d = RequestRefresh(Begun([c EXCEPT !.active = TRUE, !.pending = <<>>]))
<1>. DEFINE r == [c EXCEPT !.active = TRUE, !.pending = <<>>]
            e == ExploreStart(c)
<1>1. Shape(c)
  BY DEF Able
<1>2. /\ r.active /\ r.enabled = c.enabled /\ e.active /\ e.enabled = c.enabled
  BY <1>1 DEF Shape, Fields, ExploreStart, Blank
<1>3. Resume(r) = r /\ Resume(e) = e
  BY <1>2 DEF Resume
<1>4. /\ Resume(c) = r /\ c.held /\ InArea(c.info) /\ ~c.active
      \/ Resume(c) = c
  BY DEF Resume
<1>. HIDE DEF r, e
<1>5. ~c.enabled
  <2>. SUFFICES ASSUME c.enabled PROVE FALSE
    OBVIOUS
  <2>1. StartRun(c, FALSE) = c
    BY DEF StartRun
  <2>2. Resume(c) = c
    BY <1>4 DEF Ordered
  <2>3. ExploreCommand(c) = c /\ ExploreAreaCommand(c) = c
    BY <2>2 DEF ExploreCommand, ExploreAreaCommand
  <2>. QED  BY <2>1, <2>3
<1>6. ~c.active
  BY <1>5 DEF Ordered
<1>7. StartRun(r, FALSE) = RequestRefresh(Begun(r)) /\ StartRun(e, FALSE) = RequestRefresh(Begun(e))
  BY <1>2, <1>3, <1>5, BegunRun
<1>8. CASE d = StartRun(c, FALSE)
  <2>1. CASE Resume(c) = r
    <3>1. StartRun(c, FALSE) = RequestRefresh(Begun(r))
      BY <1>2, <1>5, <2>1, BegunRun
    <3>2. r # c
      BY <1>2, <1>6
    <3>. QED  BY <1>4, <1>5, <1>8, <2>1, <3>1, <3>2 DEF r
  <2>2. CASE Resume(c) = c
    <3>1. StartRun(c, FALSE) = [c EXCEPT !.mode = "route"]
      BY <1>5, <1>6, <2>2 DEF StartRun
    <3>. QED  BY <1>5, <1>8, <3>1
  <2>. QED  BY <1>4, <2>1, <2>2
<1>9. CASE d = ExploreAreaCommand(c)
  <2>1. d = RequestRefresh(Begun(e))
    BY <1>5, <1>7, <1>9 DEF ExploreAreaCommand, e
  <2>. QED  BY <1>5, <2>1 DEF e
<1>10. CASE d = ExploreCommand(c)
  <2>1. CASE Resume(c) # c
    <3>1. Resume(c) = r /\ c.held /\ InArea(c.info)
      BY <1>4, <2>1
    <3>2. d = RequestRefresh(Begun(r))
      BY <1>7, <1>10, <2>1, <3>1 DEF ExploreCommand
    <3>. QED  BY <1>5, <1>6, <3>1, <3>2 DEF r
  <2>2. CASE Resume(c) = c
    <3>1. d = RequestRefresh(Begun(e))
      BY <1>5, <1>7, <1>10, <2>2 DEF ExploreCommand, e
    <3>. QED  BY <1>5, <3>1 DEF e
  <2>. QED  BY <2>1, <2>2
<1>. QED  BY <1>8, <1>9, <1>10

(* A start within its conditions keeps the client as sure as it was.       *)
LEMMA StartsKnows ==
  ASSUME Inv, Knows(client, frames, here), Undisturbed', PlayerStarts
  PROVE  Knows(client', frames', here') /\ Surveys(client, client')
<1>1. /\ Good(client) /\ Able(client) /\ Shape(client) /\ Ordered(client)
      /\ Sure(client, frames, here) /\ Announced(client, frames, here)
      /\ frames \in Seq(Frames) /\ here \in Places /\ client.info \in Places
  BY DEF Inv, World, Good, Able, Told, Knows, Sure
<1>2. ~Eager /\ Route = <<>>
  BY DEF Undisturbed
<1>3. PICK d \in {StartRun(client, FALSE), ExploreCommand(client), ExploreAreaCommand(client)} :
        d # client /\ MayStart(d) /\ Command("start", d)
  BY DEF PlayerStarts
<1>4. client' = d /\ frames' = frames /\ here' = here
  BY <1>3 DEF Command, Client
<1>5. /\ ~client.enabled
      /\ \/ d = [client EXCEPT !.mode = "route"]
         \/ d = RequestRefresh(Begun(ExploreStart(client)))
         \/ /\ client.held /\ InArea(client.info) /\ ~client.active
            /\ d = RequestRefresh(Begun([client EXCEPT !.active = TRUE, !.pending = <<>>]))
  BY <1>1, <1>2, <1>3, StartsAre
<1>6. \/ Quiet
      \/ HoldsRooms(d) /\ ~RefreshUnderWay
  BY <1>2, <1>3 DEF MayStart
<1>7. ~client.batch /\ ~client.farm /\ ~client.active
  BY <1>1, <1>5 DEF Ordered
<1>8. ASSUME Result(client, d, frames, here), d.online = client.online
      PROVE  Knows(client', frames', here') /\ Surveys(client, client')
  BY <1>1, <1>4, <1>8, ResultKnows
<1>9. ASSUME NEW r, Good(r), d = RequestRefresh(Begun(r)), r.active, r.held, ~r.enabled,
             r.pending = <<>>, ~r.batch, ~r.farm, r.info = client.info, r.wire = client.wire,
             r.online = client.online,
             HoldsRooms(r) => r.map = client.map /\ r.filed = client.filed /\ InArea(client.info)
      PROVE  Knows(client', frames', here') /\ Surveys(client, client')
  <2>. DEFINE b == Begun(r)
  <2>1. Able(b) /\ b.online = r.online /\ b.map = r.map /\ b.filed = r.filed
        /\ b.held /\ ~b.batch /\ ~b.farm /\ b.pending = <<>> /\ b.info = client.info
        /\ b.wire = client.wire
    BY <1>9, BegunAble
  <2>. HIDE DEF b
  <2>2. d.online = b.online
    <3>1. <<"refresh">> \in Seq(Commands) /\ FALSE \in BOOLEAN
      BY CommandTypes
    <3>2. Send(b, <<"refresh">>).online = b.online /\ Stop(b, FALSE).online = b.online
      BY <2>1, <3>1, SendAble, StopGood
    <3>. QED  BY <1>9, <3>2 DEF RequestRefresh, b
  <2>3. CASE ~b.online
    <3>1. HoldsRooms(b) => b.map = client.map /\ b.filed = client.filed
      BY <1>9, <2>1 DEF HoldsRooms
    <3>2. Result(client, RequestRefresh(b), frames, here)
      BY <1>1, <1>5, <2>1, <2>3, <3>1, BeginsOffline
    <3>. QED  BY <1>8, <1>9, <2>1, <2>2, <3>2 DEF b
  <2>4. CASE b.online
    <3>1. HoldsRooms(d) <=> HoldsRooms(r)
      <4>1. d = Send(b, <<"refresh">>)
        BY <1>9, <2>4 DEF RequestRefresh, b
      <4>2. d.map = b.map
        BY <2>1, <4>1 DEF Send, Able, Shape, Fields
      <4>. QED  BY <2>1, <4>2 DEF HoldsRooms
    <3>2. Quiet => /\ frames = <<>> /\ client.wire = <<>> /\ client.info = here
      <4>. SUFFICES ASSUME Quiet PROVE client.info = here
        BY DEF Quiet
      <4>1. Passes(Tells, Places, <<>>, client.info, here)
        BY <1>1, <1>9, <2>1, <2>4 DEF Quiet, Announced
      <4>. QED  BY <4>1, PassesNothing
    <3>3. HoldsRooms(r) =>
            /\ \A i \in DOMAIN client.wire : client.wire[i] # "refresh"
            /\ \A i \in DOMAIN frames : ~(frames[i].kind = "contents" /\ ~frames[i].entry)
      <4>1. CASE Quiet
        <5>1. DOMAIN client.wire = {} /\ DOMAIN frames = {}
          BY <4>1 DEF Quiet
        <5>. QED  BY <5>1
      <4>2. CASE ~RefreshUnderWay
        BY <4>2 DEF RefreshUnderWay
      <4>. QED  BY <1>6, <4>1, <4>2
    <3>4. ~HoldsRooms(r) => frames = <<>> /\ client.wire = <<>> /\ client.info = here
      BY <1>6, <3>1, <3>2
    <3>5. Beginning(client, r, frames, here)
      BY <1>9, <3>3, <3>4 DEF Beginning
    <3>6. Result(client, RequestRefresh(Begun(r)), frames, here)
      BY <1>1, <1>5, <3>5, BeginsResult
    <3>. QED  BY <1>8, <1>9, <2>1, <2>2, <3>6
  <2>. QED  BY <2>3, <2>4
<1>10. CASE d = [client EXCEPT !.mode = "route"]
  <2>1. Result(client, d, frames, here) /\ d.online = client.online
    BY <1>1, <1>5, <1>10, RefusedResult
  <2>. QED  BY <1>8, <2>1
<1>11. CASE d = RequestRefresh(Begun(ExploreStart(client)))
  <2>. DEFINE r == ExploreStart(client)
  <2>1. Good(r) /\ r.online = client.online
    BY <1>1, ExploreStartGood
  <2>2. /\ r.active /\ r.held /\ r.enabled = client.enabled /\ r.pending = <<>>
        /\ r.batch = client.batch /\ r.farm = client.farm /\ r.info = client.info
        /\ r.wire = client.wire /\ r.map = NewMap
    BY <1>1 DEF ExploreStart, Blank, Shape, Fields
  <2>3. ~HoldsRooms(r)
    BY <2>2 DEF HoldsRooms, NewMap, Visited
  <2>. HIDE DEF r
  <2>. QED  BY <1>5, <1>7, <1>9, <1>11, <2>1, <2>2, <2>3 DEF r
<1>12. CASE /\ client.held /\ InArea(client.info) /\ ~client.active
            /\ d = RequestRefresh(Begun([client EXCEPT !.active = TRUE, !.pending = <<>>]))
  <2>. DEFINE r == [client EXCEPT !.active = TRUE, !.pending = <<>>]
  <2>1. Resume(client) = r
    BY <1>12 DEF Resume
  <2>2. Good(r) /\ r.online = client.online
    BY <1>1, <2>1, ResumeGood
  <2>3. /\ r.active /\ r.held = client.held /\ r.enabled = client.enabled /\ r.pending = <<>>
        /\ r.batch = client.batch /\ r.farm = client.farm /\ r.info = client.info
        /\ r.wire = client.wire /\ r.map = client.map /\ r.filed = client.filed
    BY <1>1 DEF Shape, Fields
  <2>. HIDE DEF r
  <2>. QED  BY <1>5, <1>7, <1>9, <1>12, <2>2, <2>3 DEF r
<1>. QED  BY <1>5, <1>10, <1>11, <1>12

-----------------------------------------------------------------------------
(* What is under way when a decision is made.                              *)

(* What leads to one of the states J came from one of them, by an element  *)
(* of E.                                                                   *)
LEMMA PassesInto ==
  ASSUME NEW R, NEW X, NEW S, NEW s \in Seq(S), NEW x, NEW y, Passes(R, X, s, x, y),
         NEW J, y \in J, NEW E,
         \A e \in S, a \in X, b \in J : <<e, a, b>> \in R => a \in J /\ e \in E
  PROVE  x \in J /\ s \in Seq(E)
<1>1. PICK h \in [0 .. Len(s) -> X] :
         /\ h[0] = x /\ h[Len(s)] = y
         /\ \A i \in 1 .. Len(s) : <<s[i], h[i - 1], h[i]>> \in R
  BY DEF Passes
<1>. DEFINE n == Len(s)
            T == {k \in 0 .. n : h[n - k] \in J}
<1>2. n \in Nat /\ \A i \in 1 .. n : s[i] \in S
  OBVIOUS
<1>. HIDE DEF n
<1>3. 0 \in T
  <2>1. n - 0 = n
    BY <1>2
  <2>. QED  BY <1>1, <1>2, <2>1 DEF n
<1>4. ASSUME NEW k \in 0 .. n - 1, k \in T PROVE k + 1 \in T
  <2>. DEFINE i == n - k
  <2>1. i \in 1 .. n /\ i - 1 \in 0 .. n /\ n - (k + 1) = i - 1 /\ k + 1 \in 0 .. n
    BY <1>2
  <2>. HIDE DEF i
  <2>2. <<s[i], h[i - 1], h[i]>> \in R /\ s[i] \in S /\ h[i - 1] \in X
    BY <1>1, <1>2, <2>1 DEF n
  <2>3. h[i] \in J
    BY <1>4 DEF i
  <2>4. h[i - 1] \in J
    BY <2>2, <2>3
  <2>. QED  BY <2>1, <2>4
<1>5. \A k \in 0 .. n : k \in T
  <2>. HIDE DEF T
  <2>. QED  BY <1>2, <1>3, <1>4, CountsUp
<1>6. ASSUME NEW i \in 0 .. n PROVE h[i] \in J
  <2>1. n - i \in 0 .. n /\ n - (n - i) = i
    BY <1>2
  <2>2. n - i \in T
    BY <1>5, <2>1
  <2>. QED  BY <2>1, <2>2
<1>7. x \in J
  BY <1>1, <1>2, <1>6
<1>8. ASSUME NEW i \in 1 .. n PROVE s[i] \in E
  <2>1. i - 1 \in 0 .. n /\ i \in 0 .. n
    BY <1>2
  <2>. QED  BY <1>1, <1>2, <1>6, <2>1 DEF n
<1>. QED  BY <1>7, <1>8 DEF n

(* No move is left to make: a fix in a room of the sea is at rest.         *)
Clear(f, s, p) ==
  \E x \in Fixes : x.mode = "live" /\ x.rest = <<>> /\ x.at # Lobby /\ Ahead(f, s, p, x)

(* Then no entry and no direction is under way, outside the lobby.         *)
LEMMA ClearCalm ==
  ASSUME NEW f \in Seq(Frames), NEW s \in Seq(Commands), NEW p, p # Lobby, Clear(f, s, p)
  PROVE  f \in Seq(Entryless) /\ s \in Seq(Plain)
<1>. DEFINE Calm == {z \in Settled : z.mode = "live"}
<1>1. PICK x \in Fixes : x.mode = "live" /\ x.rest = <<>> /\ Ahead(f, s, p, x)
  BY DEF Clear
<1>2. PICK y \in Fixes : Passes(Heard, Fixes, f, x, y) /\ Stands(y, p) /\ Lasts(s, y)
  BY <1>1 DEF Ahead
<1>3. x \in Settled /\ Settled \in SUBSET Fixes
  BY <1>1 DEF Settled
<1>4. \A e \in Frames, a \in Settled, b \in Fixes : <<e, a, b>> \in Heard => b \in Settled
  BY SettledHears
<1>5. Passes(Heard, Settled, f, x, y) /\ y \in Settled
  <2>. HIDE DEF Frames, Fixes, Settled, Heard
  <2>. QED  BY <1>2, <1>3, <1>4, PassesWithin
<1>6. y \in Calm
  BY <1>2, <1>5, FixType DEF Stands, Settled, Modes
<1>7. ASSUME NEW e \in Frames, NEW a \in Settled, NEW b \in Calm, <<e, a, b>> \in Heard
      PROVE  a \in Calm /\ e \in Entryless
  <2>1. b = a
    <3>1. a \in Fixes /\ "gone" \in Modes /\ "leaving" \in Modes
      BY DEF Settled, Modes
    <3>2. [a EXCEPT !.mode = "gone"].mode = "gone" /\ [a EXCEPT !.mode = "leaving"].mode = "leaving"
      BY <3>1, FixMode
    <3>. QED  BY <1>7, <3>2, SettledHears
  <2>2. Hearing(e, a, a) /\ a.mode = "live" /\ a.rest = <<>>
    BY <1>7, <2>1, HeardIs DEF Settled
  <2>3. a \in Fixes /\ ~(e.kind = "contents" /\ e.entry)
    BY <2>2 DEF Hearing, Hears, Settled
  <2>. QED  BY <2>1, <2>3 DEF Entryless
<1>8. f \in Seq(Entryless)
  <2>. HIDE DEF Frames, Fixes, Settled, Heard, Calm, Entryless
  <2>. QED  BY <1>5, <1>6, <1>7, PassesInto
<1>9. s \in Seq(Plain)
  BY <1>2, <1>6, LastsPlain DEF Settled
<1>. QED  BY <1>8, <1>9

(* Frames that tell of no move and of no other room.                       *)
Still == {e \in Frames : e.kind \in {"combat_end", "no_target"} \/ (e.kind = "contents" /\ ~e.entry)}

(* They leave the player where he is.                                      *)
LEMMA StillStays ==
  ASSUME NEW f \in Seq(Still), NEW s, NEW p, NEW x \in Fixes, Ahead(f, s, p, x),
         x.mode \in {"live", "leaving"}
  PROVE  x.mode = "live" /\ x.at = p
<1>1. PICK y \in Fixes : Passes(Heard, Fixes, f, x, y) /\ Stands(y, p)
  BY DEF Ahead
<1>. DEFINE I == {x}
<1>2. \A e \in Still, a \in I, b \in Fixes : <<e, a, b>> \in Heard => b \in I
  <2>. SUFFICES ASSUME NEW e \in Still, NEW b \in Fixes, <<e, x, b>> \in Heard
                PROVE  b = x
    OBVIOUS
  <2>1. Hearing(e, x, b)
    BY HeardIs
  <2>. QED  BY <2>1 DEF Hearing, Hears, Still
<1>3. I \in SUBSET Fixes /\ x \in I
  OBVIOUS
<1>4. y \in I
  <2>. HIDE DEF I, Still, Fixes, Heard
  <2>1. Passes(Heard, Fixes, f, x, y)
    BY <1>1
  <2>2. Passes(Heard, I, f, x, y) /\ y \in I
    BY <1>2, <1>3, <2>1, PassesWithin
  <2>. QED  BY <2>2
<1>. QED  BY <1>1, <1>4 DEF Stands

-----------------------------------------------------------------------------
(* What a step of the client may send.                                     *)

(* A client with a map sends directions, attacks and requests only.        *)
Sendable == Dirs \cup Words \cup {"refresh"}

(* From c to d commands are sent, and a map is kept only by sending what a *)
(* client with a map sends; directions only when no move is left to make.  *)
Onward(c, d, f, p) ==
  \E cmds \in Seq(Commands) :
    /\ d.wire = c.wire \o cmds
    /\ Loose(d) \/ (~Loose(c) /\ cmds \in Seq(Sendable))
    /\ cmds \in Seq(Commands \ Dirs) \/ (~Loose(c) /\ Clear(f, c.wire, p))

(* A step or an attack is sent with a view of the room last listed.        *)
Sees(c, d) ==
  (\E i \in Len(c.wire) + 1 .. Len(d.wire) : d.wire[i] \in Dirs \cup Words)
    => d.view.of = d.contents.place

(* The map and the view are kept true to each other, so that what is sent  *)
(* is sent in a room seen.                                                 *)
Remains(c, d) == Present(c) => Present(d) /\ Sees(c, d)

(* Commands that ask for news or for another place.                        *)
Requests == {"refresh", "portal", "out", "newsea"}

(* The sets of commands that are told apart.                               *)
LEMMA CommandSets ==
  /\ <<>> \in Seq(Sendable) /\ <<>> \in Seq(Commands \ Dirs) /\ <<>> \in Seq(Commands)
  /\ \A word \in Words : <<word>> \in Seq(Sendable)
  /\ <<"refresh">> \in Seq(Sendable)
  /\ \A cmd \in Words \cup {"refresh", "portal"} : <<cmd>> \in Seq(Commands \ Dirs) /\ <<cmd>> \in Seq(Commands)
  /\ Seq(Dirs) \subseteq Seq(Sendable) /\ Seq(Sendable) \subseteq Seq(Commands)
  /\ <<>> \in Seq(Requests) /\ <<"refresh">> \in Seq(Requests) /\ <<"portal">> \in Seq(Requests)
  /\ Seq(Requests) \subseteq Seq(Commands \ Dirs)
<1>1. /\ Words \cup {"refresh"} \subseteq Sendable
      /\ Words \cup {"refresh", "portal"} \subseteq Commands \ Dirs
      /\ Dirs \subseteq Sendable /\ Sendable \subseteq Commands
      /\ {"refresh", "portal"} \subseteq Requests /\ Requests \subseteq Commands \ Dirs
  <2>1. Words \cap Dirs = {}
    BY WordsApart
  <2>2. Words \cup {"refresh", "portal"} \subseteq Commands /\ Dirs \subseteq Commands
    BY DEF Commands, Orders
  <2>3. {"refresh", "portal", "out", "newsea"} \subseteq Commands \ Dirs
    BY DEF Commands, Orders, Dirs
  <2>. QED  BY <2>1, <2>2, <2>3 DEF Sendable, Requests
<1>2. \A S, T : S \subseteq T => Seq(S) \subseteq Seq(T)
  OBVIOUS
<1>. HIDE DEF Commands, Sendable, Dirs, Requests
<1>3. /\ <<>> \in Seq(Sendable) /\ <<>> \in Seq(Requests) /\ <<>> \in Seq(Commands \ Dirs) /\ <<>> \in Seq(Commands)
  OBVIOUS
<1>4. \A cmd \in Words \cup {"refresh"} : <<cmd>> \in Seq(Sendable)
  BY <1>1
<1>5. \A cmd \in Words \cup {"refresh", "portal"} : <<cmd>> \in Seq(Commands \ Dirs) /\ <<cmd>> \in Seq(Commands)
  BY <1>1
<1>6. <<"refresh">> \in Seq(Requests) /\ <<"portal">> \in Seq(Requests)
  BY <1>1
<1>. QED  BY <1>1, <1>2, <1>3, <1>4, <1>5, <1>6

(* What was sent stands after what was on the wire before.                 *)
LEMMA LaterSent ==
  ASSUME NEW S, NEW s \in Seq(S), NEW T, NEW t \in Seq(T), NEW u, u = s \o t
  PROVE  \A i \in Len(s) + 1 .. Len(u) : u[i] \in T
<1>. SUFFICES ASSUME NEW i \in Len(s) + 1 .. Len(u) PROVE u[i] \in T
  OBVIOUS
<1>1. Len(s) \in Nat /\ Len(t) \in Nat /\ Len(u) = Len(s) + Len(t)
  OBVIOUS
<1>2. i - Len(s) \in 1 .. Len(t)
  BY <1>1
<1>3. u[i] = t[i - Len(s)]
  BY <1>1
<1>. QED  BY <1>2, <1>3

(* Where nothing is sent nothing need be seen.                             *)
LEMMA SilentSees ==
  ASSUME NEW c, Able(c), NEW d, NEW cmds \in Seq(Requests), d.wire = c.wire \o cmds
  PROVE  Sees(c, d)
<1>1. c.wire \in Seq(Commands)
  BY DEF Able, Sends
<1>2. \A i \in Len(c.wire) + 1 .. Len(d.wire) : d.wire[i] \in Requests
  <2>. HIDE DEF Commands, Requests
  <2>. QED  BY <1>1, LaterSent
<1>3. Requests \cap (Dirs \cup Words) = {}
  <2>1. Requests \cap Dirs = {}
    BY DEF Dirs, Requests
  <2>2. Requests \cap Words = {}
    BY WordsApart DEF Requests
  <2>. QED  BY <2>1, <2>2
<1>. QED  BY <1>2, <1>3 DEF Sees

(* A run that is over, or no run, looks at nothing.                        *)
LEMMA IdlePresent ==
  ASSUME NEW d, d.state = "idle", d.arrival = "none" PROVE Present(d)
BY DEF Present

(* So what follows from a frame goes onward.                               *)
LEMMA FollowsRight ==
  ASSUME NEW f \in Seq(Frames), NEW p, NEW c, Able(c), NEW d, Control(d), Follows(c, d, f, p)
  PROVE  Onward(c, d, f, p) /\ Remains(c, d)
<1>1. c.wire \in Seq(Commands)
  BY DEF Able, Sends
<1>2. CASE Halts(c, d)
  <2>1. c.wire \o <<>> = c.wire
    <3>. HIDE DEF Commands
    <3>. QED  BY <1>1
  <2>2. Onward(c, d, f, p)
    BY <1>2, <2>1, CommandSets DEF Onward, Halts
  <2>3. Sees(c, d)
    BY <1>2, <2>1, CommandSets, SilentSees DEF Halts
  <2>. QED  BY <1>2, <2>2, <2>3 DEF Halts, Remains
<1>3. ASSUME NEW e, Decides(c, e, f, p), d = ProcessRoom(e)
      PROVE  Onward(c, d, f, p) /\ Remains(c, d)
  <2>. DEFINE s == SyncView(e)
  <2>1. /\ Deciding(e) /\ e.wire = c.wire /\ e.contents = c.contents
        /\ (Loose(c) => Loose(e)) /\ (Present(c) => Looking(e))
        /\ ~Loose(e) => \E x \in Fixes : Tracked(e, f, p, x) /\ Rested(x)
    BY <1>3 DEF Decides
  <2>2. Loose(e) => Loose(d)
    <3>1. Settles(e, d)
      BY <1>3, <2>1, ProcessSettles
    <3>. QED  BY <3>1 DEF Settles, Retains, Walks, Loose, HoldsRooms
  <2>3. /\ Looks(e, s) /\ SameChart(e, s) /\ s.contents = e.contents /\ s.wire = e.wire
    BY <2>1, SyncLooks
  <2>4. Faces(s, d)
    BY <1>3, <2>1, ProcessFaces
  <2>. HIDE DEF s
  <2>5. PICK cmds \in Seq(Commands) : d.wire = c.wire \o cmds /\ Outcome(s, d, cmds)
    BY <2>1, <2>3, <2>4 DEF Faces
  <2>6. d.view = s.view /\ d.contents = c.contents
    BY <2>1, <2>3, <2>4 DEF Faces
  <2>7. ASSUME Present(c), s.view.key = Key(e) PROVE d.view.of = d.contents.place
    <3>1. Looking(e)
      BY <2>1, <2>7
    <3>. QED  BY <2>1, <2>3, <2>6, <3>1 DEF Looks, Looking
  <2>8. CASE (cmds = <<>> /\ ~d.enabled) \/ (cmds = <<"portal">> /\ ~d.enabled /\ Loose(d))
    <3>1. Loose(d) \/ (~Loose(c) /\ cmds \in Seq(Sendable))
      BY <2>1, <2>2, <2>8, CommandSets
    <3>2. cmds \in Seq(Commands \ Dirs)
      BY <2>8, CommandSets
    <3>3. d.state = "idle" /\ d.arrival = "none"
      BY <2>8 DEF Control, Waiting
    <3>4. Present(d)
      BY <3>3, IdlePresent
    <3>5. cmds \in Seq(Requests)
      BY <2>8, CommandSets
    <3>6. Sees(c, d)
      BY <2>5, <3>5, SilentSees
    <3>. QED  BY <2>5, <3>1, <3>2, <3>4, <3>6 DEF Onward, Remains
  <2>9. CASE /\ \E word \in Words : cmds = <<word>>
             /\ d.state = "fighting" /\ d.arrival = "none" /\ SameChart(s, d)
    <3>1. Loose(d) \/ (~Loose(c) /\ cmds \in Seq(Sendable))
      BY <2>1, <2>2, <2>9, CommandSets
    <3>2. cmds \in Seq(Commands \ Dirs)
      BY <2>9, CommandSets
    <3>3. ASSUME Present(c) PROVE Present(d) /\ Sees(c, d)
      <4>1. d.view.of = d.contents.place
        BY <2>3, <2>7, <3>3 DEF Looks
      <4>2. d.active => Placed(d)
        BY <2>1, <2>3, <2>6, <2>9, <3>3 DEF Looking, SameChart, Placed
      <4>. QED  BY <2>9, <4>1, <4>2 DEF Present, Sees
    <3>. QED  BY <2>5, <3>1, <3>2, <3>3 DEF Onward, Remains
  <2>10. CASE /\ cmds \in Seq(Dirs) /\ cmds # <<>> /\ s.active /\ HoldsRooms(s)
              /\ d.state = "stepping" /\ d.arrival = "move" /\ SameChart(s, d)
    <3>1. e.active /\ HoldsRooms(e) /\ ~Loose(c)
      BY <2>1, <2>3, <2>10 DEF SameChart, HoldsRooms, Loose
    <3>2. cmds \in Seq(Sendable)
      BY <2>10, CommandSets
    <3>3. Clear(f, c.wire, p)
      <4>1. PICK x \in Fixes : Tracked(e, f, p, x) /\ Rested(x)
        BY <2>1, <3>1 DEF Loose
      <4>2. Fits(e, x) /\ Ahead(f, c.wire, p, x)
        BY <2>1, <4>1 DEF Tracked
      <4>3. x.mode = "live"
        BY <3>1, <4>1, <4>2, FixType DEF Fits, Rested, Modes
      <4>. QED  BY <4>1, <4>2, <4>3 DEF Clear, Rested, Fits
    <3>4. ASSUME Present(c) PROVE Present(d) /\ Sees(c, d)
      <4>1. d.view.of = d.contents.place
        BY <2>3, <2>7, <3>4 DEF Looks
      <4>2. d.view.key = [kind |-> "xyz", is |-> d.map.pos]
        BY <2>3, <2>6, <2>10, <3>1 DEF Looks, Key, SameChart
      <4>3. d.view.key.kind = "xyz" /\ d.view.key.is = d.map.pos
        BY <4>2
      <4>4. Placed(d)
        BY <2>1, <2>3, <2>6, <2>10, <3>1, <3>4 DEF Looking, SameChart, Placed
      <4>. QED  BY <2>10, <4>1, <4>3, <4>4 DEF Present, Placed, Sees
    <3>. QED  BY <2>5, <3>1, <3>2, <3>3, <3>4 DEF Onward, Remains
  <2>. QED  BY <2>5, <2>8, <2>9, <2>10 DEF Outcome
<1>. QED  BY <1>2, <1>3 DEF Follows

-----------------------------------------------------------------------------
(* Callbacks that decide nothing.                                          *)

(* From c to d nothing but requests are sent, and those of a client with a *)
(* map are refreshes.                                                      *)
Calmly(c, d) ==
  \E cmds \in Seq(Requests) :
    /\ d.wire = c.wire \o cmds
    /\ Loose(d) \/ (~Loose(c) /\ cmds \in Seq(Sendable))

(* The same contents are listed; the run is over, or one has started, or   *)
(* the view, what is waited for, and the map if there still is one, stay.  *)
Quietly(c, d) ==
  /\ d.contents = c.contents
  /\ \/ d.state = "idle" /\ d.arrival = "none"
     \/ d.state = "stepping" /\ d.arrival = "refresh" /\ d.view.key.kind = "none"
     \/ /\ d.view = c.view /\ d.state = c.state /\ d.arrival = c.arrival
        /\ ~d.active \/ SameChart(c, d)

Abides(c, d) == Calmly(c, d) /\ Quietly(c, d)

(* Nothing sent.                                                           *)
LEMMA SilentCalmly ==
  ASSUME NEW c, Able(c), NEW d, d.wire = c.wire, Loose(c) => Loose(d)
  PROVE  Calmly(c, d)
<1>1. c.wire \o <<>> = c.wire
  <2>1. c.wire \in Seq(Commands)
    BY DEF Able, Sends
  <2>. HIDE DEF Commands
  <2>. QED  BY <2>1
<1>. QED  BY <1>1, CommandSets DEF Calmly

(* A refresh asked for.                                                    *)
LEMMA RefreshCalmly ==
  ASSUME NEW c, NEW d, d.wire = c.wire \o <<"refresh">>, Loose(c) => Loose(d)
  PROVE  Calmly(c, d)
BY CommandSets DEF Calmly

(* What is sent calmly moves nobody and strikes at nobody.                 *)
LEMMA CalmlyRight ==
  ASSUME NEW c, Able(c), NEW d, Calmly(c, d), NEW f, NEW p
  PROVE  Onward(c, d, f, p) /\ Sees(c, d)
<1>1. PICK cmds \in Seq(Requests) : /\ d.wire = c.wire \o cmds
                                    /\ Loose(d) \/ (~Loose(c) /\ cmds \in Seq(Sendable))
  BY DEF Calmly
<1>2. cmds \in Seq(Commands \ Dirs) /\ cmds \in Seq(Commands)
  <2>1. Seq(Commands \ Dirs) \subseteq Seq(Commands)
    <3>. HIDE DEF Commands, Dirs
    <3>. QED  OBVIOUS
  <2>. QED  BY <2>1, CommandSets
<1>. QED  BY <1>1, <1>2, SilentSees DEF Onward

(* What is done quietly keeps the view true, and begins no fight.          *)
LEMMA QuietlyPresent ==
  ASSUME NEW c, NEW d, Quietly(c, d)
  PROVE  /\ Present(c) => Present(d)
         /\ d.contents = c.contents
         /\ d.state = "fighting" => c.state = "fighting"
<1>1. CASE d.state = "idle" /\ d.arrival = "none"
  BY <1>1 DEF Present, Quietly
<1>2. CASE d.state = "stepping" /\ d.arrival = "refresh" /\ d.view.key.kind = "none"
  BY <1>2 DEF Present, Quietly
<1>3. CASE /\ d.view = c.view /\ d.state = c.state /\ d.arrival = c.arrival
           /\ ~d.active \/ SameChart(c, d)
  BY <1>3 DEF Present, Quietly, Placed, SameChart
<1>. QED  BY <1>1, <1>2, <1>3 DEF Quietly

(* Both at once.                                                           *)
LEMMA AbidesRight ==
  ASSUME NEW c, Able(c), NEW d, Abides(c, d), NEW f, NEW p
  PROVE  Onward(c, d, f, p) /\ Remains(c, d)
BY CalmlyRight, QuietlyPresent DEF Abides, Remains

(* A client of which only what neither speaks of differs.                  *)
LEMMA SameAbides ==
  ASSUME NEW c, Able(c), NEW d, d.wire = c.wire, d.contents = c.contents, d.view = c.view,
         d.state = c.state, d.arrival = c.arrival, SameChart(c, d)
  PROVE  Abides(c, d)
<1>1. Loose(c) => Loose(d)
  BY DEF Loose, SameChart, HoldsRooms
<1>. QED  BY <1>1, SilentCalmly DEF Abides, Quietly

(* A stop.                                                                 *)
LEMMA StopAbides ==
  ASSUME NEW c, Able(c), Ordered(c), NEW timed_out \in BOOLEAN
  PROVE  Abides(c, Stop(c, timed_out))
<1>1. Loose(c) => Loose(Stop(c, timed_out))
  BY StopHalts DEF Halts
<1>2. LET d == Stop(c, timed_out)
      IN d.contents = c.contents /\ d.wire = c.wire /\ d.arrival = "none" /\ d.state = "idle"
  BY StopSeen DEF Able
<1>. QED  BY <1>1, <1>2, SilentCalmly DEF Abides, Quietly

(* "/step explore off".                                                    *)
LEMMA OffAbides ==
  ASSUME NEW c, Good(c), Ordered(c)
  PROVE  Abides(c, ExploreOffCommand(c))
<1>1. Able(c) /\ Shape(c)
  BY DEF Good, Able
<1>2. CASE ~c.active
  BY <1>1, <1>2, StopAbides DEF ExploreOffCommand
<1>3. CASE c.active
  <2>. DEFINE e == Pause(c, FALSE)
              d == Stop(e, FALSE)
  <2>1. ExploreOffCommand(c) = d
    BY <1>3 DEF ExploreOffCommand
  <2>2. Able(e)
    BY <1>1, PauseAble
  <2>3. e.map = c.map /\ e.wire = c.wire /\ e.contents = c.contents /\ ~e.active
        /\ e.farm = c.farm /\ e.held = c.held
    BY <1>1 DEF Pause, Shape, Fields
  <2>. HIDE DEF e
  <2>4. ~e.farm /\ (HoldsRooms(e) => e.held)
    BY <2>3 DEF Ordered, HoldsRooms
  <2>5. Settles(e, d)
    BY <2>2, <2>4, StopSettles
  <2>6. Loose(e) => Loose(d)
    BY <2>5, SettlesFiled
  <2>7. Loose(c) => Loose(e)
    BY <2>3 DEF Loose, HoldsRooms
  <2>8. d.contents = e.contents /\ d.wire = e.wire /\ d.arrival = "none" /\ d.state = "idle"
    BY <2>2, StopSeen DEF Able
  <2>. HIDE DEF d
  <2>9. Abides(c, d)
    BY <1>1, <2>3, <2>6, <2>7, <2>8, SilentCalmly DEF Abides, Quietly
  <2>. QED  BY <2>1, <2>9
<1>. QED  BY <1>2, <1>3

(* Asking for the room again, by a client that differs in nothing else     *)
(* that counts.                                                            *)
LEMMA RefreshAbides ==
  ASSUME NEW c, Able(c), Ordered(c), NEW e, Able(e), Alike(c, e), e.arrival = c.arrival,
         e.batch = c.batch, e.view = c.view, e.contents = c.contents, e.state = c.state
  PROVE  Abides(c, RequestRefresh(e))
<1>1. SameChart(c, e) /\ e.wire = c.wire /\ (Loose(c) => Loose(e)) /\ Ordered(e)
  BY AlikeFits DEF Alike, SameChart, Loose, HoldsRooms
<1>2. CASE e.online
  <2>. DEFINE d == Send(e, <<"refresh">>)
  <2>1. d.wire = c.wire \o <<"refresh">>
    BY <1>1, <1>2 DEF Send, Able, Shape, Fields
  <2>2. \A field \in Fields \ {"wire"} : d[field] = e[field]
    BY PlainSent
  <2>3. RequestRefresh(e) = d
    BY <1>2 DEF RequestRefresh
  <2>. HIDE DEF d
  <2>4. /\ d.map = e.map /\ d.filed = e.filed /\ d.active = e.active /\ d.contents = e.contents
        /\ d.view = e.view /\ d.state = e.state /\ d.arrival = e.arrival
    BY <2>2 DEF Fields
  <2>5. Loose(c) => Loose(d)
    BY <1>1, <2>4 DEF Loose, HoldsRooms
  <2>6. Calmly(c, d)
    BY <2>1, <2>5, RefreshCalmly
  <2>. QED  BY <1>1, <2>3, <2>4, <2>6 DEF Abides, Quietly, SameChart
<1>3. CASE ~e.online
  <2>1. RequestRefresh(e) = Stop(e, FALSE)
    BY <1>3 DEF RequestRefresh
  <2>. DEFINE d == Stop(e, FALSE)
  <2>2. Loose(e) => Loose(d)
    BY <1>1, StopHalts DEF Halts
  <2>3. d.contents = e.contents /\ d.wire = e.wire /\ d.arrival = "none" /\ d.state = "idle"
    BY StopSeen DEF Able
  <2>. HIDE DEF d
  <2>4. Abides(c, d)
    BY <1>1, <2>2, <2>3, SilentCalmly DEF Abides, Quietly
  <2>. QED  BY <2>1, <2>4 DEF d
<1>. QED  BY <1>2, <1>3

(* Waiting once more.                                                      *)
LEMMA WaitsAbides ==
  ASSUME NEW c, Able(c), Ordered(c), NEW n \in 0 .. 3
  PROVE  Abides(c, RequestRefresh([c EXCEPT !.waits = n]))
<1>. DEFINE e == [c EXCEPT !.waits = n]
<1>1. Able(e) /\ Alike(c, e) /\ e.arrival = c.arrival /\ e.batch = c.batch
  BY WaitsAlike
<1>2. e.view = c.view /\ e.contents = c.contents /\ e.state = c.state
  BY DEF Able, Shape, Fields
<1>. HIDE DEF e
<1>3. Abides(c, RequestRefresh(e))
  BY <1>1, <1>2, RefreshAbides
<1>. QED  BY <1>3 DEF e

(* The end of a fight, and a warning that the way is barred.               *)
LEMMA LinesAbide ==
  ASSUME NEW c, Able(c), Ordered(c)
  PROVE  Abides(c, OnCombatEnd(c)) /\ Abides(c, OnBlocked(c))
<1>1. Abides(c, c)
  BY SameAbides DEF SameChart
<1>2. 1 \in 0 .. 3 /\ FALSE \in BOOLEAN
  OBVIOUS
<1>3. Abides(c, RequestRefresh([c EXCEPT !.waits = 1])) /\ Abides(c, Stop(c, FALSE))
  BY <1>2, WaitsAbides, StopAbides
<1>4. OnCombatEnd(c) \in {c, RequestRefresh([c EXCEPT !.waits = 1])}
  BY DEF OnCombatEnd
<1>5. OnBlocked(c) \in {c, Stop(c, FALSE)}
  BY DEF OnBlocked
<1>. QED  BY <1>1, <1>3, <1>4, <1>5

(* News of a room, a held move let go, the way home planned, a start that  *)
(* is refused.                                                             *)
LEMMA FieldsAbide ==
  ASSUME NEW c, Able(c)
  PROVE  /\ \A place : Abides(c, [c EXCEPT !.info = place])
         /\ Abides(c, [c EXCEPT !.hold_timer = FALSE, !.pending = IF InFlight(c) THEN <<>> ELSE @])
         /\ Abides(c, Leave(c))
         /\ Abides(c, [c EXCEPT !.mode = "route"])
<1>1. Shape(c)
  BY DEF Able
<1>2. ASSUME NEW place PROVE Abides(c, [c EXCEPT !.info = place])
  BY <1>1, SameAbides DEF Shape, Fields, SameChart
<1>3. Abides(c, [c EXCEPT !.mode = "route"])
  BY <1>1, SameAbides DEF Shape, Fields, SameChart
<1>4. Abides(c, [c EXCEPT !.hold_timer = FALSE, !.pending = IF InFlight(c) THEN <<>> ELSE @])
  <2>. DEFINE left == IF InFlight(c) THEN <<>> ELSE c.pending
              d == [c EXCEPT !.hold_timer = FALSE, !.pending = left]
  <2>. HIDE DEF left
  <2>1. /\ d.wire = c.wire /\ d.contents = c.contents /\ d.view = c.view
        /\ d.state = c.state /\ d.arrival = c.arrival /\ SameChart(c, d)
    BY <1>1 DEF Shape, Fields, SameChart
  <2>. HIDE DEF d
  <2>2. Abides(c, d)
    BY <2>1, SameAbides
  <2>. QED  BY <2>2 DEF d, left
<1>5. Abides(c, Leave(c))
  <2>. DEFINE d == Leave(c)
  <2>1. /\ d.wire = c.wire /\ d.contents = c.contents /\ d.view = c.view
        /\ d.state = c.state /\ d.arrival = c.arrival /\ SameChart(c, d)
    BY <1>1 DEF Leave, Shape, Fields, SameChart
  <2>. HIDE DEF d
  <2>. QED  BY <2>1, SameAbides DEF d
<1>. QED  BY <1>2, <1>3, <1>4, <1>5

(* A reset asks for the room the new map begins with.                      *)
LEMMA ResetCalmly ==
  ASSUME NEW c, Good(c), Ordered(c)
  PROVE  Calmly(c, ExploreResetCommand(c))
<1>1. Able(c) /\ Shape(c) /\ FALSE \in BOOLEAN
  BY DEF Good, Able
<1>2. CASE c.batch
  BY <1>1, <1>2, StopAbides DEF ExploreResetCommand, Abides
<1>3. CASE ~c.batch /\ ~c.held
  BY <1>1, <1>3, SilentCalmly DEF ExploreResetCommand
<1>4. CASE ~c.batch /\ c.held
  <2>. DEFINE e == [Blank(c) EXCEPT !.unanchored = TRUE]
              d == Send(e, <<"refresh">>)
  <2>1. ExploreResetCommand(c) = d
    BY <1>4 DEF ExploreResetCommand, ResetMap
  <2>2. Shape(e) /\ e.map = NewMap /\ e.active = c.active /\ e.wire = c.wire
    BY <1>1 DEF Blank, Shape, Fields
  <2>. HIDE DEF e
  <2>3. /\ d.map = NewMap /\ d.active = c.active
        /\ d.wire = c.wire \o <<"refresh">> \/ d.wire = c.wire
    BY <2>2 DEF Send, Shape, Fields
  <2>. HIDE DEF d
  <2>4. Loose(c) => Loose(d)
    BY <2>3 DEF Loose, HoldsRooms, NewMap, Visited
  <2>. QED  BY <1>1, <2>1, <2>3, <2>4, SilentCalmly, RefreshCalmly
<1>. QED  BY <1>2, <1>3, <1>4

(* To send changes nothing but the wire.                                   *)
LEMMA QuietSent ==
  ASSUME NEW c, NEW d, Shape(d), Quietly(c, d), NEW cmds
  PROVE  Quietly(c, Send(d, cmds))
<1>. DEFINE e == Send(d, cmds)
<1>1. /\ e.contents = d.contents /\ e.state = d.state /\ e.arrival = d.arrival /\ e.view = d.view
      /\ e.active = d.active /\ e.map = d.map /\ e.filed = d.filed
  BY DEF Send, Shape, Fields
<1>. HIDE DEF e
<1>2. Quietly(c, e)
  BY <1>1 DEF Quietly, SameChart
<1>. QED  BY <1>2 DEF e

(* A sea given up, between steps.                                          *)
LEMMA RediveQuiet ==
  ASSUME NEW c, Able(c), Ordered(c)
  PROVE  /\ Quietly(c, Redive(c)) /\ Redive(c).wire = c.wire
         /\ Quietly(c, Unload(c)) /\ Unload(c).wire = c.wire
<1>1. Shape(c) /\ FALSE \in BOOLEAN
  BY DEF Able
<1>. DEFINE s == Stop(c, FALSE)
<1>2. /\ Shape(s) /\ s.contents = c.contents /\ s.wire = c.wire /\ s.arrival = "none"
      /\ s.state = "idle"
  BY <1>1, StopSeen, StopGood DEF Good, Able
<1>3. ASSUME NEW b, Shape(b)
      PROVE  LET d == Discard(b)
             IN /\ Shape(d) /\ d.contents = b.contents /\ d.wire = b.wire /\ d.arrival = b.arrival
                /\ d.state = b.state /\ d.view = b.view /\ ~d.active
  BY <1>3 DEF Discard, Blank, Shape, Fields
<1>4. Quietly(c, Redive(c)) /\ Redive(c).wire = c.wire
  <2>1. CASE ~c.held
    BY <2>1 DEF Redive, Quietly, SameChart
  <2>2. CASE c.held /\ ~c.batch
    <3>1. Redive(c) = Discard(c)
      BY <2>2 DEF Redive
    <3>. QED  BY <1>1, <1>3, <3>1 DEF Quietly
  <2>3. CASE c.held /\ c.batch
    <3>1. Redive(c) = Discard(s)
      BY <2>3 DEF Redive
    <3>. HIDE DEF s
    <3>. QED  BY <1>2, <1>3, <3>1 DEF Quietly
  <2>. QED  BY <2>1, <2>2, <2>3
<1>5. Quietly(c, Unload(c)) /\ Unload(c).wire = c.wire
  <2>. DEFINE d == Discard(s)
              u == [d EXCEPT !.farm = FALSE]
  <2>1. Unload(c) = u
    BY DEF Unload
  <2>. HIDE DEF s
  <2>2. Shape(d) /\ d.contents = c.contents /\ d.wire = c.wire /\ d.arrival = "none" /\ d.state = "idle"
    BY <1>2, <1>3
  <2>. HIDE DEF d
  <2>3. u.contents = c.contents /\ u.wire = c.wire /\ u.arrival = "none" /\ u.state = "idle"
    BY <2>2 DEF Shape, Fields
  <2>. QED  BY <2>1, <2>3 DEF Quietly
<1>. QED  BY <1>4, <1>5

(* So a new sea entered, or a reload, leaves no map behind.                *)
LEMMA RediveAbides ==
  ASSUME NEW c, Able(c), Ordered(c)
  PROVE  Abides(c, Send(Redive(c), <<"newsea">>)) /\ Abides(c, Unload(c))
<1>. DEFINE r == Redive(c)
            d == Send(r, <<"newsea">>)
<1>1. Mapless(c, r) /\ Shape(r) /\ Mapless(c, Unload(c))
  BY RediveMapless
<1>2. Quietly(c, r) /\ r.wire = c.wire /\ Quietly(c, Unload(c)) /\ Unload(c).wire = c.wire
  BY RediveQuiet
<1>. HIDE DEF r
<1>3. Mapless(c, d) /\ Quietly(c, d)
  BY <1>1, <1>2, MaplessSends, QuietSent
<1>4. d.wire = c.wire \o <<"newsea">> \/ d.wire = c.wire
  BY <1>1, <1>2 DEF Send, Shape, Fields
<1>. HIDE DEF d
<1>5. <<"newsea">> \in Seq(Requests)
  BY DEF Requests
<1>6. Calmly(c, d) /\ Calmly(c, Unload(c))
  BY <1>1, <1>2, <1>3, <1>4, <1>5, SilentCalmly DEF Mapless, Calmly
<1>. QED  BY <1>2, <1>3, <1>6 DEF Abides, d, r

(* A direction typed by hand.                                              *)
LEMMA HandQuiet ==
  ASSUME NEW c, Good(c), Control(c), Ordered(c)
  PROVE  Quietly(c, OnHandMove(c))
<1>1. Able(c) /\ Shape(c) /\ FALSE \in BOOLEAN
  BY DEF Good, Able
<1>2. CASE ~HoldsRooms(c)
  <2>1. OnHandMove(c) = c
    BY <1>2 DEF OnHandMove
  <2>. QED  BY <2>1 DEF Quietly, SameChart
<1>3. CASE HoldsRooms(c)
  <2>. DEFINE s == IF c.enabled /\ c.mode = "explore" THEN Stop(c, FALSE) ELSE c
              b == [s EXCEPT !.hold_timer = FALSE]
              d == ResetMap(b)
  <2>1. OnHandMove(c) = d
    BY <1>3 DEF OnHandMove
  <2>2. Shape(s) /\ s.contents = c.contents /\ s.arrival = "none" /\ s.state = "idle"
    <3>1. CASE c.enabled
      <4>1. s = Stop(c, FALSE)
        BY <3>1 DEF Ordered
      <4>. QED  BY <1>1, <4>1, StopSeen, StopGood DEF Good, Able
    <3>2. CASE ~c.enabled
      BY <1>1, <3>2 DEF Control, Waiting
    <3>. QED  BY <3>1, <3>2
  <2>. HIDE DEF s
  <2>3. Shape(b) /\ b.contents = c.contents /\ b.arrival = "none" /\ b.state = "idle"
    BY <2>2 DEF Shape, Fields
  <2>. HIDE DEF b
  <2>4. d.contents = c.contents /\ d.arrival = "none" /\ d.state = "idle"
    BY <2>3 DEF ResetMap, Blank, Shape, Fields
  <2>. QED  BY <2>1, <2>4 DEF Quietly
<1>. QED  BY <1>2, <1>3

(* How a run starts: quietly, with a refresh at most, and over no map but  *)
(* the one that was kept.                                                  *)
Starting(c, d) ==
  /\ Quietly(c, d) /\ d.wire \in {c.wire, c.wire \o <<"refresh">>}
  /\ HoldsRooms(d) => HoldsRooms(c)
  /\ d.enabled => d.online

(* A stop keeps the map or gives it up.                                    *)
LEMMA StopMap ==
  ASSUME NEW c, Shape(c), NEW timed_out
  PROVE  Stop(c, timed_out).map \in {c.map, NewMap}
<1>. DEFINE hold == /\ c.enabled /\ c.mode = "explore" /\ c.state = "stepping"
                    /\ c.arrival = "move" /\ ~timed_out /\ ~c.batch
            paused == IF c.batch THEN Discard(c) ELSE IF c.active THEN Pause(c, hold) ELSE c
            window == hold /\ c.active /\ InFlight(paused)
            d == [paused EXCEPT !.enabled = FALSE, !.mode = "none", !.state = "idle",
                                !.arrival = "none", !.batch = FALSE, !.waits = 0,
                                !.walk = <<>>, !.target = NoMonster, !.farm_timer = FALSE,
                                !.hold_timer = window]
<1>1. Stop(c, timed_out) = d
  BY DEF Stop
<1>. HIDE DEF hold
<1>2. Shape(paused) /\ paused.map \in {c.map, NewMap}
  BY DEF Discard, Blank, Pause, Shape, Fields
<1>. HIDE DEF paused, window
<1>3. d.map = paused.map
  BY <1>2 DEF Shape, Fields
<1>. QED  BY <1>1, <1>2, <1>3

(* A run begun over an explorer.                                           *)
LEMMA BegunStarting ==
  ASSUME NEW c, NEW r, Good(r), r.active, ~r.enabled, r.contents = c.contents, r.wire = c.wire,
         HoldsRooms(r) => HoldsRooms(c)
  PROVE  Starting(c, RequestRefresh(Begun(r)))
<1>. DEFINE key == [kind |-> "none", is |-> <<>>]
            fresh == [r EXCEPT !.mode = "explore", !.farm_timer = FALSE, !.hold_timer = FALSE,
                               !.enabled = TRUE, !.waits = 0, !.target = NoMonster, !.walk = <<>>,
                               !.view.key = key, !.ended = "none"]
            b == Begun(r)
<1>1. Able(b) /\ b.map = r.map /\ b.wire = r.wire
  BY BegunAble
<1>2. Shape(b)
  BY <1>1 DEF Able
<1>3. /\ Shape(r) /\ "key" \in DOMAIN r.view
  BY DEF Good, Able, Viewed
<1>4. /\ Shape(fresh) /\ fresh.view.key.kind = "none" /\ fresh.contents = r.contents
  BY <1>3 DEF Shape, Fields
<1>5. b = [fresh EXCEPT !.state = "stepping", !.arrival = "refresh"]
  BY DEF Begun, AwaitArrival
<1>. HIDE DEF b, fresh
<1>6. /\ b.contents = r.contents /\ b.state = "stepping" /\ b.arrival = "refresh"
      /\ b.view.key.kind = "none"
  BY <1>4, <1>5 DEF Shape, Fields
<1>7. HoldsRooms(b) => HoldsRooms(c)
  BY <1>1 DEF HoldsRooms
<1>8. CASE b.online
  <2>. DEFINE d == Send(b, <<"refresh">>)
  <2>1. /\ d.contents = b.contents /\ d.state = b.state /\ d.arrival = b.arrival
        /\ d.view = b.view /\ d.map = b.map /\ d.wire = b.wire \o <<"refresh">> /\ d.online
    BY <1>2, <1>8 DEF Send, Shape, Fields
  <2>2. RequestRefresh(b) = d
    BY <1>8 DEF RequestRefresh
  <2>. HIDE DEF d
  <2>3. Starting(c, d)
    BY <1>1, <1>6, <1>7, <2>1 DEF Starting, Quietly, HoldsRooms
  <2>. QED  BY <2>2, <2>3 DEF b
<1>9. CASE ~b.online
  <2>. DEFINE d == Stop(b, FALSE)
  <2>1. /\ d.contents = b.contents /\ d.wire = b.wire /\ d.arrival = "none" /\ d.state = "idle"
        /\ ~d.enabled /\ d.map \in {b.map, NewMap}
    BY <1>2, StopSeen, StopMap
  <2>2. RequestRefresh(b) = d
    BY <1>9 DEF RequestRefresh
  <2>. HIDE DEF d
  <2>3. HoldsRooms(d) => HoldsRooms(b)
    BY <2>1 DEF HoldsRooms, NewMap, Visited
  <2>4. Starting(c, d)
    BY <1>1, <1>6, <1>7, <2>1, <2>3 DEF Starting, Quietly
  <2>. QED  BY <2>2, <2>4 DEF b
<1>. QED  BY <1>8, <1>9

(* Every start.                                                            *)
LEMMA AnyStarting ==
  ASSUME NEW c, Good(c), Ordered(c), Route = <<>>,
         NEW d \in {StartRun(c, FALSE), ExploreCommand(c), ExploreAreaCommand(c)}, d # c
  PROVE  Starting(c, d)
<1>1. Able(c) /\ Shape(c)
  BY DEF Good, Able
<1>2. /\ ~c.enabled
      /\ \/ d = [c EXCEPT !.mode = "route"]
         \/ d = RequestRefresh(Begun(ExploreStart(c)))
         \/ /\ c.held /\ InArea(c.info) /\ ~c.active
            /\ d = RequestRefresh(Begun([c EXCEPT !.active = TRUE, !.pending = <<>>]))
  BY <1>1, StartsAre
<1>3. CASE d = [c EXCEPT !.mode = "route"]
  <2>1. /\ d.wire = c.wire /\ d.contents = c.contents /\ d.view = c.view /\ d.map = c.map
        /\ d.state = c.state /\ d.arrival = c.arrival /\ SameChart(c, d) /\ d.enabled = c.enabled
    BY <1>1, <1>3 DEF Shape, Fields, SameChart
  <2>. QED  BY <1>2, <2>1 DEF Starting, Quietly, HoldsRooms
<1>4. CASE d = RequestRefresh(Begun(ExploreStart(c)))
  <2>. DEFINE r == ExploreStart(c)
  <2>1. Good(r)
    BY <1>1, ExploreStartGood
  <2>2. /\ r.active /\ r.enabled = c.enabled /\ r.contents = c.contents
        /\ r.wire = c.wire /\ r.map = NewMap
    BY <1>1 DEF ExploreStart, Blank, Shape, Fields
  <2>. HIDE DEF r
  <2>3. ~HoldsRooms(r)
    BY <2>2 DEF HoldsRooms, NewMap, Visited
  <2>4. Starting(c, RequestRefresh(Begun(r)))
    BY <1>2, <2>1, <2>2, <2>3, BegunStarting
  <2>. QED  BY <1>4, <2>4 DEF r
<1>5. CASE /\ c.held /\ InArea(c.info) /\ ~c.active
           /\ d = RequestRefresh(Begun([c EXCEPT !.active = TRUE, !.pending = <<>>]))
  <2>. DEFINE r == [c EXCEPT !.active = TRUE, !.pending = <<>>]
  <2>1. Resume(c) = r
    BY <1>5 DEF Resume
  <2>2. Good(r)
    BY <2>1, ResumeGood
  <2>3. /\ r.active /\ r.enabled = c.enabled /\ r.contents = c.contents
        /\ r.wire = c.wire /\ r.map = c.map
    BY <1>1 DEF Shape, Fields
  <2>. HIDE DEF r
  <2>4. Starting(c, RequestRefresh(Begun(r)))
    BY <1>2, <2>2, <2>3, BegunStarting DEF HoldsRooms
  <2>. QED  BY <1>5, <2>4 DEF r
<1>. QED  BY <1>2, <1>3, <1>4, <1>5

(* An entry during a fight is one nobody asked for: the run stops.         *)
LEMMA FightEntryStops ==
  ASSUME NEW c0, Able(c0), Control(c0), Ordered(c0), c0.state = "fighting", NEW frame, frame.entry
  PROVE  Present(OnRoomContents(c0, frame)) /\ OnRoomContents(c0, frame).wire = c0.wire
<1>. DEFINE c == [c0 EXCEPT !.contents = frame]
            d == IF HoldsRooms(c) THEN ResetMap(c) ELSE c
<1>1. /\ Shape(c) /\ c.enabled = c0.enabled /\ c.state = c0.state /\ c.mode = c0.mode
      /\ c.wire = c0.wire
  BY DEF Able, Shape, Fields
<1>2. c.enabled /\ c.state = "fighting" /\ c.mode = "explore"
  BY <1>1 DEF Control, Waiting, Ordered
<1>. HIDE DEF c
<1>3. Shape(d) /\ d.wire = c0.wire
  BY <1>1 DEF ResetMap, Blank, Shape, Fields
<1>4. OnRoomContents(c0, frame) = OnUnaskedEntry(c).client /\ OnUnaskedEntry(c).client = Stop(d, FALSE)
  <2>1. OnUnaskedEntry(c) = [handled |-> TRUE, client |-> Stop(d, FALSE)]
    BY <1>2 DEF OnUnaskedEntry
  <2>2. OnUnaskedEntry(c).handled /\ OnUnaskedEntry(c).client = Stop(d, FALSE)
    BY <2>1
  <2>. HIDE DEF d
  <2>3. OnRoomContents(c0, frame) = OnUnaskedEntry(c).client
    BY <1>2, <2>2 DEF OnRoomContents, c
  <2>. QED  BY <2>2, <2>3
<1>. HIDE DEF d
<1>5. /\ Stop(d, FALSE).arrival = "none" /\ Stop(d, FALSE).state = "idle"
      /\ Stop(d, FALSE).wire = c0.wire
  BY <1>3, StopSeen
<1>. QED  BY <1>4, <1>5, IdlePresent

(* A run goes on only while the connection does.                           *)
Alive(c) == c.enabled => c.online

(* What frames do to a client under a connection leaves it there.          *)
LEMMA ReceiveAlive ==
  ASSUME Inv, Receive PROVE client.online /\ client'.online
<1>1. frames # <<>> /\ Good(client) /\ frames \in Seq(Frames)
  BY DEF Inv, World, Receive, ReceiveInfo, ReceiveContents, ReceiveCombatEnd, ReceiveNoTarget,
         ReceiveBlocked, Next1
<1>2. client.online
  BY <1>1 DEF Inv, World
<1>3. CASE ReceiveInfo
  BY <1>1, <1>2, <1>3 DEF ReceiveInfo, Client, Good, Able, Shape, Fields
<1>4. CASE ReceiveContents
  <2>1. Head(frames).kind = "contents" /\ client' = OnRoomContents(client, Head(frames))
    BY <1>4 DEF ReceiveContents, Next1, Client
  <2>2. Head(frames) \in Contents
    <3>1. Head(frames) \in Frames
      BY <1>1, TogetherType
    <3>. QED  BY <2>1, <3>1 DEF Frames, Infos, Lines
  <2>. QED  BY <1>1, <1>2, <2>1, <2>2, OnRoomContentsGood
<1>5. CASE ReceiveCombatEnd \/ ReceiveNoTarget \/ ReceiveBlocked
  BY <1>1, <1>2, <1>5, OnCombatEndGood, OnNoTargetGood, OnBlockedGood
     DEF ReceiveCombatEnd, ReceiveNoTarget, ReceiveBlocked, Client
<1>. QED  BY <1>2, <1>3, <1>4, <1>5 DEF Receive

(* Which timers there are, undisturbed, and what they do.                  *)
LEMMA TimersAre ==
  ASSUME Inv, Control(client), Ordered(client), Timers
  PROVE  /\ frames' = frames /\ here' = here
         /\ \/ client' = Stop(client, TRUE) \/ client' = Stop(client, FALSE)
            \/ client' = [client EXCEPT !.hold_timer = FALSE,
                                        !.pending = IF InFlight(client) THEN <<>> ELSE @]
            \/ /\ client.waits + 1 \in 0 .. 3 /\ client.enabled
               /\ client' = RequestRefresh([client EXCEPT !.waits = client.waits + 1])
<1>1. ~FarmTimer
  BY DEF FarmTimer, Control, Farming, Ordered
<1>2. CASE ArrivalTimeout \/ HeldMoveTimeout
  BY <1>2 DEF ArrivalTimeout, HeldMoveTimeout, Client
<1>3. CASE RefreshTimeout
  <2>1. client.waits < 3 => client.waits + 1 \in 0 .. 3
    BY DEF Control
  <2>2. client.enabled
    BY <1>3 DEF RefreshTimeout, Control, Waiting
  <2>. QED  BY <1>3, <2>1, <2>2 DEF RefreshTimeout, Client
<1>. QED  BY <1>1, <1>2, <1>3 DEF Timers

(* What the player does besides starting a run.                            *)
LEMMA ActsAre ==
  ASSUME Inv, Undisturbed',
         \/ PlayerStops \/ PlayerResets \/ PlayerLeaves \/ PlayerFarms \/ PlayerWalks
         \/ PlayerWalksOut \/ PlayerRedives \/ Reload
  PROVE  /\ frames' = frames /\ here' = here
         /\ \/ client' = Stop(client, FALSE) \/ client' = ExploreOffCommand(client)
            \/ client' = ExploreResetCommand(client) /\ PlayerResets
            \/ client' = Leave(client)
            \/ /\ client.online /\ PlayerWalks
               /\ \E dir \in Dirs : client' = Send(OnHandMove(client), <<dir>>)
            \/ client.online /\ client' = Send(client, <<"out">>) /\ PlayerWalksOut
            \/ client.online /\ client' = Send(Redive(client), <<"newsea">>)
            \/ client' = Unload(client)
<1>1. ~PlayerFarms
  BY Unspent DEF PlayerFarms, Command
<1>. QED  BY <1>1 DEF PlayerStops, PlayerResets, PlayerLeaves, PlayerWalks, PlayerWalksOut,
                      PlayerRedives, Reload, Command, Client

(* A run goes on only while the connection does, whatever happens.         *)
LEMMA AliveStep ==
  ASSUME Inv, Control(client), Ordered(client), Alive(client), [Next]_vars, Undisturbed'
  PROVE  Alive(client')
<1>1. Good(client) /\ Able(client) /\ Shape(client) /\ FALSE \in BOOLEAN /\ TRUE \in BOOLEAN
  BY DEF Inv, Good, Able
<1>2. Control(client')
  BY NextControl
<1>3. CASE Game \/ Wimpy \/ StrayCombatFrame \/ UNCHANGED vars
  <2>1. client' = Taken \/ client' = client
    BY <1>3 DEF Game, GameMoves, GameLeaves, GameEntersSea, GameIgnores, GameFights,
                GameRefreshes, MonsterDies, StrayCombatFrame, Wimpy, vars
  <2>. QED  BY <1>1, <2>1 DEF Taken, Shape, Fields, Alive
<1>4. CASE Receive
  BY <1>4, ReceiveAlive DEF Alive
<1>5. CASE Timers
  <2>1. CASE client' = Stop(client, TRUE) \/ client' = Stop(client, FALSE)
    BY <1>1, <2>1, StopGood DEF Alive
  <2>2. CASE client' = [client EXCEPT !.hold_timer = FALSE,
                                      !.pending = IF InFlight(client) THEN <<>> ELSE @]
    BY <1>1, <2>2 DEF Shape, Fields, Alive
  <2>3. CASE /\ client.waits + 1 \in 0 .. 3 /\ client.enabled
             /\ client' = RequestRefresh([client EXCEPT !.waits = client.waits + 1])
    <3>. DEFINE e == [client EXCEPT !.waits = client.waits + 1]
    <3>1. Shape(e) /\ e.online
      BY <1>1, <2>3 DEF Shape, Fields, Alive
    <3>2. client' = RequestRefresh(e)
      BY <2>3
    <3>. HIDE DEF e
    <3>3. client'.online
      BY <3>1, <3>2 DEF RequestRefresh, Send, Shape, Fields
    <3>. QED  BY <3>3 DEF Alive
  <2>. QED  BY <1>5, <2>1, <2>2, <2>3, TimersAre
<1>6. CASE PlayerStarts
  BY <1>1, <1>6, AnyStarting DEF PlayerStarts, Command, Client, Starting, Undisturbed, Alive
<1>7. CASE \/ PlayerStops \/ PlayerResets \/ PlayerLeaves \/ PlayerFarms \/ PlayerWalks
           \/ PlayerWalksOut \/ PlayerRedives \/ Reload
  <2>1. CASE client' = Stop(client, FALSE)
    BY <1>1, <2>1, StopGood DEF Alive
  <2>2. CASE client' = ExploreOffCommand(client)
    <3>1. Able(Pause(client, FALSE))
      BY <1>1, PauseAble
    <3>. QED  BY <1>1, <2>2, <3>1, StopGood DEF ExploreOffCommand, Alive
  <2>3. CASE client' = ExploreResetCommand(client)
    <3>1. client'.online = client.online
      BY <1>1, <2>3, ExploreResetGood
    <3>2. ASSUME ~client.online PROVE ~client'.enabled
      <4>1. ~client.enabled /\ ~client.batch
        BY <3>2 DEF Alive, Control, Waiting
      <4>2. ResetMap(client).online = client.online /\ ResetMap(client).enabled = client.enabled
        BY <1>1 DEF ResetMap, Blank, Shape, Fields
      <4>. QED  BY <2>3, <3>2, <4>1, <4>2 DEF ExploreResetCommand, Send
    <3>. QED  BY <3>1, <3>2 DEF Alive
  <2>4. CASE client' = Leave(client)
    BY <1>1, <2>4 DEF Leave, Shape, Fields, Alive
  <2>5. ASSUME NEW dir \in Dirs, client' = Send(OnHandMove(client), <<dir>>), client.online
        PROVE  Alive(client')
    <3>1. Able(OnHandMove(client)) /\ OnHandMove(client).online
      BY <1>1, <2>5, OnHandMoveGood DEF Good
    <3>. QED  BY <2>5, <3>1, SendAble, CommandTypes DEF Alive
  <2>6. CASE client.online /\ client' = Send(client, <<"out">>)
    BY <1>1, <2>6, SendAble, CommandTypes DEF Alive
  <2>7. CASE client.online /\ client' = Send(Redive(client), <<"newsea">>)
    BY <1>1, <2>7, RediveGood, SendAble, CommandTypes DEF Alive, Good
  <2>8. CASE client' = Unload(client)
    <3>1. client'.online = client.online
      BY <1>1, <2>8, UnloadGood
    <3>2. Able(Stop(client, FALSE)) /\ ~Stop(client, FALSE).enabled
      BY <1>1, StopGood DEF Good
    <3>. DEFINE s == Stop(client, FALSE)
    <3>3. client' = [Discard(s) EXCEPT !.farm = FALSE] /\ Shape(s)
      BY <2>8, <3>2 DEF Unload, Able
    <3>. HIDE DEF s
    <3>4. client'.enabled = s.enabled
      BY <3>3 DEF Discard, Blank, Shape, Fields
    <3>. QED  BY <3>2, <3>4 DEF Alive, s
  <2>. QED  BY <1>7, <2>1, <2>2, <2>3, <2>4, <2>5, <2>6, <2>7, <2>8, ActsAre
<1>8. CASE Disconnect
  BY <1>1, <1>8, DisconnectFields DEF Disconnect, Alive
<1>9. CASE Reconnect
  BY <1>1, <1>9 DEF Reconnect, Shape, Fields, Alive
<1>. QED  BY <1>3, <1>4, <1>5, <1>6, <1>7, <1>8, <1>9 DEF Next, Player

-----------------------------------------------------------------------------
(* What the client was told changes with what it is told only.             *)

(* From c to d nothing was read, and the connection is the same.           *)
Unread(c, d) == Shape(d) /\ d.contents = c.contents /\ d.info = c.info /\ d.online = c.online

(* One thing after another.                                                *)
LEMMA UnreadOn ==
  \A c, d : Unread(c, d) => /\ Shape(d) /\ \A e : Unread(d, e) => Unread(c, e)
BY DEF Unread

(* The small steps.                                                        *)
LEMMA SmallUnread ==
  ASSUME NEW c, Shape(c)
  PROVE  /\ Unread(c, c)
         /\ \A cmds : Unread(c, Send(c, cmds))
         /\ \A keep : Unread(c, Pause(c, keep))
         /\ Unread(c, Discard(c)) /\ Unread(c, ResetMap(c)) /\ Unread(c, FileRoom(c))
         /\ \A why : Unread(c, EndRun(c, why))
         /\ \A kind : Unread(c, AwaitArrival(c, kind))
         /\ \A timed_out : Unread(c, Stop(c, timed_out))
         /\ Unread(c, SyncView(c))
         /\ \A mob : Unread(c, [c EXCEPT !.state = "fighting", !.target = mob])
<1>1. /\ Unread(c, c) /\ \A cmds : Unread(c, Send(c, cmds))
      /\ \A keep : Unread(c, Pause(c, keep))
  BY DEF Unread, Send, Pause, Shape, Fields
<1>2. Unread(c, Discard(c)) /\ Unread(c, ResetMap(c))
  BY DEF Unread, Discard, ResetMap, Blank, Shape, Fields
<1>3. Unread(c, FileRoom(c))
  <2>. DEFINE m == Record(c.map, Walkable(c.info))
              g == [p \in Visited(m) |-> IF p = m.pos THEN c.info ELSE c.filed[p]]
  <2>1. FileRoom(c) = [c EXCEPT !.map = m, !.filed = g]
    BY DEF FileRoom
  <2>. HIDE DEF m, g
  <2>. QED  BY <2>1 DEF Unread, Shape, Fields
<1>4. \A why : Unread(c, EndRun(c, why))
  BY DEF Unread, EndRun, Shape, Fields
<1>5. \A kind : Unread(c, AwaitArrival(c, kind))
  BY DEF Unread, AwaitArrival, Shape, Fields
<1>6. ASSUME NEW timed_out PROVE Unread(c, Stop(c, timed_out))
  <2>. DEFINE hold == /\ c.enabled /\ c.mode = "explore" /\ c.state = "stepping"
                      /\ c.arrival = "move" /\ ~timed_out /\ ~c.batch
              paused == IF c.batch THEN Discard(c) ELSE IF c.active THEN Pause(c, hold) ELSE c
              window == hold /\ c.active /\ InFlight(paused)
              d == [paused EXCEPT !.enabled = FALSE, !.mode = "none", !.state = "idle",
                                  !.arrival = "none", !.batch = FALSE, !.waits = 0,
                                  !.walk = <<>>, !.target = NoMonster, !.farm_timer = FALSE,
                                  !.hold_timer = window]
  <2>1. Stop(c, timed_out) = d
    BY DEF Stop
  <2>2. Unread(c, paused)
    BY <1>1, <1>2
  <2>. HIDE DEF paused, window
  <2>3. Unread(c, d)
    BY <2>2 DEF Unread, Shape, Fields
  <2>. QED  BY <2>1, <2>3
<1>7. Unread(c, SyncView(c))
  <2>. DEFINE v == SeenIn(c, Key(c))
  <2>1. SyncView(c) = c \/ SyncView(c) = [c EXCEPT !.view = v, !.target = NoMonster]
    BY DEF SyncView
  <2>. HIDE DEF v
  <2>. QED  BY <2>1 DEF Unread, Shape, Fields
<1>8. \A mob : Unread(c, [c EXCEPT !.state = "fighting", !.target = mob])
  BY DEF Unread, Shape, Fields
<1>. QED  BY <1>1, <1>2, <1>3, <1>4, <1>5, <1>6, <1>7, <1>8

(* The same, after another.                                                *)
LEMMA SmallOn ==
  ASSUME NEW b, NEW c, Unread(b, c)
  PROVE  /\ \A cmds : Unread(b, Send(c, cmds))
         /\ \A keep : Unread(b, Pause(c, keep))
         /\ Unread(b, Discard(c)) /\ Unread(b, ResetMap(c)) /\ Unread(b, FileRoom(c))
         /\ \A why : Unread(b, EndRun(c, why))
         /\ \A kind : Unread(b, AwaitArrival(c, kind))
         /\ \A timed_out : Unread(b, Stop(c, timed_out))
<1>1. Shape(c)
  BY DEF Unread
<1>2. \A d : Unread(c, d) => Unread(b, d)
  BY DEF Unread
<1>3. ASSUME NEW x
      PROVE  /\ Unread(b, Send(c, x)) /\ Unread(b, Pause(c, x)) /\ Unread(b, EndRun(c, x))
             /\ Unread(b, AwaitArrival(c, x)) /\ Unread(b, Stop(c, x))
  <2>1. /\ Unread(c, Send(c, x)) /\ Unread(c, Pause(c, x)) /\ Unread(c, EndRun(c, x))
        /\ Unread(c, AwaitArrival(c, x)) /\ Unread(c, Stop(c, x))
    BY <1>1, SmallUnread
  <2>. QED  BY <1>2, <2>1
<1>. QED  BY <1>1, <1>2, <1>3, SmallUnread

(* A step taken, in either mode.                                           *)
LEMMA StepUnread ==
  ASSUME NEW c, Shape(c) PROVE Unread(c, DoStep(c))
<1>1. Unread(c, FinishSea(c))
  <2>1. ASSUME NEW why PROVE Unread(c, EndRun(c, why)) /\ Shape(EndRun(c, why))
    BY SmallUnread DEF Unread
  <2>. DEFINE e == EndRun(c, "complete")
              f == Pause(e, FALSE)
              g == [f EXCEPT !.farm_timer = TRUE]
  <2>2. Unread(c, e) /\ Unread(e, f) /\ Unread(e, Discard(e))
    BY <2>1, SmallUnread
  <2>3. Unread(c, f) /\ Unread(c, Discard(e)) /\ Shape(f) /\ Shape(Discard(e))
    BY <2>2, UnreadOn
  <2>4. FinishSea(c) \in {Stop(c, FALSE), g, Send(Discard(e), <<"portal">>)}
    BY DEF FinishSea
  <2>. HIDE DEF e, f
  <2>5. Unread(c, g)
    BY <2>3 DEF Unread, Shape, Fields
  <2>6. Unread(c, Send(Discard(e), <<"portal">>)) /\ Unread(c, Stop(c, FALSE))
    <3>1. Unread(c, Send(Discard(e), <<"portal">>))
      BY <2>3, SmallOn
    <3>. QED  BY <3>1, SmallUnread
  <2>. QED  BY <2>4, <2>5, <2>6
<1>2. ASSUME NEW next PROVE Unread(c, Take(c, next))
  <2>1. CASE next.path = <<>>
    <3>1. Take(c, next) = Pause(EndRun(c, next.why), FALSE)
      BY <2>1 DEF Take
    <3>2. Unread(c, EndRun(c, next.why)) /\ Shape(EndRun(c, next.why))
      BY SmallUnread DEF Unread
    <3>. QED  BY <3>1, <3>2, SmallOn
  <2>2. CASE next.path # <<>>
    <3>. DEFINE a == AwaitArrival(c, "move")
                w == IF c.leaving THEN Tail(a.leave) ELSE a.leave
                b == Len(next.path) > 1
                e == [a EXCEPT !.pending = next.path, !.leave = w, !.batch = b]
    <3>1. Take(c, next) = Send(e, next.path)
      BY <2>2 DEF Take
    <3>2. Unread(c, a)
      BY SmallUnread
    <3>. HIDE DEF a, w, b
    <3>3. Unread(c, e)
      BY <3>2 DEF Unread, Shape, Fields
    <3>. HIDE DEF e
    <3>. QED  BY <3>1, <3>3, SmallOn
  <2>. QED  BY <2>1, <2>2
<1>3. Unread(c, RouteStep(c))
  <2>. DEFINE moves == {i \in DOMAIN c.walk : c.walk[i] # "open"}
              n == CHOOSE i \in moves : \A j \in moves : i <= j
              rest == SubSeq(c.walk, n + 1, Len(c.walk))
              a == [c EXCEPT !.walk = <<>>]
              b == [c EXCEPT !.walk = rest, !.batch = FALSE]
  <2>1. \/ RouteStep(c) = EndRun(Send(a, c.walk), "route complete")
        \/ RouteStep(c) = Send(AwaitArrival(b, "move"), SubSeq(c.walk, 1, n))
    BY DEF RouteStep
  <2>. HIDE DEF moves, n, rest
  <2>2. Unread(c, a) /\ Unread(c, b)
    BY DEF Unread, Shape, Fields
  <2>. HIDE DEF a, b
  <2>3. Unread(c, Send(a, c.walk)) /\ Unread(c, AwaitArrival(b, "move"))
    BY <2>2, SmallOn
  <2>4. Unread(c, EndRun(Send(a, c.walk), "route complete"))
    BY <2>3, SmallOn
  <2>5. Unread(c, Send(AwaitArrival(b, "move"), SubSeq(c.walk, 1, n)))
    BY <2>3, SmallOn
  <2>. QED  BY <2>1, <2>4, <2>5
<1>4. ExploreStep(c) \in {EndRun(c, "left the area"), FinishSea(c), Take(c, NextStep(c))}
  BY DEF ExploreStep
<1>5. Unread(c, EndRun(c, "left the area"))
  BY SmallUnread
<1>. QED  BY <1>1, <1>2, <1>3, <1>4, <1>5 DEF DoStep

(* Every decision in a room.                                               *)
LEMMA ProcessUnread ==
  ASSUME NEW c0, Shape(c0) PROVE Unread(c0, ProcessRoom(c0))
<1>. DEFINE c == SyncView(c0)
<1>1. \/ ProcessRoom(c0) = Stop(c, FALSE) \/ ProcessRoom(c0) = DoStep(c)
      \/ \E mob : ProcessRoom(c0) = Attack(c, mob)
  BY DEF ProcessRoom
<1>2. Unread(c0, c)
  BY SmallUnread
<1>. HIDE DEF c
<1>3. Shape(c)
  BY <1>2 DEF Unread
<1>4. Unread(c, Stop(c, FALSE)) /\ Unread(c, DoStep(c))
  BY <1>3, SmallUnread, StepUnread
<1>5. ASSUME NEW mob PROVE Unread(c, Attack(c, mob))
  <2>. DEFINE e == [c EXCEPT !.state = "fighting", !.target = mob]
  <2>1. Unread(c, e)
    BY <1>3, SmallUnread
  <2>2. Attack(c, mob) = Send(e, <<Keyword[mob]>>)
    BY DEF Attack
  <2>. HIDE DEF e
  <2>. QED  BY <2>1, <2>2, SmallOn
<1>. QED  BY <1>1, <1>2, <1>4, <1>5, UnreadOn

(* An arrival.                                                             *)
LEMMA ArriveUnread ==
  ASSUME NEW c, Shape(c) PROVE Unread(c, Arrive(c))
<1>. DEFINE m == IF c.pending = <<>> THEN c.map ELSE Move(c.map, Head(c.pending))
            layer == c.info.at[3]
            pos == <<m.pos[1], m.pos[2], layer>>
            corrected == layer # m.pos[3] /\ ~(c.unanchored /\ ~HoldsRooms(c))
            placed == SetPosition(m, pos)
            left == IF c.pending = <<>> THEN c.pending ELSE Tail(c.pending)
            moved == [c EXCEPT !.map = placed, !.unanchored = FALSE,
                               !.disputed = corrected, !.pending = left]
            r == ResetMap(moved)
            s == [r EXCEPT !.map.pos = <<0, 0, layer>>, !.disputed = TRUE]
<1>1. Arrive(c) \in {Discard(c), FileRoom(s), FileRoom(moved)}
  BY DEF Arrive
<1>. HIDE DEF corrected, placed, left
<1>2. Unread(c, moved)
  BY DEF Unread, Shape, Fields
<1>. HIDE DEF moved
<1>3. Unread(c, r)
  BY <1>2, SmallOn
<1>. HIDE DEF r
<1>4. Unread(c, s)
  BY <1>3 DEF Unread, Shape, Fields
<1>. HIDE DEF s
<1>5. Unread(c, FileRoom(s)) /\ Unread(c, FileRoom(moved))
  BY <1>2, <1>4, SmallOn
<1>. QED  BY <1>1, <1>5, SmallUnread

(* The whole contents handler, and the one that gives a target up.         *)
LEMMA HandlersUnread ==
  ASSUME NEW c0, Shape(c0)
  PROVE  /\ \A frame : Unread([c0 EXCEPT !.contents = frame], OnRoomContents(c0, frame))
         /\ \A word : Unread(c0, OnNoTarget(c0, word))
<1>1. ASSUME NEW c, Shape(c) PROVE Unread(c, CompleteArrival(c))
  <2>. DEFINE b == [c EXCEPT !.disputed = FALSE]
              a == IF c.active THEN Arrive(b) ELSE c
              i == [a EXCEPT !.batch = FALSE, !.arrival = "none", !.state = "idle"]
  <2>1. CompleteArrival(c) \in {Stop(a, FALSE), AwaitArrival(a, "move"), ProcessRoom(i)}
    BY DEF CompleteArrival
  <2>2. Unread(c, b)
    BY <1>1 DEF Unread, Shape, Fields
  <2>. HIDE DEF b
  <2>3. Unread(c, a)
    <3>1. Unread(b, Arrive(b))
      BY <2>2, ArriveUnread, UnreadOn
    <3>2. Unread(c, Arrive(b))
      BY <2>2, <3>1, UnreadOn
    <3>. QED  BY <1>1, <3>2, SmallUnread
  <2>. HIDE DEF a
  <2>4. Unread(c, i)
    BY <2>3 DEF Unread, Shape, Fields
  <2>. HIDE DEF i
  <2>5. Unread(c, Stop(a, FALSE)) /\ Unread(c, AwaitArrival(a, "move"))
    BY <2>3, SmallOn
  <2>6. Unread(c, ProcessRoom(i))
    BY <2>4, ProcessUnread, UnreadOn
  <2>. QED  BY <2>1, <2>5, <2>6
<1>2. ASSUME NEW c, Shape(c) PROVE Unread(c, ReseedAndDecide(c))
  <2>. DEFINE v == SeenIn(c, c.view.key)
              e == [c EXCEPT !.waits = 0, !.view = v, !.target = NoMonster, !.state = "idle"]
  <2>0. [c EXCEPT !.waits = 0].view = c.view
    BY <1>2 DEF Shape, Fields
  <2>1. ReseedAndDecide(c) = ProcessRoom(e)
    BY <2>0 DEF ReseedAndDecide
  <2>. HIDE DEF v
  <2>2. Unread(c, e)
    BY <1>2 DEF Unread, Shape, Fields
  <2>. HIDE DEF e
  <2>. QED  BY <2>1, <2>2, ProcessUnread, UnreadOn
<1>3. ASSUME NEW c, Shape(c) PROVE Unread(c, OnAskedContents(c))
  <2>1. OnAskedContents(c) \in {c, Stop(c, FALSE), ReseedAndDecide(c), CompleteArrival(c)}
    BY DEF OnAskedContents
  <2>. QED  BY <1>1, <1>2, <1>3, <2>1, SmallUnread
<1>4. ASSUME NEW c, Shape(c) PROVE Unread(c, OnUnaskedEntry(c).client)
  <2>. DEFINE b == [c EXCEPT !.hold_timer = FALSE]
              d == IF HoldsRooms(c) THEN ResetMap(c) ELSE c
              u == OnUnaskedEntry(c)
  <2>1. u \in {[handled |-> TRUE, client |-> Arrive(b)], [handled |-> TRUE, client |-> Stop(d, FALSE)],
               [handled |-> FALSE, client |-> d]}
    BY DEF OnUnaskedEntry
  <2>. HIDE DEF u
  <2>2. u.client \in {Arrive(b), Stop(d, FALSE), d}
    <3>. HIDE DEF b, d
    <3>1. \A e, h : [handled |-> h, client |-> e].client = e
      OBVIOUS
    <3>. QED  BY <2>1, <3>1
  <2>3. Unread(c, b) /\ Unread(c, d)
    <3>1. Unread(c, b)
      BY <1>4 DEF Unread, Shape, Fields
    <3>. HIDE DEF b
    <3>. QED  BY <1>4, <3>1, SmallUnread
  <2>. HIDE DEF b, d
  <2>4. Unread(c, Arrive(b)) /\ Unread(c, Stop(d, FALSE))
    <3>1. Unread(b, Arrive(b))
      BY <2>3, ArriveUnread, UnreadOn
    <3>2. Unread(c, Arrive(b))
      BY <2>3, <3>1, UnreadOn
    <3>. QED  BY <2>3, <3>2, SmallOn
  <2>. QED  BY <2>2, <2>3, <2>4 DEF u
<1>5. ASSUME NEW frame PROVE Unread([c0 EXCEPT !.contents = frame], OnRoomContents(c0, frame))
  <2>. DEFINE c == [c0 EXCEPT !.contents = frame]
              u == OnUnaskedEntry(c).client
  <2>1. OnRoomContents(c0, frame) \in {u, OnAskedContents(u), OnAskedContents(c)}
    <3>1. [handled |-> FALSE, client |-> c].client = c /\ ~[handled |-> FALSE, client |-> c].handled
      OBVIOUS
    <3>. HIDE DEF c
    <3>. QED  BY <3>1 DEF OnRoomContents, c
  <2>2. Shape(c) /\ c.contents = frame
    BY DEF Shape, Fields
  <2>. HIDE DEF c
  <2>3. Unread(c, u)
    BY <1>4, <2>2
  <2>. HIDE DEF u
  <2>4. Unread(c, OnAskedContents(u)) /\ Unread(c, OnAskedContents(c))
    BY <1>3, <2>2, <2>3, UnreadOn
  <2>. QED  BY <2>1, <2>3, <2>4 DEF c
<1>6. ASSUME NEW word PROVE Unread(c0, OnNoTarget(c0, word))
  <2>. DEFINE v == [c0.view EXCEPT !.monsters = Forget(c0.view.monsters, c0.target)]
              e == [c0 EXCEPT !.view = v, !.target = NoMonster, !.state = "idle"]
  <2>1. OnNoTarget(c0, word) \in {c0, ProcessRoom(e)}
    BY DEF OnNoTarget, Shape, Fields
  <2>. HIDE DEF v
  <2>2. Unread(c0, e)
    BY DEF Unread, Shape, Fields
  <2>. HIDE DEF e
  <2>3. Unread(c0, ProcessRoom(e))
    BY <2>2, ProcessUnread, UnreadOn
  <2>. QED  BY <2>1, <2>3, SmallUnread
<1>. QED  BY <1>5, <1>6

-----------------------------------------------------------------------------
(* What contents lists tell of the room last listed.                       *)

(* A frame finds the client told of the contents of a room and announced   *)
(* in another, a, and leaves it told of and announced in b: an entry lists *)
(* the room announced, and any other list that of the last one again.      *)
Listing(f, a, b) ==
  IF f.kind = "info" THEN b = <<a[1], f.place>>
  ELSE IF f.kind = "contents"
       THEN f.place = a[2] /\ (f.entry \/ a[1] = a[2]) /\ b = <<a[2], a[2]>>
  ELSE b = a

(* The relation.                                                           *)
Listings == {t \in Frames \X (Places \X Places) \X (Places \X Places) : Listing(t[1], t[2], t[3])}

(* Under a connection what is under way lists the player's room in the     *)
(* end, entry by entry, beginning in a fight with the room last listed.    *)
Steady(c, f, p) ==
  c.online => \E told \in Places :
                /\ Passes(Listings, Places \X Places, f, <<told, c.info>>, <<p, p>>)
                /\ c.state = "fighting" => told = c.contents.place

(* What it is for a frame to list.                                         *)
LEMMA ListingsIs ==
  \A f, a, b : <<f, a, b>> \in Listings
               <=> f \in Frames /\ a \in Places \X Places /\ b \in Places \X Places /\ Listing(f, a, b)
<1>. DEFINE Pairs == Places \X Places
<1>. HIDE DEF Frames, Pairs, Listing
<1>1. \A f, a, b : <<f, a, b>> \in {t \in Frames \X Pairs \X Pairs : Listing(t[1], t[2], t[3])}
                   <=> f \in Frames /\ a \in Pairs /\ b \in Pairs /\ Listing(f, a, b)
  OBVIOUS
<1>. QED  BY <1>1 DEF Listings, Pairs

(* What each answer of the game lists.                                     *)
LEMMA AnswersList ==
  ASSUME World, NEW p \in Places
  PROVE  LET Pairs == Places \X Places
         IN /\ \A lines \in Remarks :
                 Passes(Listings, Pairs, lines, <<p, p>>, <<p, p>>)
            /\ \A seen \in MaySee :
                 Passes(Listings, Pairs, <<ContentsOf(p, FALSE, seen)>>, <<p, p>>, <<p, p>>)
            /\ \A seen \in MaySee, entry \in BOOLEAN, told, q \in Places :
                 entry \/ told = p =>
                   Passes(Listings, Pairs,
                          <<[kind |-> "info", place |-> p], ContentsOf(p, entry, seen)>>,
                          <<told, q>>, <<p, p>>)
<1>. DEFINE Pairs == Places \X Places
            at == <<p, p>>
<1>0. at \in Pairs
  OBVIOUS
<1>1. ASSUME NEW e \in Lines PROVE Passes(Listings, Pairs, <<e>>, at, at)
  <2>1. e \in Frames /\ e.kind \notin {"info", "contents"}
    BY DEF Frames, Lines
  <2>. HIDE DEF at
  <2>2. Listing(e, at, at)
    BY <2>1 DEF Listing
  <2>3. <<e, at, at>> \in Listings
    BY <1>0, <2>1, <2>2, ListingsIs
  <2>. HIDE DEF Pairs
  <2>. QED  BY <1>0, <2>1, <2>3, PassesOne
<1>2. Passes(Listings, Pairs, <<>>, at, at)
  <2>. HIDE DEF Pairs, at
  <2>. QED  BY <1>0, PassesNothing
<1>3. ASSUME NEW lines \in Remarks PROVE Passes(Listings, Pairs, lines, at, at)
  <2>. HIDE DEF Pairs, at
  <2>. QED  BY <1>1, <1>2, RemarksAre
<1>4. ASSUME NEW seen \in MaySee, NEW entry \in BOOLEAN, NEW told \in Places, NEW q \in Places,
             entry \/ told = p
      PROVE  /\ ~entry => Passes(Listings, Pairs, <<ContentsOf(p, entry, seen)>>, at, at)
             /\ Passes(Listings, Pairs,
                       <<[kind |-> "info", place |-> p], ContentsOf(p, entry, seen)>>,
                       <<told, q>>, at)
  <2>. DEFINE i == [kind |-> "info", place |-> p]
              e == ContentsOf(p, entry, seen)
              a == <<told, q>>
              b == <<told, p>>
  <2>1. i \in Frames /\ i.kind = "info" /\ i.place = p
    BY DEF Frames, Infos
  <2>2. e \in Frames
    BY ContentsType DEF Frames
  <2>3. e.kind = "contents" /\ e.place = p /\ e.entry = entry
    BY DEF ContentsOf
  <2>4. a \in Pairs /\ b \in Pairs /\ a[1] = told /\ b[1] = told /\ b[2] = p /\ at[1] = p /\ at[2] = p
    OBVIOUS
  <2>. HIDE DEF i, e
  <2>5. Listing(i, a, b)
    BY <2>1 DEF Listing
  <2>6. Listing(e, b, at)
    BY <1>4, <2>3 DEF Listing
  <2>7. Listing(e, at, at)
    BY <2>3 DEF Listing
  <2>. HIDE DEF a, b, at
  <2>8. <<i, a, b>> \in Listings /\ <<e, b, at>> \in Listings /\ <<e, at, at>> \in Listings
    BY <1>0, <2>1, <2>2, <2>4, <2>5, <2>6, <2>7, ListingsIs
  <2>. HIDE DEF Pairs
  <2>9. Passes(Listings, Pairs, <<e>>, at, at) /\ Passes(Listings, Pairs, <<i, e>>, a, at)
    BY <1>0, <2>4, <2>8, PassesOne, PassesTwo
  <2>. QED  BY <2>9 DEF i, e, a
<1>5. \A seen \in MaySee : Passes(Listings, Pairs, <<ContentsOf(p, FALSE, seen)>>, at, at)
  BY <1>4
<1>6. \A seen \in MaySee, entry \in BOOLEAN, told, q \in Places :
        entry \/ told = p =>
          Passes(Listings, Pairs,
                 <<[kind |-> "info", place |-> p], ContentsOf(p, entry, seen)>>,
                 <<told, q>>, at)
  BY <1>4
<1>. QED  BY <1>3, <1>5, <1>6

(* An arrival lists the room it is in.                                     *)
LEMMA ArrivingLists ==
  ASSUME World, NEW p \in Places, NEW q \in Places, NEW seen \in MaySee, NEW before \in {<<>>, Blocked}
  PROVE  Passes(Listings, Places \X Places, before \o Arriving(p, seen), <<q, q>>, <<p, p>>)
<1>. DEFINE Pairs == Places \X Places
            a == <<q, q>>
            b == <<p, p>>
<1>1. Entry(p, seen) \in Seq(Frames) /\ CombatEnd \in Seq(Frames) /\ <<>> \in Seq(Frames)
      /\ before \in Seq(Frames) /\ Arriving(p, seen) \in Seq(Frames)
  BY EntryType, LinesType
<1>2. Passes(Listings, Pairs, Entry(p, seen), a, b)
  BY AnswersList DEF Entry
<1>3. Passes(Listings, Pairs, CombatEnd, b, b) /\ Passes(Listings, Pairs, <<>>, b, b)
      /\ Passes(Listings, Pairs, before, a, a)
  BY AnswersList, RemarksAre
<1>. HIDE DEF Pairs, a, b
<1>4. \A tail \in {CombatEnd, <<>>} : Passes(Listings, Pairs, Entry(p, seen) \o tail, a, b)
  <2>. HIDE DEF Frames
  <2>. QED  BY <1>1, <1>2, <1>3, PassesBoth
<1>5. Passes(Listings, Pairs, Arriving(p, seen), a, b)
  BY <1>4 DEF Arriving
<1>6. Passes(Listings, Pairs, before \o Arriving(p, seen), a, b)
  <2>. HIDE DEF Frames
  <2>. QED  BY <1>1, <1>3, <1>5, PassesBoth
<1>. QED  BY <1>6 DEF Pairs, a, b

(* Whatever the game does, what it adds lists the room it leaves the       *)
(* player in.                                                              *)
LEMMA GameAdds ==
  ASSUME Inv, Game \/ StrayCombatFrame
  PROVE  \E new \in Seq(Frames) :
           /\ frames' = frames \o new
           /\ Passes(Listings, Places \X Places, new, <<here, here>>, <<here', here'>>)
<1>. DEFINE Adds == \E new \in Seq(Frames) :
                      /\ frames' = frames \o new
                      /\ Passes(Listings, Places \X Places, new, <<here, here>>, <<here', here'>>)
<1>1. World /\ here \in Places /\ frames \in Seq(Frames)
  BY DEF Inv, World
<1>2. ASSUME NEW lines \in Remarks, Stays(lines) PROVE Adds
  <2>1. \A said \in Remarks :
          Passes(Listings, Places \X Places, said, <<here, here>>, <<here, here>>)
    BY <1>1, AnswersList
  <2>2. lines \in Seq(Frames)
    BY RemarksAre
  <2>. QED  BY <1>2, <2>1, <2>2 DEF Stays
<1>3. ASSUME NEW place \in Places, NEW before \in {<<>>, Blocked}, Goes(place, before) PROVE Adds
  <2>1. here' = place
    BY <1>3 DEF Goes
  <2>2. PICK seen \in MaySee : frames' = frames \o before \o Arriving(place, seen)
    BY <1>3 DEF Goes
  <2>3. before \in Seq(Frames) /\ Arriving(place, seen) \in Seq(Frames)
    BY <1>1, LinesType, EntryType
  <2>4. Passes(Listings, Places \X Places, before \o Arriving(place, seen), <<here, here>>, <<place, place>>)
    BY <1>1, ArrivingLists
  <2>5. frames' = frames \o (before \o Arriving(place, seen))
        /\ before \o Arriving(place, seen) \in Seq(Frames)
    <3>. HIDE DEF Frames, Arriving
    <3>. QED  BY <1>1, <2>2, <2>3
  <2>. QED  BY <2>1, <2>4, <2>5
<1>4. ASSUME frames' = frames, here' = here PROVE Adds
  <2>1. frames \o <<>> = frames /\ <<>> \in Seq(Frames)
    <3>. HIDE DEF Frames
    <3>. QED  BY <1>1
  <2>2. Passes(Listings, Places \X Places, <<>>, <<here, here>>, <<here, here>>)
    BY <1>1, AnswersList, RemarksAre
  <2>. QED  BY <1>4, <2>1, <2>2
<1>. SUFFICES Adds
  OBVIOUS
<1>. HIDE DEF Adds
<1>5. CASE GameMoves
  <2>1. PICK dir \in Dirs :
          IF dir \in ExitsOf(here)
          THEN \/ Goes(Towards(here, dir), <<>>) \/ Goes(Towards(here, dir), Blocked)
               \/ Stays(Blocked) \/ Stays(<<>>)
          ELSE Stays(Blocked)
    BY <1>5 DEF GameMoves
  <2>2. dir \in ExitsOf(here) => Towards(here, dir) \in Places
    BY <1>1, DoorsType
  <2>. QED  BY RemarksAre, <1>2, <1>3, <2>1, <2>2
<1>6. CASE GameLeaves
  BY <1>3, <1>6, PlaceFacts DEF GameLeaves
<1>7. CASE GameEntersSea
  <2>1. Goes(Entrance(sea + 1), <<>>) /\ sea < Len(Maze)
    BY <1>7 DEF GameEntersSea
  <2>2. Entrance(sea + 1) \in Places
    <3>1. sea + 1 \in 1 .. Len(Maze)
      BY <1>1, <2>1, MazeAssumption DEF World
    <3>. QED  BY <3>1, DoorsType
  <2>. QED  BY <1>3, <2>1, <2>2
<1>8. CASE GameIgnores
  BY <1>4, <1>8 DEF GameIgnores
<1>9. CASE GameFights
  <2>1. (\E lines \in Remarks : Stays(lines)) \/ (frames' = frames /\ here' = here)
    BY <1>9, RemarksAre DEF GameFights
  <2>. QED  BY <1>2, <1>4, <2>1
<1>10. CASE GameRefreshes
  <2>1. here' = here
    BY <1>10 DEF GameRefreshes
  <2>2. CASE frames' = frames
    BY <1>4, <2>1, <2>2
  <2>3. ASSUME NEW seen \in MaySee, frames' = Append(frames, ContentsOf(here, FALSE, seen))
        PROVE  Adds
    <3>. DEFINE e == ContentsOf(here, FALSE, seen)
    <3>1. e \in Frames
      BY <1>1, ContentsType DEF Frames
    <3>2. Passes(Listings, Places \X Places, <<e>>, <<here, here>>, <<here, here>>)
      BY <1>1, AnswersList
    <3>. HIDE DEF e
    <3>3. frames' = Append(frames, e)
      BY <2>3 DEF e
    <3>4. <<e>> \in Seq(Frames) /\ frames' = frames \o <<e>>
      <4>. HIDE DEF Frames
      <4>. QED  BY <1>1, <3>1, <3>3
    <3>. QED  BY <2>1, <3>2, <3>4 DEF Adds
  <2>. QED  BY <1>10, <2>2, <2>3 DEF GameRefreshes
<1>11. CASE MonsterDies \/ StrayCombatFrame
  <2>1. frames' = frames \o CombatEnd /\ here' = here
    BY <1>11 DEF MonsterDies, StrayCombatFrame
  <2>2. CombatEnd \in Seq(Frames)
        /\ Passes(Listings, Places \X Places, CombatEnd, <<here, here>>, <<here, here>>)
    BY <1>1, AnswersList, RemarksAre, LinesType
  <2>. QED  BY <2>1, <2>2 DEF Adds
<1>. QED  BY <1>5, <1>6, <1>7, <1>8, <1>9, <1>10, <1>11 DEF Game

(* The first frame, and what is listed after it.                           *)
LEMMA HeadLists ==
  ASSUME NEW f \in Seq(Frames), f # <<>>, NEW p, NEW c, c.online, Steady(c, f, p)
  PROVE  \E told \in Places, b \in Places \X Places :
           /\ Listing(Head(f), <<told, c.info>>, b)
           /\ Passes(Listings, Places \X Places, Tail(f), b, <<p, p>>)
           /\ c.state = "fighting" => told = c.contents.place
<1>. DEFINE Pairs == Places \X Places
            q == <<p, p>>
<1>1. PICK told \in Places : /\ Passes(Listings, Pairs, f, <<told, c.info>>, q)
                             /\ c.state = "fighting" => told = c.contents.place
  BY DEF Steady
<1>. DEFINE a == <<told, c.info>>
<1>2. Passes(Listings, Pairs, f, a, q)
  BY <1>1
<1>3. PICK b \in Pairs : <<Head(f), a, b>> \in Listings /\ Passes(Listings, Pairs, Tail(f), b, q)
  <2>. HIDE DEF Frames, Pairs, a, q
  <2>. QED  BY <1>2, PassesHead
<1>4. Listing(Head(f), a, b)
  BY <1>3, ListingsIs
<1>. QED  BY <1>1, <1>3, <1>4

(* Where nothing new is listed and no fight begins.                        *)
LEMMA KeptSteady ==
  ASSUME NEW f, NEW p, NEW c, Steady(c, f, p), NEW d, d.online => c.online, d.info = c.info,
         d.contents = c.contents, d.state = "fighting" => c.state = "fighting"
  PROVE  Steady(d, f, p)
BY DEF Steady

(* Whatever the game does, what is under way lists the player's room.      *)
LEMMA GameSteady ==
  ASSUME Inv, Steady(client, frames, here), Game \/ StrayCombatFrame
  PROVE  Steady(client', frames', here')
<1>1. frames \in Seq(Frames) /\ Shape(client)
  BY DEF Inv, World, Good, Able
<1>2. /\ client'.info = client.info /\ client'.online = client.online
      /\ client'.state = client.state /\ client'.contents = client.contents
  BY <1>1 DEF Game, GameMoves, GameLeaves, GameEntersSea, GameIgnores, GameFights, GameRefreshes,
              MonsterDies, StrayCombatFrame, Taken, Shape, Fields
<1>. SUFFICES ASSUME client.online PROVE Steady(client', frames', here')
  BY <1>2 DEF Steady
<1>. DEFINE Pairs == Places \X Places
            from == <<here, here>>
            to == <<here', here'>>
<1>3. PICK new \in Seq(Frames) : frames' = frames \o new /\ Passes(Listings, Pairs, new, from, to)
  BY GameAdds
<1>4. PICK told \in Places : /\ Passes(Listings, Pairs, frames, <<told, client.info>>, from)
                             /\ client.state = "fighting" => told = client.contents.place
  BY DEF Steady
<1>. DEFINE a == <<told, client.info>>
<1>5. Passes(Listings, Pairs, frames', a, to)
  <2>1. Passes(Listings, Pairs, frames, a, from)
    BY <1>4
  <2>. HIDE DEF Frames, Pairs, a, from, to
  <2>. QED  BY <1>1, <1>3, <2>1, PassesBoth
<1>. QED  BY <1>2, <1>4, <1>5 DEF Steady

(* Reading what is under way, the client sends what it may and sees where  *)
(* it sends it, and what is still under way lists the player's room.       *)
LEMMA ReceiveRight ==
  ASSUME Inv, Control(client), Control(client)', Knows(client, frames, here),
         Steady(client, frames, here), Receive
  PROVE  /\ Onward(client, client', frames', here') /\ Remains(client, client')
         /\ Steady(client', frames', here')
<1>. DEFINE frame == Head(frames)
            f == Tail(frames)
<1>1. /\ frames # <<>> /\ frames' = f /\ here' = here
      /\ frame.kind \in {"info", "contents", "combat_end", "no_target", "blocked"}
  BY DEF Receive, ReceiveInfo, ReceiveContents, ReceiveCombatEnd, ReceiveNoTarget, ReceiveBlocked,
         Next1, Client
<1>2. /\ frames \in Seq(Frames) /\ f \in Seq(Frames) /\ frame \in Frames
      /\ client.online /\ client'.online
  BY <1>1, TogetherType, ReceiveAlive DEF Inv, World
<1>3. /\ Good(client) /\ Able(client) /\ Shape(client) /\ Ordered(client) /\ Charts(client)
      /\ Sure(client, frames, here) /\ Announced(client, frames, here) /\ Control(client')
  BY DEF Inv, Good, Able, Knows, Sure
<1>4. ~Loose(client) => Told1(client, frame, f, here)
  BY <1>1, <1>2, <1>3, HeadHeard
<1>5. PICK told \in Places, b \in Places \X Places :
        /\ Listing(frame, <<told, client.info>>, b)
        /\ Passes(Listings, Places \X Places, f, b, <<here, here>>)
        /\ client.state = "fighting" => told = client.contents.place
  BY <1>1, <1>2, HeadLists
<1>. HIDE DEF f, frame
<1>6. CASE frame.kind = "info"
  <2>1. client' = [client EXCEPT !.info = frame.place]
    BY <1>6 DEF Receive, ReceiveInfo, ReceiveContents, ReceiveCombatEnd, ReceiveNoTarget,
                ReceiveBlocked, Next1, Client, frame
  <2>2. Abides(client, client')
    BY <1>3, <2>1, FieldsAbide
  <2>3. /\ client'.info = frame.place /\ client'.state = client.state
        /\ client'.contents = client.contents
    BY <1>3, <2>1 DEF Shape, Fields
  <2>4. b = <<told, frame.place>>
    BY <1>5, <1>6 DEF Listing
  <2>5. Steady(client', f, here)
    BY <1>5, <2>3, <2>4 DEF Steady
  <2>. QED  BY <1>1, <1>3, <2>2, <2>5, AbidesRight
<1>7. CASE frame.kind = "contents"
  <2>. DEFINE c == [client EXCEPT !.contents = frame]
              d == client'
  <2>1. d = OnRoomContents(client, frame)
    BY <1>7 DEF Receive, ReceiveInfo, ReceiveContents, ReceiveCombatEnd, ReceiveNoTarget,
                ReceiveBlocked, Next1, Client, frame
  <2>2. frame \in Contents
    BY <1>2, <1>7 DEF Frames, Infos, Lines
  <2>3. /\ frame.place = client.info /\ (frame.entry \/ told = client.info)
        /\ b = <<client.info, client.info>>
    BY <1>5, <1>7 DEF Listing
  <2>4. Result(client, d, f, here) /\ Follows(c, d, f, here)
    BY <1>2, <1>3, <1>4, <2>1, <2>2, <2>3, ContentsResult
  <2>5. d.contents = frame
    <3>1. Unread(c, d) /\ c.contents = frame
      BY <1>3, <2>1, HandlersUnread DEF Shape, Fields
    <3>. HIDE DEF c, d
    <3>. QED  BY <3>1 DEF Unread
  <2>6. Steady(d, f, here)
    <3>1. d.info = client.info /\ client.info \in Places
      BY <1>3, <2>4 DEF Result, Able, Told
    <3>. QED  BY <1>5, <2>3, <2>5, <3>1 DEF Steady
  <2>7. /\ Good(c) /\ Alike(client, c) /\ c.contents = frame /\ c.arrival = client.arrival
    BY <1>3, <2>2, NewsAlike
  <2>8. /\ c.wire = client.wire /\ c.state = client.state /\ c.view = client.view
        /\ c.active = client.active /\ c.map = client.map /\ c.filed = client.filed
    BY <1>3 DEF Shape, Fields
  <2>. HIDE DEF c, d
  <2>9. Onward(c, d, f, here) /\ Remains(c, d)
    BY <1>2, <1>3, <2>4, <2>7, FollowsRight DEF Good, d
  <2>10. Onward(client, d, f, here)
    <3>1. Loose(c) <=> Loose(client)
      BY <2>8 DEF Loose, HoldsRooms
    <3>. QED  BY <2>8, <2>9, <3>1 DEF Onward
  <2>11. Remains(client, d)
    <3>. SUFFICES ASSUME Present(client) PROVE Present(d) /\ Sees(client, d)
      BY DEF Remains
    <3>1. CASE client.state = "fighting" /\ frame.entry
      <4>1. Present(d) /\ d.wire = client.wire
        BY <1>3, <2>1, <3>1, FightEntryStops
      <4>2. ~(Len(d.wire) > Len(client.wire))
        <5>1. Len(client.wire) \in Nat
          BY <1>3 DEF Able, Sends
        <5>. QED  BY <4>1, <5>1
      <4>. QED  BY <4>1, <4>2 DEF Sees
    <3>2. CASE ~(client.state = "fighting" /\ frame.entry)
      <4>1. client.state = "fighting" => frame.place = client.contents.place
        BY <1>5, <2>3, <3>2
      <4>2. Present(c)
        BY <2>7, <2>8, <4>1 DEF Present, Placed
      <4>. QED  BY <2>8, <2>9, <4>2 DEF Remains, Sees
    <3>. QED  BY <3>1, <3>2
  <2>. QED  BY <1>1, <2>6, <2>10, <2>11 DEF d
<1>8. CASE frame.kind \in {"combat_end", "blocked"}
  <2>1. client' \in {OnCombatEnd(client), OnBlocked(client)}
    BY <1>8 DEF Receive, ReceiveInfo, ReceiveContents, ReceiveCombatEnd, ReceiveNoTarget,
                ReceiveBlocked, Next1, Client, frame
  <2>2. Abides(client, client')
    BY <1>3, <2>1, LinesAbide
  <2>3. client'.info = client.info
    <3>1. CASE frame.kind = "combat_end"
      <4>1. client' = OnCombatEnd(client)
        BY <3>1 DEF Receive, ReceiveInfo, ReceiveContents, ReceiveCombatEnd, ReceiveNoTarget,
                    ReceiveBlocked, Next1, Client, frame
      <4>2. ~Loose(client) => \E x \in Fixes : Tracked(client, f, here, x)
        BY <1>4, <3>1, LineTracked
      <4>3. Sure(client, f, here)
        BY <1>3, <4>2 DEF Sure
      <4>. QED  BY <1>2, <1>3, <4>1, <4>3, CombatEndResult DEF Result
    <3>2. CASE frame.kind = "blocked"
      <4>1. client' = OnBlocked(client)
        BY <3>2 DEF Receive, ReceiveInfo, ReceiveContents, ReceiveCombatEnd, ReceiveNoTarget,
                    ReceiveBlocked, Next1, Client, frame
      <4>. QED  BY <1>2, <1>3, <1>4, <3>2, <4>1, BlockedResult DEF Result
    <3>. QED  BY <1>8, <3>1, <3>2
  <2>4. b = <<told, client.info>>
    BY <1>5, <1>8 DEF Listing
  <2>5. Steady(client, f, here)
    BY <1>5, <2>4 DEF Steady
  <2>6. Steady(client', f, here)
    BY <1>2, <2>2, <2>3, <2>5, QuietlyPresent, KeptSteady DEF Abides
  <2>. QED  BY <1>1, <1>3, <2>2, <2>6, AbidesRight
<1>9. CASE frame.kind = "no_target"
  <2>1. client' = OnNoTarget(client, frame.word)
    BY <1>9 DEF Receive, ReceiveInfo, ReceiveContents, ReceiveCombatEnd, ReceiveNoTarget,
                ReceiveBlocked, Next1, Client, frame
  <2>2. ~Loose(client) => \E x \in Fixes : Tracked(client, f, here, x) /\ x.mode # "leaving"
    BY <1>4, <1>9, LineTracked
  <2>3. Result(client, client', f, here) /\ Follows(client, client', f, here)
    BY <1>2, <1>3, <2>1, <2>2, NoTargetResult
  <2>4. Onward(client, client', f, here) /\ Remains(client, client')
    BY <1>2, <1>3, <2>3, FollowsRight
  <2>5. client'.contents = client.contents
    BY <1>3, <2>1, HandlersUnread DEF Unread
  <2>6. client'.state = "fighting" => client.state = "fighting"
    BY <2>1 DEF OnNoTarget, Elsewhere
  <2>7. b = <<told, client.info>>
    BY <1>5, <1>9 DEF Listing
  <2>8. Steady(client, f, here)
    BY <1>5, <2>7 DEF Steady
  <2>9. Steady(client', f, here)
    BY <1>2, <2>3, <2>5, <2>6, <2>8, KeptSteady DEF Result
  <2>. QED  BY <1>1, <2>4, <2>9
<1>. QED  BY <1>1, <1>6, <1>7, <1>8, <1>9

-----------------------------------------------------------------------------
(* What the timers and the player make of the client.                      *)

(* None of it reads anything.                                              *)
LEMMA ActsUnread ==
  ASSUME NEW c, Shape(c)
  PROVE  /\ Unread(c, ExploreOffCommand(c)) /\ Unread(c, ExploreResetCommand(c))
         /\ Unread(c, Leave(c)) /\ Unread(c, OnHandMove(c)) /\ Unread(c, Redive(c))
         /\ Unread(c, Unload(c))
         /\ \A e : Unread(c, e) => Unread(c, RequestRefresh(e))
<1>0. Unread(c, c)
  BY SmallUnread
<1>1. Unread(c, ExploreOffCommand(c))
  <2>. DEFINE e == IF c.active THEN Pause(c, FALSE) ELSE c
  <2>1. Unread(c, e)
    BY <1>0, SmallOn
  <2>. HIDE DEF e
  <2>2. Unread(c, Stop(e, FALSE))
    BY <2>1, SmallOn
  <2>. QED  BY <2>2 DEF ExploreOffCommand, e
<1>2. Unread(c, ExploreResetCommand(c))
  <2>1. Unread(c, ResetMap(c)) /\ Unread(c, Stop(c, FALSE))
    BY SmallUnread
  <2>2. Unread(c, Send(ResetMap(c), <<"refresh">>))
    BY <2>1, SmallOn
  <2>. QED  BY <1>0, <2>1, <2>2 DEF ExploreResetCommand
<1>3. Unread(c, Leave(c))
  <2>. DEFINE home == PathTo(c.map, Origin)
              way == home.path
              d == [c EXCEPT !.leaving = TRUE, !.leave = way]
  <2>1. Leave(c) \in {c, d}
    BY DEF Leave
  <2>. HIDE DEF way
  <2>2. Unread(c, d)
    BY DEF Unread, Shape, Fields
  <2>. QED  BY <1>0, <2>1, <2>2
<1>4. Unread(c, OnHandMove(c))
  <2>. DEFINE s == IF c.enabled /\ c.mode = "explore" THEN Stop(c, FALSE) ELSE c
              b == [s EXCEPT !.hold_timer = FALSE]
  <2>1. OnHandMove(c) \in {c, ResetMap(b)}
    BY DEF OnHandMove
  <2>2. Unread(c, s)
    BY <1>0, SmallOn
  <2>. HIDE DEF s
  <2>3. Unread(c, b)
    BY <2>2 DEF Unread, Shape, Fields
  <2>. HIDE DEF b
  <2>4. Unread(c, ResetMap(b))
    BY <2>3, SmallOn
  <2>. QED  BY <1>0, <2>1, <2>4
<1>5. Unread(c, Redive(c))
  <2>. DEFINE s == IF c.batch THEN Stop(c, FALSE) ELSE c
  <2>1. Redive(c) \in {c, Discard(s)}
    BY DEF Redive
  <2>2. Unread(c, s)
    BY <1>0, SmallOn
  <2>. HIDE DEF s
  <2>3. Unread(c, Discard(s))
    BY <2>2, SmallOn
  <2>. QED  BY <1>0, <2>1, <2>3
<1>6. Unread(c, Unload(c))
  <2>. DEFINE d == Discard(Stop(c, FALSE))
              u == [d EXCEPT !.farm = FALSE]
  <2>1. Unload(c) = u
    BY DEF Unload
  <2>2. Unread(c, Stop(c, FALSE))
    BY <1>0, SmallOn
  <2>3. Unread(c, d)
    BY <2>2, SmallOn
  <2>. HIDE DEF d
  <2>4. Unread(c, u)
    BY <2>3 DEF Unread, Shape, Fields
  <2>. QED  BY <2>1, <2>4
<1>7. ASSUME NEW e, Unread(c, e) PROVE Unread(c, RequestRefresh(e))
  <2>1. Unread(c, Send(e, <<"refresh">>)) /\ Unread(c, Stop(e, FALSE))
    BY <1>7, SmallOn
  <2>. QED  BY <2>1 DEF RequestRefresh
<1>. QED  BY <1>1, <1>2, <1>3, <1>4, <1>5, <1>6, <1>7

(* Nor does a start.                                                       *)
LEMMA StartsUnread ==
  ASSUME NEW c, Able(c), Ordered(c), Route = <<>>,
         NEW d \in {StartRun(c, FALSE), ExploreCommand(c), ExploreAreaCommand(c)}, d # c
  PROVE  Unread(c, d)
<1>0. Shape(c) /\ "key" \in DOMAIN c.view
  BY DEF Able, Viewed
<1>1. \/ d = [c EXCEPT !.mode = "route"]
      \/ d = RequestRefresh(Begun(ExploreStart(c)))
      \/ d = RequestRefresh(Begun([c EXCEPT !.active = TRUE, !.pending = <<>>]))
  BY StartsAre
<1>2. ASSUME NEW r, Unread(c, r) PROVE Unread(c, RequestRefresh(Begun(r)))
  <2>. DEFINE v == [r.view EXCEPT !.key = [kind |-> "none", is |-> <<>>]]
              b == [r EXCEPT !.mode = "explore", !.farm_timer = FALSE, !.hold_timer = FALSE,
                             !.enabled = TRUE, !.waits = 0, !.target = NoMonster, !.walk = <<>>,
                             !.view = v, !.ended = "none"]
  <2>1. Begun(r) = AwaitArrival(b, "refresh")
    BY <1>2 DEF Begun, Unread, Shape, Fields
  <2>. HIDE DEF v
  <2>2. Unread(c, b)
    BY <1>2 DEF Unread, Shape, Fields
  <2>. HIDE DEF b
  <2>3. Unread(c, Begun(r))
    BY <2>1, <2>2, SmallOn
  <2>. QED  BY <1>0, <2>3, ActsUnread
<1>3. Unread(c, [c EXCEPT !.mode = "route"]) /\ Unread(c, [c EXCEPT !.active = TRUE, !.pending = <<>>])
  BY <1>0 DEF Unread, Shape, Fields
<1>4. Unread(c, ExploreStart(c))
  BY <1>0 DEF Unread, ExploreStart, Blank, Shape, Fields
<1>. QED  BY <1>1, <1>2, <1>3, <1>4

(* What is done quietly, and nothing read, keeps the lists in step.        *)
LEMMA QuietSteady ==
  ASSUME NEW f, NEW p, NEW c, Steady(c, f, p), NEW d, Unread(c, d), Quietly(c, d)
  PROVE  Steady(d, f, p)
BY KeptSteady, QuietlyPresent DEF Unread

(* The timers.                                                             *)
LEMMA TimersRight ==
  ASSUME Inv, Control(client), Ordered(client), Steady(client, frames, here), Timers
  PROVE  /\ frames' = frames /\ here' = here
         /\ Onward(client, client', frames, here) /\ Remains(client, client')
         /\ Steady(client', frames, here)
<1>1. Able(client) /\ Shape(client) /\ TRUE \in BOOLEAN /\ FALSE \in BOOLEAN
  BY DEF Inv, Good, Able
<1>2. Unread(client, client)
  BY <1>1, SmallUnread
<1>. SUFFICES Abides(client, client') /\ Unread(client, client')
  BY <1>1, AbidesRight, QuietSteady, TimersAre DEF Abides
<1>3. CASE client' = Stop(client, TRUE) \/ client' = Stop(client, FALSE)
  BY <1>1, <1>3, StopAbides, SmallUnread
<1>4. CASE client' = [client EXCEPT !.hold_timer = FALSE,
                                    !.pending = IF InFlight(client) THEN <<>> ELSE @]
  <2>1. Abides(client, client')
    BY <1>1, <1>4, FieldsAbide
  <2>. DEFINE left == IF InFlight(client) THEN <<>> ELSE client.pending
              d == [client EXCEPT !.hold_timer = FALSE, !.pending = left]
  <2>. HIDE DEF left
  <2>2. Unread(client, d)
    BY <1>1 DEF Unread, Shape, Fields
  <2>. QED  BY <1>4, <2>1, <2>2 DEF left
<1>5. CASE /\ client.waits + 1 \in 0 .. 3 /\ client.enabled
           /\ client' = RequestRefresh([client EXCEPT !.waits = client.waits + 1])
  <2>. DEFINE n == client.waits + 1
              e == [client EXCEPT !.waits = n]
  <2>1. n \in 0 .. 3 /\ client' = RequestRefresh(e)
    BY <1>5
  <2>. HIDE DEF n
  <2>2. Unread(client, e)
    BY <1>1 DEF Unread, Shape, Fields
  <2>3. Abides(client, RequestRefresh(e))
    BY <1>1, <2>1, WaitsAbides
  <2>. HIDE DEF e
  <2>. QED  BY <1>1, <2>1, <2>2, <2>3, ActsUnread
<1>. QED  BY <1>3, <1>4, <1>5, TimersAre

(* The player, starting no run: typing a direction he gives the map up,    *)
(* and what else is sent asks for news or for another place.               *)
LEMMA ActsRight ==
  ASSUME Inv, Control(client), Ordered(client), Steady(client, frames, here), Undisturbed',
         \/ PlayerStops \/ PlayerResets \/ PlayerLeaves \/ PlayerFarms \/ PlayerWalks
         \/ PlayerWalksOut \/ PlayerRedives \/ Reload
  PROVE  /\ frames' = frames /\ here' = here /\ Steady(client', frames, here)
         /\ PlayerResets \/ (Present(client) => Present(client'))
         /\ \/ PlayerWalks /\ Loose(client')
            \/ /\ Sees(client, client')
               /\ PlayerWalksOut \/ Onward(client, client', frames, here)
<1>1. Good(client) /\ Able(client) /\ Shape(client) /\ FALSE \in BOOLEAN
  BY DEF Inv, Good, Able
<1>2. frames' = frames /\ here' = here
  BY ActsAre
<1>3. ASSUME Abides(client, client'), Unread(client, client')
      PROVE  /\ Steady(client', frames, here) /\ (Present(client) => Present(client'))
             /\ Sees(client, client') /\ Onward(client, client', frames, here)
  BY <1>1, <1>3, CalmlyRight, QuietlyPresent, QuietSteady DEF Abides
<1>4. CASE client' = Stop(client, FALSE)
  BY <1>1, <1>2, <1>3, <1>4, StopAbides, SmallUnread
<1>5. CASE client' = ExploreOffCommand(client)
  BY <1>1, <1>2, <1>3, <1>5, OffAbides, ActsUnread
<1>6. CASE client' = ExploreResetCommand(client) /\ PlayerResets
  <2>1. Sees(client, client') /\ Onward(client, client', frames, here)
    BY <1>1, <1>6, ResetCalmly, CalmlyRight
  <2>2. Unread(client, client')
    BY <1>1, <1>6, ActsUnread
  <2>3. client'.state = "fighting" => client.state = "fighting"
    <3>1. Stop(client, FALSE).state = "idle"
      BY <1>1, StopSeen
    <3>. DEFINE r == ResetMap(client)
    <3>2. Shape(r) /\ r.state = client.state
      BY <1>1 DEF ResetMap, Blank, Shape, Fields
    <3>3. client' \in {Stop(client, FALSE), Send(r, <<"refresh">>), client}
      BY <1>6 DEF ExploreResetCommand
    <3>. HIDE DEF r
    <3>4. Send(r, <<"refresh">>).state = client.state
      BY <3>2 DEF Send, Shape, Fields
    <3>. QED  BY <3>1, <3>3, <3>4
  <2>4. Steady(client', frames, here)
    BY <2>2, <2>3, KeptSteady DEF Unread
  <2>. QED  BY <1>2, <1>6, <2>1, <2>4
<1>7. CASE client' = Leave(client)
  BY <1>1, <1>2, <1>3, <1>7, FieldsAbide, ActsUnread
<1>8. ASSUME PlayerWalks, NEW dir \in Dirs, client' = Send(OnHandMove(client), <<dir>>)
      PROVE  Steady(client', frames, here) /\ (Present(client) => Present(client')) /\ Loose(client')
  <2>. DEFINE h == OnHandMove(client)
  <2>1. HoldsRooms(client) \/ ~client.enabled
    BY <1>8 DEF PlayerWalks, MayWalk, Undisturbed
  <2>2. Mapless(client, h) /\ Shape(h)
    BY <1>1, <2>1, HandMapless
  <2>3. Quietly(client, h) /\ Unread(client, h)
    BY <1>1, HandQuiet, ActsUnread
  <2>. HIDE DEF h
  <2>4. /\ Quietly(client, Send(h, <<dir>>)) /\ Unread(client, Send(h, <<dir>>))
        /\ Mapless(client, Send(h, <<dir>>))
    BY <2>2, <2>3, QuietSent, SmallOn, MaplessSends
  <2>. QED  BY <1>8, <2>4, QuietlyPresent, QuietSteady DEF Mapless, h
<1>9. CASE client.online /\ client' = Send(client, <<"out">>) /\ PlayerWalksOut
  <2>1. Quietly(client, client)
    BY DEF Quietly, SameChart
  <2>2. Quietly(client, client') /\ Unread(client, client')
    BY <1>1, <1>9, <2>1, QuietSent, SmallUnread
  <2>3. <<"out">> \in Seq(Requests)
    BY DEF Requests
  <2>4. client'.wire = client.wire \o <<"out">>
    BY <1>1, <1>9 DEF Send, Shape, Fields
  <2>5. Sees(client, client')
    BY <1>1, <2>3, <2>4, SilentSees
  <2>. QED  BY <1>2, <1>9, <2>2, <2>5, QuietlyPresent, QuietSteady
<1>10. CASE client' = Send(Redive(client), <<"newsea">>)
  <2>. DEFINE r == Redive(client)
  <2>1. Unread(client, r)
    BY <1>1, ActsUnread
  <2>2. Abides(client, Send(r, <<"newsea">>))
    BY <1>1, RediveAbides
  <2>. HIDE DEF r
  <2>3. Unread(client, Send(r, <<"newsea">>))
    BY <2>1, SmallOn
  <2>. QED  BY <1>2, <1>3, <1>10, <2>2, <2>3 DEF r
<1>11. CASE client' = Unload(client)
  BY <1>1, <1>2, <1>3, <1>11, RediveAbides, ActsUnread
<1>. QED  BY <1>2, <1>4, <1>5, <1>6, <1>7, <1>8, <1>9, <1>10, <1>11, ActsAre

(* The player, starting a run.                                             *)
LEMMA StartsRight ==
  ASSUME Inv, Ordered(client), Steady(client, frames, here), Undisturbed', PlayerStarts
  PROVE  /\ frames' = frames /\ here' = here
         /\ Starting(client, client') /\ Sees(client, client')
         /\ (Present(client) => Present(client')) /\ Steady(client', frames, here)
         /\ client'.wire = client.wire \/ client'.wire = client.wire \o <<"refresh">>
<1>1. /\ Good(client) /\ Able(client) /\ Shape(client) /\ Route = <<>>
      /\ "key" \in DOMAIN client.view
  BY DEF Inv, Good, Able, Viewed, Undisturbed
<1>2. PICK d \in {StartRun(client, FALSE), ExploreCommand(client), ExploreAreaCommand(client)} :
        d # client /\ Command("start", d)
  BY DEF PlayerStarts
<1>3. client' = d /\ frames' = frames /\ here' = here
  BY <1>2 DEF Command, Client
<1>4. Starting(client, d)
  BY <1>1, <1>2, AnyStarting
<1>6. Unread(client, d)
  BY <1>1, <1>2, StartsUnread
<1>7. d.wire = client.wire \/ d.wire = client.wire \o <<"refresh">>
  BY <1>4 DEF Starting
<1>8. Sees(client, d)
  <2>1. client.wire \o <<>> = client.wire
    <3>1. client.wire \in Seq(Commands)
      BY <1>1 DEF Able, Sends
    <3>. HIDE DEF Commands
    <3>. QED  BY <3>1
  <2>. QED  BY <1>1, <1>7, <2>1, CommandSets, SilentSees
<1>9. (Present(client) => Present(d)) /\ Steady(d, frames, here)
  BY <1>4, <1>6, QuietlyPresent, QuietSteady DEF Starting
<1>. QED  BY <1>3, <1>4, <1>7, <1>8, <1>9

-----------------------------------------------------------------------------
(* The room a decision is made in.                                         *)

(* Nothing is sent where the wire only gets shorter.                       *)
LEMMA ShorterSees ==
  ASSUME NEW c, Able(c), NEW d, d.wire \in {c.wire, <<>>, Tail(c.wire)}, c.wire = <<>> => d.wire = <<>>
  PROVE  ~(Len(d.wire) > Len(c.wire))
<1>. DEFINE w == c.wire
<1>1. w \in Seq(Commands)
  BY DEF Able, Sends
<1>. HIDE DEF Commands, w
<1>2. w = <<>> \/ Len(Tail(w)) = Len(w) - 1
  BY <1>1
<1>3. Len(w) \in Nat
  BY <1>1
<1>. QED  BY <1>2, <1>3 DEF w

(* What the game does sends nothing for the client, nor is it seen.        *)
LEMMA GameSees ==
  ASSUME Inv, Undisturbed', Game \/ Wimpy \/ StrayCombatFrame
  PROVE  /\ Game \/ StrayCombatFrame
         /\ client'.wire \in {client.wire, Tail(client.wire)}
         /\ client.wire = <<>> => client'.wire = <<>>
         /\ Present(client) => Present(client')
         /\ Loose(client') <=> Loose(client)
<1>1. Shape(client)
  BY DEF Inv, Good, Able
<1>2. ~Wimpy
  BY Unspent DEF Wimpy
<1>3. (client' = Taken /\ client.wire # <<>>) \/ client' = client
  BY <1>2 DEF Game, GameMoves, GameLeaves, GameEntersSea, GameIgnores, GameFights,
              GameRefreshes, MonsterDies, StrayCombatFrame, Took
<1>4. /\ \A field \in Fields \ {"wire"} : (client')[field] = client[field]
      /\ client'.wire = Tail(client.wire) \/ client'.wire = client.wire
      /\ client.wire = <<>> => client'.wire = client.wire
  BY <1>1, <1>3 DEF Taken, Shape, Fields
<1>5. /\ client'.arrival = client.arrival /\ client'.view = client.view
      /\ client'.active = client.active /\ client'.map = client.map
      /\ client'.filed = client.filed /\ client'.state = client.state
      /\ client'.contents = client.contents
  BY <1>4 DEF Fields
<1>6. Present(client) => Present(client')
  BY <1>5 DEF Present, Placed
<1>7. Loose(client') <=> Loose(client)
  BY <1>5 DEF Loose, HoldsRooms
<1>. QED  BY <1>2, <1>4, <1>6, <1>7

(* A connection lost or made leaves no run behind.                         *)
LEMMA SessionsSteady ==
  ASSUME Inv, Control(client), Control(client)', Alive(client), Ordered(client),
         Disconnect \/ Reconnect
  PROVE  /\ Steady(client', frames', here') /\ Present(client')
         /\ client'.wire = <<>> /\ ~client'.enabled
<1>1. /\ Good(client) /\ Able(client) /\ Shape(client) /\ World /\ here \in Places
      /\ Waiting(client')
  BY DEF Inv, Good, Able, World, Control
<1>2. CASE Disconnect
  <2>. DEFINE d == [OnDisconnect(client) EXCEPT !.online = FALSE, !.wire = <<>>]
  <2>1. ~d.online /\ d.wire = <<>> /\ ~d.enabled
    BY <1>1, DisconnectFields
  <2>2. client' = d
    BY <1>2 DEF Disconnect
  <2>. HIDE DEF d
  <2>3. client'.state = "idle" /\ client'.arrival = "none"
    BY <1>1, <2>1, <2>2 DEF Waiting
  <2>. QED  BY <2>1, <2>2, <2>3, IdlePresent DEF Steady
<1>3. CASE Reconnect
  <2>. DEFINE d == [client EXCEPT !.online = TRUE]
  <2>1. PICK seen \in MaySee :
          /\ client' = d /\ here' = here
          /\ frames' = <<[kind |-> "info", place |-> here], ContentsOf(here, FALSE, seen)>>
    BY <1>3 DEF Reconnect
  <2>2. ~client.online /\ ~client.enabled /\ client.wire = <<>> /\ client.info \in Places
    BY <1>1, <1>3 DEF Reconnect, Alive, Able, Holding, Told
  <2>3. d.enabled = client.enabled /\ d.wire = client.wire /\ d.info = client.info
    BY <1>1 DEF Shape, Fields
  <2>. HIDE DEF d
  <2>4. client'.state = "idle" /\ client'.arrival = "none"
    BY <1>1, <2>1, <2>2, <2>3 DEF Waiting
  <2>5. Passes(Listings, Places \X Places, frames', <<here, client'.info>>, <<here, here>>)
    BY <1>1, <2>1, <2>2, <2>3, AnswersList
  <2>6. Steady(client', frames', here')
    BY <1>1, <2>1, <2>4, <2>5 DEF Steady
  <2>. QED  BY <2>1, <2>2, <2>3, <2>4, <2>6, IdlePresent
<1>. QED  BY <1>2, <1>3

(* Every step keeps the lists in step, and except for a reset what is sent *)
(* at a direction or an attack is sent in the room seen.                   *)
LEMMA StepSteady ==
  ASSUME Inv, Control(client), Control(client)', Knows(client, frames, here), Alive(client),
         Steady(client, frames, here), [Next]_vars, Undisturbed'
  PROVE  /\ Steady(client', frames', here')
         /\ Present(client) /\ ~PlayerResets =>
              Present(client') /\ (PlayerWalks \/ Sees(client, client'))
<1>1. Able(client) /\ Ordered(client)
  BY DEF Inv, Good, Knows, Sure
<1>2. CASE Game \/ Wimpy \/ StrayCombatFrame
  BY <1>1, <1>2, GameSees, GameSteady, ShorterSees DEF Sees
<1>3. CASE Receive
  BY <1>3, ReceiveRight DEF Remains
<1>4. CASE Timers
  BY <1>1, <1>4, TimersRight DEF Remains
<1>5. CASE PlayerStarts
  BY <1>1, <1>5, StartsRight
<1>6. CASE \/ PlayerStops \/ PlayerResets \/ PlayerLeaves \/ PlayerFarms \/ PlayerWalks
           \/ PlayerWalksOut \/ PlayerRedives \/ Reload
  BY <1>1, <1>6, ActsRight
<1>7. CASE Disconnect \/ Reconnect
  BY <1>1, <1>7, SessionsSteady, ShorterSees DEF Sees
<1>8. CASE UNCHANGED vars
  <2>1. client' = client /\ frames' = frames /\ here' = here
    BY <1>8 DEF vars
  <2>. QED  BY <1>1, <2>1, ShorterSees DEF Sees
<1>. QED  BY <1>2, <1>3, <1>4, <1>5, <1>6, <1>7, <1>8 DEF Next, Player

(* A loaded plugin looks at nothing, and its lists are in step.            *)
LEMMA LoadedSteady == Init => Steady(client, frames, here) /\ Present(client) /\ Alive(client)
<1>. SUFFICES ASSUME Init PROVE Steady(client, frames, here) /\ Present(client) /\ Alive(client)
  OBVIOUS
<1>1. /\ client.enabled = FALSE /\ client.state = "idle" /\ client.arrival = "none"
      /\ client.info = Entrance(1) /\ frames = <<>> /\ here = Entrance(1)
  BY DEF Init, Loaded
<1>2. Entrance(1) \in Places
  BY DoorsType, MazeAssumption
<1>. DEFINE a == <<Entrance(1), Entrance(1)>>
            Pairs == Places \X Places
<1>3. a \in Pairs
  BY <1>2
<1>4. Passes(Listings, Pairs, <<>>, a, a)
  <2>. HIDE DEF a, Pairs
  <2>. QED  BY <1>3, PassesNothing
<1>5. Steady(client, frames, here)
  BY <1>1, <1>2, <1>4 DEF Steady
<1>. QED  BY <1>1, <1>5, IdlePresent DEF Alive

-----------------------------------------------------------------------------
(* Where a move is sent.                                                   *)

Inner == Words \cup {"refresh"}

(* While a map is made or kept only what it is made by is under way, and   *)
(* in the lobby nothing that moves the player.                             *)
Inside(c, f, p) ==
  ~Loose(c) => /\ c.wire \in Seq(Sendable)
               /\ p = Lobby => f \in Seq(Still) /\ c.wire \in Seq(Inner)

(* A step other than the game's and the session's sends onward, begins a   *)
(* run, or is typed by the player.                                         *)
LEMMA StepOnward ==
  ASSUME Inv, Control(client), Control(client)', Knows(client, frames, here),
         Steady(client, frames, here), Next, Undisturbed', ~PlayerWalksOut
  PROVE  \/ Game \/ Wimpy \/ StrayCombatFrame \/ Disconnect \/ Reconnect \/ PlayerStarts
         \/ PlayerWalks /\ Loose(client')
         \/ /\ here' = here
            /\ frames' = frames \/ (frames # <<>> /\ frames' = Tail(frames))
            /\ Onward(client, client', frames', here)
<1>1. Able(client) /\ Ordered(client)
  BY DEF Inv, Good, Knows, Sure
<1>2. CASE Receive
  <2>1. here' = here /\ frames # <<>> /\ frames' = Tail(frames)
    BY <1>2 DEF Receive, ReceiveInfo, ReceiveContents, ReceiveCombatEnd, ReceiveNoTarget,
                ReceiveBlocked, Next1, Client
  <2>2. Onward(client, client', frames', here')
    BY <1>2, ReceiveRight
  <2>. QED  BY <2>1, <2>2
<1>3. CASE Timers
  BY <1>1, <1>3, TimersRight
<1>4. CASE \/ PlayerStops \/ PlayerResets \/ PlayerLeaves \/ PlayerFarms \/ PlayerWalks
           \/ PlayerRedives \/ Reload
  <2>1. /\ frames' = frames /\ here' = here
        /\ (PlayerWalks /\ Loose(client')) \/ Onward(client, client', frames, here)
    BY <1>1, <1>4, ActsRight
  <2>. QED  BY <2>1
<1>. QED  BY <1>2, <1>3, <1>4 DEF Next, Player

(* Sequences of what may be sent.                                          *)
LEMMA InnerSets ==
  /\ Seq(Inner) \subseteq Seq(Sendable)
  /\ <<>> \in Seq(Inner) /\ <<"refresh">> \in Seq(Inner)
  /\ \A s \in Seq(Sendable) : s \in Seq(Commands \ Dirs) => s \in Seq(Inner)
  /\ \A s \in Seq(Inner), t \in Seq(Inner) : s \o t \in Seq(Inner)
  /\ \A s \in Seq(Sendable), t \in Seq(Sendable) : s \o t \in Seq(Sendable)
  /\ \A s \in Seq(Still), t \in Seq(Still) : s \o t \in Seq(Still)
  /\ \A s \in Seq(Inner) : s # <<>> => Head(s) \in Inner /\ Tail(s) \in Seq(Inner)
  /\ \A s \in Seq(Sendable) : s # <<>> => Head(s) \in Sendable /\ Tail(s) \in Seq(Sendable)
  /\ \A s \in Seq(Still) : s # <<>> => Head(s) \in Still /\ Tail(s) \in Seq(Still)
<1>1. Inner \subseteq Sendable /\ Sendable \cap (Commands \ Dirs) \subseteq Inner /\ "refresh" \in Inner
  BY DEF Inner, Sendable
<1>. HIDE DEF Inner, Sendable, Commands, Dirs
<1>2. \A s \in Seq(Sendable) : s \in Seq(Commands \ Dirs) => s \in Seq(Inner)
  <2>. SUFFICES ASSUME NEW s \in Seq(Sendable), s \in Seq(Commands \ Dirs) PROVE s \in Seq(Inner)
    OBVIOUS
  <2>1. \A i \in 1 .. Len(s) : s[i] \in Sendable /\ s[i] \in Commands \ Dirs
    OBVIOUS
  <2>2. \A i \in 1 .. Len(s) : s[i] \in Inner
    BY <1>1, <2>1
  <2>. QED  BY <2>2
<1>3. Seq(Inner) \subseteq Seq(Sendable)
  <2>. SUFFICES ASSUME NEW s \in Seq(Inner) PROVE s \in Seq(Sendable)
    OBVIOUS
  <2>1. \A i \in 1 .. Len(s) : s[i] \in Sendable
    BY <1>1
  <2>. QED  BY <2>1
<1>4. <<>> \in Seq(Inner) /\ <<"refresh">> \in Seq(Inner)
  BY <1>1
<1>5. \A S : \A s \in Seq(S), t \in Seq(S) : s \o t \in Seq(S)
  OBVIOUS
<1>6. \A S : \A s \in Seq(S) : s # <<>> => Head(s) \in S /\ Tail(s) \in Seq(S)
  OBVIOUS
<1>. QED  BY <1>2, <1>3, <1>4, <1>5, <1>6

(* In the lobby no move is left to send.                                   *)
LEMMA LobbyUnclear ==
  ASSUME NEW f \in Seq(Still), NEW s
  PROVE  ~Clear(f, s, Lobby)
BY StillStays DEF Clear

(* What is sent onward stays inside.                                       *)
LEMMA OnwardInside ==
  ASSUME Inside(client, frames, here), frames' = frames \/ (frames # <<>> /\ frames' = Tail(frames)),
         Onward(client, client', frames', here)
  PROVE  Inside(client', frames', here)
<1>. SUFFICES ASSUME ~Loose(client')
              PROVE  /\ client'.wire \in Seq(Sendable)
                     /\ here = Lobby => frames' \in Seq(Still) /\ client'.wire \in Seq(Inner)
  BY DEF Inside
<1>1. PICK cmds \in Seq(Commands) :
        /\ client'.wire = client.wire \o cmds
        /\ ~Loose(client) /\ cmds \in Seq(Sendable)
        /\ cmds \in Seq(Commands \ Dirs) \/ Clear(frames', client.wire, here)
  BY DEF Onward
<1>2. client.wire \in Seq(Sendable)
  BY <1>1 DEF Inside
<1>3. client'.wire \in Seq(Sendable)
  BY <1>1, <1>2, InnerSets
<1>4. ASSUME here = Lobby PROVE frames' \in Seq(Still) /\ client'.wire \in Seq(Inner)
  <2>1. frames \in Seq(Still) /\ client.wire \in Seq(Inner)
    BY <1>1, <1>4 DEF Inside
  <2>2. frames' \in Seq(Still)
    BY <2>1, InnerSets
  <2>3. cmds \in Seq(Inner)
    BY <1>1, <1>4, <2>2, LobbyUnclear, InnerSets
  <2>. QED  BY <1>1, <2>1, <2>2, <2>3, InnerSets
<1>. QED  BY <1>3, <1>4

(* Doors of the sea lead to the sea.                                       *)
LEMMA DoorsInside ==
  \A place \in Places, dir \in Dirs : dir \in ExitsOf(place) => Towards(place, dir) # Lobby
<1>. SUFFICES ASSUME NEW place \in Places, NEW dir \in Dirs, dir \in ExitsOf(place)
              PROVE  Towards(place, dir) # Lobby
  OBVIOUS
<1>1. place # Lobby
  BY DEF ExitsOf
<1>2. PICK k \in DOMAIN Maze : place \in SeaPlaces(k)
  BY <1>1 DEF Places
<1>3. place.sea = k /\ k # 0
  BY <1>2, MazeAssumption DEF SeaPlaces
<1>4. Towards(place, dir).sea = place.sea
  BY PlacesSpots, TowardsSpot
<1>. QED  BY <1>3, <1>4 DEF Lobby

(* The game answers what is under way in the lobby without moving anybody. *)
LEMMA GameInside ==
  ASSUME Inv, Inside(client, frames, here), Undisturbed', Game \/ StrayCombatFrame
  PROVE  Inside(client', frames', here')
<1>1. /\ client'.wire \in {client.wire, Tail(client.wire)}
      /\ client.wire = <<>> => client'.wire = <<>>
      /\ Loose(client') <=> Loose(client)
  BY GameSees
<1>2. /\ here \in Places /\ World
      /\ \A dir \in Dirs : "out" # dir /\ "portal" # dir /\ "newsea" # dir /\ "open" # dir
                           /\ "refresh" # dir
  BY DEF Inv, World, Dirs
<1>. SUFFICES ASSUME ~Loose(client)
              PROVE  /\ client'.wire \in Seq(Sendable)
                     /\ here' = Lobby => frames' \in Seq(Still) /\ client'.wire \in Seq(Inner)
  BY <1>1 DEF Inside
<1>3. client.wire \in Seq(Sendable) /\ (here = Lobby => frames \in Seq(Still) /\ client.wire \in Seq(Inner))
  BY DEF Inside
<1>4. client'.wire \in Seq(Sendable) /\ (here = Lobby => client'.wire \in Seq(Inner))
  BY <1>1, <1>3, InnerSets
<1>5. client.wire # <<>> => Head(client.wire) \in Sendable /\ (here = Lobby => Head(client.wire) \in Inner)
  BY <1>3, InnerSets
<1>6. ~GameLeaves /\ ~GameEntersSea /\ ~GameIgnores
  BY <1>2, <1>5, WordsApart DEF GameLeaves, GameEntersSea, GameIgnores, Took, Sendable
<1>7. CASE GameMoves
  <2>1. PICK dir \in Dirs :
          /\ Took(dir)
          /\ IF dir \in ExitsOf(here)
             THEN \/ Goes(Towards(here, dir), <<>>) /\ UNCHANGED spent
                  \/ Spend("block") /\ Goes(Towards(here, dir), Blocked)
                  \/ Spend("block") /\ Stays(Blocked)
                  \/ Spend("hush") /\ Stays(<<>>)
             ELSE Stays(Blocked) /\ UNCHANGED spent
    BY <1>7 DEF GameMoves
  <2>2. here # Lobby
    BY <1>2, <1>5, <2>1, WordsApart DEF Took, Inner
  <2>3. here' = here \/ (dir \in ExitsOf(here) /\ here' = Towards(here, dir))
    BY <2>1 DEF Goes, Stays
  <2>4. here' # Lobby
    BY <1>2, <2>2, <2>3, DoorsInside
  <2>. QED  BY <1>4, <2>4
<1>8. CASE GameFights \/ GameRefreshes \/ MonsterDies \/ StrayCombatFrame
  <2>1. /\ here' = here
        /\ \/ frames' = frames \/ \E lines \in Remarks \ {Blocked} : frames' = frames \o lines
           \/ \E seen \in MaySee : frames' = frames \o <<ContentsOf(here, FALSE, seen)>>
    <3>1. frames \in Seq(Frames)
      BY DEF Inv, World
    <3>2. \A e : Append(frames, e) = frames \o <<e>>
      <4>. HIDE DEF Frames
      <4>. QED  BY <3>1
    <3>3. CombatEnd \in Remarks \ {Blocked} /\ \A word \in Words : NoTarget(word) \in Remarks \ {Blocked}
      BY RemarksAre DEF CombatEnd, Blocked, NoTarget
    <3>. QED  BY <1>8, <3>2, <3>3 DEF GameFights, GameRefreshes, MonsterDies, StrayCombatFrame, Stays
  <2>2. /\ Remarks \ {Blocked} \subseteq Seq(Still)
        /\ \A seen \in MaySee : <<ContentsOf(here, FALSE, seen)>> \in Seq(Still)
    <3>1. Lines \subseteq Frames
      BY DEF Frames
    <3>2. ASSUME NEW seen \in MaySee PROVE ContentsOf(here, FALSE, seen) \in Frames
      BY <1>2, ContentsType DEF Frames
    <3>3. /\ \A e \in Lines : e = [kind |-> "blocked"] \/ e \in Still
          /\ \A seen \in MaySee : ContentsOf(here, FALSE, seen) \in Still
      BY <3>1, <3>2 DEF Still, ContentsOf, Lines
    <3>. HIDE DEF Still, Lines
    <3>4. <<>> \in Seq(Still) /\ \A e \in Still : <<e>> \in Seq(Still)
      OBVIOUS
    <3>. QED  BY <3>3, <3>4, RemarksAre DEF Blocked
  <2>3. here = Lobby => frames' \in Seq(Still)
    BY <1>3, <2>1, <2>2, InnerSets
  <2>. QED  BY <1>4, <2>1, <2>3
<1>. QED  BY <1>6, <1>7, <1>8 DEF Game

(* A session that begins with a map begins where it was made.              *)
LEMMA ReconnectInside ==
  ASSUME Inv, Knows(client, frames, here), Alive(client), Reconnect
  PROVE  Inside(client', frames', here')
<1>. DEFINE d == [client EXCEPT !.online = TRUE]
<1>1. client' = d /\ here' = here
  BY DEF Reconnect
<1>2. /\ Shape(client) /\ ~client.online /\ client.wire = <<>> /\ frames = <<>>
      /\ Sure(client, frames, here)
  BY DEF Inv, World, Good, Able, Holding, Knows, Reconnect
<1>3. ~client.active
  BY <1>2 DEF Alive, Sure, Ordered
<1>4. d.active = client.active /\ d.map = client.map /\ d.wire = client.wire
  BY <1>2 DEF Shape, Fields
<1>. HIDE DEF d
<1>. SUFFICES ASSUME ~Loose(client) PROVE here # Lobby /\ client'.wire \in Seq(Sendable)
  BY <1>1, <1>4 DEF Inside, Loose, HoldsRooms
<1>5. PICK x \in Fixes : Fits(client, x) /\ Ahead(<<>>, <<>>, here, x)
  BY <1>2 DEF Sure, Tracked
<1>6. Stands(x, here)
  BY <1>5, AheadQuiet
<1>7. HoldsRooms(client)
  BY <1>3 DEF Loose
<1>8. x.mode = "live" /\ x.at # Lobby
  BY <1>5, <1>6, <1>7, FixType DEF Stands, Fits, Modes
<1>. QED  BY <1>1, <1>2, <1>4, <1>6, <1>8, InnerSets DEF Stands

(* A start of a fresh map waits for a quiet game.                          *)
LEMMA StartsInside ==
  ASSUME Inv, Knows(client, frames, here), Steady(client, frames, here),
         Inside(client, frames, here), Undisturbed', PlayerStarts
  PROVE  /\ Inside(client', frames', here')
         /\ client'.wire = client.wire \/ client'.wire = client.wire \o <<"refresh">>
<1>1. Able(client) /\ Ordered(client) /\ ~Eager
  BY DEF Inv, Good, Knows, Sure, Undisturbed
<1>2. /\ frames' = frames /\ here' = here /\ Starting(client, client')
      /\ client'.wire = client.wire \/ client'.wire = client.wire \o <<"refresh">>
  BY <1>1, StartsRight
<1>3. Quiet \/ HoldsRooms(client')
  BY <1>1 DEF PlayerStarts, MayStart, Command, Client
<1>. SUFFICES ASSUME ~Loose(client')
              PROVE  /\ client'.wire \in Seq(Sendable)
                     /\ here = Lobby => frames \in Seq(Still) /\ client'.wire \in Seq(Inner)
  BY <1>2 DEF Inside
<1>4. <<"refresh">> \in Seq(Inner) /\ <<"refresh">> \in Seq(Sendable)
  BY InnerSets
<1>5. CASE HoldsRooms(client')
  <2>1. ~Loose(client)
    BY <1>2, <1>5 DEF Starting, Loose
  <2>2. client.wire \in Seq(Sendable) /\ (here = Lobby => frames \in Seq(Still) /\ client.wire \in Seq(Inner))
    BY <2>1 DEF Inside
  <2>. QED  BY <1>2, <1>4, <2>2, InnerSets
<1>6. CASE Quiet
  <2>1. frames = <<>> /\ client.wire = <<>>
    BY <1>6 DEF Quiet
  <2>2. client.wire \in Seq(Inner) /\ frames \in Seq(Still)
    <3>1. <<>> \in Seq(Still)
      <4>. HIDE DEF Still
      <4>. QED  OBVIOUS
    <3>. QED  BY <2>1, <3>1, InnerSets
  <2>3. client'.wire \in Seq(Inner)
    BY <1>2, <1>4, <2>2, InnerSets
  <2>. QED  BY <2>2, <2>3, InnerSets
<1>. QED  BY <1>3, <1>5, <1>6

(* Every step but the typed "out" stays inside.                            *)
LEMMA StepInside ==
  ASSUME Inv, Control(client), Control(client)', Knows(client, frames, here), Alive(client),
         Steady(client, frames, here), Inside(client, frames, here), [Next]_vars, Undisturbed',
         ~PlayerWalksOut
  PROVE  Inside(client', frames', here')
<1>1. CASE Game \/ Wimpy \/ StrayCombatFrame
  BY <1>1, GameSees, GameInside
<1>2. CASE Reconnect
  BY <1>2, ReconnectInside
<1>3. CASE Disconnect
  <2>1. client'.wire = <<>> /\ frames' = <<>>
    <3>1. Ordered(client)
      BY DEF Knows, Sure
    <3>. QED  BY <1>3, <3>1, SessionsSteady DEF Disconnect
  <2>2. <<>> \in Seq(Still) /\ <<>> \in Seq(Inner) /\ <<>> \in Seq(Sendable)
    <3>. HIDE DEF Still
    <3>. QED  BY InnerSets
  <2>. QED  BY <2>1, <2>2 DEF Inside
<1>4. CASE PlayerStarts
  BY <1>4, StartsInside
<1>5. CASE PlayerWalks /\ Loose(client')
  BY <1>5 DEF Inside
<1>6. CASE /\ here' = here
           /\ frames' = frames \/ (frames # <<>> /\ frames' = Tail(frames))
           /\ Onward(client, client', frames', here)
  BY <1>6, OnwardInside
<1>7. CASE UNCHANGED vars
  BY <1>7 DEF vars
<1>. QED  BY <1>1, <1>2, <1>3, <1>4, <1>5, <1>6, <1>7, StepOnward

(* Typing a direction is counted.                                          *)
LEMMA WalksSpend == ASSUME Inv, PlayerWalks PROVE spent'.hand # spent.hand
<1>1. spent' = [spent EXCEPT !["hand"] = spent["hand"] + 1]
  BY DEF PlayerWalks, Command, Spend
<1>2. "hand" \in Kinds /\ spent \in [Kinds -> Nat]
  BY DEF Kinds, Inv, World
<1>3. spent'["hand"] = spent["hand"] + 1 /\ spent["hand"] \in Nat
  BY <1>1, <1>2
<1>. QED  BY <1>3

(* A direction is sent where nothing is still to come.                     *)
LEMMA StepSettled ==
  ASSUME Inv, Control(client), Control(client)', Knows(client, frames, here), Alive(client),
         Steady(client, frames, here), Inside(client, frames, here), [Next]_vars, Undisturbed',
         ~PlayerWalksOut, Sent(Dirs)
  PROVE  ~EntryUnderWay /\ ~MoveUnderWay
<1>1. /\ Able(client) /\ Ordered(client) /\ client.wire \in Seq(Commands) /\ frames \in Seq(Frames)
  BY DEF Inv, World, Good, Able, Sends, Knows, Sure
<1>2. PICK i \in Len(client.wire) + 1 .. Len(client'.wire) :
        client'.wire[i] \in Dirs /\ spent'.hand = spent.hand
  BY DEF Sent
<1>0. Len(client'.wire) > Len(client.wire)
  BY <1>1
<1>3. ~(Game \/ Wimpy \/ StrayCombatFrame)
  BY <1>0, <1>1, GameSees, ShorterSees
<1>4. ~Disconnect /\ ~Reconnect
  BY <1>0, <1>1, SessionsSteady, ShorterSees
<1>5. ~PlayerWalks
  BY <1>2, WalksSpend
<1>6. ~PlayerStarts
  <2>. SUFFICES ASSUME PlayerStarts PROVE FALSE
    OBVIOUS
  <2>1. client'.wire = client.wire \/ client'.wire = client.wire \o <<"refresh">>
    BY StartsInside
  <2>2. <<"refresh">> \in Seq({"refresh"}) /\ ~("refresh" \in Dirs)
    BY DEF Dirs
  <2>3. client'.wire = client.wire \o <<"refresh">>
    BY <1>0, <1>1, <2>1, ShorterSees
  <2>4. client'.wire[i] \in {"refresh"}
    BY <1>1, <2>2, <2>3, LaterSent
  <2>. QED  BY <1>2, <2>2, <2>4
<1>7. ~UNCHANGED vars
  BY <1>0, <1>1, ShorterSees DEF vars
<1>8. /\ here' = here
      /\ frames' = frames \/ (frames # <<>> /\ frames' = Tail(frames))
      /\ Onward(client, client', frames', here)
  BY <1>3, <1>4, <1>5, <1>6, <1>7, StepOnward
<1>9. PICK cmds \in Seq(Commands) :
        /\ client'.wire = client.wire \o cmds
        /\ cmds \in Seq(Commands \ Dirs) \/ (~Loose(client) /\ Clear(frames', client.wire, here))
  BY <1>8 DEF Onward
<1>10. ~(cmds \in Seq(Commands \ Dirs))
  <2>. SUFFICES ASSUME cmds \in Seq(Commands \ Dirs) PROVE FALSE
    OBVIOUS
  <2>. DEFINE Stays1 == Commands \ Dirs
  <2>1. cmds \in Seq(Stays1)
    OBVIOUS
  <2>. HIDE DEF Stays1
  <2>2. client'.wire[i] \in Stays1
    BY <1>1, <1>9, <2>1, LaterSent
  <2>. QED  BY <1>2, <2>2 DEF Stays1
<1>11. ~Loose(client) /\ Clear(frames', client.wire, here)
  BY <1>9, <1>10
<1>12. frames' \in Seq(Frames)
  BY <1>1, <1>8, TogetherType
<1>13. here # Lobby
  <2>. SUFFICES ASSUME here = Lobby PROVE FALSE
    OBVIOUS
  <2>1. frames \in Seq(Still)
    BY <1>11 DEF Inside
  <2>2. frames' \in Seq(Still)
    BY <1>8, <2>1, InnerSets
  <2>. QED  BY <1>11, <2>2, LobbyUnclear
<1>14. frames' \in Seq(Entryless) /\ client.wire \in Seq(Plain)
  BY <1>1, <1>11, <1>12, <1>13, ClearCalm
<1>15. ~EntryUnderWay
  <2>1. \A k \in DOMAIN frames' : (frames')[k] \in Entryless
    <3>. HIDE DEF Entryless
    <3>. QED  BY <1>14
  <2>. QED  BY <2>1 DEF EntryUnderWay, Entryless
<1>16. ~MoveUnderWay
  <2>1. \A k \in DOMAIN client.wire : client.wire[k] \in Plain
    <3>. HIDE DEF Plain
    <3>. QED  BY <1>14
  <2>. QED  BY <2>1 DEF MoveUnderWay, Plain
<1>. QED  BY <1>15, <1>16

-----------------------------------------------------------------------------
(* The theorems.                                                           *)

(* What has disturbed the player stays counted.                            *)
LEMMA DisturbedStays == ASSUME Inv, [Next]_vars, Undisturbed' PROVE Undisturbed
<1>1. spent \in [Kinds -> Nat]
  BY DEF Inv, World
<1>2. \/ spent' = spent
      \/ \E kind \in Kinds : spent' = [spent EXCEPT ![kind] = @ + 1]
      \/ spent' = [spent EXCEPT !.drop = @ + 1, !.silent = @ + 1]
  <2>1. CASE Game \/ Wimpy \/ StrayCombatFrame
    BY <2>1 DEF Game, GameMoves, GameLeaves, GameEntersSea, GameIgnores, GameFights,
       GameRefreshes, MonsterDies, Wimpy, StrayCombatFrame, Spend, Kinds
  <2>2. CASE Receive
    BY <2>2 DEF Receive, ReceiveInfo, ReceiveContents, ReceiveCombatEnd, ReceiveNoTarget,
       ReceiveBlocked
  <2>3. CASE Timers
    BY <2>3 DEF Timers, ArrivalTimeout, HeldMoveTimeout, RefreshTimeout, FarmTimer, Fires,
       Spend, Kinds
  <2>4. CASE Player /\ ~Disconnect
    BY <2>4 DEF Player, PlayerStarts, PlayerStops, PlayerResets, PlayerLeaves, PlayerFarms,
       PlayerWalks, PlayerWalksOut, PlayerRedives, Reload, Command, Spend, Kinds
  <2>5. CASE Disconnect
    <3>1. spent' = [spent EXCEPT !.drop = @ + 1]
          \/ spent' = [spent EXCEPT !.drop = @ + 1, !.silent = @ + 1]
      BY <2>5 DEF Disconnect
    <3>. QED  BY <3>1 DEF Kinds
  <2>6. CASE Reconnect \/ UNCHANGED vars
    BY <2>6 DEF Reconnect, vars
  <2>. QED  BY <2>1, <2>2, <2>3, <2>4, <2>5, <2>6 DEF Next
<1>3. \A kind \in Kinds : spent'[kind] \in Nat /\ spent'[kind] >= spent[kind]
  <2>1. CASE spent' = spent
    BY <1>1, <2>1
  <2>2. CASE \E kind \in Kinds : spent' = [spent EXCEPT ![kind] = @ + 1]
    BY <1>1, <2>2
  <2>3. CASE spent' = [spent EXCEPT !.drop = @ + 1, !.silent = @ + 1]
    <3>. DEFINE once == [spent EXCEPT !.drop = @ + 1]
    <3>1. once \in [Kinds -> Nat] /\ \A kind \in Kinds : once[kind] >= spent[kind]
      BY <1>1
    <3>2. spent' = [once EXCEPT !.silent = @ + 1] /\ "silent" \in Kinds
      BY <1>1, <2>3 DEF Kinds
    <3>. HIDE DEF once
    <3>3. ASSUME NEW kind \in Kinds
          PROVE  spent'[kind] \in Nat /\ spent'[kind] >= spent[kind]
      <4>1. spent'[kind] \in Nat /\ spent'[kind] >= once[kind]
        BY <3>1, <3>2
      <4>2. spent[kind] \in Nat /\ once[kind] \in Nat /\ once[kind] >= spent[kind]
        BY <1>1, <3>1
      <4>. QED  BY <4>1, <4>2
    <3>. QED  BY <3>3
  <2>. QED  BY <1>2, <2>1, <2>2, <2>3
<1>4. {"wimpy", "silent", "hush", "farm"} \subseteq Kinds
  BY DEF Kinds
<1>5. \A kind \in {"wimpy", "silent", "hush", "farm"} : spent[kind] = 0
  <2>. SUFFICES ASSUME NEW kind \in {"wimpy", "silent", "hush", "farm"} PROVE spent[kind] = 0
    OBVIOUS
  <2>1. spent'[kind] = 0
    BY DEF Undisturbed
  <2>. QED  BY <1>1, <1>3, <1>4, <2>1
<1>. QED  BY <1>5 DEF Undisturbed

(* Every step keeps the client as sure as it was, and the survey going.    *)
LEMMA StepKnows ==
  ASSUME Inv, Control(client), [Next]_vars, Undisturbed', Knows(client, frames, here)
  PROVE  Knows(client', frames', here') /\ Surveys(client, client')
<1>1. CASE Next
  BY <1>1, GameKnows, ReceiveKnows, TimersKnows, StartsKnows, DisconnectKnows, ActsKnows,
     ReconnectKnows DEF Next, Player
<1>2. CASE UNCHANGED vars
  BY <1>2 DEF vars, Surveys
<1>. QED  BY <1>1, <1>2

(* Undisturbed, the client is sure of its map and of where the frames and  *)
(* commands under way will take the player over it.                        *)
THEOREM StepperKnows == Spec => [](Undisturbed => Knows(client, frames, here))
<1>. DEFINE Knowing == Undisturbed => Knows(client, frames, here)
<1>1. Init => Knowing
  BY LoadedKnows
<1>2. Inv /\ Control(client) /\ Knowing /\ [Next]_vars => Knowing'
  <2>. SUFFICES ASSUME Inv, Control(client), Knowing, [Next]_vars, Undisturbed'
                PROVE  Knows(client', frames', here')
    OBVIOUS
  <2>1. Undisturbed
    BY DisturbedStays
  <2>. QED  BY <2>1, StepKnows
<1>. HIDE DEF Knowing
<1>3. Spec => []Knowing
  BY <1>1, <1>2, StepperRelies, ControlInvariant, PTL DEF Spec
<1>. QED  BY <1>3 DEF Knowing

(* Every recorded room lies where it was filed, relative to every other.   *)
THEOREM MapsAreFaithful == Spec => [](Undisturbed => MapFaithful)
<1>1. Knows(client, frames, here) => MapFaithful
  BY DEF Knows, Sure, Charts, Apart, MapFaithful
<1>. QED  BY <1>1, StepperKnows, PTL

(* Whenever nothing is under way, a map that holds rooms knows which of    *)
(* them the player stands in.                                              *)
THEOREM PositionsAreKnown == Spec => [](Undisturbed => PositionKnown)
<1>1. Knows(client, frames, here) => PositionKnown
  <2>. SUFFICES ASSUME Sure(client, frames, here), Quiet, HoldsRooms(client)
                PROVE  /\ client.map.pos \in Visited(client.map)
                       /\ client.filed[client.map.pos] = here
    BY DEF Knows, PositionKnown
  <2>1. client.map.pos \in Visited(client.map)
    BY DEF Sure, Charts
  <2>2. PICK x \in Fixes : Fits(client, x) /\ Ahead(<<>>, <<>>, here, x)
    BY DEF Sure, Loose, Tracked, Quiet
  <2>3. Stands(x, here) /\ Ends(x)
    BY <2>2, AheadQuiet
  <2>4. x.mode = "live"
    BY <2>2, <2>3, FixType DEF Modes, Fits, Ends
  <2>. QED  BY <2>1, <2>2, <2>3, <2>4 DEF Fits, Stands
<1>. QED  BY <1>1, StepperKnows, PTL

(* What the explorer files implements the survey.                          *)
THEOREM ExplorerSurveys == Spec /\ []Undisturbed => ImplementsSurvey
<1>1. Init => Chart!Init
  BY DEF Init, Loaded, NewMap, Visited, Chart!Init, Charted
<1>2. ASSUME Inv, Control(client), Knows(client, frames, here), Undisturbed', [Next]_vars
      PROVE  [Chart!Next]_Charted
  <2>1. Charted = Filed(client) /\ Charted' = Filed(client')
    BY DEF Charted, Filed
  <2>2. Surveys(client, client')
    BY <1>2, StepKnows
  <2>3. CASE Charted' = {}
    BY <2>3 DEF Chart!Next, Chart!GiveUp
  <2>4. CASE Charted' = Charted
    BY <2>4
  <2>5. ASSUME NEW room \in Places \ {Lobby}, Charted' = Charted \cup {room},
               Charted = {} \/ \E known \in Charted : room \in Neighbours(known)
        PROVE  Chart!Next
    <3>1. CASE Charted = {}
      <4>1. Chart!Begin(room)
        BY <2>5, <3>1 DEF Chart!Begin
      <4>. QED  BY <4>1 DEF Chart!Next
    <3>2. CASE \E known \in Charted : room \in Neighbours(known)
      <4>1. Chart!Extend(room)
        BY <2>5, <3>2 DEF Chart!Extend
      <4>. QED  BY <4>1 DEF Chart!Next
    <3>. QED  BY <2>5, <3>1, <3>2
  <2>. QED  BY <2>1, <2>2, <2>3, <2>4, <2>5 DEF Surveys
<1>. QED  BY <1>1, <1>2, StepperRelies, ControlInvariant, StepperKnows, PTL
          DEF Spec, ImplementsSurvey, Chart!Spec

(* A kind of act not spent after a step is not spent by it nor before it.  *)
LEMMA UnspentStep ==
  ASSUME Inv, NEW kind \in Kinds, spent'[kind] = 0
  PROVE  ~Spend(kind)
<1>1. spent \in [Kinds -> Nat]
  BY DEF Inv, World
<1>. SUFFICES ASSUME Spend(kind) PROVE FALSE
  OBVIOUS
<1>2. spent' = [spent EXCEPT ![kind] = spent[kind] + 1]
  BY DEF Spend
<1>3. spent'[kind] = spent[kind] + 1 /\ spent[kind] \in Nat
  BY <1>1, <1>2
<1>. QED  BY <1>3

(* Undisturbed, a run has a connection and what is under way lists the     *)
(* player's room in the end.                                               *)
LEMMA ListsInStep ==
  Spec => [](Undisturbed => Alive(client) /\ Steady(client, frames, here))
<1>. DEFINE InStep == Undisturbed => Alive(client) /\ Steady(client, frames, here)
            Knowing == Undisturbed => Knows(client, frames, here)
<1>1. Init => InStep
  BY LoadedSteady
<1>2. Inv /\ Control(client) /\ Control(client)' /\ Knowing /\ InStep /\ [Next]_vars => InStep'
  <2>. SUFFICES ASSUME Inv, Control(client), Control(client)', Knowing, InStep, [Next]_vars,
                       Undisturbed'
                PROVE  Alive(client') /\ Steady(client', frames', here')
    OBVIOUS
  <2>1. Knows(client, frames, here) /\ Alive(client) /\ Steady(client, frames, here)
    BY DisturbedStays
  <2>2. Ordered(client)
    BY <2>1 DEF Knows, Sure
  <2>. QED  BY <2>1, <2>2, AliveStep, StepSteady
<1>3. Spec => []Knowing
  BY StepperKnows
<1>. HIDE DEF InStep, Knowing
<1>4. Spec => []InStep
  BY <1>1, <1>2, <1>3, StepperRelies, ControlInvariant, PTL DEF Spec
<1>. QED  BY <1>4 DEF InStep

(* A step or an attack follows from the contents of the room the player    *)
(* was last told of, unless the map was reset under the run.               *)
THEOREM DecisionsSeeTheRoom == Spec /\ [](Undisturbed /\ spent.reset = 0) => DecidesOnPresentRoom
<1>. DEFINE Calm == Undisturbed /\ spent.reset = 0
            Knowing == Undisturbed => Knows(client, frames, here)
            InStep == Undisturbed => Alive(client) /\ Steady(client, frames, here)
            Room == Sent(Dirs \cup Words) => client'.view.of = client'.contents.place
<1>1. Init => Present(client)
  BY LoadedSteady
<1>2. Inv /\ Control(client) /\ Control(client)' /\ Knowing /\ InStep /\ Calm /\ Calm'
        /\ Present(client) /\ [Next]_vars => Present(client)' /\ [Room]_vars
  <2>. SUFFICES ASSUME Inv, Control(client), Control(client)', Knowing, InStep, Calm, Calm',
                       Present(client), [Next]_vars
                PROVE  Present(client') /\ [Room]_vars
    OBVIOUS
  <2>1. "reset" \in Kinds /\ spent'["reset"] = 0
    BY DEF Kinds
  <2>2. ~PlayerResets
    BY <2>1, UnspentStep DEF PlayerResets, Command
  <2>3. Present(client') /\ (PlayerWalks \/ Sees(client, client'))
    BY <2>2, StepSteady
  <2>4. ASSUME Sent(Dirs \cup Words) PROVE client'.view.of = client'.contents.place
    <3>1. ~PlayerWalks
      BY <2>4, WalksSpend DEF Sent
    <3>. QED  BY <2>3, <2>4, <3>1 DEF Sent, Sees
  <2>. QED  BY <2>3, <2>4
<1>3. Spec => []Knowing /\ []InStep
  BY StepperKnows, ListsInStep, PTL
<1>4. DecidesOnPresentRoom <=> [][Room]_vars
  BY DEF DecidesOnPresentRoom
<1>. HIDE DEF Calm, Knowing, InStep, Room
<1>5. Spec /\ []Calm => [][Room]_vars
  BY <1>1, <1>2, <1>3, StepperRelies, ControlInvariant, PTL DEF Spec
<1>. QED  BY <1>4, <1>5, PTL DEF Calm

(* A move is sent only when every earlier one was answered and no entry is *)
(* still to come, unless the player typed "out".                           *)
THEOREM StepsWhenSettled == Spec /\ [](Undisturbed /\ spent.out = 0) => StepsOnlyWhenSettled
<1>. DEFINE Calm == Undisturbed /\ spent.out = 0
            Knowing == Undisturbed => Knows(client, frames, here)
            InStep == Undisturbed => Alive(client) /\ Steady(client, frames, here)
            Indoors == Inside(client, frames, here)
            Alone == Sent(Dirs) => ~EntryUnderWay /\ ~MoveUnderWay
<1>1. Init => Indoors
  <2>. SUFFICES ASSUME Init PROVE Indoors
    OBVIOUS
  <2>1. /\ client.active = FALSE /\ client.map = NewMap
    BY DEF Init, Loaded
  <2>2. Loose(client)
    BY <2>1 DEF Loose, HoldsRooms, NewMap, Visited
  <2>. QED  BY <2>2 DEF Inside
<1>2. Inv /\ Control(client) /\ Control(client)' /\ Knowing /\ InStep /\ Calm /\ Calm'
        /\ Indoors /\ [Next]_vars => Indoors' /\ [Alone]_vars
  <2>. SUFFICES ASSUME Inv, Control(client), Control(client)', Knowing, InStep, Calm, Calm',
                       Indoors, [Next]_vars
                PROVE  Indoors' /\ [Alone]_vars
    OBVIOUS
  <2>1. "out" \in Kinds /\ spent'["out"] = 0
    BY DEF Kinds
  <2>2. ~PlayerWalksOut
    BY <2>1, UnspentStep DEF PlayerWalksOut, Command
  <2>3. Indoors'
    BY <2>2, StepInside
  <2>4. ASSUME Sent(Dirs) PROVE ~EntryUnderWay /\ ~MoveUnderWay
    BY <2>2, <2>4, StepSettled
  <2>. QED  BY <2>3, <2>4
<1>3. Spec => []Knowing /\ []InStep
  BY StepperKnows, ListsInStep, PTL
<1>4. StepsOnlyWhenSettled <=> [][Alone]_vars
  BY DEF StepsOnlyWhenSettled
<1>. HIDE DEF Calm, Knowing, InStep, Indoors, Alone
<1>5. Spec /\ []Calm => [][Alone]_vars
  BY <1>1, <1>2, <1>3, StepperRelies, ControlInvariant, PTL DEF Spec
<1>. QED  BY <1>4, <1>5, PTL DEF Calm
=============================================================================
