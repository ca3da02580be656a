----------------------------- MODULE AutoStepper -----------------------------
(***************************************************************************)
(* 3scapes/autostepper: the plugin that walks and fights through an area   *)
(* (init.lua) with the explorer that maps a maze by dead reckoning         *)
(* (explore/mode.lua over explore/map.lua), together with the game at the  *)
(* other end of the connection.                                            *)
(*                                                                         *)
(* The client runs one callback at a time.  A callback is a function of    *)
(* the client record: each Lua function is an operator from client to      *)
(* client, and what it sends is appended to client.wire.  The game takes   *)
(* commands from the wire in order and answers on `frames`, in order; any  *)
(* number of either may be under way when the player types, a timer fires  *)
(* or the game moves the player by itself.                                 *)
(*                                                                         *)
(* A Chaos Sea room tells the client its exits and its layer, never which  *)
(* room it is.  `filed` is a history variable: the room each recorded      *)
(* coordinate was really filed from.                                       *)
(***************************************************************************)
EXTENDS ExploreMap

CONSTANTS
  Maze,       \* Maze[k][p]: the exits of the room at p of the k-th sea
  Casks,      \* the places that hold the cask or the portal
  Lairs,      \* place -> the monsters first standing there
  Ignored, Targets,   \* monsters on the ignore list; monsters the vocabulary names
  NoMonster,
  Words,      \* what monsters may be called by
  Keyword,    \* the word that the stepper calls a monster by, perhaps a guess
  Answers,    \* the words that a monster answers to
  Route,      \* the stored speedwalk, one command per element; <<>> for no place
  Config,     \* auto_attack, targets_only, step_on_player, policy
  Numbered,   \* the game numbers its rooms (the Chaos Sea does not)
  MaySee,     \* what a contents list may report besides the room: players, truncated
  Limit,      \* how often each kind of interference may happen
  Eager       \* TRUE: the player also acts while the fresh map awaits its first room

Kinds == {"start", "stop", "reset", "leave", "farm", "hand", "out", "redive", "drop",
          "silent", "reload", "block", "hush", "late", "unanswered", "wimpy", "stray"}

ASSUME LimitAssumption == Limit \in [Kinds -> Nat]
ASSUME EagerAssumption == Eager \in BOOLEAN /\ Numbered \in BOOLEAN
ASSUME ConfigAssumption ==
  Config \in [auto_attack : BOOLEAN, targets_only : BOOLEAN, step_on_player : BOOLEAN,
              policy : {"clear", "dive"}]

VARIABLES
  client,   \* the plugin's state, roominfo's cache and the commands under way
  here,     \* the room the player is really in
  sea,      \* the number of seas made so far
  mobs,     \* place -> the monsters standing there
  combat,   \* the game has the player in a fight
  frames,   \* frames and lines on their way to the client
  spent     \* how often each bounded kind of event has happened

vars == <<client, here, sea, mobs, combat, frames, spent>>

Lobby == [sea |-> 0, at |-> Origin]
SeaPlaces(k) == {[sea |-> k, at |-> p] : p \in DOMAIN Maze[k]}
Places == {Lobby} \cup UNION {SeaPlaces(k) : k \in DOMAIN Maze}

Monsters == UNION {{Lairs[p][i] : i \in DOMAIN Lairs[p]} : p \in Places}

(* Every sea has an entrance, and its doors lead to its own rooms.         *)
ASSUME MazeAssumption ==
  /\ Len(Maze) \in Nat \ {0} /\ DOMAIN Maze = 1 .. Len(Maze)
  /\ \A k \in DOMAIN Maze :
       /\ Origin \in DOMAIN Maze[k] /\ DOMAIN Maze[k] \subseteq Int \X Int \X Int
       /\ \A p \in DOMAIN Maze[k] :
            /\ Maze[k][p] \subseteq Dirs \cup {"out", "enter", "in"}
            /\ \A dir \in Maze[k][p] \cap Dirs : Plus(p, Delta[dir]) \in DOMAIN Maze[k]

(* An attack is written as the word attacked.                              *)
Orders == Dirs \cup {"refresh", "portal", "newsea", "out", "open"}
Commands == Orders \cup Words

ASSUME WordsAssumption ==
  /\ Words \cap Orders = {}
  /\ \A m \in Monsters : Keyword[m] \in Words /\ Answers[m] \subseteq Words

ASSUME WorldAssumption ==
  /\ Lairs \in [Places -> Seq(Monsters)]
  /\ Route \in Seq(Dirs \cup {"open"})
  /\ MaySee \subseteq [players : BOOLEAN, truncated : BOOLEAN]

Entrance(k) == [sea |-> k, at |-> Origin]
ExitsOf(place) == IF place = Lobby THEN {} ELSE Maze[place.sea][place.at]
Towards(place, dir) == [place EXCEPT !.at = Plus(@, Delta[dir])]

-----------------------------------------------------------------------------
(* The area profile (areas/chaossea.lua) and its filter on exits.          *)

InArea(place) == place # Lobby
Walkable(place) == ExitsOf(place) \ {"out", "enter", "in"}
DiveDirs == {"d"}
DeferDirs == {"u"}

(* explore/mode.lua                                                        *)

Blank(c) == [c EXCEPT !.map = NewMap, !.filed = <<>>, !.pending = <<>>,
                      !.leaving = FALSE, !.leave = <<>>]

ExploreStart(c) == [Blank(c) EXCEPT !.held = TRUE, !.active = TRUE, !.unanchored = FALSE]

Pause(c, keep) ==
  [c EXCEPT !.active = FALSE, !.leaving = FALSE, !.leave = <<>>,
            !.pending = IF keep /\ Len(@) = 1 THEN @ ELSE <<>>]

Discard(c) == [Blank(c) EXCEPT !.active = FALSE, !.held = FALSE]

(* Mutant: a reset moves the origin but keeps the rooms.                   *)
ResetKeepsRooms(c) == IF c.held THEN [c EXCEPT !.map.pos = Origin, !.pending = <<>>] ELSE c

ResetMap(c) == IF c.held THEN [Blank(c) EXCEPT !.unanchored = TRUE] ELSE c

Resume(c) == IF ~c.active /\ c.held /\ InArea(c.info)
             THEN [c EXCEPT !.active = TRUE, !.pending = <<>>] ELSE c

InFlight(c) == ~c.active /\ c.pending # <<>>
HoldsRooms(c) == Visited(c.map) # {}

FileRoom(c) ==
  LET m == Record(c.map, Walkable(c.info))
  IN [c EXCEPT !.map = m,
               !.filed = [p \in Visited(m) |-> IF p = m.pos THEN c.info ELSE c.filed[p]]]

(* An arrival: commit one pending direction, take the layer from the room  *)
(* name, and start a new map when the room contradicts what is recorded.   *)
(* `disputed` tells the caller that the layer or the exits disagreed.      *)
Arrive(c) ==
  LET m == IF c.pending = <<>> THEN c.map ELSE Move(c.map, Head(c.pending))
      layer == c.info.at[3]
      pos == <<m.pos[1], m.pos[2], layer>>
      corrected == layer # m.pos[3] /\ ~(c.unanchored /\ ~HoldsRooms(c))
      contradicted == pos \in Visited(m) /\ m.rooms[pos] # Walkable(c.info) \cap Dirs
      moved == [c EXCEPT !.map = SetPosition(m, pos), !.unanchored = FALSE,
                         !.disputed = corrected,
                         !.pending = IF @ = <<>> THEN @ ELSE Tail(@)]
  IN IF ~InArea(c.info) THEN Discard(c)
     ELSE IF contradicted
          THEN FileRoom([ResetMap(moved) EXCEPT !.map.pos = <<0, 0, layer>>,
                                                !.disputed = TRUE])
     ELSE FileRoom(moved)

(* leave(): arm the walk back to the origin, unless a move is unconfirmed. *)
Leave(c) ==
  LET home == PathTo(c.map, Origin)
  IN IF c.active /\ c.pending = <<>> /\ home.found /\ home.path # <<>>
     THEN [c EXCEPT !.leaving = TRUE, !.leave = home.path] ELSE c

(* What next_step() answers: the commands, <<>> for none, and why none.    *)
NextStep(c) ==
  LET frontier == NextFrontier(c.map, Config.policy, DiveDirs, DeferDirs)
  IN IF c.pending # <<>> THEN [path |-> <<>>, why |-> "in flight"]
     ELSE IF c.leaving
          THEN IF c.leave = <<>> THEN [path |-> <<>>, why |-> "at origin"]
               ELSE [path |-> <<Head(c.leave)>>, why |-> "leaving"]
     ELSE IF frontier = <<>> THEN [path |-> <<>>, why |-> "exhausted"]
     ELSE [path |-> frontier, why |-> "frontier"]

-----------------------------------------------------------------------------
(* init.lua: stopping, waiting, sending                                    *)

Send(c, cmds) == IF c.online THEN [c EXCEPT !.wire = @ \o cmds] ELSE c

(* M.stop().  A single explore move still inside its arrival window is     *)
(* held; an interrupted frontier speedwalk costs the map.                  *)
Stop(c, timed_out) ==
  LET hold == /\ c.enabled /\ c.mode = "explore" /\ c.state = "stepping"
              /\ c.arrival = "move" /\ ~timed_out /\ ~c.batch
      paused == IF c.batch THEN Discard(c) ELSE IF c.active THEN Pause(c, hold) ELSE c
  IN [paused EXCEPT !.enabled = FALSE, !.mode = "none", !.state = "idle",
                    !.arrival = "none", !.batch = FALSE, !.waits = 0,
                    !.walk = <<>>, !.target = NoMonster, !.farm_timer = FALSE,
                    !.hold_timer = hold /\ c.active /\ InFlight(paused)]

(* A run that ends by itself keeps run_mode and its view.                  *)
EndRun(c, why) == [c EXCEPT !.enabled = FALSE, !.state = "idle", !.arrival = "none",
                            !.ended = why]

AwaitArrival(c, kind) == [c EXCEPT !.state = "stepping", !.arrival = kind]

(* gmcp.send("Room.Refresh"): fails, and stops the run, when offline.      *)
RequestRefresh(c) == IF c.online THEN Send(c, <<"refresh">>) ELSE Stop(c, FALSE)

Redive(c) == IF ~c.held THEN c
             ELSE Discard(IF c.batch THEN Stop(c, FALSE) ELSE c)

-----------------------------------------------------------------------------
(* init.lua: the decision in a room                                        *)

AtCask(c) == c.mode = "explore" /\ c.held /\ c.contents.place \in Casks

(* The places on the list of monsters that count, and that may be attacked. *)
Standing(c) == {i \in DOMAIN c.view.monsters : c.view.monsters[i] \notin Ignored}
Attackable(c) ==
  {i \in Standing(c) : ~Config.targets_only \/ c.view.monsters[i] \in Targets}
First(c, listed) == c.view.monsters[CHOOSE i \in listed : \A j \in listed : i <= j]

(* Mutant: a room is told by its name, the same for a whole layer.         *)
KeyByName(c) == [kind |-> "name", is |-> <<c.info.sea > 0, c.info.at[3]>>]

Key(c) == IF c.active THEN [kind |-> "xyz", is |-> c.map.pos]
          ELSE IF Numbered THEN [kind |-> "id", is |-> c.info]
          ELSE [kind |-> "name", is |-> <<c.info.sea > 0, c.info.at[3]>>]

SeenIn(c, key) == [key |-> key, monsters |-> c.contents.monsters,
                   players |-> c.contents.players, of |-> c.contents.place]

SyncView(c) == IF Key(c) = c.view.key THEN c
               ELSE [c EXCEPT !.view = SeenIn(c, Key(c)), !.target = NoMonster]

Attack(c, mob) == Send([c EXCEPT !.state = "fighting", !.target = mob],
                         <<Keyword[mob]>>)

(* Mutant: a truncated contents list is taken for an empty room.           *)
FinishSeaUnseen(c) ==
  IF c.farm THEN [Pause(EndRun(c, "complete"), FALSE) EXCEPT !.farm_timer = TRUE]
  ELSE Send(Discard(EndRun(c, "complete")), <<"portal">>)

(* The sea is finished: farm the next one, or leave it through the portal. *)
FinishSea(c) ==
  IF c.contents.truncated THEN Stop(c, FALSE)
  ELSE IF c.farm THEN [Pause(EndRun(c, "complete"), FALSE) EXCEPT !.farm_timer = TRUE]
  ELSE Send(Discard(EndRun(c, "complete")), <<"portal">>)

(* Send what the explorer chose, or end the run for want of a step.        *)
Take(c, next) ==
  IF next.path = <<>> THEN Pause(EndRun(c, next.why), FALSE)
  ELSE Send([AwaitArrival(c, "move") EXCEPT
               !.pending = next.path,
               !.leave = IF c.leaving THEN Tail(@) ELSE @,
               !.batch = Len(next.path) > 1], next.path)

ExploreStep(c) ==
  IF ~c.active THEN EndRun(c, "left the area")
  ELSE IF AtCask(c) /\ Standing(c) = {} THEN FinishSea(c)
  ELSE Take(c, NextStep(c))

(* Mutant: the route is sent three commands at a time.                     *)
RouteByThrees(c) ==
  IF c.walk = <<>> THEN EndRun(c, "route complete")
  ELSE LET n == IF Len(c.walk) < 3 THEN Len(c.walk) ELSE 3
       IN Send(AwaitArrival([c EXCEPT !.walk = SubSeq(@, n + 1, Len(@))], "move"),
               SubSeq(c.walk, 1, n))

(* Preparation commands, then exactly one that may move the player.        *)
RouteStep(c) ==
  LET moves == {i \in DOMAIN c.walk : c.walk[i] # "open"}
      n == CHOOSE i \in moves : \A j \in moves : i <= j
  IN IF moves = {} THEN EndRun(Send([c EXCEPT !.walk = <<>>], c.walk), "route complete")
     ELSE Send(AwaitArrival([c EXCEPT !.walk = SubSeq(@, n + 1, Len(@)), !.batch = FALSE],
                            "move"),
               SubSeq(c.walk, 1, n))

DoStep(c) == IF c.mode = "explore" THEN ExploreStep(c) ELSE RouteStep(c)

(* process_room()                                                          *)
ProcessRoom(c0) ==
  LET c == SyncView(c0)
  IN IF AtCask(c) /\ Standing(c) # {}
     THEN IF Config.auto_attack THEN Attack(c, First(c, Standing(c))) ELSE Stop(c, FALSE)
     ELSE IF c.view.players /\ Config.step_on_player THEN DoStep(c)
     ELSE IF Attackable(c) # {} /\ Config.auto_attack
          THEN Attack(c, First(c, Attackable(c)))
     ELSE DoStep(c)

-----------------------------------------------------------------------------
(* init.lua: the frame handlers                                            *)

CompleteArrival(c) ==
  LET a == IF c.active THEN Arrive([c EXCEPT !.disputed = FALSE]) ELSE c
  IN IF c.batch /\ (~a.active \/ a.disputed) THEN Stop(a, FALSE)
     ELSE IF c.batch /\ a.pending # <<>> THEN AwaitArrival(a, "move")
     ELSE ProcessRoom([a EXCEPT !.batch = FALSE, !.arrival = "none", !.state = "idle"])

ReseedAndDecide(c) ==
  ProcessRoom([c EXCEPT !.waits = 0, !.view = SeenIn(c, @.key), !.target = NoMonster,
                        !.state = "idle"])

(* Mutant: an entry nobody asked for is ignored.                           *)
UnaskedIgnored(c) == [handled |-> TRUE, client |-> c]

(* An entry no step asked for settles a held move, or drops the map.       *)
OnUnaskedEntry(c) ==
  LET d == IF HoldsRooms(c) THEN ResetMap(c) ELSE c
  IN IF ~c.enabled /\ InFlight(c)
     THEN [handled |-> TRUE, client |-> Arrive([c EXCEPT !.hold_timer = FALSE])]
     ELSE IF c.enabled /\ c.mode = "explore"
          THEN [handled |-> TRUE, client |-> Stop(d, FALSE)]
     ELSE [handled |-> FALSE, client |-> d]

(* Mutant: any contents list, a refresh too, is taken for the arrival.     *)
AnyContentsArrive(c) ==
  IF ~c.enabled THEN c
  ELSE IF c.waits > 0
       THEN IF c.contents.entry THEN Stop(c, FALSE) ELSE ReseedAndDecide(c)
  ELSE IF c.state = "stepping" THEN CompleteArrival(c) ELSE c

OnAskedContents(c) ==
  IF ~c.enabled THEN c
  ELSE IF c.waits > 0
       THEN IF c.contents.entry THEN Stop(c, FALSE) ELSE ReseedAndDecide(c)
  ELSE IF \/ c.state # "stepping"
          \/ c.arrival # "refresh" /\ ~c.contents.entry
          \/ c.arrival = "setup" /\ ~(c.held /\ InArea(c.info))
       THEN c
  ELSE CompleteArrival(c)

OnRoomContents(c0, frame) ==
  LET c == [c0 EXCEPT !.contents = frame]
      resuming == c.arrival = "refresh" /\ c.mode = "explore" /\ HoldsRooms(c)
      ours == c.enabled /\ c.state = "stepping" /\ ~resuming
      moved == IF frame.entry /\ ~ours THEN OnUnaskedEntry(c)
               ELSE [handled |-> FALSE, client |-> c]
  IN IF moved.handled THEN moved.client ELSE OnAskedContents(moved.client)

(* Mutant: the end of a fight is believed without asking.                  *)
CombatEndBelieved(c) ==
  IF c.state # "fighting" THEN c
  ELSE ProcessRoom([c EXCEPT !.view.monsters = <<>>, !.target = NoMonster, !.state = "idle"])

OnCombatEnd(c) ==
  IF c.state # "fighting" \/ c.waits > 0 THEN c
  ELSE RequestRefresh([c EXCEPT !.waits = 1])

Forget(seq, mob) ==
  IF \E i \in DOMAIN seq : seq[i] = mob
  THEN LET i == IndexOf(seq, mob)
       IN SubSeq(seq, 1, i - 1) \o SubSeq(seq, i + 1, Len(seq))
  ELSE seq

(* "There is no ... here", but not about the attack that is waited for.    *)
Elsewhere(c, word) ==
  \/ c.state # "fighting" \/ c.waits > 0
  \/ c.target = NoMonster \/ word # Keyword[c.target]

(* Mutants: nobody watches for a failed attack; and the target is struck   *)
(* but the room is not decided again.                                      *)
NoTargetIgnored(c, word) == c

NoTargetUndecided(c, word) ==
  IF Elsewhere(c, word) THEN c
  ELSE [c EXCEPT !.view.monsters = Forget(@, c.target), !.target = NoMonster,
                 !.state = "idle"]

OnNoTarget(c, word) ==
  IF Elsewhere(c, word) THEN c
  ELSE ProcessRoom([c EXCEPT !.view.monsters = Forget(@, c.target),
                             !.target = NoMonster, !.state = "idle"])

OnBlocked(c) ==
  IF c.enabled /\ c.state = "stepping" /\ c.arrival = "move" /\ c.batch
  THEN Stop(c, FALSE) ELSE c

-----------------------------------------------------------------------------
(* init.lua: commands                                                      *)

StartRun(c0, from_entry) ==
  LET c == Resume(c0)
      fresh == [c EXCEPT !.mode = IF c.active THEN "explore" ELSE "route",
                         !.farm_timer = FALSE, !.hold_timer = FALSE,
                         !.enabled = TRUE, !.waits = 0, !.target = NoMonster,
                         !.walk = IF c.active THEN <<>> ELSE Route,
                         !.view.key = [kind |-> "none", is |-> <<>>],
                         !.ended = "none"]
      waiting == AwaitArrival(fresh, IF from_entry THEN "setup" ELSE "refresh")
  IN IF c0.enabled THEN c0
     ELSE IF ~c.active /\ Route = <<>> THEN [c EXCEPT !.mode = "route"]
     ELSE IF from_entry THEN waiting ELSE RequestRefresh(waiting)

(* "/step explore": resume what is held, else map afresh.                  *)
ExploreCommand(c) ==
  IF Resume(c) # c THEN StartRun(Resume(c), FALSE)
  ELSE IF c.enabled THEN c ELSE StartRun(ExploreStart(c), FALSE)

(* "/step explore chaossea": always afresh.                                *)
ExploreAreaCommand(c) == IF c.enabled THEN c ELSE StartRun(ExploreStart(c), FALSE)

ExploreOffCommand(c) == Stop(IF c.active THEN Pause(c, FALSE) ELSE c, FALSE)

ExploreResetCommand(c) ==
  IF c.batch THEN Stop(c, FALSE)
  ELSE IF c.held THEN Send(ResetMap(c), <<"refresh">>) ELSE c

(* The setup sequence: its "setsea" on the way out discards the old map.   *)
RestartSea(c) ==
  LET sent == Redive(Send(c, <<"portal", "newsea">>))
  IN IF sent.enabled THEN sent ELSE StartRun(ExploreStart(sent), TRUE)

(* Mutant: a typed direction stops the run but leaves its map.             *)
HandMoveKeepsMap(c) ==
  IF HoldsRooms(c) /\ c.enabled /\ c.mode = "explore" THEN Stop(c, FALSE) ELSE c

(* check_hand_move(): a typed direction stops the run and drops the map.   *)
OnHandMove(c) ==
  LET stopped == IF c.enabled /\ c.mode = "explore" THEN Stop(c, FALSE) ELSE c
  IN IF HoldsRooms(c) THEN ResetMap([stopped EXCEPT !.hold_timer = FALSE]) ELSE c

(* Mutant: a held move survives the connection it was sent on.             *)
DisconnectKeepsMove(c) == [Stop(c, FALSE) EXCEPT !.hold_timer = FALSE]

OnDisconnect(c) ==
  [Stop(c, FALSE) EXCEPT !.hold_timer = FALSE, !.pending = <<>>]

Unload(c) == [Discard(Stop(c, FALSE)) EXCEPT !.farm = FALSE]

-----------------------------------------------------------------------------
(* The bounds, and when the player acts.                                   *)

Spend(kind) == /\ spent[kind] < Limit[kind]
               /\ spent' = [spent EXCEPT ![kind] = @ + 1]

Quiet == client.wire = <<>> /\ frames = <<>>

(* A patient player maps from nothing only once the game has caught up,    *)
(* resumes only once earlier refreshes are answered (moves may still be    *)
(* under way), and types no direction while a run awaits the first room of *)
(* its map.                                                                *)
RefreshUnderWay ==
  \/ \E i \in DOMAIN client.wire : client.wire[i] = "refresh"
  \/ \E i \in DOMAIN frames : frames[i].kind = "contents" /\ ~frames[i].entry

MayStart(c) == \/ Eager \/ Quiet
               \/ HoldsRooms(c) /\ ~RefreshUnderWay
MayWalk == Eager \/ HoldsRooms(client) \/ ~client.enabled

-----------------------------------------------------------------------------
(* The game (outside src/): modelled from what the handlers expect of it.  *)

Took(cmd) == client.wire # <<>> /\ Head(client.wire) = cmd
Taken == [client EXCEPT !.wire = Tail(@)]

ContentsOf(place, entry, seen) ==
  [kind |-> "contents", place |-> place, entry |-> entry, players |-> seen.players,
   truncated |-> seen.truncated,
   monsters |-> IF seen.truncated THEN <<>> ELSE mobs[place]]

Entry(place, seen) == <<[kind |-> "info", place |-> place], ContentsOf(place, TRUE, seen)>>
CombatEnd == <<[kind |-> "combat_end"]>>
Blocked == <<[kind |-> "blocked"]>>
NoTarget(word) == <<[kind |-> "no_target", word |-> word]>>

(* Walking away ends a fight.                                              *)
Arriving(place, seen) == Entry(place, seen) \o (IF combat THEN CombatEnd ELSE <<>>)

Goes(place, before) ==
  /\ here' = place
  /\ combat' = FALSE
  /\ \E seen \in MaySee : frames' = frames \o before \o Arriving(place, seen)

Stays(lines) == frames' = frames \o lines /\ UNCHANGED <<here, combat>>

(* A direction: taken, or blocked with or without a line saying so.  The   *)
(* warning is also printed for a player whom the blocker lets pass.        *)
GameMoves ==
  /\ \E dir \in Dirs :
       /\ Took(dir)
       /\ IF dir \in ExitsOf(here)
          THEN \/ Goes(Towards(here, dir), <<>>) /\ UNCHANGED spent
               \/ Spend("block") /\ Goes(Towards(here, dir), Blocked)
               \/ Spend("block") /\ Stays(Blocked)
               \/ Spend("hush") /\ Stays(<<>>)
          ELSE Stays(Blocked) /\ UNCHANGED spent
  /\ client' = Taken
  /\ UNCHANGED <<sea, mobs>>

GameLeaves ==
  /\ \/ Took("out") /\ here.at = Origin /\ here # Lobby
     \/ Took("portal") /\ here \in Casks
  /\ Goes(Lobby, <<>>)
  /\ client' = Taken
  /\ UNCHANGED <<sea, mobs, spent>>

GameEntersSea ==
  /\ Took("newsea")
  /\ here = Lobby /\ sea < Len(Maze)
  /\ sea' = sea + 1
  /\ Goes(Entrance(sea + 1), <<>>)
  /\ client' = Taken
  /\ UNCHANGED <<mobs, spent>>

GameIgnores ==
  /\ \/ Took("out") /\ (here.at # Origin \/ here = Lobby)
     \/ Took("portal") /\ here \notin Casks
     \/ Took("newsea") /\ (here # Lobby \/ sea = Len(Maze))
     \/ Took("open")
  /\ client' = Taken
  /\ UNCHANGED <<here, sea, mobs, combat, frames, spent>>

Residents(place) == {mobs[place][i] : i \in DOMAIN mobs[place]}

(* The word is that of a monster in the room, or the attack does not       *)
(* resolve.                                                                *)
GameFights ==
  /\ \E word \in Words :
       /\ Took(word)
       /\ IF \E m \in Residents(here) : word \in Answers[m]
          THEN combat' = TRUE /\ UNCHANGED <<here, frames>>
          ELSE Stays(NoTarget(word))
  /\ client' = Taken
  /\ UNCHANGED <<sea, mobs, spent>>

GameRefreshes ==
  /\ Took("refresh")
  /\ client' = Taken
  /\ \/ \E seen \in MaySee : frames' = Append(frames, ContentsOf(here, FALSE, seen))
        /\ UNCHANGED spent
     \/ Spend("unanswered") /\ UNCHANGED frames
  /\ UNCHANGED <<here, sea, mobs, combat>>

MonsterDies ==
  /\ combat
  /\ \E m \in Residents(here) : mobs' = [mobs EXCEPT ![here] = Forget(@, m)]
  /\ combat' = FALSE
  /\ frames' = frames \o CombatEnd
  /\ UNCHANGED <<client, here, sea, spent>>

(* Wimpy: the player flees, and the end of the fight may be told first.    *)
Wimpy ==
  /\ combat
  /\ Spend("wimpy")
  /\ \E dir \in Walkable(here), seen \in MaySee :
       LET there == Towards(here, dir)
       IN /\ here' = there
          /\ \/ frames' = frames \o Entry(there, seen) \o CombatEnd
             \/ frames' = frames \o CombatEnd \o Entry(there, seen)
  /\ combat' = FALSE
  /\ UNCHANGED <<client, sea, mobs>>

(* Char.Combat snapshots are sent for other reasons than the end of a      *)
(* fight; one without an attacker may be under way when an attack starts.  *)
StrayCombatFrame ==
  /\ ~combat
  /\ client.online
  /\ Spend("stray")
  /\ frames' = frames \o CombatEnd
  /\ UNCHANGED <<client, here, sea, mobs, combat>>

Game == \/ GameMoves \/ GameLeaves \/ GameEntersSea \/ GameIgnores
        \/ GameFights \/ GameRefreshes \/ MonsterDies

-----------------------------------------------------------------------------
(* The client: one action per callback.                                    *)

Client(c) == client' = c /\ UNCHANGED <<here, sea, mobs, combat>>

Next1(kind) == frames # <<>> /\ Head(frames).kind = kind /\ frames' = Tail(frames)

ReceiveInfo ==
  /\ Next1("info")
  /\ Client([client EXCEPT !.info = Head(frames).place])
  /\ UNCHANGED spent

ReceiveContents ==
  /\ Next1("contents")
  /\ Client(OnRoomContents(client, Head(frames)))
  /\ UNCHANGED spent

ReceiveCombatEnd ==
  /\ Next1("combat_end")
  /\ Client(OnCombatEnd(client))
  /\ UNCHANGED spent

ReceiveNoTarget ==
  /\ Next1("no_target")
  /\ Client(OnNoTarget(client, Head(frames).word))
  /\ UNCHANGED spent

ReceiveBlocked ==
  /\ Next1("blocked")
  /\ Client(OnBlocked(client))
  /\ UNCHANGED spent

Receive == \/ ReceiveInfo \/ ReceiveContents \/ ReceiveCombatEnd
           \/ ReceiveNoTarget \/ ReceiveBlocked

(* A timer of a few seconds normally fires when nothing more is coming;    *)
(* "late" bounds how often the answer was merely slow.                     *)
Fires == \/ Quiet /\ ~combat /\ UNCHANGED spent
         \/ Spend("late")

ArrivalTimeout ==
  /\ client.arrival # "none"
  /\ Fires
  /\ Client(Stop(client, TRUE))
  /\ UNCHANGED frames

HeldMoveTimeout ==
  /\ client.hold_timer
  /\ Fires
  /\ Client([client EXCEPT !.hold_timer = FALSE,
                           !.pending = IF InFlight(client) THEN <<>> ELSE @])
  /\ UNCHANGED frames

(* Mutant: one attempt too many.                                           *)
RefreshTimeoutOffByOne ==
  /\ client.waits > 0
  /\ Fires
  /\ Client(IF client.waits <= 3
            THEN RequestRefresh([client EXCEPT !.waits = @ + 1])
            ELSE Stop(client, FALSE))
  /\ UNCHANGED frames

RefreshTimeout ==
  /\ client.waits > 0
  /\ Fires
  /\ Client(IF client.waits < 3
            THEN RequestRefresh([client EXCEPT !.waits = @ + 1])
            ELSE Stop(client, FALSE))
  /\ UNCHANGED frames

FarmTimer ==
  /\ client.farm_timer
  /\ Client(LET fired == [client EXCEPT !.farm_timer = FALSE]
            IN IF client.farm THEN RestartSea(fired) ELSE fired)
  /\ UNCHANGED <<frames, spent>>

Timers == ArrivalTimeout \/ HeldMoveTimeout \/ RefreshTimeout \/ FarmTimer

-----------------------------------------------------------------------------
(* The player.                                                             *)

Command(kind, c) == Spend(kind) /\ Client(c) /\ UNCHANGED frames

PlayerStarts ==
  \E c \in {StartRun(client, FALSE), ExploreCommand(client), ExploreAreaCommand(client)} :
    c # client /\ MayStart(c) /\ Command("start", c)

PlayerStops ==
  \E c \in {Stop(client, FALSE), ExploreOffCommand(client)} :
    c # client /\ Command("stop", c)

PlayerResets == client.held /\ Command("reset", ExploreResetCommand(client))

PlayerLeaves == Leave(client) # client /\ Command("leave", Leave(client))

(* Mutant: turning the farm off leaves its restart scheduled.              *)
FarmOffKeepsTimer ==
  Command("farm", [client EXCEPT !.farm = ~@])

PlayerFarms == \/ ~client.farm /\ Command("farm", [client EXCEPT !.farm = TRUE])
               \/ /\ client.farm
                  /\ Command("farm", [client EXCEPT !.farm = FALSE, !.farm_timer = FALSE])

PlayerWalks ==
  /\ client.online /\ MayWalk
  /\ \E dir \in ExitsOf(here) \cap Dirs :
       Command("hand", Send(OnHandMove(client), <<dir>>))

PlayerWalksOut ==
  /\ client.online /\ "out" \in ExitsOf(here)
  /\ Command("out", Send(client, <<"out">>))

PlayerRedives ==
  /\ client.online
  /\ Command("redive", Send(Redive(client), <<"newsea">>))

(* The connection drops: nothing under way arrives.  "silent" bounds how   *)
(* often the game had already acted on a move whose entry is lost.         *)
Disconnect ==
  /\ client.online
  /\ client' = [OnDisconnect(client) EXCEPT !.online = FALSE, !.wire = <<>>]
  /\ frames' = <<>>
  /\ combat' = FALSE
  /\ spent.drop < Limit.drop
  /\ IF \E i \in DOMAIN frames : frames[i].kind = "contents" /\ frames[i].entry
     THEN /\ spent.silent < Limit.silent
          /\ spent' = [spent EXCEPT !.drop = @ + 1, !.silent = @ + 1]
     ELSE spent' = [spent EXCEPT !.drop = @ + 1]
  /\ UNCHANGED <<here, sea, mobs>>

(* The new session is sent a snapshot, which is not an entry.              *)
Reconnect ==
  /\ ~client.online
  /\ client' = [client EXCEPT !.online = TRUE]
  /\ \E seen \in MaySee :
       frames' = <<[kind |-> "info", place |-> here], ContentsOf(here, FALSE, seen)>>
  /\ UNCHANGED <<here, sea, mobs, combat, spent>>

Reload == Command("reload", Unload(client))

Player == \/ PlayerStarts \/ PlayerStops \/ PlayerResets \/ PlayerLeaves \/ PlayerFarms
          \/ PlayerWalks \/ PlayerWalksOut \/ PlayerRedives \/ Disconnect \/ Reload

-----------------------------------------------------------------------------
(* The plugin is loaded in the first room of the first sea, with roominfo  *)
(* already told about it.                                                  *)
Loaded ==
  LET place == Entrance(1)
  IN [enabled |-> FALSE, mode |-> "none", state |-> "idle", arrival |-> "none",
      batch |-> FALSE, waits |-> 0, hold_timer |-> FALSE, target |-> NoMonster,
      active |-> FALSE, held |-> FALSE, unanchored |-> FALSE, disputed |-> FALSE,
      map |-> NewMap, filed |-> <<>>, pending |-> <<>>, leaving |-> FALSE, leave |-> <<>>,
      view |-> [key |-> [kind |-> "none", is |-> <<>>], monsters |-> <<>>,
                players |-> FALSE, of |-> place],
      walk |-> <<>>, farm |-> FALSE, farm_timer |-> FALSE, ended |-> "none",
      info |-> place,
      contents |-> [kind |-> "contents", place |-> place, entry |-> TRUE, players |-> FALSE,
                    truncated |-> FALSE, monsters |-> Lairs[place]],
      wire |-> <<>>, online |-> TRUE]

Init ==
  /\ client = Loaded
  /\ here = Entrance(1)
  /\ sea = 1
  /\ mobs = Lairs
  /\ combat = FALSE
  /\ frames = <<>>
  /\ spent = [kind \in Kinds |-> 0]

Next == Game \/ Wimpy \/ StrayCombatFrame \/ Receive \/ Timers \/ Player \/ Reconnect

Spec == Init /\ [][Next]_vars
(* Commands are answered, frames are delivered, fights end and a timer     *)
(* fires when nothing is coming; the player need do nothing.  Delivery is  *)
(* WF_vars(Receive), written out: some frame can be received exactly when  *)
(* there is one.                                                           *)
Delivery == []<>(frames = <<>>) \/ []<><<Receive>>_vars

Fairness == WF_vars(Game) /\ Delivery /\ WF_vars(Timers /\ Quiet)

FairSpec == Spec /\ Fairness

-----------------------------------------------------------------------------
(* Types.                                                                  *)

PartialMap(S, T) == UNION {[D -> T] : D \in SUBSET S}
Coordinate(p) == p \in Int \X Int \X Int

ControlType(c) ==
  /\ c.enabled \in BOOLEAN /\ c.active \in BOOLEAN /\ c.held \in BOOLEAN
  /\ c.mode \in {"none", "explore", "route"}
  /\ c.state \in {"idle", "stepping", "fighting"}
  /\ c.arrival \in {"none", "refresh", "setup", "move"}
  /\ c.batch \in BOOLEAN /\ c.leaving \in BOOLEAN /\ c.unanchored \in BOOLEAN
  /\ c.waits \in 0 .. 3
  /\ c.hold_timer \in BOOLEAN /\ c.farm \in BOOLEAN /\ c.farm_timer \in BOOLEAN
  /\ c.online \in BOOLEAN

(* The plugin's tables hold what their readers expect: coordinates filed   *)
(* with exits, routes of directions, monsters that exist.                  *)
TypeOK ==
  /\ ControlType(client)
  /\ \A p \in Visited(client.map) : Coordinate(p) /\ client.map.rooms[p] \subseteq Dirs
  /\ Coordinate(client.map.pos)
  /\ DOMAIN client.filed = Visited(client.map)
  /\ \A p \in DOMAIN client.filed : client.filed[p] \in Places \ {Lobby}
  /\ \A route \in {client.pending, client.leave} : route \in Seq(Dirs)
  /\ client.wire \in Seq(Commands)
  /\ client.info \in Places
  /\ client.view.monsters \in Seq(Monsters)
  /\ client.target \in Monsters \cup {NoMonster}
  /\ here \in Places /\ sea \in 1 .. Len(Maze) /\ combat \in BOOLEAN
  /\ spent \in [Kinds -> Nat]

-----------------------------------------------------------------------------
(* Properties of the stepper.                                              *)

(* An enabled run always waits for something that ends the wait: an entry  *)
(* or a refresh under a timer, or the end of a fight; and a stopped one    *)
(* waits for nothing (begin_arrival_wait, M.stop, do_step).                *)
RunAlwaysWaiting ==
  /\ client.enabled => \/ client.state = "stepping" /\ client.arrival # "none"
                       \/ client.state = "fighting" /\ client.arrival = "none"
  /\ ~client.enabled => /\ client.state = "idle" /\ client.arrival = "none"
                        /\ client.waits = 0 /\ ~client.batch
  /\ client.waits > 0 => client.state = "fighting"

(* Every recorded room lies where it was filed, relative to every other:   *)
(* no move was committed twice, dropped, or attributed to another entry    *)
(* (mode.lua arrive(), "dead reckoned"; init.lua on_unasked_entry).        *)
MapFaithful ==
  \A p, q \in Visited(client.map) :
    LET a == client.filed[p]   b == client.filed[q]
    IN /\ a.sea = b.sea
       /\ \A i \in 1 .. 3 : a.at[i] - p[i] = b.at[i] - q[i]

(* Whenever nothing is under way, a map that holds rooms knows which of    *)
(* them the player stands in, running or paused.                           *)
PositionKnown ==
  Quiet /\ client.online /\ HoldsRooms(client) =>
    /\ client.map.pos \in Visited(client.map)
    /\ client.filed[client.map.pos] = here

(* A farm restart is pending only after a run that completed its sea, and  *)
(* never beside a run (cancel_farm_restart in M.start and M.stop).         *)
RestartOnlyAfterCompletion ==
  client.farm_timer => client.farm /\ ~client.enabled /\ client.ended = "complete"

(* A move is held for the explorer of this connection: one direction, over *)
(* a map that is kept and knows rooms, with no explore run going on beside *)
(* it; a disconnect, a reload, a discard and a reset take it along         *)
(* (M.stop, resume, discard, reset, drop_in_flight).                       *)
HeldMoveBelongs ==
  InFlight(client) => /\ client.online /\ client.held
                      /\ Len(client.pending) = 1 /\ HoldsRooms(client)
                      /\ client.enabled => client.mode = "route"

(* A held move is held for a bounded time (mode.lua stop(): "The caller    *)
(* bounds how long it is held (see init.lua's in-flight window)").  A      *)
(* second stop breaks this: it closes the window and leaves the move.      *)
HeldMoveIsTimed == InFlight(client) => client.hold_timer

-----------------------------------------------------------------------------
(* Properties of its steps.                                                *)

(* The stepper has sent one of these, at any place of what it sent.        *)
Sent(cmds) ==
  /\ \E i \in Len(client.wire) + 1 .. Len(client'.wire) : client'.wire[i] \in cmds
  /\ spent'.hand = spent.hand

EntryUnderWay == \E i \in DOMAIN frames' : frames'[i].kind = "contents" /\ frames'[i].entry
MoveUnderWay == \E i \in DOMAIN client.wire : client.wire[i] \in Dirs

(* The stepper sends a move only when every earlier one has been answered: *)
(* no entry still to come could be taken for this step's.                  *)
StepsOnlyWhenSettled ==
  [][Sent(Dirs) => ~EntryUnderWay /\ ~MoveUnderWay]_vars

(* What is in the room decides: a step, an attack or a finish follows from *)
(* the contents of the room the player was last told of, not from a view   *)
(* of an earlier one (sync_room_view).                                     *)
DecidesOnPresentRoom ==
  [][Sent(Dirs \cup Words) => client'.view.of = client'.contents.place]_vars

(* No step leaves a fight, whatever combat frames were already under way   *)
(* when it began (handle_combat_end asks before it decides), unless there  *)
(* are players in the room or its list was cut off before the monsters.    *)
NoStepOutOfFight ==
  [][Sent(Dirs) => ~combat \/ client'.view.players \/ client'.contents.truncated]_vars

(* The monsters left in the player's room, but the ignored ones.           *)
Left == Residents(here) \ Ignored

(* A sea is called complete only in its cask room, and when no monster is  *)
(* left there that answers to the word the stepper calls it by: never on a *)
(* truncated list, on the end of another fight or another attack that did  *)
(* not resolve, or on what was seen in another room (do_step's             *)
(* at_completion, on_attack_no_target).                                    *)
CompletesWhenFought ==
  [][client'.ended = "complete" /\ client.ended # "complete" =>
       here \in Casks /\ \A m \in Left : Keyword[m] \notin Answers[m]]_vars

(* In the cask room "every non-ignored mob is fought [...]; the stepper    *)
(* never walks away from it while one stands" (autostepper/README.md:166). *)
(* Not so: on_attack_no_target strikes a monster from the view, unfought.  *)
CompletesOnlyWhenCleared ==
  [][client'.ended = "complete" /\ client.ended # "complete" =>
       here \in Casks /\ Left = {}]_vars

(* The rooms really standing behind the recorded coordinates.              *)
Charted == {client.filed[p] : p \in Visited(client.map)}

(* "No unvisited exits remain" is said only when every room of the sea has *)
(* been filed.                                                             *)
ExhaustedMeansExplored ==
  [][client'.ended = "exhausted" /\ client.ended # "exhausted" =>
       {client.info} \cup SeaPlaces(client.info.sea)
         = Charted']_vars

-----------------------------------------------------------------------------
Neighbours(place) == {Towards(place, dir) : dir \in ExitsOf(place) \cap Dirs}

Chart == INSTANCE Survey WITH Rooms <- Places \ {Lobby}, Doors <- Neighbours,
                              charted <- Charted

(* The explorer implements the survey: whatever happens to a run, its map  *)
(* is rooms of one sea joined by real doors, growing one room at a time,   *)
(* or it is given up whole.                                                *)
ImplementsSurvey == Chart!Spec

-----------------------------------------------------------------------------
(* Every run comes to an end: it finishes, or one of its waits times out.  *)
RunEnds == client.enabled ~> ~client.enabled
=============================================================================
