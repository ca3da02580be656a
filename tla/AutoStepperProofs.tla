-------------------------- MODULE AutoStepperProofs --------------------------
(***************************************************************************)
(* Proofs about AutoStepper, for every sea, lair, route and configuration  *)
(* and for any number of interferences.                                    *)
(*                                                                         *)
(* A callback of the plugin is an operator on the client record, so there  *)
(* is one lemma per operator.  The first part is about what a run waits    *)
(* for: Control is its inductive invariant, and a lemma takes a record     *)
(* with Control to a record with Control.  Operators that only work on the *)
(* map leave the controlled fields alone (SameControl); those that decide  *)
(* do it from a record that is Ready.  The second part is about types and  *)
(* the move that is held: Inv is its inductive invariant, and a lemma      *)
(* takes a record that is Good to one that is Good.                        *)
(***************************************************************************)
EXTENDS AutoStepper, ExploreMapProofs, TLAPS

Fields == {"enabled", "mode", "state", "arrival", "batch", "waits", "hold_timer", "target",
           "active", "held", "unanchored", "disputed", "map", "filed", "pending", "leaving",
           "leave", "view", "walk", "farm", "farm_timer", "ended", "info", "contents",
           "wire", "online"}

(* RunAlwaysWaiting, with what makes it inductive: a speedwalk is under way *)
(* only between steps.                                                     *)
Waiting(c) ==
  /\ c.enabled => \/ c.state = "stepping" /\ c.arrival # "none"
                  \/ c.state = "fighting" /\ c.arrival = "none"
  /\ ~c.enabled => /\ c.state = "idle" /\ c.arrival = "none" /\ c.waits = 0 /\ ~c.batch
  /\ c.waits > 0 => c.state = "fighting"
  /\ c.batch => c.state = "stepping"

(* RestartOnlyAfterCompletion, of any client record.                       *)
Farming(c) == c.farm_timer => c.farm /\ ~c.enabled /\ c.ended = "complete"

(* A record with the plugin's fields and no others.                        *)
Shape(c) == DOMAIN c = Fields

Control(c) == Shape(c) /\ c.waits \in 0 .. 3 /\ Waiting(c) /\ Farming(c)

(* d differs from c in nothing that Control speaks of.                     *)
SameControl(c, d) ==
  /\ Shape(d)
  /\ d.enabled = c.enabled /\ d.state = c.state /\ d.arrival = c.arrival
  /\ d.batch = c.batch /\ d.waits = c.waits
  /\ d.farm = c.farm /\ d.farm_timer = c.farm_timer /\ d.ended = c.ended

(* An operator that leaves the controlled fields alone preserves Control.  *)
LEMMA SameControlKeeps ==
  ASSUME NEW c, NEW d, Control(c), SameControl(c, d) PROVE Control(d)
BY DEF Control, SameControl, Waiting, Farming

(* SameControl is reflexive on records of the plugin's fields.             *)
LEMMA SameShape == ASSUME NEW c, Shape(c) PROVE SameControl(c, c)
BY DEF SameControl

(* Emptying the map touches no controlled field (mode.lua reset, discard). *)
LEMMA BlankSame == ASSUME NEW c, Shape(c) PROVE SameControl(c, Blank(c))
BY DEF Blank, SameControl, Shape, Fields

(* Nor does pausing the explorer (mode.lua stop).                          *)
LEMMA PauseSame == ASSUME NEW c, Shape(c), NEW keep PROVE SameControl(c, Pause(c, keep))
BY DEF Pause, SameControl, Shape, Fields

(* Nor does sending commands (own_send).                                   *)
LEMMA SendSame == ASSUME NEW c, Shape(c), NEW cmds PROVE SameControl(c, Send(c, cmds))
BY DEF Send, SameControl, Shape, Fields

(* Nor does discarding the map (mode.lua discard).                         *)
LEMMA DiscardSame == ASSUME NEW c, Shape(c) PROVE SameControl(c, Discard(c))
BY DEF Discard, Blank, SameControl, Shape, Fields

(* Nor does resetting it (mode.lua reset).                                 *)
LEMMA ResetMapSame == ASSUME NEW c, Shape(c) PROVE SameControl(c, ResetMap(c))
BY DEF ResetMap, Blank, SameControl, Shape, Fields

(* Nor does resuming it (mode.lua resume).                                 *)
LEMMA ResumeSame == ASSUME NEW c, Shape(c) PROVE SameControl(c, Resume(c))
BY DEF Resume, SameControl, Shape, Fields

(* Nor does starting it (mode.lua start).                                  *)
LEMMA ExploreStartSame == ASSUME NEW c, Shape(c) PROVE SameControl(c, ExploreStart(c))
BY DEF ExploreStart, Blank, SameControl, Shape, Fields

(* Nor does arming the walk back (mode.lua leave).                         *)
LEMMA LeaveSame == ASSUME NEW c, Shape(c) PROVE SameControl(c, Leave(c))
BY DEF Leave, SameControl, Shape, Fields

(* Nor does recording a room (map.lua record).                             *)
LEMMA FileRoomSame == ASSUME NEW c, Shape(c) PROVE SameControl(c, FileRoom(c))
BY DEF FileRoom, SameControl, Shape, Fields

(* Nor does reseeding the local view (sync_room_view).                     *)
LEMMA SyncViewSame == ASSUME NEW c, Shape(c) PROVE SameControl(c, SyncView(c))
BY DEF SyncView, SameControl, Shape, Fields

(* Stopping gives a record that waits for nothing, whatever it was before: *)
(* M.stop() may be called from any state.                                  *)
LEMMA StopControl ==
  ASSUME NEW c, Shape(c), NEW timed_out
  PROVE /\ Control(Stop(c, timed_out))
        /\ ~Stop(c, timed_out).enabled /\ ~Stop(c, timed_out).farm_timer
<1> DEFINE hold == /\ c.enabled /\ c.mode = "explore" /\ c.state = "stepping"
                   /\ c.arrival = "move" /\ ~timed_out /\ ~c.batch
           paused == IF c.batch THEN Discard(c) ELSE IF c.active THEN Pause(c, hold) ELSE c
           window == hold /\ c.active /\ InFlight(paused)
           stopped == [paused EXCEPT !.enabled = FALSE, !.mode = "none", !.state = "idle",
                       !.arrival = "none", !.batch = FALSE, !.waits = 0,
                       !.walk = <<>>, !.target = NoMonster, !.farm_timer = FALSE,
                       !.hold_timer = window]
<1>1. SameControl(c, paused)
  BY DiscardSame, PauseSame, SameShape
<1>2. Shape(paused) BY <1>1 DEF SameControl
<1>3. Stop(c, timed_out) = stopped BY DEF Stop
<1> HIDE DEF paused, hold, window
<1>4. Control(stopped) /\ ~stopped.enabled /\ ~stopped.farm_timer
  <2>1. DOMAIN stopped = Fields BY <1>2 DEF Shape
  <2>2. /\ stopped.enabled = FALSE /\ stopped.state = "idle" /\ stopped.arrival = "none"
        /\ stopped.batch = FALSE /\ stopped.waits = 0 /\ stopped.farm_timer = FALSE
    BY <1>2 DEF Shape, Fields
  <2> HIDE DEF stopped
  <2> QED BY <2>1, <2>2 DEF Shape, Control, Waiting, Farming
<1> QED BY <1>3, <1>4

(* Committing an arrival to the map leaves the run's control to its caller *)
(* (mode.lua arrive).                                                      *)
LEMMA ArriveSame == ASSUME NEW c, Shape(c) PROVE SameControl(c, Arrive(c))
<1> DEFINE m == IF c.pending = <<>> THEN c.map ELSE Move(c.map, Head(c.pending))
           layer == c.info.at[3]
           pos == <<m.pos[1], m.pos[2], layer>>
           corrected == layer # m.pos[3] /\ ~(c.unanchored /\ ~HoldsRooms(c))
           contradicted == pos \in Visited(m) /\ m.rooms[pos] # Walkable(c.info) \cap Dirs
           moved == [c EXCEPT !.map = SetPosition(m, pos), !.unanchored = FALSE,
                              !.disputed = corrected,
                              !.pending = IF @ = <<>> THEN @ ELSE Tail(@)]
           begun == [ResetMap(moved) EXCEPT !.map.pos = <<0, 0, layer>>, !.disputed = TRUE]
<1>1. Arrive(c) = IF ~InArea(c.info) THEN Discard(c)
                  ELSE IF contradicted THEN FileRoom(begun) ELSE FileRoom(moved)
  BY DEF Arrive
<1> HIDE DEF m, layer, pos, corrected, contradicted
<1>2. SameControl(c, moved)
  <2> DEFINE n == SetPosition(m, pos)
             rest == IF c.pending = <<>> THEN c.pending ELSE Tail(c.pending)
             to == [c EXCEPT !.map = n, !.unanchored = FALSE, !.disputed = corrected,
                             !.pending = rest]
  <2>1. moved = to OBVIOUS
  <2> HIDE DEF n, rest
  <2>2. DOMAIN to = Fields BY DEF Shape
  <2>3. SameControl(c, to) BY <2>2 DEF SameControl, Shape, Fields
  <2> QED BY <2>1, <2>3
<1>3. SameControl(moved, ResetMap(moved))
  <2>1. Shape(moved) BY <1>2 DEF SameControl
  <2> HIDE DEF moved
  <2> QED BY <2>1, ResetMapSame
<1>4. SameControl(c, ResetMap(moved)) BY <1>2, <1>3 DEF SameControl
<1>5. SameControl(c, begun)
  <2> DEFINE r == ResetMap(moved)
  <2> HIDE DEF r, moved
  <2>1. SameControl(c, r) BY <1>4 DEF r
  <2>2. SameControl(c, [r EXCEPT !.map.pos = <<0, 0, layer>>, !.disputed = TRUE])
    BY <2>1 DEF SameControl, Shape, Fields
  <2> QED BY <2>2 DEF r
<1> HIDE DEF moved, begun
<1>6. SameControl(c, FileRoom(moved)) BY <1>2, FileRoomSame DEF SameControl
<1>7. SameControl(c, FileRoom(begun)) BY <1>5, FileRoomSame DEF SameControl
<1> QED BY <1>1, <1>6, <1>7, DiscardSame

-----------------------------------------------------------------------------
(* Ready to decide: running, with no wait under way.                       *)
Ready(c) == /\ Shape(c) /\ c.enabled /\ c.waits = 0 /\ c.arrival = "none"
            /\ ~c.batch /\ ~c.farm_timer

(* Ready speaks of controlled fields only.                                 *)
LEMMA SameReady == ASSUME NEW c, NEW d, Ready(c), SameControl(c, d) PROVE Ready(d)
BY DEF Ready, SameControl

(* A run that ends by itself waits for nothing, and remembers why it       *)
(* ended.                                                                  *)
LEMMA EndRunControl ==
  ASSUME NEW c, Ready(c), NEW why
  PROVE Control(EndRun(c, why)) /\ EndRun(c, why).farm = c.farm /\ EndRun(c, why).ended = why
                /\ ~EndRun(c, why).enabled
BY DEF EndRun, Ready, Control, Shape, Fields, Waiting, Farming

(* Arming the arrival timer makes a ready run a waiting one                *)
(* (begin_arrival_wait).                                                   *)
LEMMA AwaitControl ==
  ASSUME NEW c, Ready(c), NEW kind, kind # "none"
  PROVE Control(AwaitArrival(c, kind)) /\ AwaitArrival(c, kind).state = "stepping"
BY DEF AwaitArrival, Ready, Control, Shape, Fields, Waiting, Farming

(* An attack makes a ready run wait for the end of a fight (do_attack).    *)
LEMMA AttackControl == ASSUME NEW c, Ready(c), NEW mob PROVE Control(Attack(c, mob))
<1> DEFINE d == [c EXCEPT !.state = "fighting", !.target = mob]
<1>1. Control(d) BY DEF Ready, Control, Shape, Fields, Waiting, Farming
<1> HIDE DEF d
<1> QED BY <1>1, SendSame, SameControlKeeps DEF Attack, d, Control

(* Finishing a sea schedules a restart only for a farm and only after      *)
(* completion (do_step, at_completion).                                    *)
LEMMA FinishSeaControl == ASSUME NEW c, Ready(c) PROVE Control(FinishSea(c))
<1> DEFINE e == EndRun(c, "complete")
           p == Pause(e, FALSE)
<1>1. Control(e) /\ e.farm = c.farm /\ e.ended = "complete" /\ ~e.enabled BY EndRunControl
<1> HIDE DEF e
<1>2. CASE c.contents.truncated BY <1>2, StopControl DEF FinishSea, Ready
<1>3. CASE ~c.contents.truncated /\ c.farm
  <2>1. SameControl(e, p) /\ Control(p) BY <1>1, PauseSame, SameControlKeeps DEF Control
  <2> HIDE DEF p
  <2>2. p.farm /\ p.ended = "complete" /\ ~p.enabled BY <1>1, <1>3, <2>1 DEF SameControl
  <2>3. Control([p EXCEPT !.farm_timer = TRUE])
    BY <2>1, <2>2 DEF Control, Shape, Fields, Waiting, Farming
  <2> QED BY <1>3, <2>3 DEF FinishSea, p, e
<1>4. CASE ~c.contents.truncated /\ ~c.farm
  <2>1. SameControl(e, Discard(e)) /\ Control(Discard(e))
    BY <1>1, DiscardSame, SameControlKeeps DEF Control
  <2>2. Control(Send(Discard(e), <<"portal">>))
    BY <2>1, SendSame, SameControlKeeps DEF Control
  <2> QED BY <1>4, <2>2 DEF FinishSea, e
<1> QED BY <1>2, <1>3, <1>4

(* Each outcome of an explore step waits for an entry or ends the run      *)
(* (do_step).                                                              *)
LEMMA ExploreStepControl == ASSUME NEW c, Ready(c) PROVE Control(ExploreStep(c))
<1> DEFINE next == NextStep(c)
           a == AwaitArrival(c, "move")
           d == [a EXCEPT !.pending = next.path,
                          !.leave = IF c.leaving THEN Tail(@) ELSE @,
                          !.batch = Len(next.path) > 1]
<1>1. Control(EndRun(c, "left the area")) BY EndRunControl
<1>2. Control(FinishSea(c)) BY FinishSeaControl
<1>3. Control(Pause(EndRun(c, next.why), FALSE))
  <2> DEFINE e == EndRun(c, next.why)
  <2>1. Control(e) BY EndRunControl
  <2> HIDE DEF e
  <2> QED BY <2>1, PauseSame, SameControlKeeps DEF Control, e
<1>4. Control(Send(d, next.path))
  <2>1. Control(a) /\ a.state = "stepping" BY AwaitControl
  <2> HIDE DEF a, next
  <2>2. Control(d) BY <2>1 DEF Control, Shape, Fields, Waiting, Farming
  <2> HIDE DEF d
  <2> QED BY <2>2, SendSame, SameControlKeeps DEF Control
<1>5. ExploreStep(c) \in {EndRun(c, "left the area"), FinishSea(c),
                         Pause(EndRun(c, next.why), FALSE), Send(d, next.path)}
  BY DEF ExploreStep, Take
<1> HIDE DEF next, a, d
<1> QED BY <1>1, <1>2, <1>3, <1>4, <1>5

(* So does each outcome of a route step (dispatch).                        *)
LEMMA RouteStepControl == ASSUME NEW c, Ready(c) PROVE Control(RouteStep(c))
<1> DEFINE moves == {i \in DOMAIN c.walk : c.walk[i] # "open"}
           n == CHOOSE i \in moves : \A j \in moves : i <= j
           done == [c EXCEPT !.walk = <<>>]
           shorter == [c EXCEPT !.walk = SubSeq(@, n + 1, Len(@)), !.batch = FALSE]
<1>1. Ready(done) BY DEF Ready, Shape, Fields
<1>2. Ready(shorter) BY DEF Ready, Shape, Fields
<1>3. RouteStep(c) = IF moves = {} THEN EndRun(Send(done, c.walk), "route complete")
                     ELSE Send(AwaitArrival(shorter, "move"), SubSeq(c.walk, 1, n))
  BY DEF RouteStep
<1> HIDE DEF moves, n, done, shorter
<1>4. Control(EndRun(Send(done, c.walk), "route complete"))
  <2> DEFINE sent == Send(done, c.walk)
  <2>1. Ready(sent) BY <1>1, SendSame, SameReady DEF Ready
  <2> HIDE DEF sent
  <2> QED BY <2>1, EndRunControl DEF sent
<1>5. Control(Send(AwaitArrival(shorter, "move"), SubSeq(c.walk, 1, n)))
  BY <1>2, AwaitControl, SendSame, SameControlKeeps DEF Control
<1> QED BY <1>3, <1>4, <1>5

(* The step of either mode (do_step).                                      *)
LEMMA DoStepControl == ASSUME NEW c, Ready(c) PROVE Control(DoStep(c))
BY ExploreStepControl, RouteStepControl DEF DoStep

(* Every branch of the decision in a room attacks, steps or stops          *)
(* (process_room).                                                         *)
LEMMA ProcessRoomControl == ASSUME NEW c0, Ready(c0) PROVE Control(ProcessRoom(c0))
<1> DEFINE c == SyncView(c0)
<1>1. Ready(c) BY SyncViewSame, SameReady DEF Ready
<1>2. \A mob : Control(Attack(c, mob)) BY <1>1, AttackControl
<1>3. Control(Stop(c, FALSE)) BY <1>1, StopControl DEF Ready
<1>4. Control(DoStep(c)) BY <1>1, DoStepControl
<1> QED BY <1>2, <1>3, <1>4 DEF ProcessRoom

-----------------------------------------------------------------------------
(* The frame handlers.                                                     *)

(* An arrival decides, waits for the rest of a speedwalk, or stops         *)
(* (complete_arrival).                                                     *)
LEMMA CompleteArrivalControl ==
  ASSUME NEW c, Control(c), c.enabled, c.state = "stepping"
  PROVE Control(CompleteArrival(c))
<1> DEFINE u == [c EXCEPT !.disputed = FALSE]
           a == IF c.active THEN Arrive(u) ELSE c
           settled == [a EXCEPT !.batch = FALSE, !.arrival = "none", !.state = "idle"]
<1>1. SameControl(c, u) BY DEF Control, SameControl, Shape, Fields
<1> HIDE DEF u
<1>2. SameControl(c, a)
  BY <1>1, ArriveSame, SameShape DEF SameControl, Control
<1>3. CompleteArrival(c) = IF c.batch /\ (~a.active \/ a.disputed) THEN Stop(a, FALSE)
                           ELSE IF c.batch /\ a.pending # <<>> THEN AwaitArrival(a, "move")
                           ELSE ProcessRoom(settled)
  BY DEF CompleteArrival, u
<1> HIDE DEF a
<1>4. Control(a) /\ a.enabled /\ a.state = "stepping"
  BY <1>2, SameControlKeeps DEF SameControl
<1>5. Control(Stop(a, FALSE)) BY <1>4, StopControl DEF Control
<1>6. Control(AwaitArrival(a, "move"))
  BY <1>4 DEF AwaitArrival, Control, Shape, Fields, Waiting, Farming
<1>7. Ready(settled)
  <2>1. a.waits = 0 BY <1>4 DEF Control, Waiting
  <2>2. ~a.farm_timer BY <1>4 DEF Control, Farming
  <2> QED BY <1>4, <2>1, <2>2 DEF Ready, Control, Shape, Fields
<1> QED BY <1>3, <1>5, <1>6, <1>7, ProcessRoomControl

(* Between fights: what makes a decision in a fighting run safe to take.   *)
LEMMA FightingReady ==
  ASSUME NEW c, Control(c), c.state = "fighting"
  PROVE c.enabled /\ c.arrival = "none" /\ ~c.batch /\ ~c.farm_timer
BY DEF Control, Waiting, Farming

(* The answer to a combat refresh decides again (reseed_and_decide).       *)
LEMMA ReseedControl ==
  ASSUME NEW c, Control(c), c.state = "fighting" PROVE Control(ReseedAndDecide(c))
<1> DEFINE d == [c EXCEPT !.waits = 0, !.view = SeenIn(c, @.key), !.target = NoMonster,
                          !.state = "idle"]
<1>1. Ready(d) BY FightingReady DEF Ready, Control, Shape, Fields
<1> HIDE DEF d
<1> QED BY <1>1, ProcessRoomControl DEF ReseedAndDecide, d

(* An entry nobody asked for stops the run or leaves it alone              *)
(* (on_unasked_entry).                                                     *)
LEMMA OnUnaskedEntryControl ==
  ASSUME NEW c, Control(c) PROVE Control(OnUnaskedEntry(c).client)
<1> DEFINE d == IF HoldsRooms(c) THEN ResetMap(c) ELSE c
           u == [c EXCEPT !.hold_timer = FALSE]
<1>1. Control(d) BY ResetMapSame, SameControlKeeps DEF Control
<1>2. Control(u) BY DEF Control, Shape, Fields, Waiting, Farming
<1> HIDE DEF d, u
<1>3. Control(Arrive(u)) BY <1>2, ArriveSame, SameControlKeeps DEF Control
<1>4. Control(Stop(d, FALSE)) BY <1>1, StopControl DEF Control
<1>5. OnUnaskedEntry(c).client \in {Arrive(u), Stop(d, FALSE), d} BY DEF OnUnaskedEntry, d, u
<1> QED BY <1>1, <1>3, <1>4, <1>5

(* Contents are an answer, an arrival, or ignored (on_room_contents_frame, *)
(* from the enabled check on).                                             *)
LEMMA OnAskedContentsControl ==
  ASSUME NEW c, Control(c) PROVE Control(OnAskedContents(c))
<1>1. CASE c.enabled /\ c.waits > 0
  <2>1. c.state = "fighting" BY <1>1 DEF Control, Waiting
  <2> QED BY <1>1, <2>1, ReseedControl, StopControl DEF OnAskedContents, Control
<1>2. CASE c.enabled /\ ~(c.waits > 0) /\ c.state = "stepping"
  BY <1>2, CompleteArrivalControl DEF OnAskedContents
<1>3. CASE ~c.enabled \/ (~(c.waits > 0) /\ c.state # "stepping")
  BY <1>3 DEF OnAskedContents
<1> QED BY <1>1, <1>2, <1>3

(* The whole contents handler (on_room_contents_frame).                    *)
LEMMA OnRoomContentsControl ==
  ASSUME NEW c0, Control(c0), NEW frame PROVE Control(OnRoomContents(c0, frame))
<1> DEFINE c == [c0 EXCEPT !.contents = frame]
<1>1. Control(c) BY DEF Control, Shape, Fields, Waiting, Farming
<1>2. Control(OnAskedContents(c)) BY <1>1, OnAskedContentsControl
<1>3. Control(OnUnaskedEntry(c).client) BY <1>1, OnUnaskedEntryControl
<1>4. Control(OnAskedContents(OnUnaskedEntry(c).client)) BY <1>3, OnAskedContentsControl
<1> HIDE DEF c
<1>5. OnRoomContents(c0, frame) \in {OnAskedContents(c), OnUnaskedEntry(c).client,
                                     OnAskedContents(OnUnaskedEntry(c).client)}
  BY DEF OnRoomContents, c
<1> QED BY <1>2, <1>3, <1>4, <1>5

(* A refresh that cannot be sent stops the run (request_combat_refresh).   *)
LEMMA RequestRefreshControl ==
  ASSUME NEW c, Control(c) PROVE Control(RequestRefresh(c))
BY SendSame, SameControlKeeps, StopControl DEF RequestRefresh, Control

(* The end of a fight starts at most one wait (handle_combat_end).         *)
LEMMA OnCombatEndControl ==
  ASSUME NEW c, Control(c) PROVE Control(OnCombatEnd(c))
<1>1. CASE c.state # "fighting" \/ c.waits > 0 BY <1>1 DEF OnCombatEnd
<1>2. CASE ~(c.state # "fighting" \/ c.waits > 0)
  <2>1. Control([c EXCEPT !.waits = 1])
    BY <1>2, FightingReady DEF Control, Shape, Fields, Waiting, Farming
  <2> QED BY <1>2, <2>1, RequestRefreshControl DEF OnCombatEnd
<1> QED BY <1>1, <1>2

(* A failed attack decides again (on_attack_no_target).                    *)
LEMMA OnNoTargetControl ==
  ASSUME NEW c, NEW word, Control(c) PROVE Control(OnNoTarget(c, word))
<1>1. CASE Elsewhere(c, word) BY <1>1 DEF OnNoTarget
<1>2. CASE ~Elsewhere(c, word)
  <2> DEFINE d == [c EXCEPT !.view.monsters = Forget(@, c.target),
                            !.target = NoMonster, !.state = "idle"]
  <2>1. c.state = "fighting" /\ c.waits = 0 BY <1>2 DEF Control, Elsewhere
  <2>2. Ready(d) BY <2>1, FightingReady DEF Ready, Control, Shape, Fields
  <2> HIDE DEF d
  <2> QED BY <1>2, <2>2, ProcessRoomControl DEF OnNoTarget, d
<1> QED BY <1>1, <1>2

(* A blocked move stops a speedwalk (on_movement_failure).                 *)
LEMMA OnBlockedControl == ASSUME NEW c, Control(c) PROVE Control(OnBlocked(c))
BY StopControl DEF OnBlocked, Control

-----------------------------------------------------------------------------
(* Commands, timers and hooks.                                             *)

(* Starting refuses, waits for an answer, or stops at once when offline    *)
(* (M.start).                                                              *)
LEMMA StartRunControl ==
  ASSUME NEW c0, Control(c0), NEW from_entry PROVE Control(StartRun(c0, from_entry))
<1> DEFINE c == Resume(c0)
           fresh == [c EXCEPT !.mode = IF c.active THEN "explore" ELSE "route",
                              !.farm_timer = FALSE, !.hold_timer = FALSE,
                              !.enabled = TRUE, !.waits = 0, !.target = NoMonster,
                              !.walk = IF c.active THEN <<>> ELSE Route,
                              !.view.key = [kind |-> "none", is |-> <<>>],
                              !.ended = "none"]
           refused == [c EXCEPT !.mode = "route"]
           waiting == AwaitArrival(fresh, IF from_entry THEN "setup" ELSE "refresh")
<1>1. SUFFICES ASSUME ~c0.enabled PROVE Control(StartRun(c0, from_entry))
  BY DEF StartRun
<1>2. Control(c) /\ ~c.enabled
  BY <1>1, ResumeSame, SameControlKeeps DEF Control, SameControl
<1>3. StartRun(c0, from_entry) \in {refused, waiting, RequestRefresh(waiting)}
  BY <1>1 DEF StartRun
<1> HIDE DEF c
<1>4. Control(refused) BY <1>2 DEF Control, Shape, Fields, Waiting, Farming
<1>5. Control(waiting)
  <2>1. DOMAIN waiting = Fields BY <1>2 DEF AwaitArrival, Control, Shape
  <2>2. /\ waiting.enabled = TRUE /\ waiting.state = "stepping" /\ waiting.waits = 0
        /\ waiting.arrival = (IF from_entry THEN "setup" ELSE "refresh")
        /\ waiting.farm_timer = FALSE
    BY <1>2 DEF AwaitArrival, Control, Shape, Fields
  <2> HIDE DEF waiting
  <2> QED BY <2>1, <2>2 DEF Control, Shape, Waiting, Farming
<1>6. Control(RequestRefresh(waiting)) BY <1>5, RequestRefreshControl
<1> QED BY <1>3, <1>4, <1>5, <1>6

(* Starting the explorer keeps Control.                                    *)
LEMMA ExploreStartControl == ASSUME NEW c, Control(c) PROVE Control(ExploreStart(c))
BY ExploreStartSame, SameControlKeeps DEF Control

(* Resuming the explorer keeps Control.                                    *)
LEMMA ResumeControl == ASSUME NEW c, Control(c) PROVE Control(Resume(c))
BY ResumeSame, SameControlKeeps DEF Control

(* Both forms of /step explore keep Control.                               *)
LEMMA ExploreCommandControl ==
  ASSUME NEW c, Control(c)
  PROVE Control(ExploreCommand(c)) /\ Control(ExploreAreaCommand(c))
BY ExploreStartControl, ResumeControl, StartRunControl DEF ExploreCommand, ExploreAreaCommand

(* /step explore off keeps Control (explore_stop).                         *)
LEMMA ExploreOffControl == ASSUME NEW c, Control(c) PROVE Control(ExploreOffCommand(c))
BY PauseSame, StopControl DEF ExploreOffCommand, Control, SameControl

(* /step explore reset keeps Control (explore_reset).                      *)
LEMMA ExploreResetControl ==
  ASSUME NEW c, Control(c) PROVE Control(ExploreResetCommand(c))
<1>1. Control(ResetMap(c)) BY ResetMapSame, SameControlKeeps DEF Control
<1>2. Control(Send(ResetMap(c), <<"refresh">>))
  BY <1>1, SendSame, SameControlKeeps DEF Control
<1> QED BY <1>2, StopControl DEF ExploreResetCommand, Control

(* A new instance seen on its way out keeps Control                        *)
(* (check_instance_reset).                                                 *)
LEMMA RediveControl == ASSUME NEW c, Control(c) PROVE Control(Redive(c))
<1>1. Control(IF c.batch THEN Stop(c, FALSE) ELSE c) BY StopControl DEF Control
<1> QED BY <1>1, DiscardSame, SameControlKeeps DEF Redive, Control

(* The farm's setup sequence keeps Control (restart_chaossea).             *)
LEMMA RestartSeaControl == ASSUME NEW c, Control(c) PROVE Control(RestartSea(c))
<1> DEFINE sent == Redive(Send(c, <<"portal", "newsea">>))
<1>1. Control(Send(c, <<"portal", "newsea">>)) BY SendSame, SameControlKeeps DEF Control
<1>2. Control(sent) BY <1>1, RediveControl
<1> HIDE DEF sent
<1>3. Control(StartRun(ExploreStart(sent), TRUE))
  BY <1>2, ExploreStartControl, StartRunControl
<1> QED BY <1>2, <1>3 DEF RestartSea, sent

(* A typed direction keeps Control (check_hand_move).                      *)
LEMMA OnHandMoveControl == ASSUME NEW c, Control(c) PROVE Control(OnHandMove(c))
<1> DEFINE stopped == IF c.enabled /\ c.mode = "explore" THEN Stop(c, FALSE) ELSE c
           d == [stopped EXCEPT !.hold_timer = FALSE]
<1>1. Control(stopped) BY StopControl DEF Control
<1> HIDE DEF stopped
<1>2. Control(d) BY <1>1 DEF Control, Shape, Fields, Waiting, Farming
<1> HIDE DEF d
<1>3. Control(ResetMap(d)) BY <1>2, ResetMapSame, SameControlKeeps DEF Control
<1> QED BY <1>3 DEF OnHandMove, stopped, d

(* A lost connection keeps Control (on_disconnect).                        *)
LEMMA OnDisconnectControl ==
  ASSUME NEW c, Control(c)
  PROVE Control([OnDisconnect(c) EXCEPT !.online = FALSE, !.wire = <<>>])
<1> DEFINE s == Stop(c, FALSE)
<1>1. Control(s) BY StopControl DEF Control
<1> HIDE DEF s
<1>2. Control([s EXCEPT !.hold_timer = FALSE, !.pending = <<>>])
  BY <1>1 DEF Control, Shape, Fields, Waiting, Farming
<1> DEFINE d == OnDisconnect(c)
<1>3. Control(d) BY <1>2 DEF OnDisconnect, s
<1> HIDE DEF d
<1>4. Control([d EXCEPT !.online = FALSE, !.wire = <<>>])
  BY <1>3 DEF Control, Shape, Fields, Waiting, Farming
<1> QED BY <1>4 DEF d

(* Unloading keeps Control: no restart outlives the farm settings          *)
(* (on_unload).                                                            *)
LEMMA UnloadControl == ASSUME NEW c, Control(c) PROVE Control(Unload(c))
<1> DEFINE s == Stop(c, FALSE)
           d == Discard(s)
<1>1. Control(s) /\ ~s.enabled /\ ~s.farm_timer
  BY StopControl DEF Control
<1> HIDE DEF s
<1>2. Control(d) /\ ~d.farm_timer
  BY <1>1, DiscardSame, SameControlKeeps DEF Control, SameControl
<1> HIDE DEF d
<1>3. Control([d EXCEPT !.farm = FALSE])
  BY <1>2 DEF Control, Shape, Fields, Waiting, Farming
<1> QED BY <1>3 DEF Unload, d, s

-----------------------------------------------------------------------------
(* The game taking a command from the wire keeps Control.                  *)
LEMMA TakenControl == ASSUME Control(client) PROVE Control(Taken)
BY DEF Taken, Control, Shape, Fields, Waiting, Farming

(* Control holds when the plugin is loaded.                                *)
LEMMA InitControl == Init => Control(client)
BY DEF Init, Loaded, Control, Shape, Fields, Waiting, Farming

(* The game's own steps reach the plugin only through the wire.            *)
LEMMA GameControl ==
  ASSUME Control(client), Game \/ Wimpy \/ StrayCombatFrame PROVE Control(client')
<1>1. client' = Taken \/ client' = client
  BY DEF Game, GameMoves, GameLeaves, GameEntersSea, GameIgnores, GameFights, GameRefreshes,
         MonsterDies, Wimpy, StrayCombatFrame
<1> QED BY <1>1, TakenControl

(* Every frame handler keeps Control.                                      *)
LEMMA ReceiveControl == ASSUME Control(client), Receive PROVE Control(client')
<1>1. CASE ReceiveInfo
  BY <1>1 DEF ReceiveInfo, Client, Control, Shape, Fields, Waiting, Farming
<1>2. CASE ReceiveContents
  BY <1>2, OnRoomContentsControl DEF ReceiveContents, Client
<1>3. CASE ReceiveCombatEnd BY <1>3, OnCombatEndControl DEF ReceiveCombatEnd, Client
<1>4. CASE ReceiveNoTarget BY <1>4, OnNoTargetControl DEF ReceiveNoTarget, Client
<1>5. CASE ReceiveBlocked BY <1>5, OnBlockedControl DEF ReceiveBlocked, Client
<1> QED BY <1>1, <1>2, <1>3, <1>4, <1>5 DEF Receive

(* Every timer keeps Control; a retry never counts past the third attempt. *)
LEMMA TimersControl == ASSUME Control(client), Timers PROVE Control(client')
<1>1. CASE ArrivalTimeout BY <1>1, StopControl DEF ArrivalTimeout, Client, Control
<1>2. CASE HeldMoveTimeout
  BY <1>2 DEF HeldMoveTimeout, Client, Control, Shape, Fields, Waiting, Farming
<1>3. CASE RefreshTimeout
  <2> DEFINE again == [client EXCEPT !.waits = @ + 1]
  <2>1. CASE client.waits < 3
    <3>1. Control(again)
      BY <1>3, <2>1 DEF RefreshTimeout, Control, Shape, Fields, Waiting, Farming
    <3>2. client' = RequestRefresh(again) BY <1>3, <2>1 DEF RefreshTimeout, Client
    <3> HIDE DEF again
    <3> QED BY <3>1, <3>2, RequestRefreshControl
  <2>2. CASE ~(client.waits < 3)
    BY <1>3, <2>2, StopControl DEF RefreshTimeout, Client, Control
  <2> QED BY <2>1, <2>2
<1>4. CASE FarmTimer
  <2> DEFINE fired == [client EXCEPT !.farm_timer = FALSE]
  <2>1. Control(fired) BY DEF Control, Shape, Fields, Waiting, Farming
  <2>2. client' \in {RestartSea(fired), fired} BY <1>4 DEF FarmTimer, Client
  <2> HIDE DEF fired
  <2> QED BY <2>1, <2>2, RestartSeaControl
<1> QED BY <1>1, <1>2, <1>3, <1>4 DEF Timers

(* Every command, hook and session event keeps Control.                    *)
LEMMA PlayerControl ==
  ASSUME Control(client), Player \/ Reconnect PROVE Control(client')
<1> USE DEF Command, Client
<1>1. CASE PlayerStarts
  BY <1>1, StartRunControl, ExploreCommandControl DEF PlayerStarts
<1>2. CASE PlayerStops BY <1>2, StopControl, ExploreOffControl DEF PlayerStops, Control
<1>3. CASE PlayerResets BY <1>3, ExploreResetControl DEF PlayerResets
<1>4. CASE PlayerLeaves BY <1>4, LeaveSame, SameControlKeeps DEF PlayerLeaves, Control
<1>5. CASE PlayerFarms
  <2>1. Control([client EXCEPT !.farm = TRUE])
    BY DEF Control, Shape, Fields, Waiting, Farming
  <2>2. Control([client EXCEPT !.farm = FALSE, !.farm_timer = FALSE])
    BY DEF Control, Shape, Fields, Waiting, Farming
  <2> QED BY <1>5, <2>1, <2>2 DEF PlayerFarms
<1>6. CASE PlayerWalks
  <2>1. \E dir : client' = Send(OnHandMove(client), <<dir>>) BY <1>6 DEF PlayerWalks
  <2>2. Control(OnHandMove(client)) BY OnHandMoveControl
  <2> QED BY <2>1, <2>2, SendSame, SameControlKeeps DEF Control
<1>7. CASE PlayerWalksOut
  BY <1>7, SendSame, SameControlKeeps DEF PlayerWalksOut, Control
<1>8. CASE PlayerRedives
  BY <1>8, RediveControl, SendSame, SameControlKeeps DEF PlayerRedives, Control
<1>9. CASE Disconnect BY <1>9, OnDisconnectControl DEF Disconnect
<1>10. CASE Reload BY <1>10, UnloadControl DEF Reload
<1>11. CASE Reconnect
  BY <1>11 DEF Reconnect, Control, Shape, Fields, Waiting, Farming
<1> QED BY <1>1, <1>2, <1>3, <1>4, <1>5, <1>6, <1>7, <1>8, <1>9, <1>10, <1>11 DEF Player

(* Control is inductive.                                                   *)
LEMMA NextControl == ASSUME Control(client), [Next]_vars PROVE Control(client)'
<1>1. CASE Next
  BY <1>1, GameControl, ReceiveControl, TimersControl, PlayerControl DEF Next
<1>2. CASE UNCHANGED vars BY <1>2 DEF vars
<1> QED BY <1>1, <1>2

(* The plugin's control state is consistent in every state of every sea,   *)
(* lair, route and configuration, however often anything interferes.       *)
THEOREM ControlInvariant == Spec => []Control(client)
BY InitControl, NextControl, PTL DEF Spec

(* A run never idles without something under way that ends its wait, and a *)
(* stopped one waits for nothing (begin_arrival_wait, M.stop, do_step).    *)
THEOREM RunAlwaysWaits == Spec => []RunAlwaysWaiting
<1>1. Control(client) => RunAlwaysWaiting BY DEF Control, Waiting, RunAlwaysWaiting
<1> QED BY <1>1, ControlInvariant, PTL

(* A farm restart is pending only after a completed sea, while the farm is *)
(* on and no run is (restart_chaossea, cancel_farm_restart).               *)
THEOREM RestartsFollowCompletion == Spec => []RestartOnlyAfterCompletion
<1>1. Control(client) => RestartOnlyAfterCompletion
  BY DEF Control, Farming, RestartOnlyAfterCompletion
<1> QED BY <1>1, ControlInvariant, PTL
-----------------------------------------------------------------------------
(* The types, and the move that is held.  Good is the inductive invariant   *)
(* of both: Able says what every Lua function may rely on, in the middle of *)
(* a callback too, and Beside that a held move is beside no explore run.    *)

Contents == [kind : {"contents"}, place : Places, entry : BOOLEAN, players : BOOLEAN,
             truncated : BOOLEAN, monsters : Seq(Monsters)]
Infos == [kind : {"info"}, place : Places]
Lines == [kind : {"combat_end", "blocked"}] \cup [kind : {"no_target"}, word : Words]

(* The map is finite, on the lattice, and filed from rooms of a sea.       *)
Mapped(c) ==
  /\ Plotted(c.map) /\ Visited(c.map) \subseteq Int3
  /\ c.filed \in [Visited(c.map) -> Places \ {Lobby}]
  /\ c.pending \in Seq(Dirs) /\ c.leave \in Seq(Dirs)

Viewed(c) == /\ DOMAIN c.view = {"key", "monsters", "players", "of"}
             /\ c.view.monsters \in Seq(Monsters)
             /\ c.target \in Monsters \cup {NoMonster}
Told(c) == c.info \in Places /\ c.contents \in Contents
Sends(c) == c.wire \in Seq(Commands) /\ c.walk \in Seq(Dirs \cup {"open"})

Holding(c) ==
  /\ c.active => c.held
  /\ c.pending # <<>> \/ c.leave # <<>> => HoldsRooms(c)
  /\ InFlight(c) => c.held /\ Len(c.pending) = 1
  /\ ~c.online => c.pending = <<>> /\ c.wire = <<>>

Beside(c) == InFlight(c) /\ c.enabled => c.mode = "route"

Able(c) == /\ Shape(c) /\ ControlType(c) /\ Mapped(c) /\ Viewed(c) /\ Told(c) /\ Sends(c)
           /\ Holding(c)

Good(c) == Able(c) /\ Beside(c)

(* What the parts of Able speak of.                                        *)
SameMap(c, d) == d.map = c.map /\ d.filed = c.filed /\ d.pending = c.pending /\ d.leave = c.leave
SameView(c, d) == d.view = c.view /\ d.target = c.target
SameNews(c, d) == d.info = c.info /\ d.contents = c.contents
SameWire(c, d) == d.wire = c.wire /\ d.walk = c.walk
SameHold(c, d) == d.active = c.active /\ d.held = c.held /\ d.online = c.online

(* A part of Able depends only on the fields it speaks of.                 *)
LEMMA SameParts ==
  ASSUME NEW c, NEW d
  PROVE  /\ Mapped(c) /\ SameMap(c, d) => Mapped(d)
         /\ Viewed(c) /\ SameView(c, d) => Viewed(d)
         /\ Told(c) /\ SameNews(c, d) => Told(d)
         /\ Sends(c) /\ SameWire(c, d) => Sends(d)
         /\ Holding(c) /\ SameMap(c, d) /\ SameHold(c, d) /\ d.wire = c.wire => Holding(d)
<1>1. Mapped(c) /\ SameMap(c, d) => Mapped(d)
  BY DEF Mapped, SameMap
<1>2. Viewed(c) /\ SameView(c, d) => Viewed(d)
  BY DEF Viewed, SameView
<1>3. Told(c) /\ SameNews(c, d) => Told(d)
  BY DEF Told, SameNews
<1>4. Sends(c) /\ SameWire(c, d) => Sends(d)
  BY DEF Sends, SameWire
<1>5. Holding(c) /\ SameMap(c, d) /\ SameHold(c, d) /\ d.wire = c.wire => Holding(d)
  BY DEF Holding, SameMap, SameHold, InFlight, HoldsRooms
<1>. QED  BY <1>1, <1>2, <1>3, <1>4, <1>5

(* A step of the control state only.                                       *)
Steers(c, d) == /\ SameMap(c, d) /\ SameView(c, d) /\ SameNews(c, d)
                /\ SameWire(c, d) /\ SameHold(c, d)

(* A step of the control state alone keeps what the rest relies on.        *)
LEMMA SteersKeeps ==
  ASSUME NEW c, Able(c), NEW d, Shape(d), ControlType(d), Steers(c, d) PROVE Able(d)
<1>1. Mapped(d) /\ Viewed(d) /\ Told(d) /\ Sends(d) /\ Holding(d)
  BY SameParts DEF Able, Steers, SameWire
<1>. QED  BY <1>1 DEF Able

(* The empty map is filed from nowhere; the empty route is a route.        *)
LEMMA EmptySequences == <<>> \in [{} -> Places \ {Lobby}] /\ <<>> \in Seq(Dirs)
OBVIOUS

(* Emptying the map keeps what Able says, and nothing is held any more     *)
(* (mode.lua reset, discard, start).                                       *)
Emptied(d) == d.map = NewMap /\ d.filed = <<>> /\ d.pending = <<>> /\ d.leave = <<>>

(* The empty map is a map.                                                 *)
LEMMA EmptiedMapped == ASSUME NEW d, Emptied(d) PROVE Mapped(d)
<1>1. Visited(NewMap) = {}
  BY DEF NewMap, Visited
<1>. QED  BY <1>1, NewMapPlotted, EmptySequences DEF Emptied, Mapped

(* Whatever empties the map and leaves the rest alone is safe.             *)
LEMMA EmptiedAble ==
  ASSUME NEW c, Able(c), NEW d, Shape(d), ControlType(d), Emptied(d),
         SameView(c, d), SameNews(c, d), SameWire(c, d), d.online = c.online,
         d.active => d.held
  PROVE  Good(d)
<1>1. Mapped(d) /\ Viewed(d) /\ Told(d) /\ Sends(d)
  BY SameParts, EmptiedMapped DEF Able
<1>2. Holding(d) /\ Beside(d)
  BY DEF Holding, Beside, InFlight, HoldsRooms, Able, SameWire, Emptied
<1>. QED  BY <1>1, <1>2 DEF Able, Good

(* Starting the explorer (mode.lua start).                                 *)
LEMMA ExploreStartGood ==
  ASSUME NEW c, Able(c) PROVE Good(ExploreStart(c)) /\ ExploreStart(c).online = c.online
<1>. DEFINE d == ExploreStart(c)
<1>1. /\ Shape(d) /\ Emptied(d) /\ d.active = TRUE /\ d.held = TRUE
      /\ SameView(c, d) /\ SameNews(c, d) /\ SameWire(c, d) /\ d.online = c.online
  BY DEF Able, ExploreStart, Blank, Shape, Fields, SameView, SameNews, SameWire, Emptied
<1>2. ControlType(d)
  BY DEF Able, ExploreStart, Blank, Shape, Fields, ControlType
<1>. HIDE DEF d
<1>. QED  BY <1>1, <1>2, EmptiedAble DEF d

(* Discarding the map (mode.lua discard).                                  *)
LEMMA DiscardGood ==
  ASSUME NEW c, Able(c) PROVE Good(Discard(c)) /\ Discard(c).online = c.online
<1>. DEFINE d == Discard(c)
<1>1. /\ Shape(d) /\ Emptied(d) /\ d.active = FALSE /\ d.held = FALSE
      /\ SameView(c, d) /\ SameNews(c, d) /\ SameWire(c, d) /\ d.online = c.online
  BY DEF Able, Discard, Blank, Shape, Fields, SameView, SameNews, SameWire, Emptied
<1>2. ControlType(d)
  BY DEF Able, Discard, Blank, Shape, Fields, ControlType
<1>. HIDE DEF d
<1>. QED  BY <1>1, <1>2, EmptiedAble DEF d

(* Resetting the map keeps the explorer as it was (mode.lua reset).        *)
LEMMA ResetMapAble ==
  ASSUME NEW c, Able(c)
  PROVE  /\ Able(ResetMap(c)) /\ (Beside(c) => Good(ResetMap(c)))
         /\ ResetMap(c).online = c.online /\ (c.held => Emptied(ResetMap(c)))
<1>. DEFINE d == [Blank(c) EXCEPT !.unanchored = TRUE]
<1>1. /\ Shape(d) /\ Emptied(d) /\ d.active = c.active /\ d.held = c.held
      /\ SameView(c, d) /\ SameNews(c, d) /\ SameWire(c, d) /\ d.online = c.online
  BY DEF Able, Blank, Shape, Fields, SameView, SameNews, SameWire, Emptied
<1>2. ControlType(d)
  BY DEF Able, Blank, Shape, Fields, ControlType
<1>3. ResetMap(c) = IF c.held THEN d ELSE c
  BY DEF ResetMap
<1>. HIDE DEF d
<1>4. Good(d)
  BY <1>1, <1>2, EmptiedAble DEF Able, Holding
<1>. QED  BY <1>1, <1>3, <1>4 DEF Good

(* Pausing keeps at most the one move under way (mode.lua stop).           *)
LEMMA PauseAble ==
  ASSUME NEW c, Able(c), NEW keep \in BOOLEAN
  PROVE  /\ Able(Pause(c, keep)) /\ Pause(c, keep).online = c.online
         /\ ~Pause(c, keep).active
         /\ ~keep => Good(Pause(c, keep)) /\ Pause(c, keep).pending = <<>>
<1>. DEFINE d == Pause(c, keep)
            left == IF keep /\ Len(c.pending) = 1 THEN c.pending ELSE <<>>
<1>1. /\ Shape(d) /\ d.map = c.map /\ d.filed = c.filed /\ d.leave = <<>> /\ d.pending = left
      /\ SameView(c, d) /\ SameNews(c, d) /\ SameWire(c, d)
      /\ d.active = FALSE /\ d.held = c.held /\ d.online = c.online
  BY DEF Able, Pause, Shape, Fields, SameView, SameNews, SameWire
<1>2. ControlType(d)
  BY DEF Able, Pause, Shape, Fields, ControlType
<1>3. left \in Seq(Dirs) /\ left \in {c.pending, <<>>} /\ (left # <<>> => keep /\ Len(left) = 1)
  BY EmptySequences DEF Able, Mapped
<1>. HIDE DEF d, left
<1>4. Mapped(d)
  BY <1>1, <1>3, EmptySequences DEF Able, Mapped
<1>5. Viewed(d) /\ Told(d) /\ Sends(d)
  BY <1>1, SameParts DEF Able
<1>6. Holding(d)
  BY <1>1, <1>3 DEF Able, Holding, InFlight, HoldsRooms, SameWire
<1>7. Able(d)
  BY <1>1, <1>2, <1>4, <1>5, <1>6 DEF Able
<1>. QED  BY <1>1, <1>3, <1>7 DEF d, Good, Beside, InFlight

(* Resuming drops the move that was under way (mode.lua resume).           *)
LEMMA ResumeGood ==
  ASSUME NEW c, Good(c)
  PROVE  /\ Good(Resume(c)) /\ Resume(c).online = c.online
         /\ Resume(c).enabled = c.enabled
<1>. DEFINE d == [c EXCEPT !.active = TRUE, !.pending = <<>>]
<1>1. /\ Shape(d) /\ d.map = c.map /\ d.filed = c.filed /\ d.leave = c.leave /\ d.pending = <<>>
      /\ SameView(c, d) /\ SameNews(c, d) /\ SameWire(c, d)
      /\ d.active = TRUE /\ d.held = c.held /\ d.online = c.online /\ d.enabled = c.enabled
  BY DEF Good, Able, Shape, Fields, SameView, SameNews, SameWire
<1>2. ControlType(d)
  BY DEF Good, Able, Shape, Fields, ControlType
<1>3. (Resume(c) = d /\ c.held) \/ Resume(c) = c
  BY DEF Resume
<1>. HIDE DEF d
<1>4. Mapped(d)
  BY <1>1, EmptySequences DEF Good, Able, Mapped
<1>5. Viewed(d) /\ Told(d) /\ Sends(d)
  BY <1>1, SameParts DEF Good, Able
<1>6. c.held => Holding(d) /\ Beside(d)
  BY <1>1 DEF Good, Able, Holding, Beside, InFlight, HoldsRooms, SameWire
<1>. QED  BY <1>1, <1>2, <1>3, <1>4, <1>5, <1>6 DEF Able, Good

(* Sending reaches the game only while connected (own_send).               *)
LEMMA SendAble ==
  ASSUME NEW c, Able(c), NEW cmds \in Seq(Commands)
  PROVE  /\ Able(Send(c, cmds)) /\ Send(c, cmds).online = c.online
         /\ Beside(c) => Good(Send(c, cmds))
<1>. DEFINE d == [c EXCEPT !.wire = @ \o cmds]
<1>1. /\ Shape(d) /\ SameMap(c, d) /\ SameView(c, d) /\ SameNews(c, d) /\ SameHold(c, d)
      /\ d.wire = c.wire \o cmds /\ d.walk = c.walk
      /\ d.enabled = c.enabled /\ d.mode = c.mode
  BY DEF Able, Shape, Fields, SameMap, SameView, SameNews, SameHold
<1>2. ControlType(d)
  BY DEF Able, Shape, Fields, ControlType
<1>3. Send(c, cmds) = IF c.online THEN d ELSE c
  BY DEF Send
<1>. HIDE DEF d
<1>4. Mapped(d) /\ Viewed(d) /\ Told(d)
  BY <1>1, SameParts DEF Able
<1>5. Sends(d)
  <2>1. c.wire \o cmds \in Seq(Commands)
    BY DEF Able, Sends
  <2>. QED  BY <1>1, <2>1 DEF Able, Sends
<1>6. c.online => Holding(d)
  BY <1>1 DEF Able, Holding, SameMap, SameHold, InFlight, HoldsRooms
<1>7. Beside(c) => Beside(d)
  BY <1>1 DEF Beside, InFlight, SameMap, SameHold
<1>. QED  BY <1>1, <1>2, <1>3, <1>4, <1>5, <1>6, <1>7 DEF Able, Good, SameHold

(* M.stop() from any state; the move it may hold is then beside no run.    *)
LEMMA StopGood ==
  ASSUME NEW c, Able(c), NEW timed_out \in BOOLEAN
  PROVE  /\ Good(Stop(c, timed_out)) /\ Stop(c, timed_out).online = c.online
         /\ ~Stop(c, timed_out).enabled
<1>. DEFINE hold == /\ c.enabled /\ c.mode = "explore" /\ c.state = "stepping"
                    /\ c.arrival = "move" /\ ~timed_out /\ ~c.batch
            paused == IF c.batch THEN Discard(c) ELSE IF c.active THEN Pause(c, hold) ELSE c
            window == hold /\ c.active /\ InFlight(paused)
            d == [paused EXCEPT !.enabled = FALSE, !.mode = "none", !.state = "idle",
                                !.arrival = "none", !.batch = FALSE, !.waits = 0,
                                !.walk = <<>>, !.target = NoMonster, !.farm_timer = FALSE,
                                !.hold_timer = window]
<1>1. Stop(c, timed_out) = d
  BY DEF Stop
<1>2. hold \in BOOLEAN
  OBVIOUS
<1>3. window \in BOOLEAN
  OBVIOUS
<1>. HIDE DEF hold
<1>4. Able(paused) /\ paused.online = c.online
  BY <1>2, DiscardGood, PauseAble DEF Good
<1>. HIDE DEF paused, window
<1>5. /\ Shape(d) /\ SameMap(paused, d) /\ SameNews(paused, d) /\ SameHold(paused, d)
      /\ d.view = paused.view /\ d.target = NoMonster /\ d.wire = paused.wire /\ d.walk = <<>>
      /\ d.enabled = FALSE
  BY <1>4 DEF Able, Shape, Fields, SameMap, SameNews, SameHold
<1>6. ControlType(d)
  BY <1>3, <1>4 DEF Able, Shape, Fields, ControlType
<1>. HIDE DEF d
<1>7. Mapped(d) /\ Told(d) /\ Holding(d)
  BY <1>4, <1>5, SameParts DEF Able
<1>8. Viewed(d) /\ Sends(d) /\ Beside(d)
  BY <1>4, <1>5 DEF Able, Viewed, Sends, Beside
<1>. QED  BY <1>1, <1>4, <1>5, <1>6, <1>7, <1>8 DEF Able, Good, SameHold

(* Everything the plugin sends is a command.                               *)
LEMMA CommandTypes ==
  /\ <<"portal">> \in Seq(Commands) /\ \A word \in Words : <<word>> \in Seq(Commands)
  /\ <<"refresh">> \in Seq(Commands) /\ <<"newsea">> \in Seq(Commands)
  /\ <<"out">> \in Seq(Commands) /\ <<"portal", "newsea">> \in Seq(Commands)
  /\ \A dir \in Dirs : <<dir>> \in Seq(Commands) /\ <<dir>> \in Seq(Dirs)
  /\ Seq(Dirs) \subseteq Seq(Commands) /\ Seq(Dirs \cup {"open"}) \subseteq Seq(Commands)
<1>1. /\ {"portal", "refresh", "newsea", "out"} \subseteq Commands
      /\ Dirs \subseteq Commands /\ Dirs \cup {"open"} \subseteq Commands
      /\ Words \subseteq Commands
  BY DEF Commands, Orders
<1>2. \A S, T : S \subseteq T => Seq(S) \subseteq Seq(T)
  OBVIOUS
<1>. HIDE DEF Commands
<1>. QED  BY <1>1, <1>2

(* A step of the control state keeps a held move beside no explore run.    *)
LEMMA SteersGood ==
  ASSUME NEW c, Good(c), NEW d, Shape(d), ControlType(d), Steers(c, d),
         d.enabled => c.enabled /\ d.mode = c.mode
  PROVE  Good(d) /\ d.online = c.online
<1>1. Able(d)
  BY SteersKeeps DEF Good
<1>2. Beside(d)
  BY DEF Good, Beside, InFlight, Steers, SameMap, SameHold
<1>. QED  BY <1>1, <1>2 DEF Good, Steers, SameHold

(* A run that ends by itself.                                              *)
LEMMA EndRunGood ==
  ASSUME NEW c, Good(c), NEW why
  PROVE  /\ Good(EndRun(c, why)) /\ EndRun(c, why).online = c.online
<1>. DEFINE d == EndRun(c, why)
<1>1. Shape(d) /\ ControlType(d) /\ d.enabled = FALSE
  BY DEF Good, Able, EndRun, Shape, Fields, ControlType
<1>2. Steers(c, d)
  BY DEF Good, Able, EndRun, Shape, Fields, Steers, SameMap, SameView, SameNews, SameWire, SameHold
<1>. HIDE DEF d
<1>. QED  BY <1>1, <1>2, SteersGood DEF d

(* Waiting for an arrival (begin_arrival_wait).                            *)
LEMMA AwaitGood ==
  ASSUME NEW c, Good(c), NEW kind \in {"refresh", "setup", "move"}
  PROVE  Good(AwaitArrival(c, kind)) /\ AwaitArrival(c, kind).online = c.online
<1>. DEFINE d == AwaitArrival(c, kind)
<1>1. Shape(d) /\ ControlType(d) /\ d.enabled = c.enabled /\ d.mode = c.mode
  BY DEF Good, Able, AwaitArrival, Shape, Fields, ControlType
<1>2. Steers(c, d)
  BY DEF Good, Able, AwaitArrival, Shape, Fields, Steers, SameMap, SameView, SameNews, SameWire,
         SameHold
<1>. HIDE DEF d
<1>. QED  BY <1>1, <1>2, SteersGood DEF d

(* A refresh that cannot be sent stops the run (request_combat_refresh).   *)
LEMMA RequestRefreshGood ==
  ASSUME NEW c, Good(c)
  PROVE  Good(RequestRefresh(c)) /\ RequestRefresh(c).online = c.online
BY SendAble, StopGood, CommandTypes DEF RequestRefresh, Good

(* A new instance seen on its way out (check_instance_reset).              *)
LEMMA RediveGood ==
  ASSUME NEW c, Good(c) PROVE Good(Redive(c)) /\ Redive(c).online = c.online
<1>1. Able(IF c.batch THEN Stop(c, FALSE) ELSE c)
  BY StopGood DEF Good
<1>2. (IF c.batch THEN Stop(c, FALSE) ELSE c).online = c.online
  BY StopGood DEF Good
<1>. QED  BY <1>1, <1>2, DiscardGood DEF Redive

(* The first monster of those listed is a monster.                         *)
LEMMA FirstType ==
  ASSUME NEW c, Able(c), NEW listed \in SUBSET (DOMAIN c.view.monsters), listed # {}
  PROVE  First(c, listed) \in Monsters
<1>. DEFINE s == c.view.monsters
<1>1. s \in Seq(Monsters)
  BY DEF Able, Viewed
<1>. HIDE DEF s
<1>2. listed \in SUBSET Nat /\ DOMAIN s = 1 .. Len(s)
  BY <1>1 DEF s
<1>3. PICK i \in listed : \A j \in listed : i <= j
  BY <1>2, LeastOf
<1>4. (CHOOSE k \in listed : \A j \in listed : k <= j) \in listed
  BY <1>3
<1>5. \A k \in DOMAIN s : s[k] \in Monsters
  BY <1>1
<1>. QED  BY <1>4, <1>5 DEF First, s

(* The monsters that count are places on the list.                         *)
LEMMA StandingListed ==
  ASSUME NEW c
  PROVE  /\ Standing(c) \in SUBSET (DOMAIN c.view.monsters)
         /\ Attackable(c) \in SUBSET (DOMAIN c.view.monsters)
BY DEF Standing, Attackable

(* An attack (attack_monster).                                             *)
LEMMA AttackGood ==
  ASSUME NEW c, Good(c), NEW mob \in Monsters
  PROVE  Good(Attack(c, mob)) /\ Attack(c, mob).online = c.online
<1>. DEFINE d == [c EXCEPT !.state = "fighting", !.target = mob]
<1>1. Shape(d) /\ ControlType(d)
  BY DEF Good, Able, Shape, Fields, ControlType
<1>2. /\ SameMap(c, d) /\ SameNews(c, d) /\ SameWire(c, d) /\ SameHold(c, d)
      /\ d.view = c.view /\ d.target = mob /\ d.enabled = c.enabled /\ d.mode = c.mode
  BY DEF Good, Able, Shape, Fields, SameMap, SameNews, SameWire, SameHold
<1>3. Attack(c, mob) = Send(d, <<Keyword[mob]>>)
  BY DEF Attack
<1>7. Keyword[mob] \in Words
  BY WordsAssumption
<1>. HIDE DEF d
<1>4. Mapped(d) /\ Told(d) /\ Sends(d) /\ Holding(d)
  BY <1>2, SameParts DEF Good, Able, SameWire
<1>5. Viewed(d) /\ Beside(d)
  BY <1>2 DEF Good, Able, Viewed, Beside, InFlight, SameMap, SameHold
<1>6. Good(d) /\ d.online = c.online
  BY <1>1, <1>2, <1>4, <1>5 DEF Good, Able, SameHold
<1>. QED  BY <1>3, <1>6, <1>7, SendAble, CommandTypes DEF Good

(* A view seeded from the contents list.                                   *)
LEMMA SeenInViewed ==
  ASSUME NEW c, Able(c), NEW key
  PROVE  /\ DOMAIN SeenIn(c, key) = {"key", "monsters", "players", "of"}
         /\ SeenIn(c, key).monsters \in Seq(Monsters)
BY DEF Able, Told, Contents, SeenIn

(* The view follows the room (sync_room_view).                             *)
LEMMA SyncViewGood ==
  ASSUME NEW c, Good(c) PROVE Good(SyncView(c)) /\ SyncView(c).online = c.online
<1>. DEFINE v == SeenIn(c, Key(c))
            d == [c EXCEPT !.view = v, !.target = NoMonster]
<1>1. DOMAIN v = {"key", "monsters", "players", "of"} /\ v.monsters \in Seq(Monsters)
  BY SeenInViewed DEF Good
<1>2. SyncView(c) \in {c, d}
  BY DEF SyncView
<1>. HIDE DEF v
<1>3. Shape(d) /\ ControlType(d)
  BY DEF Good, Able, Shape, Fields, ControlType
<1>4. /\ SameMap(c, d) /\ SameNews(c, d) /\ SameWire(c, d) /\ SameHold(c, d)
      /\ d.view = v /\ d.target = NoMonster /\ d.enabled = c.enabled /\ d.mode = c.mode
  BY DEF Good, Able, Shape, Fields, SameMap, SameNews, SameWire, SameHold
<1>. HIDE DEF d
<1>5. Mapped(d) /\ Told(d) /\ Sends(d) /\ Holding(d)
  BY <1>4, SameParts DEF Good, Able, SameWire
<1>6. Viewed(d) /\ Beside(d)
  BY <1>1, <1>4 DEF Good, Able, Viewed, Beside, InFlight, SameMap, SameHold
<1>7. Good(d) /\ d.online = c.online
  BY <1>3, <1>4, <1>5, <1>6 DEF Good, Able, SameHold
<1>. QED  BY <1>2, <1>7

(* Nothing is left behind the only element.                                *)
LEMMA TailOfOne == ASSUME NEW S, NEW s \in Seq(S), Len(s) = 1 PROVE Tail(s) = <<>>
<1>. DEFINE t == Tail(s)
<1>1. t \in Seq(S) /\ Len(t) = 0
  OBVIOUS
<1>. HIDE DEF t
<1>2. t = <<>>
  BY <1>1
<1>. QED  BY <1>2 DEF t

(* Rooms lie on the lattice.                                               *)
LEMMA PlaceFacts ==
  /\ Origin \in Int3 /\ Lobby \in Places
  /\ \A place \in Places : place.at \in Int3
<1>1. Origin \in Int3
  BY DEF Origin, Int3
<1>2. ASSUME NEW place \in Places PROVE place.at \in Int3
  <2>1. CASE place = Lobby
    BY <1>1, <2>1 DEF Lobby
  <2>2. CASE place # Lobby
    <3>1. PICK k \in DOMAIN Maze : place \in SeaPlaces(k)
      BY <2>2 DEF Places
    <3>2. PICK p \in DOMAIN Maze[k] : place = [sea |-> k, at |-> p]
      BY <3>1 DEF SeaPlaces
    <3>. QED  BY <3>2, MazeAssumption DEF Int3
  <2>. QED  BY <2>1, <2>2
<1>. QED  BY <1>1, <1>2 DEF Places

(* A part of the control state and the view; the map is another's.         *)
Rests(c, d) ==
  /\ SameView(c, d) /\ SameNews(c, d) /\ SameWire(c, d) /\ SameHold(c, d)
  /\ d.enabled = c.enabled /\ d.mode = c.mode /\ d.state = c.state /\ d.arrival = c.arrival
  /\ d.batch = c.batch /\ d.waits = c.waits

(* Filing the room the player is told of (map.lua record).                 *)
LEMMA FileRoomAble ==
  ASSUME NEW c, Able(c), InArea(c.info)
  PROVE  /\ Able(FileRoom(c)) /\ Rests(c, FileRoom(c))
         /\ FileRoom(c).pending = c.pending
<1>. DEFINE m == Record(c.map, Walkable(c.info))
            names == [p \in Visited(m) |-> IF p = m.pos THEN c.info ELSE c.filed[p]]
            d == [c EXCEPT !.map = m, !.filed = names]
<1>1. FileRoom(c) = d
  BY DEF FileRoom
<1>2. /\ Plotted(c.map) /\ Visited(c.map) \subseteq Int3 /\ c.map.pos \in Int3
      /\ c.filed \in [Visited(c.map) -> Places \ {Lobby}] /\ c.info \in Places \ {Lobby}
  BY DEF Able, Mapped, Plotted, MapOK, Told, InArea
<1>3. Plotted(m)
  BY <1>2, RecordPlotted
<1>4. Visited(m) = Visited(c.map) \cup {c.map.pos} /\ m.pos = c.map.pos
  BY <1>2 DEF Record, Plotted, Visited
<1>. HIDE DEF m
<1>5. names \in [Visited(m) -> Places \ {Lobby}] /\ Visited(m) \subseteq Int3
  BY <1>2, <1>4
<1>. HIDE DEF names
<1>6. Shape(d) /\ ControlType(d)
  BY DEF Able, Shape, Fields, ControlType
<1>7. /\ Rests(c, d) /\ d.map = m /\ d.filed = names /\ d.pending = c.pending /\ d.leave = c.leave
  BY DEF Able, Shape, Fields, Rests, SameView, SameNews, SameWire, SameHold
<1>. HIDE DEF d
<1>8. Mapped(d)
  BY <1>3, <1>5, <1>7 DEF Able, Mapped
<1>9. Viewed(d) /\ Told(d) /\ Sends(d)
  BY <1>7, SameParts DEF Able, Rests
<1>10. Holding(d)
  BY <1>4, <1>7 DEF Able, Holding, Rests, SameHold, SameWire, InFlight, HoldsRooms
<1>. QED  BY <1>1, <1>6, <1>7, <1>8, <1>9, <1>10 DEF Able

(* Standing somewhere else on the same map.                                *)
LEMMA PlacedAble ==
  ASSUME NEW c, Able(c), NEW p \in Int3, NEW disputed
  PROVE  LET d == [c EXCEPT !.map.pos = p, !.disputed = disputed]
         IN Able(d) /\ Rests(c, d) /\ d.pending = c.pending /\ d.info = c.info
<1>. DEFINE m == [c.map EXCEPT !.pos = p]
            d == [c EXCEPT !.map.pos = p, !.disputed = disputed]
<1>1. Plotted(c.map) /\ Visited(c.map) \subseteq Int3
  BY DEF Able, Mapped
<1>2. Plotted(m)
  BY <1>1, PlacedPlotted
<1>3. Visited(m) = Visited(c.map)
  BY <1>1 DEF Visited, Plotted
<1>. HIDE DEF m
<1>4. d = [c EXCEPT !.map = m, !.disputed = disputed]
  BY DEF m
<1>5. Shape(d) /\ ControlType(d)
  BY <1>4 DEF Able, Shape, Fields, ControlType
<1>6. /\ Rests(c, d) /\ d.map = m /\ d.filed = c.filed /\ d.pending = c.pending
      /\ d.leave = c.leave /\ d.info = c.info
  BY <1>4 DEF Able, Shape, Fields, Rests, SameView, SameNews, SameWire, SameHold
<1>. HIDE DEF d
<1>7. Mapped(d)
  BY <1>1, <1>2, <1>3, <1>6 DEF Able, Mapped
<1>8. Viewed(d) /\ Told(d) /\ Sends(d)
  BY <1>6, SameParts DEF Able, Rests
<1>9. Holding(d)
  BY <1>3, <1>6 DEF Able, Holding, Rests, SameHold, SameWire, InFlight, HoldsRooms
<1>. QED  BY <1>5, <1>6, <1>7, <1>8, <1>9 DEF Able, d

(* An arrival uses up the move that was held (mode.lua arrive).            *)
LEMMA ArriveGood ==
  ASSUME NEW c, Good(c)
  PROVE  /\ Good(Arrive(c)) /\ Arrive(c).online = c.online
         /\ ~Arrive(c).active => Arrive(c).pending = <<>>
<1>. DEFINE m == IF c.pending = <<>> THEN c.map ELSE Move(c.map, Head(c.pending))
            layer == c.info.at[3]
            pos == <<m.pos[1], m.pos[2], layer>>
            corrected == layer # m.pos[3] /\ ~(c.unanchored /\ ~HoldsRooms(c))
            contradicted == pos \in Visited(m) /\ m.rooms[pos] # Walkable(c.info) \cap Dirs
            placed == SetPosition(m, pos)
            rest == IF c.pending = <<>> THEN c.pending ELSE Tail(c.pending)
            moved == [c EXCEPT !.map = placed, !.unanchored = FALSE,
                               !.disputed = corrected, !.pending = rest]
            begun == [ResetMap(moved) EXCEPT !.map.pos = <<0, 0, layer>>, !.disputed = TRUE]
<1>1. Arrive(c) = IF ~InArea(c.info) THEN Discard(c)
                  ELSE IF contradicted THEN FileRoom(begun) ELSE FileRoom(moved)
  BY DEF Arrive
<1>2. /\ Plotted(c.map) /\ Visited(c.map) \subseteq Int3 /\ c.map.pos \in Int3
      /\ c.filed \in [Visited(c.map) -> Places \ {Lobby}] /\ c.pending \in Seq(Dirs)
      /\ c.info.at \in Int3
  BY PlaceFacts DEF Good, Able, Mapped, Plotted, MapOK, Told
<1>3. Plotted(m) /\ Visited(m) = Visited(c.map) /\ m.pos \in Int3
  <2>1. CASE c.pending = <<>>
    BY <1>2, <2>1
  <2>2. CASE c.pending # <<>>
    <3>1. Head(c.pending) \in Dirs
      BY <1>2, <2>2
    <3>2. Plus(c.map.pos, Delta[Head(c.pending)]) \in Int3
      BY <1>2, <3>1, DeltaType, PlusType
    <3>3. m = [c.map EXCEPT !.pos = Plus(c.map.pos, Delta[Head(c.pending)])]
      BY <2>2 DEF Move
    <3>4. Plotted(m)
      BY <1>2, <3>2, <3>3, PlacedPlotted
    <3>5. m.rooms = c.map.rooms
      BY <1>2, <3>3 DEF Plotted
    <3>. QED  BY <3>4, <3>5 DEF Plotted, MapOK, Visited
  <2>. QED  BY <2>1, <2>2
<1>. HIDE DEF m
<1>4. pos \in Int3 /\ layer \in Int
  BY <1>2, <1>3 DEF Int3
<1>. HIDE DEF layer, pos, contradicted, corrected
<1>5. Plotted(placed) /\ Visited(placed) = Visited(c.map)
  BY <1>3, <1>4, PlacedPlotted DEF SetPosition, Visited, Plotted
<1>6. /\ rest \in Seq(Dirs) /\ (rest # <<>> => c.pending # <<>>)
      /\ Len(c.pending) = 1 \/ c.pending = <<>> => rest = <<>>
  <2>1. CASE c.pending = <<>>
    BY <2>1, EmptySequences
  <2>2. CASE c.pending # <<>>
    <3>1. Tail(c.pending) \in Seq(Dirs) /\ Len(Tail(c.pending)) = Len(c.pending) - 1
      BY <1>2, <2>2
    <3>2. Len(c.pending) = 1 => Tail(c.pending) = <<>>
      BY <1>2, TailOfOne
    <3>. QED  BY <2>2, <3>1, <3>2
  <2>. QED  BY <2>1, <2>2
<1>. HIDE DEF placed, rest
<1>7. Shape(moved) /\ ControlType(moved)
  BY DEF Good, Able, Shape, Fields, ControlType
<1>8. /\ Rests(c, moved) /\ moved.map = placed /\ moved.filed = c.filed /\ moved.pending = rest
      /\ moved.leave = c.leave
  BY DEF Good, Able, Shape, Fields, Rests, SameView, SameNews, SameWire, SameHold
<1>. HIDE DEF moved
<1>9. Mapped(moved)
  BY <1>2, <1>5, <1>6, <1>8 DEF Good, Able, Mapped
<1>10. Viewed(moved) /\ Told(moved) /\ Sends(moved)
  BY <1>8, SameParts DEF Good, Able, Rests
<1>11. ~moved.active => rest = <<>>
  BY <1>6, <1>8 DEF Good, Able, Holding, InFlight, Rests, SameHold
<1>12. Holding(moved)
  BY <1>5, <1>6, <1>8, <1>11
     DEF Good, Able, Holding, Rests, SameHold, SameWire, InFlight, HoldsRooms
<1>13. Able(moved) /\ moved.info = c.info /\ moved.online = c.online /\ moved.active = c.active
  BY <1>7, <1>8, <1>9, <1>10, <1>12 DEF Able, Rests, SameNews, SameHold
<1>. DEFINE r == ResetMap(moved)
<1>14. /\ Able(r) /\ r.info = c.info /\ r.online = c.online /\ r.active = c.active
       /\ ~r.active => r.pending = <<>>
  <2>1. r.info = moved.info /\ r.active = moved.active
    BY <1>13 DEF ResetMap, Blank, Able, Shape, Fields
  <2>2. r.pending \in {moved.pending, <<>>}
    BY <1>13, ResetMapAble DEF Emptied, ResetMap
  <2>. QED  BY <1>8, <1>11, <1>13, <2>1, <2>2, ResetMapAble
<1>. HIDE DEF r
<1>15. /\ Able(begun) /\ begun.info = c.info /\ begun.online = c.online /\ begun.active = c.active
       /\ ~begun.active => begun.pending = <<>>
  <2>1. <<0, 0, layer>> \in Int3
    BY <1>4 DEF Int3
  <2>2. begun = [r EXCEPT !.map.pos = <<0, 0, layer>>, !.disputed = TRUE]
    BY DEF r
  <2>. HIDE DEF begun
  <2>3. Able(begun) /\ Rests(r, begun) /\ begun.pending = r.pending /\ begun.info = r.info
    BY <1>14, <2>1, <2>2, PlacedAble
  <2>. QED  BY <1>14, <2>3 DEF Rests, SameHold
<1>. HIDE DEF begun
<1>16. ASSUME NEW d, Able(d), d.info = c.info, InArea(c.info), d.online = c.online,
              ~d.active => d.pending = <<>>
       PROVE  /\ Good(FileRoom(d)) /\ FileRoom(d).online = c.online
              /\ ~FileRoom(d).active => FileRoom(d).pending = <<>>
  BY <1>16, FileRoomAble DEF Rests, SameHold, Good, Beside, InFlight
<1>17. Discard(c).pending = <<>>
  BY DEF Discard, Blank, Good, Able, Shape, Fields
<1>18. CASE ~InArea(c.info)
  BY <1>1, <1>17, <1>18, DiscardGood DEF Good
<1>19. CASE InArea(c.info)
  BY <1>1, <1>8, <1>11, <1>13, <1>15, <1>16, <1>19
<1>. QED  BY <1>18, <1>19

(* The walk back is armed only on a map with rooms (mode.lua leave).       *)
LEMMA LeaveGood ==
  ASSUME NEW c, Good(c) PROVE Good(Leave(c)) /\ Leave(c).online = c.online
<1>. DEFINE home == PathTo(c.map, Origin)
            path == home.path
            d == [c EXCEPT !.leaving = TRUE, !.leave = path]
<1>1. path \in Seq(Dirs)
  BY PathToIsShortest DEF Good, Able, Mapped, Plotted
<1>2. home.found => HoldsRooms(c)
  BY DEF PathTo, HoldsRooms
<1>3. (Leave(c) = d /\ HoldsRooms(c)) \/ Leave(c) = c
  BY <1>2 DEF Leave
<1>. HIDE DEF path
<1>4. Shape(d) /\ ControlType(d)
  BY DEF Good, Able, Shape, Fields, ControlType
<1>5. /\ Rests(c, d) /\ d.map = c.map /\ d.filed = c.filed /\ d.pending = c.pending
      /\ d.leave = path
  BY DEF Good, Able, Shape, Fields, Rests, SameView, SameNews, SameWire, SameHold
<1>. HIDE DEF d
<1>6. Mapped(d)
  BY <1>1, <1>5 DEF Good, Able, Mapped
<1>7. Viewed(d) /\ Told(d) /\ Sends(d)
  BY <1>5, SameParts DEF Good, Able, Rests
<1>8. HoldsRooms(c) => Holding(d) /\ Beside(d)
  BY <1>5 DEF Good, Able, Holding, Beside, Rests, SameHold, SameWire, InFlight, HoldsRooms
<1>. QED  BY <1>3, <1>4, <1>5, <1>6, <1>7, <1>8 DEF Good, Able, Rests, SameHold

(* The path of an answer of next_step.                                     *)
LEMMA AnswerPath == ASSUME NEW p, NEW w PROVE [path |-> p, why |-> w].path = p
OBVIOUS

(* What the explorer chooses is a route over a map with rooms.             *)
LEMMA NextStepType ==
  ASSUME NEW c, Good(c)
  PROVE  LET next == NextStep(c)
         IN /\ next.path \in Seq(Dirs)
            /\ next.path # <<>> => HoldsRooms(c) /\ (c.leaving => c.leave # <<>>)
<1>. DEFINE frontier == NextFrontier(c.map, Config.policy, DiveDirs, DeferDirs)
<1>1. frontier \in Seq(Dirs)
  BY NextFrontierType DEF Good, Able, Mapped, Plotted
<1>2. frontier # <<>> => HoldsRooms(c)
  BY DEF NextFrontier, SearchFrontier, HoldsRooms
<1>3. c.leave \in Seq(Dirs) /\ (c.leave # <<>> => HoldsRooms(c))
  BY DEF Good, Able, Mapped, Holding
<1>4. c.leave # <<>> => <<Head(c.leave)>> \in Seq(Dirs)
  BY <1>3
<1>. HIDE DEF frontier
<1>5. NextStep(c) = IF c.pending # <<>> THEN [path |-> <<>>, why |-> "in flight"]
                    ELSE IF c.leaving
                         THEN IF c.leave = <<>> THEN [path |-> <<>>, why |-> "at origin"]
                              ELSE [path |-> <<Head(c.leave)>>, why |-> "leaving"]
                    ELSE IF frontier = <<>> THEN [path |-> <<>>, why |-> "exhausted"]
                    ELSE [path |-> frontier, why |-> "frontier"]
  BY DEF NextStep, frontier
<1>6. CASE c.pending # <<>>
  <2>1. NextStep(c) = [path |-> <<>>, why |-> "in flight"]
    BY <1>5, <1>6
  <2>2. NextStep(c).path = <<>>
    BY <2>1, AnswerPath
  <2>. QED  BY <2>2, EmptySequences
<1>7. CASE c.pending = <<>> /\ c.leaving
  <2>. DEFINE first == <<Head(c.leave)>>
  <2>1. CASE c.leave = <<>>
    <3>1. NextStep(c) = [path |-> <<>>, why |-> "at origin"]
      BY <1>5, <1>7, <2>1
    <3>2. NextStep(c).path = <<>>
      BY <3>1, AnswerPath
    <3>. QED  BY <3>2, EmptySequences
  <2>2. CASE c.leave # <<>>
    <3>1. NextStep(c) = [path |-> first, why |-> "leaving"]
      BY <1>5, <1>7, <2>2
    <3>2. first \in Seq(Dirs)
      BY <1>4, <2>2
    <3>. HIDE DEF first
    <3>3. NextStep(c).path = first
      BY <3>1
    <3>. QED  BY <1>3, <2>2, <3>2, <3>3
  <2>. QED  BY <2>1, <2>2
<1>8. CASE c.pending = <<>> /\ ~c.leaving
  <2>1. NextStep(c).path = frontier
    BY <1>5, <1>8
  <2>. QED  BY <1>1, <1>2, <1>8, <2>1
<1>. QED  BY <1>6, <1>7, <1>8

(* A step sent while connected is what the explorer then waits for.        *)
LEMMA TakeGood ==
  ASSUME NEW c, Good(c), c.online, c.active
  PROVE  Good(Take(c, NextStep(c))) /\ Take(c, NextStep(c)).online
<1>. DEFINE next == NextStep(c)
            path == next.path
            a == AwaitArrival(c, "move")
            rest == IF c.leaving THEN Tail(c.leave) ELSE c.leave
            long == Len(path) > 1
            d == [a EXCEPT !.pending = path, !.leave = rest, !.batch = long]
<1>1. path \in Seq(Dirs) /\ (path # <<>> => HoldsRooms(c) /\ (c.leaving => c.leave # <<>>))
  BY NextStepType
<1>2. Good(Pause(EndRun(c, next.why), FALSE)) /\ Pause(EndRun(c, next.why), FALSE).online
  <2>. DEFINE e == EndRun(c, next.why)
  <2>1. Good(e) /\ e.online
    BY EndRunGood
  <2>. HIDE DEF e
  <2>2. Good(Pause(e, FALSE)) /\ Pause(e, FALSE).online
    BY <2>1, PauseAble DEF Good
  <2>. QED  BY <2>2 DEF e
<1>3. Take(c, next) = IF path = <<>> THEN Pause(EndRun(c, next.why), FALSE) ELSE Send(d, path)
  <2>1. a.leave = c.leave
    BY DEF AwaitArrival, Good, Able, Shape, Fields
  <2>. QED  BY <2>1 DEF Take
<1>. SUFFICES ASSUME path # <<>> PROVE Good(Send(d, path)) /\ Send(d, path).online
  BY <1>2, <1>3
<1>4. rest \in Seq(Dirs)
  BY <1>1 DEF Good, Able, Mapped
<1>5. long \in BOOLEAN
  OBVIOUS
<1>6. /\ Good(a) /\ a.online /\ a.active /\ a.map = c.map /\ a.filed = c.filed
  <2>1. Good(a) /\ a.online
    BY AwaitGood
  <2>2. a.active = c.active /\ a.map = c.map /\ a.filed = c.filed
    BY DEF AwaitArrival, Good, Able, Shape, Fields
  <2>. QED  BY <2>1, <2>2
<1>. HIDE DEF next, path, a, rest, long
<1>7. Shape(d) /\ ControlType(d)
  BY <1>5, <1>6 DEF Good, Able, Shape, Fields, ControlType
<1>8. /\ SameView(a, d) /\ SameNews(a, d) /\ SameWire(a, d) /\ SameHold(a, d)
      /\ d.map = a.map /\ d.filed = a.filed /\ d.pending = path /\ d.leave = rest
  BY <1>6 DEF Good, Able, Shape, Fields, SameView, SameNews, SameWire, SameHold
<1>. HIDE DEF d
<1>9. Mapped(d)
  BY <1>1, <1>4, <1>6, <1>8 DEF Good, Able, Mapped
<1>10. Viewed(d) /\ Told(d) /\ Sends(d)
  BY <1>6, <1>8, SameParts DEF Good, Able
<1>11. Holding(d) /\ Beside(d)
  BY <1>1, <1>6, <1>8 DEF Good, Able, Holding, Beside, SameHold, SameWire, InFlight, HoldsRooms
<1>12. Good(d) /\ d.online
  BY <1>6, <1>7, <1>8, <1>9, <1>10, <1>11 DEF Good, Able, SameHold
<1>13. path \in Seq(Commands)
  BY <1>1, CommandTypes
<1>. QED  BY <1>12, <1>13, SendAble DEF Good

(* The sea is finished: the map is paused for the farm, or given up.       *)
LEMMA FinishSeaGood ==
  ASSUME NEW c, Good(c)
  PROVE  Good(FinishSea(c)) /\ FinishSea(c).online = c.online
<1>. DEFINE e == EndRun(c, "complete")
            p == Pause(e, FALSE)
            d == [p EXCEPT !.farm_timer = TRUE]
<1>1. FinishSea(c) \in {Stop(c, FALSE), d, Send(Discard(e), <<"portal">>)}
  BY DEF FinishSea
<1>2. Good(e) /\ e.online = c.online
  BY EndRunGood
<1>. HIDE DEF e
<1>3. Good(p) /\ p.online = c.online
  BY <1>2, PauseAble DEF Good
<1>4. Good(Discard(e)) /\ Discard(e).online = c.online
  BY <1>2, DiscardGood DEF Good
<1>5. /\ Good(Send(Discard(e), <<"portal">>))
      /\ Send(Discard(e), <<"portal">>).online = c.online
  BY <1>4, SendAble, CommandTypes DEF Good
<1>. HIDE DEF p
<1>6. Good(d) /\ d.online = c.online
  <2>1. Shape(d) /\ ControlType(d) /\ d.enabled = p.enabled /\ d.mode = p.mode
    BY <1>3 DEF Good, Able, Shape, Fields, ControlType
  <2>2. Steers(p, d)
    BY <1>3 DEF Good, Able, Shape, Fields, Steers, SameMap, SameView, SameNews, SameWire, SameHold
  <2>. HIDE DEF d
  <2>. QED  BY <1>3, <2>1, <2>2, SteersGood
<1>. HIDE DEF d
<1>. QED  BY <1>1, <1>5, <1>6, StopGood DEF Good

(* One step of an explore run (do_step).                                   *)
LEMMA ExploreStepGood ==
  ASSUME NEW c, Good(c), c.online PROVE Good(ExploreStep(c)) /\ ExploreStep(c).online
<1>1. CASE ~c.active
  BY <1>1, EndRunGood DEF ExploreStep
<1>2. CASE c.active
  BY <1>2, FinishSeaGood, TakeGood DEF ExploreStep
<1>. QED  BY <1>1, <1>2

(* A part of a stored route is commands.                                   *)
LEMMA RouteStepGood ==
  ASSUME NEW c, Good(c), c.online PROVE Good(RouteStep(c)) /\ RouteStep(c).online
<1>. DEFINE walk == c.walk
            moves == {i \in DOMAIN walk : walk[i] # "open"}
            n == CHOOSE i \in moves : \A j \in moves : i <= j
            left == SubSeq(walk, n + 1, Len(walk))
            part == SubSeq(walk, 1, n)
            done == [c EXCEPT !.walk = <<>>]
            shorter == [c EXCEPT !.walk = left, !.batch = FALSE]
            S == Dirs \cup {"open"}
<1>1. RouteStep(c) = IF moves = {} THEN EndRun(Send(done, walk), "route complete")
                     ELSE Send(AwaitArrival(shorter, "move"), part)
  BY DEF RouteStep
<1>2. walk \in Seq(S) /\ <<>> \in Seq(S)
  BY DEF Good, Able, Sends
<1>. HIDE DEF walk, S
<1>3. moves # {} => left \in Seq(S) /\ part \in Seq(S)
  <2>. SUFFICES ASSUME moves # {} PROVE left \in Seq(S) /\ part \in Seq(S)
    OBVIOUS
  <2>1. moves \in SUBSET Nat
    BY <1>2
  <2>2. PICK i \in moves : \A j \in moves : i <= j
    BY <2>1, LeastOf
  <2>3. n \in moves
    BY <2>2
  <2>. HIDE DEF n
  <2>4. n \in DOMAIN walk /\ DOMAIN walk = 1 .. Len(walk) /\ Len(walk) \in Nat
    BY <1>2, <2>3
  <2>. QED  BY <1>2, <2>4
<1>4. Seq(S) \subseteq Seq(Commands)
  BY CommandTypes DEF S
<1>. HIDE DEF left, part, moves
<1>5. ASSUME NEW w \in Seq(S), NEW batch \in BOOLEAN, NEW d,
             d = [c EXCEPT !.walk = w, !.batch = batch] \/ d = [c EXCEPT !.walk = w]
      PROVE  Good(d) /\ d.online
  <2>0. Shape(c) /\ ControlType(c) /\ DOMAIN d = Fields
    BY <1>5 DEF Good, Able, Shape
  <2>1. Shape(d) /\ ControlType(d)
    <3>0. d.batch \in BOOLEAN
      BY <1>5, <2>0 DEF Shape, Fields, ControlType
    <3>1. /\ d.enabled = c.enabled /\ d.active = c.active /\ d.held = c.held
          /\ d.leaving = c.leaving /\ d.unanchored = c.unanchored
      BY <1>5, <2>0 DEF Shape, Fields
    <3>2. /\ d.hold_timer = c.hold_timer /\ d.farm = c.farm /\ d.farm_timer = c.farm_timer
          /\ d.online = c.online
      BY <1>5, <2>0 DEF Shape, Fields
    <3>3. /\ d.mode = c.mode /\ d.state = c.state /\ d.arrival = c.arrival
          /\ d.waits = c.waits
      BY <1>5, <2>0 DEF Shape, Fields
    <3>. QED  BY <2>0, <3>0, <3>1, <3>2, <3>3 DEF Shape, ControlType
  <2>2. /\ SameMap(c, d) /\ SameView(c, d) /\ SameNews(c, d) /\ SameHold(c, d)
        /\ d.wire = c.wire /\ d.walk = w /\ d.enabled = c.enabled /\ d.mode = c.mode
    <3>1. SameMap(c, d) /\ SameView(c, d)
      BY <1>5, <2>0 DEF Shape, Fields, SameMap, SameView
    <3>2. SameNews(c, d) /\ SameHold(c, d)
      BY <1>5, <2>0 DEF Shape, Fields, SameNews, SameHold
    <3>3. d.wire = c.wire /\ d.walk = w /\ d.enabled = c.enabled /\ d.mode = c.mode
      BY <1>5, <2>0 DEF Shape, Fields
    <3>. QED  BY <3>1, <3>2, <3>3
  <2>3. Mapped(d) /\ Viewed(d) /\ Told(d) /\ Holding(d)
    BY <2>2, SameParts DEF Good, Able
  <2>4. Sends(d) /\ Beside(d)
    BY <2>2, <1>5 DEF Good, Able, Sends, Beside, InFlight, SameMap, SameHold, S
  <2>. QED  BY <2>1, <2>2, <2>3, <2>4 DEF Good, Able, SameHold
<1>6. CASE moves = {}
  <2>1. Good(done) /\ done.online
    BY <1>2, <1>5
  <2>. HIDE DEF done
  <2>. DEFINE sent == Send(done, walk)
  <2>2. Good(sent) /\ sent.online
    BY <1>2, <1>4, <2>1, SendAble DEF Good
  <2>. HIDE DEF sent
  <2>3. Good(EndRun(sent, "route complete")) /\ EndRun(sent, "route complete").online
    BY <2>2, EndRunGood
  <2>. QED  BY <1>1, <1>6, <2>3 DEF sent
<1>7. CASE moves # {}
  <2>1. Good(shorter) /\ shorter.online
    BY <1>3, <1>5, <1>7
  <2>. HIDE DEF shorter
  <2>. DEFINE a == AwaitArrival(shorter, "move")
  <2>2. Good(a) /\ a.online
    BY <2>1, AwaitGood
  <2>. HIDE DEF a
  <2>3. Good(Send(a, part)) /\ Send(a, part).online
    BY <1>3, <1>4, <1>7, <2>2, SendAble DEF Good
  <2>. QED  BY <1>1, <1>7, <2>3 DEF a
<1>. QED  BY <1>6, <1>7

(* One step of either kind of run (do_step).                               *)
LEMMA DoStepGood == ASSUME NEW c, Good(c), c.online PROVE Good(DoStep(c)) /\ DoStep(c).online
BY ExploreStepGood, RouteStepGood DEF DoStep

(* What is decided in a room (process_room).                               *)
LEMMA ProcessChoices ==
  ASSUME NEW c0, Good(c0)
  PROVE  LET c == SyncView(c0)
         IN \/ ProcessRoom(c0) \in {Stop(c, FALSE), DoStep(c)}
            \/ \E mob \in Monsters : ProcessRoom(c0) = Attack(c, mob)
<1>. DEFINE c == SyncView(c0)
            g == First(c, Standing(c))
            h == First(c, Attackable(c))
<1>1. Good(c)
  BY SyncViewGood
<1>2. \/ Standing(c) # {} /\ ProcessRoom(c0) = Attack(c, g)
      \/ Attackable(c) # {} /\ ProcessRoom(c0) = Attack(c, h)
      \/ ProcessRoom(c0) \in {Stop(c, FALSE), DoStep(c)}
  BY DEF ProcessRoom
<1>. HIDE DEF c
<1>3. Standing(c) # {} => g \in Monsters
  BY <1>1, FirstType, StandingListed DEF Good
<1>4. Attackable(c) # {} => h \in Monsters
  BY <1>1, FirstType, StandingListed DEF Good
<1>. HIDE DEF g, h
<1>. QED  BY <1>2, <1>3, <1>4 DEF c

LEMMA ProcessRoomGood ==
  ASSUME NEW c0, Good(c0), c0.online PROVE Good(ProcessRoom(c0)) /\ ProcessRoom(c0).online
<1>. DEFINE c == SyncView(c0)
<1>1. Good(c) /\ c.online
  BY SyncViewGood
<1>2. \/ ProcessRoom(c0) \in {Stop(c, FALSE), DoStep(c)}
      \/ \E mob \in Monsters : ProcessRoom(c0) = Attack(c, mob)
  BY ProcessChoices
<1>. HIDE DEF c
<1>3. Good(Stop(c, FALSE)) /\ Stop(c, FALSE).online
  BY <1>1, StopGood DEF Good
<1>4. Good(DoStep(c)) /\ DoStep(c).online
  BY <1>1, DoStepGood
<1>5. ASSUME NEW mob \in Monsters PROVE Good(Attack(c, mob)) /\ Attack(c, mob).online
  BY <1>1, AttackGood
<1>. QED  BY <1>2, <1>3, <1>4, <1>5

(* A step of the control state and the view.                               *)
LEMMA LooksGood ==
  ASSUME NEW c, Good(c), NEW d, Shape(d), ControlType(d), Viewed(d),
         SameMap(c, d), SameNews(c, d), SameWire(c, d), SameHold(c, d),
         d.enabled => c.enabled /\ d.mode = c.mode
  PROVE  Good(d) /\ d.online = c.online
<1>1. Mapped(d) /\ Told(d) /\ Sends(d) /\ Holding(d)
  BY SameParts DEF Good, Able, SameWire
<1>2. Beside(d)
  BY DEF Good, Beside, InFlight, SameMap, SameHold
<1>. QED  BY <1>1, <1>2 DEF Good, Able, SameHold

(* An answered step (complete_arrival).                                    *)
LEMMA CompleteArrivalGood ==
  ASSUME NEW c, Good(c), c.online
  PROVE  Good(CompleteArrival(c)) /\ CompleteArrival(c).online
<1>. DEFINE u == [c EXCEPT !.disputed = FALSE]
            a == IF c.active THEN Arrive(u) ELSE c
            d == [a EXCEPT !.batch = FALSE, !.arrival = "none", !.state = "idle"]
<1>1. Good(u) /\ u.online
  <2>1. Shape(u) /\ ControlType(u) /\ u.enabled = c.enabled /\ u.mode = c.mode
    BY DEF Good, Able, Shape, Fields, ControlType
  <2>2. Steers(c, u)
    BY DEF Good, Able, Shape, Fields, Steers, SameMap, SameView, SameNews, SameWire, SameHold
  <2>. HIDE DEF u
  <2>. QED  BY <2>1, <2>2, SteersGood
<1>. HIDE DEF u
<1>2. Good(a) /\ a.online
  BY <1>1, ArriveGood
<1>3. CompleteArrival(c) \in {Stop(a, FALSE), AwaitArrival(a, "move"), ProcessRoom(d)}
  BY DEF CompleteArrival, u
<1>. HIDE DEF a
<1>4. Good(Stop(a, FALSE)) /\ Stop(a, FALSE).online
  BY <1>2, StopGood DEF Good
<1>5. Good(AwaitArrival(a, "move")) /\ AwaitArrival(a, "move").online
  BY <1>2, AwaitGood
<1>6. Good(d) /\ d.online
  <2>1. Shape(d) /\ ControlType(d) /\ d.enabled = a.enabled /\ d.mode = a.mode
    BY <1>2 DEF Good, Able, Shape, Fields, ControlType
  <2>2. Steers(a, d)
    BY <1>2 DEF Good, Able, Shape, Fields, Steers, SameMap, SameView, SameNews, SameWire, SameHold
  <2>. HIDE DEF d
  <2>. QED  BY <1>2, <2>1, <2>2, SteersGood
<1>. HIDE DEF d
<1>7. Good(ProcessRoom(d)) /\ ProcessRoom(d).online
  BY <1>6, ProcessRoomGood
<1>. QED  BY <1>3, <1>4, <1>5, <1>7

(* A refresh that answers a fight (finish_combat_refresh).                 *)
LEMMA ReseedGood ==
  ASSUME NEW c, Good(c), c.online
  PROVE  Good(ReseedAndDecide(c)) /\ ReseedAndDecide(c).online
<1>. DEFINE v == SeenIn(c, c.view.key)
            d == [c EXCEPT !.waits = 0, !.view = v, !.target = NoMonster, !.state = "idle"]
<1>1. ReseedAndDecide(c) = ProcessRoom(d)
  BY DEF ReseedAndDecide
<1>2. DOMAIN v = {"key", "monsters", "players", "of"} /\ v.monsters \in Seq(Monsters)
  BY SeenInViewed DEF Good
<1>. HIDE DEF v
<1>3. Shape(d) /\ ControlType(d)
  <2>1. Shape(d)
    BY DEF Good, Able, Shape
  <2>2. /\ d.enabled = c.enabled /\ d.active = c.active /\ d.held = c.held /\ d.mode = c.mode
        /\ d.state = "idle" /\ d.arrival = c.arrival /\ d.batch = c.batch /\ d.waits = 0
        /\ d.leaving = c.leaving /\ d.unanchored = c.unanchored /\ d.farm = c.farm
        /\ d.hold_timer = c.hold_timer /\ d.farm_timer = c.farm_timer /\ d.online = c.online
    BY DEF Good, Able, Shape, Fields
  <2>. HIDE DEF d
  <2>3. ControlType(d)
    BY <2>2 DEF Good, Able, ControlType
  <2>. QED  BY <2>1, <2>3
<1>4. /\ SameMap(c, d) /\ SameNews(c, d) /\ SameWire(c, d) /\ SameHold(c, d)
      /\ d.view = v /\ d.target = NoMonster /\ d.enabled = c.enabled /\ d.mode = c.mode
  BY DEF Good, Able, Shape, Fields, SameMap, SameNews, SameWire, SameHold
<1>. HIDE DEF d
<1>5. Viewed(d)
  BY <1>2, <1>4 DEF Viewed
<1>6. Good(d) /\ d.online
  BY <1>3, <1>4, <1>5, LooksGood
<1>. QED  BY <1>1, <1>6, ProcessRoomGood

(* An entry no step asked for uses up the held move, stops an explore run, *)
(* or empties the map of a paused one (on_unasked_entry).                  *)
LEMMA OnUnaskedEntryGood ==
  ASSUME NEW c, Good(c)
  PROVE  Good(OnUnaskedEntry(c).client) /\ OnUnaskedEntry(c).client.online = c.online
<1>. DEFINE d == IF HoldsRooms(c) THEN ResetMap(c) ELSE c
            u == [c EXCEPT !.hold_timer = FALSE]
<1>1. Good(d) /\ d.online = c.online
  BY ResetMapAble DEF Good
<1>2. Good(u) /\ u.online = c.online
  <2>1. Shape(u) /\ ControlType(u) /\ u.enabled = c.enabled /\ u.mode = c.mode
    BY DEF Good, Able, Shape, Fields, ControlType
  <2>2. Steers(c, u)
    BY DEF Good, Able, Shape, Fields, Steers, SameMap, SameView, SameNews, SameWire, SameHold
  <2>. HIDE DEF u
  <2>. QED  BY <2>1, <2>2, SteersGood
<1>3. OnUnaskedEntry(c).client \in {Arrive(u), Stop(d, FALSE), d}
  BY DEF OnUnaskedEntry
<1>. HIDE DEF d, u
<1>4. Good(Arrive(u)) /\ Arrive(u).online = c.online
  BY <1>2, ArriveGood
<1>5. Good(Stop(d, FALSE)) /\ Stop(d, FALSE).online = c.online
  BY <1>1, StopGood DEF Good
<1>. QED  BY <1>1, <1>3, <1>4, <1>5

(* Contents are an answer, an arrival, or ignored (on_room_contents_frame).*)
LEMMA OnAskedContentsGood ==
  ASSUME NEW c, Good(c), c.online
  PROVE  Good(OnAskedContents(c)) /\ OnAskedContents(c).online
<1>1. OnAskedContents(c) \in {c, Stop(c, FALSE), ReseedAndDecide(c), CompleteArrival(c)}
  BY DEF OnAskedContents
<1>. QED  BY <1>1, StopGood, ReseedGood, CompleteArrivalGood DEF Good

(* The whole contents handler (on_room_contents_frame).                    *)
LEMMA OnRoomContentsGood ==
  ASSUME NEW c0, Good(c0), c0.online, NEW frame \in Contents
  PROVE  Good(OnRoomContents(c0, frame)) /\ OnRoomContents(c0, frame).online
<1>. DEFINE c == [c0 EXCEPT !.contents = frame]
            u == OnUnaskedEntry(c).client
<1>1. Good(c) /\ c.online
  <2>1. Shape(c) /\ ControlType(c)
    BY DEF Good, Able, Shape, Fields, ControlType
  <2>2. /\ SameMap(c0, c) /\ SameView(c0, c) /\ SameWire(c0, c) /\ SameHold(c0, c)
        /\ c.info = c0.info /\ c.contents = frame /\ c.enabled = c0.enabled /\ c.mode = c0.mode
    BY DEF Good, Able, Shape, Fields, SameMap, SameView, SameWire, SameHold
  <2>. HIDE DEF c
  <2>3. Mapped(c) /\ Viewed(c) /\ Sends(c) /\ Holding(c)
    BY <2>2, SameParts DEF Good, Able, SameWire
  <2>4. Told(c) /\ Beside(c)
    BY <2>2 DEF Good, Able, Told, Beside, InFlight, SameMap, SameHold
  <2>. QED  BY <2>1, <2>2, <2>3, <2>4 DEF Good, Able, SameHold
<1>2. OnRoomContents(c0, frame) \in {OnAskedContents(c), u, OnAskedContents(u)}
  BY DEF OnRoomContents
<1>. HIDE DEF c
<1>3. Good(u) /\ u.online
  BY <1>1, OnUnaskedEntryGood
<1>. HIDE DEF u
<1>. QED  BY <1>1, <1>2, <1>3, OnAskedContentsGood

(* A refresh asked for at the end of a fight (handle_combat_end).          *)
LEMMA OnCombatEndGood ==
  ASSUME NEW c, Good(c) PROVE Good(OnCombatEnd(c)) /\ OnCombatEnd(c).online = c.online
<1>. DEFINE d == [c EXCEPT !.waits = 1]
<1>1. OnCombatEnd(c) \in {c, RequestRefresh(d)}
  BY DEF OnCombatEnd
<1>2. Good(d) /\ d.online = c.online
  <2>1. Shape(d) /\ ControlType(d) /\ d.enabled = c.enabled /\ d.mode = c.mode
    BY DEF Good, Able, Shape, Fields, ControlType
  <2>2. Steers(c, d)
    BY DEF Good, Able, Shape, Fields, Steers, SameMap, SameView, SameNews, SameWire, SameHold
  <2>. HIDE DEF d
  <2>. QED  BY <2>1, <2>2, SteersGood
<1>. HIDE DEF d
<1>. QED  BY <1>1, <1>2, RequestRefreshGood

(* Striking a monster off a list leaves a list of monsters.                *)
LEMMA ForgetType ==
  ASSUME NEW S, NEW seq \in Seq(S), NEW mob PROVE Forget(seq, mob) \in Seq(S)
<1>. DEFINE i == IndexOf(seq, mob)
<1>1. CASE \E j \in DOMAIN seq : seq[j] = mob
  <2>1. i \in DOMAIN seq
    BY <1>1 DEF IndexOf
  <2>. HIDE DEF i
  <2>2. i \in 1 .. Len(seq) /\ Len(seq) \in Nat
    BY <2>1
  <2>3. SubSeq(seq, 1, i - 1) \in Seq(S)
    BY <2>2
  <2>4. SubSeq(seq, i + 1, Len(seq)) \in Seq(S)
    BY <2>2
  <2>. QED  BY <1>1, <2>3, <2>4 DEF Forget, i
<1>2. CASE ~ \E j \in DOMAIN seq : seq[j] = mob
  BY <1>2 DEF Forget
<1>. QED  BY <1>1, <1>2

(* A failed attack decides again (on_attack_no_target).                    *)
LEMMA OnNoTargetGood ==
  ASSUME NEW c, NEW word, Good(c), c.online
  PROVE  Good(OnNoTarget(c, word)) /\ OnNoTarget(c, word).online
<1>. DEFINE left == Forget(c.view.monsters, c.target)
            v == [c.view EXCEPT !.monsters = left]
            d == [c EXCEPT !.view.monsters = Forget(@, c.target),
                           !.target = NoMonster, !.state = "idle"]
            e == [c EXCEPT !.view = v, !.target = NoMonster, !.state = "idle"]
<1>1. OnNoTarget(c, word) \in {c, ProcessRoom(d)}
  BY DEF OnNoTarget
<1>2. DOMAIN c.view = {"key", "monsters", "players", "of"} /\ left \in Seq(Monsters)
  BY ForgetType DEF Good, Able, Viewed
<1>3. d = e
  OBVIOUS
<1>. HIDE DEF left, d
<1>4. DOMAIN v = {"key", "monsters", "players", "of"} /\ v.monsters = left
  BY <1>2
<1>. HIDE DEF v
<1>5. Shape(e) /\ ControlType(e)
  BY DEF Good, Able, Shape, Fields, ControlType
<1>6. /\ SameMap(c, e) /\ SameNews(c, e) /\ SameWire(c, e) /\ SameHold(c, e)
      /\ e.view = v /\ e.target = NoMonster /\ e.enabled = c.enabled /\ e.mode = c.mode
  BY DEF Good, Able, Shape, Fields, SameMap, SameNews, SameWire, SameHold
<1>. HIDE DEF e
<1>7. Viewed(e)
  BY <1>2, <1>4, <1>6 DEF Viewed
<1>8. Good(e) /\ e.online
  BY <1>5, <1>6, <1>7, LooksGood
<1>. QED  BY <1>1, <1>3, <1>8, ProcessRoomGood

(* A blocked move stops a speedwalk (on_movement_failure).                 *)
LEMMA OnBlockedGood ==
  ASSUME NEW c, Good(c) PROVE Good(OnBlocked(c)) /\ OnBlocked(c).online = c.online
BY StopGood DEF OnBlocked, Good

(* M.start: a held explorer is resumed, else the route is walked; a move    *)
(* held by a paused explorer outlives only the start of a route.           *)
LEMMA StartRunGood ==
  ASSUME NEW c0, Good(c0), NEW from_entry \in BOOLEAN
  PROVE  Good(StartRun(c0, from_entry)) /\ StartRun(c0, from_entry).online = c0.online
<1>. DEFINE c == Resume(c0)
            mode == IF c.active THEN "explore" ELSE "route"
            walk == IF c.active THEN <<>> ELSE Route
            key == [kind |-> "none", is |-> <<>>]
            v == [c.view EXCEPT !.key = key]
            fresh == [c EXCEPT !.mode = mode, !.farm_timer = FALSE, !.hold_timer = FALSE,
                               !.enabled = TRUE, !.waits = 0, !.target = NoMonster,
                               !.walk = walk, !.view.key = key, !.ended = "none"]
            d == [c EXCEPT !.mode = mode, !.farm_timer = FALSE, !.hold_timer = FALSE,
                           !.enabled = TRUE, !.waits = 0, !.target = NoMonster,
                           !.walk = walk, !.view = v, !.ended = "none"]
            kind == IF from_entry THEN "setup" ELSE "refresh"
            refused == [c EXCEPT !.mode = "route"]
            waiting == AwaitArrival(fresh, kind)
<1>1. \/ StartRun(c0, from_entry) = c0
      \/ ~c0.enabled /\ StartRun(c0, from_entry) \in {refused, waiting, RequestRefresh(waiting)}
  BY DEF StartRun
<1>2. fresh = d
  OBVIOUS
<1>3. Good(c) /\ c.online = c0.online /\ c.enabled = c0.enabled
  BY ResumeGood
<1>4. /\ mode \in {"explore", "route"} /\ (~c.active => mode = "route")
      /\ walk \in Seq(Dirs \cup {"open"}) /\ kind \in {"refresh", "setup", "move"}
  BY WorldAssumption
<1>. HIDE DEF c, mode, walk, key, fresh, kind
<1>5. DOMAIN v = {"key", "monsters", "players", "of"} /\ v.monsters \in Seq(Monsters)
  BY <1>3 DEF Good, Able, Viewed
<1>. HIDE DEF v
<1>6. Shape(d) /\ ControlType(d)
  <2>1. Shape(d)
    BY <1>3 DEF Good, Able, Shape
  <2>2. /\ d.enabled = TRUE /\ d.active = c.active /\ d.held = c.held /\ d.mode = mode
        /\ d.state = c.state /\ d.arrival = c.arrival /\ d.batch = c.batch /\ d.waits = 0
        /\ d.leaving = c.leaving /\ d.unanchored = c.unanchored /\ d.farm = c.farm
        /\ d.hold_timer = FALSE /\ d.farm_timer = FALSE /\ d.online = c.online
    BY <1>3 DEF Good, Able, Shape, Fields
  <2>. HIDE DEF d
  <2>3. mode \in {"none", "explore", "route"}
    BY <1>4
  <2>4. ControlType(c)
    BY <1>3 DEF Good, Able
  <2>5. /\ d.mode \in {"none", "explore", "route"} /\ d.state \in {"idle", "stepping", "fighting"}
        /\ d.arrival \in {"none", "refresh", "setup", "move"} /\ d.waits \in 0 .. 3
    BY <2>2, <2>3, <2>4 DEF ControlType
  <2>6. /\ d.enabled \in BOOLEAN /\ d.active \in BOOLEAN /\ d.held \in BOOLEAN
        /\ d.batch \in BOOLEAN /\ d.leaving \in BOOLEAN /\ d.unanchored \in BOOLEAN
    BY <2>2, <2>4 DEF ControlType
  <2>7. /\ d.hold_timer \in BOOLEAN /\ d.farm \in BOOLEAN /\ d.farm_timer \in BOOLEAN
        /\ d.online \in BOOLEAN
    BY <2>2, <2>4 DEF ControlType
  <2>. QED  BY <2>1, <2>5, <2>6, <2>7 DEF ControlType
<1>7. /\ SameMap(c, d) /\ SameNews(c, d) /\ SameHold(c, d) /\ d.wire = c.wire
      /\ d.walk = walk /\ d.view = v /\ d.target = NoMonster /\ d.mode = mode
  BY <1>3 DEF Good, Able, Shape, Fields, SameMap, SameNews, SameHold
<1>. HIDE DEF d
<1>8. Mapped(d) /\ Told(d) /\ Holding(d)
  BY <1>3, <1>7, SameParts DEF Good, Able
<1>9. Viewed(d) /\ Sends(d) /\ Beside(d)
  BY <1>3, <1>4, <1>5, <1>7 DEF Good, Able, Viewed, Sends, Beside, InFlight, SameMap, SameHold
<1>10. Good(fresh) /\ fresh.online = c.online
  BY <1>2, <1>6, <1>7, <1>8, <1>9 DEF Good, Able, SameHold
<1>11. Good(waiting) /\ waiting.online = c.online
  BY <1>4, <1>10, AwaitGood
<1>. HIDE DEF waiting
<1>12. Good(RequestRefresh(waiting)) /\ RequestRefresh(waiting).online = c.online
  BY <1>11, RequestRefreshGood
<1>13. ~c.enabled => Good(refused) /\ refused.online = c.online
  <2>1. Shape(refused) /\ ControlType(refused) /\ refused.enabled = c.enabled
    BY <1>3 DEF Good, Able, Shape, Fields, ControlType
  <2>2. Steers(c, refused)
    BY <1>3 DEF Good, Able, Shape, Fields, Steers, SameMap, SameView, SameNews, SameWire, SameHold
  <2>. HIDE DEF refused
  <2>. QED  BY <1>3, <2>1, <2>2, SteersGood
<1>. QED  BY <1>1, <1>3, <1>11, <1>12, <1>13

(* Both forms of "/step explore".                                          *)
LEMMA ExploreCommandGood ==
  ASSUME NEW c, Good(c)
  PROVE  /\ Good(ExploreCommand(c)) /\ ExploreCommand(c).online = c.online
         /\ Good(ExploreAreaCommand(c)) /\ ExploreAreaCommand(c).online = c.online
<1>1. Good(ExploreStart(c)) /\ ExploreStart(c).online = c.online
  BY ExploreStartGood DEF Good
<1>2. Good(Resume(c)) /\ Resume(c).online = c.online
  BY ResumeGood
<1>3. /\ Good(StartRun(ExploreStart(c), FALSE))
      /\ StartRun(ExploreStart(c), FALSE).online = c.online
  BY <1>1, StartRunGood
<1>4. Good(StartRun(Resume(c), FALSE)) /\ StartRun(Resume(c), FALSE).online = c.online
  BY <1>2, StartRunGood
<1>. QED  BY <1>3, <1>4 DEF ExploreCommand, ExploreAreaCommand

(* "/step explore off" (explore_stop).                                     *)
LEMMA ExploreOffGood ==
  ASSUME NEW c, Good(c)
  PROVE  Good(ExploreOffCommand(c)) /\ ExploreOffCommand(c).online = c.online
<1>. DEFINE p == IF c.active THEN Pause(c, FALSE) ELSE c
<1>1. Able(p) /\ p.online = c.online
  BY PauseAble DEF Good
<1>. HIDE DEF p
<1>2. Good(Stop(p, FALSE)) /\ Stop(p, FALSE).online = c.online
  BY <1>1, StopGood
<1>. QED  BY <1>2 DEF ExploreOffCommand, p

(* "/step explore reset" (explore_reset).                                  *)
LEMMA ExploreResetGood ==
  ASSUME NEW c, Good(c)
  PROVE  Good(ExploreResetCommand(c)) /\ ExploreResetCommand(c).online = c.online
<1>1. Good(ResetMap(c)) /\ ResetMap(c).online = c.online
  BY ResetMapAble DEF Good
<1>2. Good(Send(ResetMap(c), <<"refresh">>)) /\ Send(ResetMap(c), <<"refresh">>).online = c.online
  BY <1>1, SendAble, CommandTypes DEF Good
<1>. QED  BY <1>2, StopGood DEF ExploreResetCommand, Good

(* The farm's setup sequence (restart_chaossea).                           *)
LEMMA RestartSeaGood ==
  ASSUME NEW c, Good(c) PROVE Good(RestartSea(c)) /\ RestartSea(c).online = c.online
<1>. DEFINE told == Send(c, <<"portal", "newsea">>)
            sent == Redive(told)
<1>1. Good(told) /\ told.online = c.online
  BY SendAble, CommandTypes DEF Good
<1>. HIDE DEF told
<1>2. Good(sent) /\ sent.online = c.online
  BY <1>1, RediveGood
<1>. HIDE DEF sent
<1>3. Good(ExploreStart(sent)) /\ ExploreStart(sent).online = c.online
  BY <1>2, ExploreStartGood DEF Good
<1>4. /\ Good(StartRun(ExploreStart(sent), TRUE))
      /\ StartRun(ExploreStart(sent), TRUE).online = c.online
  BY <1>3, StartRunGood
<1>. QED  BY <1>2, <1>4 DEF RestartSea, sent, told

(* A typed direction (check_hand_move).                                    *)
LEMMA OnHandMoveGood ==
  ASSUME NEW c, Good(c) PROVE Good(OnHandMove(c)) /\ OnHandMove(c).online = c.online
<1>. DEFINE s == IF c.enabled /\ c.mode = "explore" THEN Stop(c, FALSE) ELSE c
            d == [s EXCEPT !.hold_timer = FALSE]
<1>1. Good(s) /\ s.online = c.online
  BY StopGood DEF Good
<1>2. OnHandMove(c) \in {ResetMap(d), c}
  BY DEF OnHandMove
<1>. HIDE DEF s
<1>3. Good(d) /\ d.online = c.online
  <2>1. Shape(d) /\ ControlType(d) /\ d.enabled = s.enabled /\ d.mode = s.mode
    BY <1>1 DEF Good, Able, Shape, Fields, ControlType
  <2>2. Steers(s, d)
    BY <1>1 DEF Good, Able, Shape, Fields, Steers, SameMap, SameView, SameNews, SameWire, SameHold
  <2>. HIDE DEF d
  <2>. QED  BY <1>1, <2>1, <2>2, SteersGood
<1>. HIDE DEF d
<1>. QED  BY <1>2, <1>3, ResetMapAble DEF Good

(* A connection lost, and the commands with it (on_disconnect).            *)
LEMMA OnDisconnectGood ==
  ASSUME NEW c, Good(c)
  PROVE  LET d == [OnDisconnect(c) EXCEPT !.online = FALSE, !.wire = <<>>]
         IN Good(d) /\ ~d.online
<1>. DEFINE s == Stop(c, FALSE)
            e == [s EXCEPT !.hold_timer = FALSE, !.pending = <<>>, !.online = FALSE,
                           !.wire = <<>>]
<1>1. Good(s) /\ ~s.enabled
  BY StopGood DEF Good
<1>. HIDE DEF s
<1>2. Shape(e) /\ ControlType(e)
  BY <1>1 DEF Good, Able, Shape, Fields, ControlType
<1>3. /\ e.map = s.map /\ e.filed = s.filed /\ e.leave = s.leave /\ e.pending = <<>>
      /\ SameView(s, e) /\ SameNews(s, e) /\ e.wire = <<>> /\ e.walk = s.walk
      /\ e.active = s.active /\ e.held = s.held /\ e.online = FALSE
  BY <1>1 DEF Good, Able, Shape, Fields, SameView, SameNews
<1>4. [OnDisconnect(c) EXCEPT !.online = FALSE, !.wire = <<>>] = e
  BY DEF OnDisconnect, s
<1>. HIDE DEF e
<1>5. Mapped(e)
  BY <1>1, <1>3, EmptySequences DEF Good, Able, Mapped
<1>6. Viewed(e) /\ Told(e)
  BY <1>1, <1>3, SameParts DEF Good, Able
<1>7. <<>> \in Seq(Commands)
  OBVIOUS
<1>8. Sends(e) /\ Holding(e) /\ Beside(e)
  BY <1>1, <1>3, <1>7 DEF Good, Able, Sends, Holding, Beside, InFlight, HoldsRooms
<1>. QED  BY <1>2, <1>3, <1>4, <1>5, <1>6, <1>8 DEF Good, Able

(* The plugin unloaded (on_unload).                                        *)
LEMMA UnloadGood ==
  ASSUME NEW c, Good(c) PROVE Good(Unload(c)) /\ Unload(c).online = c.online
<1>. DEFINE s == Discard(Stop(c, FALSE))
            d == [s EXCEPT !.farm = FALSE]
<1>1. Good(s) /\ s.online = c.online
  BY StopGood, DiscardGood DEF Good
<1>. HIDE DEF s
<1>2. Good(d) /\ d.online = c.online
  <2>1. Shape(d) /\ ControlType(d) /\ d.enabled = s.enabled /\ d.mode = s.mode
    BY <1>1 DEF Good, Able, Shape, Fields, ControlType
  <2>2. Steers(s, d)
    BY <1>1 DEF Good, Able, Shape, Fields, Steers, SameMap, SameView, SameNews, SameWire, SameHold
  <2>. HIDE DEF d
  <2>. QED  BY <1>1, <2>1, <2>2, SteersGood
<1>. QED  BY <1>2 DEF Unload, s

-----------------------------------------------------------------------------
(* The game's side: a fight is with a monster of the room, nothing is under *)
(* way to a client that is not connected, and every frame has its fields.  *)

Frames == Infos \cup Contents \cup Lines

World ==
  /\ here \in Places /\ sea \in 1 .. Len(Maze) /\ combat \in BOOLEAN
  /\ mobs \in [Places -> Seq(Monsters)] /\ (combat => mobs[here] # <<>>)
  /\ spent \in [Kinds -> Nat] /\ frames \in Seq(Frames)
  /\ ~client.online => frames = <<>> /\ ~combat

Inv == Good(client) /\ World

(* A door leads to a room of the same sea, and every sea has an entrance.  *)
LEMMA DoorsType ==
  /\ \A place \in Places, dir \in Dirs : dir \in ExitsOf(place) => Towards(place, dir) \in Places
  /\ \A k \in 1 .. Len(Maze) : Entrance(k) \in Places
<1>1. ASSUME NEW place \in Places, NEW dir \in Dirs, dir \in ExitsOf(place)
      PROVE  Towards(place, dir) \in Places
  <2>1. place # Lobby
    BY <1>1 DEF ExitsOf
  <2>2. PICK k \in DOMAIN Maze : place \in SeaPlaces(k)
    BY <2>1 DEF Places
  <2>3. PICK p \in DOMAIN Maze[k] : place = [sea |-> k, at |-> p]
    BY <2>2 DEF SeaPlaces
  <2>4. dir \in Maze[k][p] \cap Dirs
    BY <1>1, <2>1, <2>3 DEF ExitsOf
  <2>5. Plus(p, Delta[dir]) \in DOMAIN Maze[k]
    BY <2>4, MazeAssumption
  <2>6. Towards(place, dir) = [sea |-> k, at |-> Plus(p, Delta[dir])]
    BY <2>3 DEF Towards
  <2>. QED  BY <2>5, <2>6 DEF Places, SeaPlaces
<1>2. ASSUME NEW k \in 1 .. Len(Maze) PROVE Entrance(k) \in Places
  <2>1. k \in DOMAIN Maze /\ Origin \in DOMAIN Maze[k]
    BY MazeAssumption
  <2>. QED  BY <2>1 DEF Entrance, Places, SeaPlaces
<1>. QED  BY <1>1, <1>2

(* Spending counts up.                                                     *)
LEMMA SpendType ==
  ASSUME NEW kind \in Kinds, spent \in [Kinds -> Nat], Spend(kind)
  PROVE  spent' \in [Kinds -> Nat]
BY DEF Spend

(* Everything the game sends is a frame.                                   *)
LEMMA ContentsType ==
  ASSUME NEW place \in Places, NEW seen \in MaySee, NEW entry \in BOOLEAN, World
  PROVE  ContentsOf(place, entry, seen) \in Contents
<1>1. seen.players \in BOOLEAN /\ seen.truncated \in BOOLEAN
  BY WorldAssumption
<1>2. mobs[place] \in Seq(Monsters) /\ <<>> \in Seq(Monsters)
  BY DEF World
<1>. DEFINE listed == IF seen.truncated THEN <<>> ELSE mobs[place]
<1>3. listed \in Seq(Monsters)
  BY <1>2
<1>4. ContentsOf(place, entry, seen)
        = [kind |-> "contents", place |-> place, entry |-> entry, players |-> seen.players,
           truncated |-> seen.truncated, monsters |-> listed]
  BY DEF ContentsOf
<1>. HIDE DEF listed
<1>. QED  BY <1>1, <1>3, <1>4 DEF Contents

(* The lines the game prints are frames.                                   *)
LEMMA LinesType ==
  /\ CombatEnd \in Seq(Frames) /\ Blocked \in Seq(Frames) /\ <<>> \in Seq(Frames)
  /\ \A word \in Words : NoTarget(word) \in Seq(Frames)
<1>1. [kind |-> "combat_end"] \in Frames
  BY DEF Frames, Lines
<1>2. [kind |-> "blocked"] \in Frames
  BY DEF Frames, Lines
<1>3. \A word \in Words : [kind |-> "no_target", word |-> word] \in Frames
  BY DEF Frames, Lines
<1>. HIDE DEF Frames
<1>. QED  BY <1>1, <1>2, <1>3 DEF CombatEnd, Blocked, NoTarget

(* An entry and a snapshot are two frames.                                 *)
LEMMA EntryType ==
  ASSUME NEW place \in Places, NEW seen \in MaySee, World
  PROVE  /\ Entry(place, seen) \in Seq(Frames)
         /\ Arriving(place, seen) \in Seq(Frames)
         /\ <<[kind |-> "info", place |-> place], ContentsOf(place, FALSE, seen)>> \in Seq(Frames)
<1>. DEFINE i == [kind |-> "info", place |-> place]
            entry == ContentsOf(place, TRUE, seen)
            answer == ContentsOf(place, FALSE, seen)
            e == <<i, entry>>
            l == IF combat THEN CombatEnd ELSE <<>>
<1>1. i \in Frames
  BY DEF Frames, Infos
<1>2. entry \in Frames /\ answer \in Frames
  BY ContentsType DEF Frames
<1>. HIDE DEF Frames, i, entry, answer
<1>3. e \in Seq(Frames) /\ <<i, answer>> \in Seq(Frames)
  BY <1>1, <1>2
<1>4. l \in Seq(Frames)
  BY LinesType
<1>5. Entry(place, seen) = e
  BY DEF Entry, i, entry
<1>. HIDE DEF e, l
<1>6. e \o l \in Seq(Frames)
  BY <1>3, <1>4
<1>7. Arriving(place, seen) = e \o l
  BY <1>5 DEF Arriving, l
<1>. QED  BY <1>3, <1>5, <1>6, <1>7 DEF i, answer

(* What is said of sequences, said of frames.                              *)
LEMMA TogetherType ==
  /\ \A s, t \in Seq(Frames) : s \o t \in Seq(Frames)
  /\ \A s \in Seq(Frames), f \in Frames : Append(s, f) \in Seq(Frames)
  /\ \A s \in Seq(Frames) : s # <<>> => Tail(s) \in Seq(Frames) /\ Head(s) \in Frames
<1>. HIDE DEF Frames
<1>. QED  OBVIOUS

(* A command on the wire was sent over a connection that still stands.     *)
LEMMA TakenGood ==
  ASSUME Good(client), client.wire # <<>>
  PROVE  Good(Taken) /\ Taken.online /\ client.online
<1>. DEFINE rest == Tail(client.wire)
            d == [client EXCEPT !.wire = rest]
<1>1. Taken = d
  BY DEF Taken
<1>2. client.online
  BY DEF Good, Able, Holding
<1>3. rest \in Seq(Commands)
  BY DEF Good, Able, Sends
<1>. HIDE DEF rest
<1>4. Shape(d) /\ ControlType(d)
  BY DEF Good, Able, Shape, Fields, ControlType
<1>5. /\ SameMap(client, d) /\ SameView(client, d) /\ SameNews(client, d) /\ SameHold(client, d)
      /\ d.wire = rest /\ d.walk = client.walk /\ d.enabled = client.enabled
      /\ d.mode = client.mode
  BY DEF Good, Able, Shape, Fields, SameMap, SameView, SameNews, SameHold
<1>. HIDE DEF d
<1>6. Mapped(d) /\ Viewed(d) /\ Told(d)
  BY <1>5, SameParts DEF Good, Able
<1>7. Sends(d) /\ Holding(d) /\ Beside(d)
  BY <1>2, <1>3, <1>5
     DEF Good, Able, Sends, Holding, Beside, SameMap, SameHold, InFlight, HoldsRooms
<1>. QED  BY <1>1, <1>2, <1>4, <1>5, <1>6, <1>7 DEF Good, Able, SameHold

(* The player is somewhere else, and is told so.                           *)
LEMMA GoesWorld ==
  ASSUME World, NEW place \in Places, NEW before \in Seq(Frames), Goes(place, before)
  PROVE  here' \in Places /\ combat' = FALSE /\ frames' \in Seq(Frames)
<1>1. PICK seen \in MaySee : frames' = frames \o before \o Arriving(place, seen)
  BY DEF Goes
<1>2. Arriving(place, seen) \in Seq(Frames)
  BY EntryType
<1>3. frames \in Seq(Frames)
  BY DEF World
<1>4. (frames \o before) \o Arriving(place, seen) \in Seq(Frames)
  BY <1>2, <1>3, TogetherType
<1>. QED  BY <1>1, <1>4 DEF Goes

(* The player stays, and is told something.                                *)
LEMMA StaysWorld ==
  ASSUME World, NEW lines \in Seq(Frames), Stays(lines)
  PROVE  here' = here /\ combat' = combat /\ frames' \in Seq(Frames)
BY TogetherType DEF World, Stays

(* The bounded kinds of event.                                             *)
LEMMA KindsListed ==
  /\ "start" \in Kinds /\ "stop" \in Kinds /\ "reset" \in Kinds /\ "leave" \in Kinds
  /\ "farm" \in Kinds /\ "hand" \in Kinds /\ "out" \in Kinds /\ "redive" \in Kinds
  /\ "drop" \in Kinds /\ "silent" \in Kinds /\ "reload" \in Kinds /\ "block" \in Kinds
  /\ "late" \in Kinds /\ "unanswered" \in Kinds /\ "wimpy" \in Kinds /\ "stray" \in Kinds
  /\ "hush" \in Kinds
BY DEF Kinds

(* A step of the game keeps Inv.                                           *)
LEMMA GameInv == ASSUME Inv, Game PROVE Inv'
<1>1. Good(client) /\ World
  BY DEF Inv
<1>2. ASSUME client' = Taken, client.wire # <<>>
      PROVE  Good(client') /\ client'.online /\ client.online
  BY <1>1, <1>2, TakenGood
<1>3. CASE GameMoves
  <2>1. PICK dir \in Dirs :
          /\ Took(dir)
          /\ IF dir \in ExitsOf(here)
             THEN \/ Goes(Towards(here, dir), <<>>) /\ UNCHANGED spent
                  \/ Spend("block") /\ Goes(Towards(here, dir), Blocked)
                  \/ Spend("block") /\ Stays(Blocked)
                  \/ Spend("hush") /\ Stays(<<>>)
             ELSE Stays(Blocked) /\ UNCHANGED spent
    BY <1>3 DEF GameMoves
  <2>2. dir \in ExitsOf(here) => Towards(here, dir) \in Places
    BY <1>1, DoorsType DEF World
  <2>3. Good(client') /\ client'.online /\ sea' = sea /\ mobs' = mobs
    BY <1>2, <1>3, <2>1 DEF GameMoves, Took
  <2>4. spent' \in [Kinds -> Nat]
    BY <1>1, <2>1, SpendType, KindsListed DEF World
  <2>5. /\ here' \in Places /\ frames' \in Seq(Frames)
        /\ combat' = FALSE \/ (combat' = combat /\ here' = here)
    BY <1>1, <2>1, <2>2, GoesWorld, StaysWorld, LinesType DEF World
  <2>6. combat' \in BOOLEAN
    BY <1>1, <2>5 DEF World
  <2>7. combat' => mobs'[here'] # <<>>
    BY <1>1, <2>3, <2>5 DEF World
  <2>. QED  BY <1>1, <2>3, <2>4, <2>5, <2>6, <2>7 DEF Inv, World
<1>4. CASE GameLeaves
  <2>1. Goes(Lobby, <<>>) /\ sea' = sea /\ mobs' = mobs /\ spent' = spent
    BY <1>4 DEF GameLeaves
  <2>2. Good(client') /\ client'.online
    BY <1>2, <1>4 DEF GameLeaves, Took
  <2>3. here' \in Places /\ combat' = FALSE /\ frames' \in Seq(Frames)
    BY <1>1, <2>1, GoesWorld, LinesType, PlaceFacts
  <2>. QED  BY <1>1, <2>1, <2>2, <2>3 DEF Inv, World
<1>5. CASE GameEntersSea
  <2>1. /\ Goes(Entrance(sea + 1), <<>>) /\ sea' = sea + 1 /\ mobs' = mobs /\ spent' = spent
        /\ sea < Len(Maze)
    BY <1>5 DEF GameEntersSea
  <2>2. Good(client') /\ client'.online
    BY <1>2, <1>5 DEF GameEntersSea, Took
  <2>3. sea' \in 1 .. Len(Maze)
    BY <1>1, <2>1, MazeAssumption DEF World
  <2>4. here' \in Places /\ combat' = FALSE /\ frames' \in Seq(Frames)
    BY <1>1, <2>1, <2>3, GoesWorld, LinesType, DoorsType
  <2>. QED  BY <1>1, <2>1, <2>2, <2>3, <2>4 DEF Inv, World
<1>6. CASE GameIgnores
  <2>1. Good(client') /\ client'.online
    BY <1>2, <1>6 DEF GameIgnores, Took
  <2>2. UNCHANGED <<here, sea, mobs, combat, frames, spent>>
    BY <1>6 DEF GameIgnores
  <2>. QED  BY <1>1, <2>1, <2>2 DEF Inv, World
<1>7. CASE GameFights
  <2>1. Good(client') /\ client'.online /\ sea' = sea /\ mobs' = mobs
    BY <1>2, <1>7 DEF GameFights, Took
  <2>2. \/ \E word \in Words : Stays(NoTarget(word))
        \/ mobs[here] # <<>> /\ combat' = TRUE /\ UNCHANGED <<here, frames>>
    BY <1>7 DEF GameFights, Residents
  <2>3. spent' \in [Kinds -> Nat]
    BY <1>1, <1>7 DEF World, GameFights
  <2>4. /\ here' = here /\ frames' \in Seq(Frames)
        /\ combat' = combat \/ (combat' = TRUE /\ mobs[here] # <<>>)
    BY <1>1, <2>2, StaysWorld, LinesType DEF World
  <2>5. combat' \in BOOLEAN
    BY <1>1, <2>4 DEF World
  <2>6. combat' => mobs'[here'] # <<>>
    BY <1>1, <2>1, <2>4 DEF World
  <2>. QED  BY <1>1, <2>1, <2>3, <2>4, <2>5, <2>6 DEF Inv, World
<1>8. CASE GameRefreshes
  <2>1. Good(client') /\ client'.online /\ UNCHANGED <<here, sea, mobs, combat>>
    BY <1>2, <1>8 DEF GameRefreshes, Took
  <2>2. \/ /\ spent' = spent
           /\ \E seen \in MaySee : frames' = Append(frames, ContentsOf(here, FALSE, seen))
        \/ Spend("unanswered") /\ frames' = frames
    BY <1>8 DEF GameRefreshes
  <2>3. spent' \in [Kinds -> Nat]
    BY <1>1, <2>2, SpendType, KindsListed DEF World
  <2>4. frames' \in Seq(Frames)
    <3>1. CASE frames' = frames
      BY <1>1, <3>1 DEF World
    <3>2. ASSUME NEW seen \in MaySee, frames' = Append(frames, ContentsOf(here, FALSE, seen))
          PROVE  frames' \in Seq(Frames)
      <4>1. ContentsOf(here, FALSE, seen) \in Frames
        BY <1>1, ContentsType DEF World, Frames
      <4>. QED  BY <1>1, <3>2, <4>1, TogetherType DEF World
    <3>. QED  BY <2>2, <3>1, <3>2
  <2>. QED  BY <1>1, <2>1, <2>3, <2>4 DEF Inv, World
<1>9. CASE MonsterDies
  <2>1. /\ client' = client /\ here' = here /\ sea' = sea /\ spent' = spent /\ combat' = FALSE
        /\ frames' = frames \o CombatEnd /\ combat
    BY <1>9 DEF MonsterDies
  <2>2. PICK m : mobs' = [mobs EXCEPT ![here] = Forget(@, m)]
    BY <1>9 DEF MonsterDies
  <2>3. mobs' \in [Places -> Seq(Monsters)]
    <3>1. mobs \in [Places -> Seq(Monsters)] /\ here \in Places
      BY <1>1 DEF World
    <3>2. Forget(mobs[here], m) \in Seq(Monsters)
      BY <3>1, ForgetType
    <3>. QED  BY <2>2, <3>1, <3>2
  <2>4. frames' \in Seq(Frames) /\ client.online
    BY <1>1, <2>1, TogetherType, LinesType DEF World
  <2>. QED  BY <1>1, <2>1, <2>3, <2>4 DEF Inv, World
<1>. QED  BY <1>3, <1>4, <1>5, <1>6, <1>7, <1>8, <1>9 DEF Game

(* Fleeing, and a combat frame out of turn.                                *)
LEMMA AccidentInv == ASSUME Inv, Wimpy \/ StrayCombatFrame PROVE Inv'
<1>1. Good(client) /\ World
  BY DEF Inv
<1>2. CASE Wimpy
  <2>1. PICK dir \in Walkable(here), seen \in MaySee :
          /\ here' = Towards(here, dir)
          /\ \/ frames' = frames \o Entry(Towards(here, dir), seen) \o CombatEnd
             \/ frames' = frames \o CombatEnd \o Entry(Towards(here, dir), seen)
    BY <1>2 DEF Wimpy
  <2>2. combat /\ combat' = FALSE /\ UNCHANGED <<client, sea, mobs>> /\ Spend("wimpy")
    BY <1>2 DEF Wimpy
  <2>3. dir \in Dirs /\ dir \in ExitsOf(here)
    <3>1. ExitsOf(here) \subseteq Dirs \cup {"out", "enter", "in"}
      <4>1. CASE here = Lobby
        BY <4>1 DEF ExitsOf
      <4>2. CASE here # Lobby
        <5>1. PICK k \in DOMAIN Maze : here \in SeaPlaces(k)
          BY <1>1, <4>2 DEF World, Places
        <5>2. PICK p \in DOMAIN Maze[k] : here = [sea |-> k, at |-> p]
          BY <5>1 DEF SeaPlaces
        <5>. QED  BY <4>2, <5>2, MazeAssumption DEF ExitsOf
      <4>. QED  BY <4>1, <4>2
    <3>. QED  BY <3>1 DEF Walkable
  <2>4. here' \in Places
    BY <1>1, <2>1, <2>3, DoorsType DEF World
  <2>5. spent' \in [Kinds -> Nat]
    BY <1>1, <2>2, SpendType, KindsListed DEF World
  <2>6. frames' \in Seq(Frames)
    <3>1. Entry(Towards(here, dir), seen) \in Seq(Frames)
      BY <1>1, <2>1, <2>4, EntryType
    <3>2. frames \in Seq(Frames)
      BY <1>1 DEF World
    <3>3. /\ frames \o Entry(Towards(here, dir), seen) \in Seq(Frames)
          /\ frames \o CombatEnd \in Seq(Frames)
      BY <3>1, <3>2, TogetherType, LinesType
    <3>. QED  BY <2>1, <3>1, <3>3, TogetherType, LinesType
  <2>. QED  BY <1>1, <2>2, <2>4, <2>5, <2>6 DEF Inv, World
<1>3. CASE StrayCombatFrame
  <2>1. /\ UNCHANGED <<client, here, sea, mobs, combat>> /\ client.online
        /\ frames' = frames \o CombatEnd /\ Spend("stray")
    BY <1>3 DEF StrayCombatFrame
  <2>2. spent' \in [Kinds -> Nat]
    BY <1>1, <2>1, SpendType, KindsListed DEF World
  <2>3. frames' \in Seq(Frames)
    BY <1>1, <2>1, TogetherType, LinesType DEF World
  <2>. QED  BY <1>1, <2>1, <2>2, <2>3 DEF Inv, World
<1>. QED  BY <1>2, <1>3

(* A callback that keeps what the plugin relies on keeps the whole.        *)
LEMMA ClientInv ==
  ASSUME Inv, UNCHANGED <<here, sea, mobs, combat>>, Good(client'),
         client'.online = client.online, spent' \in [Kinds -> Nat], frames' \in Seq(Frames),
         ~client.online => frames' = frames
  PROVE  Inv'
BY DEF Inv, World

(* A frame received keeps Inv: it came over the present connection.        *)
LEMMA ReceiveInv == ASSUME Inv, Receive PROVE Inv'
<1>1. Good(client) /\ World
  BY DEF Inv
<1>2. \E kind \in {"info", "contents", "combat_end", "no_target", "blocked"} : Next1(kind)
  BY DEF Receive, ReceiveInfo, ReceiveContents, ReceiveCombatEnd, ReceiveNoTarget, ReceiveBlocked
<1>3. /\ frames # <<>> /\ frames' = Tail(frames) /\ frames \in Seq(Frames) /\ client.online
      /\ spent \in [Kinds -> Nat]
  BY <1>1, <1>2 DEF Next1, World
<1>4. Head(frames) \in Frames /\ frames' \in Seq(Frames)
  BY <1>3, TogetherType
<1>5. UNCHANGED <<here, sea, mobs, combat, spent>>
  BY DEF Receive, ReceiveInfo, ReceiveContents, ReceiveCombatEnd, ReceiveNoTarget, ReceiveBlocked,
         Client
<1>6. CASE ReceiveInfo
  <2>1. /\ Head(frames).kind = "info"
        /\ client' = [client EXCEPT !.info = Head(frames).place]
    BY <1>6 DEF ReceiveInfo, Next1, Client
  <2>2. Head(frames).place \in Places
    BY <1>4, <2>1 DEF Frames, Infos, Contents, Lines
  <2>. DEFINE place == Head(frames).place
              d == [client EXCEPT !.info = place]
  <2>. HIDE DEF place
  <2>3. Shape(d) /\ ControlType(d)
    BY <1>1 DEF Good, Able, Shape, Fields, ControlType
  <2>4. /\ SameMap(client, d) /\ SameView(client, d) /\ SameWire(client, d) /\ SameHold(client, d)
        /\ d.info = place /\ d.contents = client.contents /\ d.enabled = client.enabled
        /\ d.mode = client.mode
    BY <1>1 DEF Good, Able, Shape, Fields, SameMap, SameView, SameWire, SameHold
  <2>5. client' = d
    BY <2>1 DEF place
  <2>. HIDE DEF d
  <2>6. Mapped(d) /\ Viewed(d) /\ Sends(d) /\ Holding(d)
    BY <1>1, <2>4, SameParts DEF Good, Able, SameWire
  <2>7. Told(d) /\ Beside(d)
    BY <1>1, <2>2, <2>4 DEF Good, Able, Told, Beside, InFlight, SameMap, SameHold, place
  <2>8. Good(client') /\ client'.online = client.online
    BY <2>3, <2>4, <2>5, <2>6, <2>7 DEF Good, Able, SameHold
  <2>. QED  BY <1>3, <1>4, <1>5, <2>8, ClientInv
<1>7. CASE ReceiveContents
  <2>1. Head(frames).kind = "contents" /\ client' = OnRoomContents(client, Head(frames))
    BY <1>7 DEF ReceiveContents, Next1, Client
  <2>2. Head(frames) \in Contents
    BY <1>4, <2>1 DEF Frames, Infos, Lines
  <2>3. Good(client') /\ client'.online
    BY <1>1, <1>3, <2>1, <2>2, OnRoomContentsGood
  <2>4. client'.online = client.online
    BY <1>1, <1>3, <2>3 DEF Good, Able, ControlType
  <2>. QED  BY <1>3, <1>4, <1>5, <2>3, <2>4, ClientInv
<1>8. CASE ReceiveCombatEnd
  <2>1. Good(client') /\ client'.online = client.online
    BY <1>1, <1>8, OnCombatEndGood DEF ReceiveCombatEnd, Client
  <2>. QED  BY <1>3, <1>4, <1>5, <2>1, ClientInv
<1>9. CASE ReceiveNoTarget
  <2>1. Good(client') /\ client'.online
    BY <1>1, <1>3, <1>9, OnNoTargetGood DEF ReceiveNoTarget, Client
  <2>2. client'.online = client.online
    BY <1>1, <1>3, <2>1 DEF Good, Able, ControlType
  <2>. QED  BY <1>3, <1>4, <1>5, <2>1, <2>2, ClientInv
<1>10. CASE ReceiveBlocked
  <2>1. Good(client') /\ client'.online = client.online
    BY <1>1, <1>10, OnBlockedGood DEF ReceiveBlocked, Client
  <2>. QED  BY <1>3, <1>4, <1>5, <2>1, ClientInv
<1>. QED  BY <1>6, <1>7, <1>8, <1>9, <1>10 DEF Receive

(* A timer keeps Inv, whenever it fires.                                   *)
LEMMA TimersInv == ASSUME Inv, Timers PROVE Inv'
<1>1. Good(client) /\ World
  BY DEF Inv
<1>2. spent' \in [Kinds -> Nat]
  <2>1. spent' = spent \/ Spend("late")
    BY DEF Timers, ArrivalTimeout, HeldMoveTimeout, RefreshTimeout, FarmTimer, Fires
  <2>. QED  BY <1>1, <2>1, SpendType, KindsListed DEF World
<1>3. UNCHANGED <<here, sea, mobs, combat, frames>> /\ frames' \in Seq(Frames)
  <2>1. UNCHANGED <<here, sea, mobs, combat, frames>>
    BY DEF Timers, ArrivalTimeout, HeldMoveTimeout, RefreshTimeout, FarmTimer, Client
  <2>. QED  BY <1>1, <2>1 DEF World
<1>4. SUFFICES Good(client') /\ client'.online = client.online
  BY <1>2, <1>3, ClientInv
<1>5. CASE ArrivalTimeout
  BY <1>1, <1>5, StopGood DEF ArrivalTimeout, Client, Good
<1>6. CASE HeldMoveTimeout
  <2>. DEFINE left == IF InFlight(client) THEN <<>> ELSE client.pending
              d == [client EXCEPT !.hold_timer = FALSE, !.pending = left]
  <2>1. client' = d
    BY <1>6 DEF HeldMoveTimeout, Client
  <2>2. left \in {client.pending, <<>>}
    OBVIOUS
  <2>. HIDE DEF left
  <2>3. Shape(d) /\ ControlType(d)
    BY <1>1 DEF Good, Able, Shape, Fields, ControlType
  <2>4. /\ SameView(client, d) /\ SameNews(client, d) /\ SameWire(client, d)
        /\ SameHold(client, d) /\ d.map = client.map /\ d.filed = client.filed
        /\ d.leave = client.leave /\ d.pending = left /\ d.enabled = client.enabled
        /\ d.mode = client.mode
    BY <1>1 DEF Good, Able, Shape, Fields, SameView, SameNews, SameWire, SameHold
  <2>. HIDE DEF d
  <2>5. Mapped(d)
    BY <1>1, <2>2, <2>4, EmptySequences DEF Good, Able, Mapped
  <2>6. Viewed(d) /\ Told(d) /\ Sends(d)
    BY <1>1, <2>4, SameParts DEF Good, Able
  <2>7. Holding(d) /\ Beside(d)
    BY <1>1, <2>2, <2>4
       DEF Good, Able, Holding, Beside, InFlight, HoldsRooms, SameHold, SameWire
  <2>. QED  BY <2>1, <2>3, <2>4, <2>5, <2>6, <2>7 DEF Good, Able, SameHold
<1>7. CASE RefreshTimeout
  <2>. DEFINE d == [client EXCEPT !.waits = @ + 1]
  <2>1. CASE client.waits < 3
    <3>1. client' = RequestRefresh(d)
      BY <1>7, <2>1 DEF RefreshTimeout, Client
    <3>2. client.waits + 1 \in 0 .. 3
      BY <1>1, <2>1 DEF Good, Able, ControlType
    <3>3. Shape(d) /\ d.enabled = client.enabled /\ d.mode = client.mode
      BY <1>1 DEF Good, Able, Shape, Fields
    <3>4. ControlType(d)
      BY <1>1, <3>2 DEF Good, Able, Shape, Fields, ControlType
    <3>5. Steers(client, d)
      BY <1>1 DEF Good, Able, Shape, Fields, Steers, SameMap, SameView, SameNews, SameWire, SameHold
    <3>. HIDE DEF d
    <3>. QED  BY <1>1, <3>1, <3>3, <3>4, <3>5, SteersGood, RequestRefreshGood
  <2>2. CASE ~(client.waits < 3)
    BY <1>1, <1>7, <2>2, StopGood DEF RefreshTimeout, Client, Good
  <2>. QED  BY <2>1, <2>2
<1>8. CASE FarmTimer
  <2>. DEFINE d == [client EXCEPT !.farm_timer = FALSE]
  <2>1. client' \in {RestartSea(d), d}
    BY <1>8 DEF FarmTimer, Client
  <2>2. Shape(d) /\ ControlType(d) /\ d.enabled = client.enabled /\ d.mode = client.mode
    BY <1>1 DEF Good, Able, Shape, Fields, ControlType
  <2>3. Steers(client, d)
    BY <1>1 DEF Good, Able, Shape, Fields, Steers, SameMap, SameView, SameNews, SameWire, SameHold
  <2>. HIDE DEF d
  <2>4. Good(d) /\ d.online = client.online
    BY <1>1, <2>2, <2>3, SteersGood
  <2>. QED  BY <2>1, <2>4, RestartSeaGood
<1>. QED  BY <1>5, <1>6, <1>7, <1>8 DEF Timers

(* The farm switched on or off.                                            *)
LEMMA FarmedGood ==
  ASSUME NEW c, Good(c), NEW farm \in BOOLEAN, NEW timer \in BOOLEAN
  PROVE  LET d == [c EXCEPT !.farm = farm, !.farm_timer = timer]
         IN Good(d) /\ d.online = c.online
<1>. DEFINE d == [c EXCEPT !.farm = farm, !.farm_timer = timer]
<1>1. Shape(d) /\ ControlType(d) /\ d.enabled = c.enabled /\ d.mode = c.mode
  BY DEF Good, Able, Shape, Fields, ControlType
<1>2. Steers(c, d)
  BY DEF Good, Able, Shape, Fields, Steers, SameMap, SameView, SameNews, SameWire, SameHold
<1>. HIDE DEF d
<1>3. Good(d) /\ d.online = c.online
  BY <1>1, <1>2, SteersGood
<1>. QED  BY <1>3 DEF d

(* A command whose effect is Good keeps Inv.                               *)
LEMMA CommandInv ==
  ASSUME Inv, NEW kind \in Kinds, NEW c, Good(c), c.online = client.online, Command(kind, c)
  PROVE  Inv'
<1>1. /\ Good(client') /\ client'.online = client.online
      /\ UNCHANGED <<here, sea, mobs, combat, frames>>
  BY DEF Command, Client
<1>2. spent' \in [Kinds -> Nat]
  BY SpendType DEF Command, Inv, World
<1>. QED  BY <1>1, <1>2, ClientInv DEF Inv, World

(* A connection is lost with everything under way on it, and a new one     *)
(* begins with a snapshot of the room.                                     *)
LEMMA DisconnectInv == ASSUME Inv, Disconnect PROVE Inv'
<1>1. Good(client') /\ ~client'.online
  BY OnDisconnectGood DEF Disconnect, Inv
<1>2. frames' = <<>> /\ combat' = FALSE /\ UNCHANGED <<here, sea, mobs>>
  BY DEF Disconnect
<1>3. spent' \in [Kinds -> Nat]
  <2>1. \/ spent' = [spent EXCEPT !.drop = @ + 1, !.silent = @ + 1]
        \/ spent' = [spent EXCEPT !.drop = @ + 1]
    BY DEF Disconnect
  <2>2. spent \in [Kinds -> Nat]
    BY DEF Inv, World
  <2>3. spent.drop + 1 \in Nat /\ spent.silent + 1 \in Nat
    BY <2>2, KindsListed
  <2>. DEFINE d == spent.drop + 1
              s == spent.silent + 1
  <2>4. spent' = [spent EXCEPT !.drop = d, !.silent = s] \/ spent' = [spent EXCEPT !.drop = d]
    BY <2>1
  <2>. HIDE DEF Kinds, d, s
  <2>5. d \in Nat /\ s \in Nat
    BY <2>3 DEF d, s
  <2>6. [spent EXCEPT !.drop = d] \in [Kinds -> Nat]
    BY <2>2, <2>5
  <2>7. [spent EXCEPT !.drop = d, !.silent = s] \in [Kinds -> Nat]
    BY <2>2, <2>5
  <2>. QED  BY <2>4, <2>6, <2>7
<1>4. frames' \in Seq(Frames)
  BY <1>2, LinesType
<1>. QED  BY <1>1, <1>2, <1>3, <1>4 DEF Inv, World

(* A new session begins with an empty wire.                                *)
LEMMA ReconnectInv == ASSUME Inv, Reconnect PROVE Inv'
<1>. DEFINE d == [client EXCEPT !.online = TRUE]
<1>1. client' = d /\ UNCHANGED <<here, sea, mobs, combat, spent>>
  BY DEF Reconnect
<1>2. PICK seen \in MaySee :
        frames' = <<[kind |-> "info", place |-> here], ContentsOf(here, FALSE, seen)>>
  BY DEF Reconnect
<1>3. frames' \in Seq(Frames)
  BY <1>2, EntryType DEF Inv, World
<1>4. Shape(d) /\ ControlType(d)
  BY DEF Inv, Good, Able, Shape, Fields, ControlType
<1>5. /\ SameMap(client, d) /\ SameView(client, d) /\ SameNews(client, d) /\ SameWire(client, d)
      /\ d.active = client.active /\ d.held = client.held /\ d.online = TRUE
      /\ d.enabled = client.enabled /\ d.mode = client.mode
  BY DEF Inv, Good, Able, Shape, Fields, SameMap, SameView, SameNews, SameWire
<1>. HIDE DEF d
<1>6. Mapped(d) /\ Viewed(d) /\ Told(d) /\ Sends(d)
  BY <1>5, SameParts DEF Inv, Good, Able
<1>7. Holding(d) /\ Beside(d)
  BY <1>5 DEF Inv, Good, Able, Holding, Beside, InFlight, HoldsRooms, SameMap
<1>. QED  BY <1>1, <1>3, <1>4, <1>5, <1>6, <1>7 DEF Inv, World, Good, Able

(* Whatever the player does keeps Inv.                                     *)
LEMMA PlayerInv == ASSUME Inv, Player PROVE Inv'
<1>1. Good(client)
  BY DEF Inv
<1>2. CASE PlayerStarts
  <2>1. PICK c \in {StartRun(client, FALSE), ExploreCommand(client), ExploreAreaCommand(client)} :
          Command("start", c)
    BY <1>2 DEF PlayerStarts
  <2>2. Good(c) /\ c.online = client.online
    BY <1>1, <2>1, StartRunGood, ExploreCommandGood
  <2>. QED  BY <2>1, <2>2, CommandInv, KindsListed
<1>3. CASE PlayerStops
  <2>1. PICK c \in {Stop(client, FALSE), ExploreOffCommand(client)} : Command("stop", c)
    BY <1>3 DEF PlayerStops
  <2>2. Good(c) /\ c.online = client.online
    BY <1>1, <2>1, StopGood, ExploreOffGood DEF Good
  <2>. QED  BY <2>1, <2>2, CommandInv, KindsListed
<1>4. CASE PlayerResets
  BY <1>1, <1>4, ExploreResetGood, CommandInv, KindsListed DEF PlayerResets
<1>5. CASE PlayerLeaves
  BY <1>1, <1>5, LeaveGood, CommandInv, KindsListed DEF PlayerLeaves
<1>6. CASE PlayerFarms
  <2>. DEFINE on == [client EXCEPT !.farm = TRUE]
              also == [client EXCEPT !.farm = TRUE, !.farm_timer = client.farm_timer]
              off == [client EXCEPT !.farm = FALSE, !.farm_timer = FALSE]
  <2>1. \E c \in {on, off} : Command("farm", c)
    BY <1>6 DEF PlayerFarms
  <2>2. on = also
    BY <1>1 DEF Good, Able, Shape, Fields
  <2>3. client.farm_timer \in BOOLEAN
    BY <1>1 DEF Good, Able, ControlType
  <2>4. Good(also) /\ also.online = client.online
    BY <1>1, <2>3, FarmedGood
  <2>5. Good(off) /\ off.online = client.online
    BY <1>1, FarmedGood
  <2>. HIDE DEF on, also, off
  <2>. QED  BY <2>1, <2>2, <2>4, <2>5, CommandInv, KindsListed
<1>7. CASE PlayerWalks
  <2>1. PICK dir \in Dirs : Command("hand", Send(OnHandMove(client), <<dir>>))
    BY <1>7 DEF PlayerWalks
  <2>. DEFINE h == OnHandMove(client)
              c == Send(h, <<dir>>)
  <2>2. Good(h) /\ h.online = client.online
    BY <1>1, OnHandMoveGood
  <2>. HIDE DEF h
  <2>3. Good(c) /\ c.online = client.online
    BY <2>2, SendAble, CommandTypes DEF Good
  <2>4. Command("hand", c)
    BY <2>1 DEF h
  <2>. HIDE DEF c
  <2>. QED  BY <2>3, <2>4, CommandInv, KindsListed
<1>8. CASE PlayerWalksOut
  <2>1. Command("out", Send(client, <<"out">>))
    BY <1>8 DEF PlayerWalksOut
  <2>2. Good(Send(client, <<"out">>)) /\ Send(client, <<"out">>).online = client.online
    BY <1>1, SendAble, CommandTypes DEF Good
  <2>. QED  BY <2>1, <2>2, CommandInv, KindsListed
<1>9. CASE PlayerRedives
  <2>. DEFINE r == Redive(client)
              c == Send(r, <<"newsea">>)
  <2>1. Command("redive", c)
    BY <1>9 DEF PlayerRedives
  <2>2. Good(r) /\ r.online = client.online
    BY <1>1, RediveGood
  <2>. HIDE DEF r
  <2>3. Good(c) /\ c.online = client.online
    BY <2>2, SendAble, CommandTypes DEF Good
  <2>. HIDE DEF c
  <2>. QED  BY <2>1, <2>3, CommandInv, KindsListed
<1>10. CASE Reload
  BY <1>1, <1>10, UnloadGood, CommandInv, KindsListed DEF Reload
<1>. QED  BY <1>2, <1>3, <1>4, <1>5, <1>6, <1>7, <1>8, <1>9, <1>10, DisconnectInv DEF Player

(* The plugin is loaded in the entrance of the first sea.                  *)
LEMMA LoadedInv == Init => Inv
<1>. SUFFICES ASSUME Init PROVE Inv
  OBVIOUS
<1>1. Entrance(1) \in Places
  BY DoorsType, MazeAssumption
<1>2. Lairs[Entrance(1)] \in Seq(Monsters) /\ <<>> \in Seq(Monsters)
  BY <1>1, WorldAssumption
<1>3. client = Loaded
  BY DEF Init
<1>4. Shape(Loaded) /\ ControlType(Loaded)
  BY DEF Loaded, Shape, Fields, ControlType
<1>5. Emptied(Loaded)
  BY DEF Loaded, Emptied
<1>6. Mapped(Loaded)
  BY <1>5, EmptiedMapped
<1>. DEFINE place == Entrance(1)
            listed == Lairs[place]
            told == [kind |-> "contents", place |-> place, entry |-> TRUE, players |-> FALSE,
                     truncated |-> FALSE, monsters |-> listed]
            seen == [key |-> [kind |-> "none", is |-> <<>>], monsters |-> <<>>,
                     players |-> FALSE, of |-> place]
<1>7. /\ Loaded.view = seen /\ Loaded.target = NoMonster /\ Loaded.info = place
      /\ Loaded.contents = told /\ Loaded.wire = <<>> /\ Loaded.walk = <<>>
      /\ Loaded.online = TRUE /\ Loaded.active = FALSE /\ Loaded.enabled = FALSE
      /\ Loaded.pending = <<>> /\ Loaded.leave = <<>>
  BY DEF Loaded
<1>. HIDE DEF listed
<1>8. told \in Contents
  BY <1>1, <1>2 DEF Contents, listed
<1>9. DOMAIN seen = {"key", "monsters", "players", "of"} /\ seen.monsters = <<>>
  OBVIOUS
<1>. HIDE DEF told, seen
<1>10. <<>> \in Seq(Commands) /\ <<>> \in Seq(Dirs \cup {"open"})
  OBVIOUS
<1>11. Viewed(Loaded) /\ Told(Loaded) /\ Sends(Loaded)
  BY <1>1, <1>2, <1>7, <1>8, <1>9, <1>10 DEF Viewed, Told, Sends
<1>12. Holding(Loaded) /\ Beside(Loaded)
  BY <1>7 DEF Holding, Beside, InFlight
<1>13. Good(client)
  BY <1>3, <1>4, <1>6, <1>11, <1>12 DEF Good, Able
<1>14. /\ here = Entrance(1) /\ sea = 1 /\ mobs = Lairs /\ combat = FALSE /\ frames = <<>>
       /\ spent = [kind \in Kinds |-> 0]
  BY DEF Init
<1>15. sea \in 1 .. Len(Maze)
  BY <1>14, MazeAssumption
<1>16. spent \in [Kinds -> Nat]
  BY <1>14
<1>17. World
  BY <1>1, <1>3, <1>7, <1>14, <1>15, <1>16, WorldAssumption, LinesType DEF World
<1>. QED  BY <1>13, <1>17 DEF Inv

(* Inv is inductive.                                                       *)
LEMMA StepInv == ASSUME Inv, [Next]_vars PROVE Inv'
<1>1. CASE Next
  BY <1>1, GameInv, AccidentInv, ReceiveInv, TimersInv, PlayerInv, ReconnectInv DEF Next
<1>2. CASE UNCHANGED vars
  BY <1>2 DEF vars, Inv, World
<1>. QED  BY <1>1, <1>2

(* What the plugin's functions rely on, and the game with it, in every     *)
(* state of every sea, lair, route and configuration.                      *)
THEOREM StepperRelies == Spec => []Inv
BY LoadedInv, StepInv, PTL DEF Spec

(* The plugin's tables hold what their readers expect, however often       *)
(* anything interferes: coordinates filed with exits of rooms of a sea,    *)
(* routes of directions, commands, monsters that exist.                    *)
THEOREM StepperTypes == Spec => []TypeOK
<1>1. Inv => TypeOK
  <2>. SUFFICES ASSUME Inv PROVE TypeOK
    OBVIOUS
  <2>1. ControlType(client) /\ Mapped(client) /\ Viewed(client) /\ Told(client) /\ Sends(client)
    BY DEF Inv, Good, Able
  <2>2. Coordinate(client.map.pos)
    BY <2>1 DEF Mapped, Plotted, MapOK, Coordinate, Int3
  <2>3. \A p \in Visited(client.map) : Coordinate(p) /\ client.map.rooms[p] \subseteq Dirs
    BY <2>1 DEF Mapped, Plotted, MapOK, Coordinate, Int3
  <2>4. /\ DOMAIN client.filed = Visited(client.map)
        /\ \A p \in DOMAIN client.filed : client.filed[p] \in Places \ {Lobby}
    BY <2>1 DEF Mapped
  <2>5. \A route \in {client.pending, client.leave} : route \in Seq(Dirs)
    BY <2>1 DEF Mapped
  <2>6. /\ client.wire \in Seq(Commands) /\ client.info \in Places
        /\ client.view.monsters \in Seq(Monsters) /\ client.target \in Monsters \cup {NoMonster}
    BY <2>1 DEF Viewed, Told, Sends
  <2>7. here \in Places /\ sea \in 1 .. Len(Maze) /\ combat \in BOOLEAN /\ spent \in [Kinds -> Nat]
    BY DEF Inv, World
  <2>. QED  BY <2>1, <2>2, <2>3, <2>4, <2>5, <2>6, <2>7 DEF TypeOK
<1>. QED  BY <1>1, StepperRelies, PTL

(* A move is held for the explorer of this connection: one direction, over *)
(* a map that is kept and knows rooms, with no explore run beside it       *)
(* (M.stop, resume, discard, reset, drop_in_flight).                       *)
THEOREM HeldMovesBelong == Spec => []HeldMoveBelongs
<1>1. Inv => HeldMoveBelongs
  BY DEF Inv, Good, Able, Holding, Beside, InFlight, HeldMoveBelongs
<1>. QED  BY <1>1, StepperRelies, PTL
=============================================================================
