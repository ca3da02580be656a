-------------------------------- MODULE Survey --------------------------------
(***************************************************************************)
(* What the explorer of 3scapes/autostepper promises, without plugins,     *)
(* frames or coordinates: a chart that grows one room at a time, each new  *)
(* room through a real door of a room already on it, and that is given up  *)
(* as a whole when the surveyor can no longer tell where they are          *)
(* (explore/mode.lua start, arrive, reset, discard).                       *)
(***************************************************************************)
CONSTANTS Rooms, Doors(_)   \* Doors(r): the rooms one step from r

VARIABLE charted            \* the set of rooms on the chart

TypeOK == charted \subseteq Rooms

Init == charted = {}

(* The first room of a chart, also when it takes an older chart's place.   *)
Begin(room) == charted' = {room}

Extend(room) == /\ \E known \in charted : room \in Doors(known)
                /\ charted' = charted \cup {room}

GiveUp == charted' = {}

Next == \/ \E room \in Rooms : Begin(room) \/ Extend(room)
        \/ GiveUp

Spec == Init /\ [][Next]_charted
=============================================================================
