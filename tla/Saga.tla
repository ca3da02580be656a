--------------------------------- MODULE Saga ---------------------------------
(***************************************************************************)
(* What a herd replacement of 3scapes/guild_viking promises, whatever      *)
(* saves, sends, receipts and restarts do: one slaughter, then at most one *)
(* purchase, then nothing before the outcome is known or acknowledged; and *)
(* the money at risk, charged to a day before the slaughter, never exceeds *)
(* that day's allowance and is never given back.                           *)
(***************************************************************************)
EXTENDS Naturals

CONSTANTS Days, DailyCost

VARIABLES stage,     \* the last command sent whose outcome is not settled
          charged    \* for each day, the cost of the purchases put at risk

vars == <<stage, charged>>

Allowance == 0 .. DailyCost

TypeOK == stage \in {"none", "slaughter", "buy"} /\ charged \in [Days -> Allowance]

Init == stage = "none" /\ charged = [d \in Days |-> 0]

Slaughter == /\ stage = "none"
             /\ stage' = "slaughter"
             /\ \E d \in Days : \E total \in Allowance :
                  /\ total >= charged[d]
                  /\ charged' = [charged EXCEPT ![d] = total]

Buy == /\ stage = "slaughter"
       /\ stage' = "buy"
       /\ UNCHANGED charged

Settle == stage' = "none" /\ UNCHANGED charged

Next == Slaughter \/ Buy \/ Settle

Spec == Init /\ [][Next]_vars
=============================================================================
