---------------------------- MODULE MCAutoStepper ----------------------------
(***************************************************************************)
(* Small seas, lairs and budgets for model checking AutoStepper.           *)
(***************************************************************************)
EXTENDS AutoStepper, TLC

CONSTANTS Mutant, Boss, mutant, lord

(* The stepper's vocabulary knows mutants only: it calls a boss by the word *)
(* for a mutant, to which the boss does not answer.                         *)
Vocabulary == {mutant, lord}
Guessed == (Mutant :> mutant) @@ (Boss :> mutant)
Named == (Mutant :> {mutant}) @@ (Boss :> {lord})

MCVertical == [dir \in {"u", "d"} |-> IF dir = "d" THEN 1 ELSE -1]

(* Two layers: a dead end east of the second room, so that the explorer    *)
(* walks back through a known room to reach the way down.                  *)
TwoLayers == (<<0, 0, 0>> :> {"n", "out"}) @@ (<<0, 1, 0>> :> {"s", "e", "d"})
          @@ (<<1, 1, 0>> :> {"w"}) @@ (<<0, 1, 1>> :> {"u"})

Corridor == (<<0, 0, 0>> :> {"n", "out"}) @@ (<<0, 1, 0>> :> {"n", "s"})
         @@ (<<0, 2, 0>> :> {"s"})

OneSea == <<TwoLayers>>

(* Two rooms alike on the way north, and the way down left for the end, so *)
(* that the explorer comes back by a frontier speedwalk of four commands.  *)
Alike == (<<0, 0, 0>> :> {"n", "d", "out"}) @@ (<<0, 1, 0>> :> {"n", "s"})
      @@ (<<0, 2, 0>> :> {"n", "s"}) @@ (<<0, 3, 0>> :> {"s"}) @@ (<<0, 0, 1>> :> {"u"})
AlikeSea == <<Alike>>
TwoSeas == <<Corridor, TwoLayers>>

Quietly == [players |-> FALSE, truncated |-> FALSE]
OnlyTheRoom == {Quietly}

In(k, x, y, z) == [sea |-> k, at |-> <<x, y, z>>]

NoCasks == {}
OneLair == [p \in Places |-> IF p = In(1, 0, 1, 0) THEN <<Mutant>> ELSE <<>>]
BossLair == [p \in Places |-> IF p = In(1, 0, 2, 0) THEN <<Mutant, Boss>>
                           ELSE IF p = In(2, 0, 1, 0) THEN <<Mutant>> ELSE <<>>]
CaskRooms == {In(1, 0, 2, 0), In(2, 1, 1, 0)}
PlayersPass == {Quietly, [Quietly EXCEPT !.players = TRUE]}
Crowded == {Quietly, [Quietly EXCEPT !.truncated = TRUE]}
NoTargets == {}
OnlyMutants == {Mutant}
TargetsOnly == [auto_attack |-> TRUE, targets_only |-> TRUE, step_on_player |-> TRUE,
                policy |-> "dive"]
NoRoute == <<>>
SomeRoute == <<"n", "open", "e", "w", "open">>

AnyMob == [auto_attack |-> TRUE, targets_only |-> FALSE, step_on_player |-> TRUE,
           policy |-> "clear"]
DiveAtAny == [AnyMob EXCEPT !.policy = "dive"]

Only(limits) == [kind \in Kinds |-> IF kind \in DOMAIN limits THEN limits[kind] ELSE 0]

(* What may interfere in each run, and how often.                          *)
Interference == Only([start |-> 2, stop |-> 1, block |-> 1, late |-> 1, hand |-> 1,
                      wimpy |-> 1, leave |-> 1, reset |-> 1, hush |-> 1, out |-> 1])
Sessions == Only([start |-> 2, drop |-> 1, reload |-> 1, stop |-> 2, leave |-> 1,
                  block |-> 1, hush |-> 1, late |-> 1, stray |-> 1])
Farming == Only([start |-> 1, farm |-> 2, stop |-> 1, redive |-> 1, late |-> 1,
                 stray |-> 1, unanswered |-> 2, wimpy |-> 1])

OneReset == Only([start |-> 1, reset |-> 1])
StopTwice == Only([start |-> 1, stop |-> 2])
=============================================================================
