-------------------------- MODULE MCFileTransaction --------------------------
(* Small instances of FileTransaction.                                     *)
EXTENDS FileTransaction, TLC

CONSTANTS p1, p2, a, b, c

Nothing == [files |-> <<>>, finalizeAll |-> FALSE]

ByItself(files, all, n) ==
  [work |-> p1 :> [files |-> files, finalizeAll |-> all] @@ p2 :> Nothing, mishaps |-> n]

Beside(files, all, n) ==
  [work |-> p1 :> [files |-> files, finalizeAll |-> all]
              @@ p2 :> [files |-> <<b>>, finalizeAll |-> FALSE],
   mishaps |-> n]

(* A publication of two files with two mishaps and of three with one; a    *)
(* refresh of provenance and snapshot with one; two writers of the snapshot*)
(* with one; a refresh beside a writer of the snapshot.                    *)
MCPlans ==
  {ByItself(<<a, b>>, FALSE, 2), ByItself(<<a, b, c>>, FALSE, 1), ByItself(<<a, b>>, TRUE, 1),
   Beside(<<b>>, FALSE, 1), Beside(<<a, b>>, TRUE, 0)}

(* A publication in which one step raises.                                 *)
OneMishap == {ByItself(<<a, b>>, FALSE, 1)}
=============================================================================
