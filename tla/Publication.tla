----------------------------- MODULE Publication -----------------------------
(***************************************************************************)
(* What tools/legacy_parity promises of a set of files replaced together:  *)
(* the names change one by one, but a transaction only ends with all of    *)
(* them new or with all of them as they were, less those that it could not *)
(* restore: one such file does not keep it from restoring the others.      *)
(* Nothing is promised of a transaction that was killed before all names   *)
(* were new, or that met another writer or another transaction.            *)
(***************************************************************************)
CONSTANTS Transactions, Files

VARIABLES status, \* open, committed, aborted or void
          view,   \* what each file's name shows of an open transaction: old or new
          left    \* the files that an open transaction could not restore

promises == <<status, view, left>>

Shows(t, new) == {f \in Files : view[t][f] = "new"} = new

Nothing == [f \in Files |-> "old"]

Init ==
  /\ status = [t \in Transactions |-> "open"]
  /\ view = [t \in Transactions |-> Nothing]
  /\ left = [t \in Transactions |-> {}]

Replace(t, f) ==
  /\ status[t] = "open"
  /\ view' = [view EXCEPT ![t][f] = "new"]
  /\ UNCHANGED <<status, left>>

Restore(t, f) ==
  /\ status[t] = "open"
  /\ view' = [view EXCEPT ![t][f] = "old"]
  /\ UNCHANGED <<status, left>>

(* Restoring the file raised.                                              *)
Leave(t, f) ==
  /\ status[t] = "open"
  /\ left' = [left EXCEPT ![t] = @ \cup {f}]
  /\ UNCHANGED <<status, view>>

(* The point of no return: wanted is the set the transaction was given.    *)
Commit(t, wanted) ==
  /\ status[t] = "open" /\ left[t] = {}
  /\ wanted # {} /\ Shows(t, wanted)
  /\ status' = [status EXCEPT ![t] = "committed"]
  /\ UNCHANGED <<view, left>>

(* What is not as it was is what restoring raised for.                     *)
Abort(t) ==
  /\ status[t] = "open"
  /\ \A f \in Files \ left[t] : view[t][f] = "old"
  /\ status' = [status EXCEPT ![t] = "aborted"]
  /\ view' = [view EXCEPT ![t] = Nothing]
  /\ left' = [left EXCEPT ![t] = {}]

(* Another writer, or a kill, voids the transactions it meets.             *)
Void(met) ==
  /\ status' = [t \in Transactions |-> IF t \in met THEN "void" ELSE status[t]]
  /\ view' = [t \in Transactions |-> IF t \in met THEN Nothing ELSE view[t]]
  /\ left' = [t \in Transactions |-> IF t \in met THEN {} ELSE left[t]]

Next ==
  \/ \E t \in Transactions, f \in Files : Replace(t, f) \/ Restore(t, f) \/ Leave(t, f)
  \/ \E t \in Transactions : Abort(t) \/ \E wanted \in SUBSET Files : Commit(t, wanted)
  \/ \E met \in SUBSET Transactions : Void(met)

Spec == Init /\ [][Next]_promises
=============================================================================
