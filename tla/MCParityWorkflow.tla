-------------------------- MODULE MCParityWorkflow --------------------------
(* A small instance of ParityWorkflow: one target, whose XML imports one   *)
(* other file, and two versions of each.                                   *)
EXTENDS ParityWorkflow

Passed ==
  [status |-> "parity", outcome |-> "pass", local |-> TRUE, private |-> "pass",
   proof |-> TRUE, waiver |-> FALSE]

AuditOf(f) == [converted |-> TRUE, features |-> {f}, shape |-> 1]

(* At parity, blocked, and claiming more than the private evidence says.   *)
MCAudits ==
  {AuditOf(Passed),
   AuditOf([Passed EXCEPT !.status = "lera_blocker", !.outcome = "fail", !.private = "fail"]),
   AuditOf([Passed EXCEPT !.private = "fail"])}

MCVersions == {1, 2}
MCFirst == [commit |-> 1, bytes |-> <<1, 2>>]

(* An edit of either source, and a commit that leaves both alone. Between  *)
(* the two edits, a command may read the sources as they were at first.    *)
MCTrees ==
  {MCFirst, [commit |-> 2, bytes |-> <<1, 2>>],
   [commit |-> 1, bytes |-> <<1, 1>>], [commit |-> 1, bytes |-> <<2, 2>>]}

(* The constructs that are audited are not those of <<1, 1>>.              *)
MCShape == [s \in [1..2 -> MCVersions] |-> IF s = <<1, 1>> THEN 2 ELSE 1]
=============================================================================
