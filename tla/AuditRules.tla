----------------------------- MODULE AuditRules -----------------------------
(***************************************************************************)
(* What tools/legacy_parity accepts as an audit of its targets: compare.py *)
(* and what manifest.py and staged.py say of features, evidence, blockers  *)
(* and constructs.                                                         *)
(***************************************************************************)
EXTENDS Integers

Statuses == {"parity", "plugin_gap", "lera_blocker", "not_converted", "waived"}

(* A feature: what its public record claims and, when its evidence is not  *)
(* a public fixture, what the private record that it names says.           *)
Feature ==
  [status : Statuses,
   outcome : {"pass", "fail"},          \* the public evidence record
   local : BOOLEAN,                     \* it names a private record
   private : {"none", "pass", "fail"},  \* what the private record says
   proof : BOOLEAN,                     \* current references or a fixture
   waiver : BOOLEAN]                    \* a date and a rationale

(* The targets of a bundle are alike: converted or not, with these features*)
(* and with the constructs of this shape.                                  *)
Audit == [converted : BOOLEAN, features : SUBSET Feature, shape : Nat]

(* validate_manifest and validate_evidence                                 *)
Claims(f, linked) ==
  /\ f.status = "parity" => f.outcome = "pass" /\ f.proof
  /\ f.status = "lera_blocker" => linked
  /\ f.status = "waived" => f.waiver

(* Mutant: it is enough that there is a private record.                    *)
EvidencedAtAll(f) == f.local => f.private # "none"

(* validate_evidence, full private: the private record says the same.      *)
Evidenced(f) == f.local => f.private = f.outcome

(* staged._validate_evidence and _validate_blockers                        *)
Recorded(f) ==
  /\ f.local = (f.private # "none")
  /\ f.status = "lera_blocker" => f.local

(* validate_target                                                         *)
Sound(audit, linked) ==
  /\ audit.features # {}
  /\ \A f \in audit.features :
       /\ Claims(f, linked) /\ Evidenced(f) /\ Recorded(f)
       /\ ~audit.converted => f.status = "not_converted"

Blocked(audit) == \E f \in audit.features : f.status = "lera_blocker"

(* aggregate_target                                                        *)
Aggregate(audit) ==
  LET statuses == {f.status : f \in audit.features}
  IN CASE ~audit.converted -> "not_converted"
       [] audit.converted /\ "lera_blocker" \in statuses -> "lera_blocker"
       [] audit.converted /\ statuses # {} /\ statuses \subseteq {"parity", "waived"} -> "parity"
       [] OTHER -> "plugin_gap"

(* strict_parity_findings                                                  *)
Strict(audit) ==
  \A f \in audit.features : f.status = "parity" \/ (f.status = "waived" /\ f.waiver)
=============================================================================
