--------------------------- MODULE ParityWorkflow ---------------------------
(***************************************************************************)
(* The commands of tools/legacy_parity/cli.py over their shared files:     *)
(* selection, preliminary audits, scope proposals, approval, the staged    *)
(* bundle, provenance and the public artifacts.                            *)
(*                                                                         *)
(* A command that reads and then writes one file is one action. The long   *)
(* ones, publish and validate --refresh-legacy, read file after file, each *)
(* source of the legacy tree too, and run scenarios before they write;     *)
(* between their steps any other command may be given, and the legacy      *)
(* tree, the plugins and their mirror change.                              *)
(* That a write is atomic is FileTransaction's subject; how issues are     *)
(* found is IssueSync's.                                                   *)
(***************************************************************************)
EXTENDS AuditRules, FiniteSets, Sequences

CONSTANTS
  Targets,        \* legacy targets, each with an XML file of its own
  Audits,         \* the audits people write
  Procs,          \* terminals for the long commands
  Sources,        \* how many files the dependency closures name
  Versions, Shape, \* of a source, or a commit; the constructs of all sources
  Trees, First,   \* the commits and sources it may show, and shows at first
  None,
  MaxRevision, MaxCommands, MaxLong, MaxMoves \* bounds

Snapshot == [1..Sources -> Versions]
Tree == [commit : Versions, bytes : Snapshot]

ASSUME WorkflowAssumption ==
  /\ Audits \subseteq Audit
  /\ Sources \in Nat
  /\ Shape \in [Snapshot -> Nat]
  /\ Trees \subseteq Tree /\ First \in Trees
  /\ {MaxRevision, MaxCommands, MaxLong, MaxMoves} \subseteq Nat

VARIABLES
  selection,   \* selection.json
  preliminary, \* preliminary/*.json, or None
  proposals,   \* the scope proposals written
  approval,    \* approval.json, or None
  bundle,      \* staged/audit-bundle.json, or None
  provenance,  \* provenance.json, or None
  public,      \* validation/, and what was so while it was published, or None
  legacy,      \* the legacy tree
  plugins,     \* the current plugins and their mirror
  job,         \* the long command of each terminal
  settled,     \* a long command ended well and nothing has changed since it began
  commands, longs, moves \* counts

files == <<selection, preliminary, proposals, approval, bundle, provenance, public>>
world == <<legacy, plugins>>
counts == <<commands, longs, moves>>
vars == <<files, world, job, settled, counts>>

Scope == SUBSET Targets
Selection == [included : Scope, omitted : Scope]
Preliminary == [version : {0, 1}, mapped : Scope, complete : BOOLEAN]
Approval == [rev : 1..MaxRevision, scope : Scope]
Provenance == [rev : 1..MaxRevision, scope : Scope, tree : Tree, evidence : Audits]

(* What the three public artifacts are rendered from.                      *)
Manifest == [rev : 1..MaxRevision, scope : Scope, audit : Audits, linked : BOOLEAN]

Bundle == [manifest : Manifest, hashes : {"provisional", "final"}, prov : Provenance]

Public ==
  [manifest : Manifest, prov : Provenance,      \* and the bundle's provenance
   approvals : SUBSET Approval, trees : SUBSET Tree] \* as they were meanwhile

Job ==
  [pc : {"idle", "approve", "select", "reload", "snapshot", "provenance", "check",
         "plugins", "mirror", "write"},
   kind : {"publish", "refresh"}, strict : BOOLEAN,
   manifest : Manifest \cup {None},
   approval : Approval \cup {None}, selected : Selection \cup {None},
   bundle : Bundle \cup {None}, bytes : Seq(Versions), \* the sources read so far
   prov : Provenance \cup {None}, plugins : {0, 1},
   approvals : SUBSET Approval, trees : SUBSET Tree, alone : BOOLEAN]

ASSUME NoneApart == None \notin Bundle /\ None \notin Provenance /\ None \notin Public

TypeOK ==
  /\ selection \in Selection
  /\ preliminary \in Preliminary \cup {None}
  /\ proposals \subseteq Approval
  /\ approval \in Approval \cup {None}
  /\ bundle \in Bundle \cup {None}
  /\ provenance \in Provenance \cup {None}
  /\ public \in Public \cup {None}
  /\ legacy \in Trees /\ plugins \in [version : {0, 1}, mirror : {0, 1}]
  /\ job \in [Procs -> Job]
  /\ settled \in BOOLEAN
  /\ commands \in 0..MaxCommands /\ longs \in 0..MaxLong /\ moves \in 0..MaxMoves

Idle ==
  [pc |-> "idle", kind |-> "publish", strict |-> FALSE, manifest |-> None,
   approval |-> None, selected |-> None, bundle |-> None, bytes |-> <<>>, prov |-> None,
   plugins |-> 0, approvals |-> {}, trees |-> {}, alone |-> TRUE]

Init ==
  /\ selection = [included |-> {}, omitted |-> {}]
  /\ preliminary = None /\ proposals = {} /\ approval = None
  /\ bundle = None /\ provenance = None /\ public = None
  /\ legacy = First
  /\ plugins = [version |-> 0, mirror |-> 0]
  /\ job = [p \in Procs |-> Idle]
  /\ settled = FALSE
  /\ commands = 0 /\ longs = 0 /\ moves = 0

----------------------------------------------------------------------------
(* What the commands check.                                                *)

Running == {p \in Procs : job[p].pc # "idle"}

(* Whoever changes something disturbs the long commands under way.         *)
Disturbed(seen) ==
  [p \in Procs |-> IF p \in Running THEN [seen[p] EXCEPT !.alone = FALSE] ELSE seen[p]]

Undecided(selected) == Targets \ (selected.included \cup selected.omitted)

(* _validate_audit, with the plugins and the selection as they are.        *)
Current(record) ==
  record.version = plugins.version /\ record.mapped = selection.included

(* _validate_issue_links: every blocker has its issue.                     *)
Linked(manifest) == Blocked(manifest.audit) => manifest.linked

(* manifest_from_staged                                                    *)
Derivable(b, unresolved) ==
  /\ b.manifest.scope = selection.included
  /\ b.manifest.audit.features # {}
  /\ unresolved \/ Linked(b.manifest)

(* The revision and the canonical public scope are those approved.         *)
Covers(a, manifest) == a.rev = manifest.rev /\ a.scope = manifest.scope

(* _approval_matches: the private bindings, too.                           *)
Matches(a, manifest, selected) ==
  a # None /\ Covers(a, manifest) /\ a.scope = selected.included

(* staged._validate_provenance                                             *)
Sourced(b, prov) ==
  /\ b.prov = prov
  /\ prov.rev = b.manifest.rev /\ prov.scope = b.manifest.scope
  /\ prov.evidence = b.manifest.audit

(* _validate_target_set and _validate_targets: the bundle has the targets  *)
(* selected, with the features published and evidence for each.            *)
Audited(b, manifest, selected) ==
  /\ b.manifest.scope = manifest.scope /\ manifest.scope = selected.included
  /\ b.manifest.audit = manifest.audit
  /\ Sound(manifest.audit, manifest.linked)

(* _validate_artifacts: the hashes are of the artifacts to be published.   *)
Hashed(b, manifest) == b.hashes = "final" /\ b.manifest = manifest

(* validate_staged_bundle                                                  *)
Valid(b, manifest, a, selected, prov) ==
  /\ Covers(a, b.manifest)
  /\ Audited(b, manifest, selected)
  /\ Sourced(b, prov)
  /\ Hashed(b, manifest)

(* _validate_construct_snapshots: the audited constructs are those there.  *)
Extracted(b, bytes) == Shape[bytes] = b.manifest.audit.shape

(* The plugins and their mirror are the same, byte for byte.               *)
Mirrored == plugins.version = plugins.mirror

(* _validate_private without --refresh-legacy, when nothing moves.         *)
Passes ==
  /\ {public, approval, bundle, provenance} \cap {None} = {}
  /\ Matches(approval, public.manifest, selection)
  /\ Extracted(bundle, legacy.bytes)
  /\ Valid(bundle, public.manifest, approval, selection, provenance)
  /\ provenance.tree = legacy
  /\ Mirrored

----------------------------------------------------------------------------
(* The short commands.                                                     *)

Given == commands < MaxCommands /\ commands' = commands + 1 /\ UNCHANGED <<longs, moves>>

Changes == settled' = FALSE /\ job' = Disturbed(job)

(* record_included_target                                                  *)
Include(t) ==
  /\ t \notin selection.included
  /\ selection' = [included |-> selection.included \cup {t},
                   omitted |-> selection.omitted \ {t}]
  /\ Given /\ Changes
  /\ UNCHANGED <<preliminary, proposals, approval, bundle, provenance, public, world>>

(* record_omitted_candidate: whether the file is in use is not looked at.  *)
Omit(t) ==
  /\ selection' = [selection EXCEPT !.omitted = @ \cup {t}]
  /\ Given /\ Changes
  /\ UNCHANGED <<preliminary, proposals, approval, bundle, provenance, public, world>>

StagePreliminary(record) ==
  /\ Current(record)
  /\ preliminary' = record
  /\ Given /\ Changes
  /\ UNCHANGED <<selection, proposals, approval, bundle, provenance, public, world>>

(* Mutant: the first revision is 0.                                        *)
ProposeFromZero ==
  LET rev == IF approval = None THEN 0 ELSE approval.rev + 1
  IN /\ preliminary # None /\ preliminary.complete /\ Current(preliminary)
     /\ rev <= MaxRevision
     /\ proposals' = proposals \cup {[rev |-> rev, scope |-> selection.included]}
     /\ Given /\ Changes
     /\ UNCHANGED <<selection, preliminary, approval, bundle, provenance, public, world>>

(* The revision follows the approval's.                                    *)
ProposeScope ==
  LET rev == IF approval = None THEN 1 ELSE approval.rev + 1
  IN /\ preliminary # None /\ preliminary.complete /\ Current(preliminary)
     /\ rev <= MaxRevision
     /\ proposals' = proposals \cup {[rev |-> rev, scope |-> selection.included]}
     /\ Given /\ Changes
     /\ UNCHANGED <<selection, preliminary, approval, bundle, provenance, public, world>>

(* Any proposal there is, an older one too.                                *)
ApproveScope(proposal) ==
  /\ approval' = proposal
  /\ Given
  /\ settled' = FALSE
  /\ job' = Disturbed([p \in Procs |->
       IF p \in Running THEN [job[p] EXCEPT !.approvals = @ \cup {proposal}] ELSE job[p]])
  /\ UNCHANGED <<selection, preliminary, proposals, bundle, provenance, public, world>>

(* write_provenance: what people noted of the legacy tree.                 *)
WriteProvenance(for, audit) ==
  /\ provenance' = [rev |-> for.rev, scope |-> for.scope, tree |-> legacy, evidence |-> audit]
  /\ Given /\ Changes
  /\ UNCHANGED <<selection, preliminary, proposals, approval, bundle, public, world>>

(* stage-audit: a bundle that people wrote, for whatever was proposed, with*)
(* the evidence and the provenance that there are.                         *)
StageAudit(for, linked, hashes) ==
  /\ provenance # None /\ (linked => Blocked(provenance.evidence))
  /\ bundle' = [manifest |-> [rev |-> for.rev, scope |-> for.scope,
                              audit |-> provenance.evidence, linked |-> linked],
                hashes |-> hashes, prov |-> provenance]
  /\ Given /\ Changes
  /\ UNCHANGED <<selection, preliminary, proposals, approval, provenance, public, world>>

(* sync-issues, when it ends well: validate_issue_sync_bundle, then links  *)
(* of blockers whose evidence says that they fail.                         *)
LinkIssues ==
  LET b == bundle
  IN /\ {bundle, approval, provenance} \cap {None} = {}
     /\ Blocked(b.manifest.audit) /\ ~b.manifest.linked /\ b.hashes = "provisional"
     /\ \A f \in b.manifest.audit.features : f.status = "lera_blocker" => f.private = "fail"
     /\ Derivable(b, TRUE)
     /\ Covers(approval, b.manifest)
     /\ Sound(b.manifest.audit, TRUE)
     /\ Sourced(b, provenance)
     /\ bundle' = [b EXCEPT !.manifest.linked = TRUE]
     /\ Given /\ Changes
     /\ UNCHANGED <<selection, preliminary, proposals, approval, provenance, public, world>>

----------------------------------------------------------------------------
(* publish and validate --refresh-legacy.                                  *)

At(p, pc) == job[p].pc = pc

Go(p, j) == job' = [job EXCEPT ![p] = j] /\ UNCHANGED <<files, world, settled, counts>>

(* A check that fails ends the command, which has written nothing yet.     *)
Proceed(p, passes, j) == Go(p, IF passes THEN j ELSE Idle)

Begun(kind, strict) ==
  [Idle EXCEPT !.pc = "approve", !.kind = kind, !.strict = strict,
    !.approvals = {approval} \ {None}, !.trees = {legacy}]

Begin(p, j) ==
  /\ At(p, "idle") /\ longs < MaxLong
  /\ job' = [job EXCEPT ![p] = j]
  /\ longs' = longs + 1
  /\ UNCHANGED <<files, world, settled, commands, moves>>

(* The candidate is rendered from the bundle.                              *)
BeginPublish(p) ==
  /\ bundle # None /\ approval # None
  /\ Derivable(bundle, FALSE)
  /\ Begin(p, [Begun("publish", FALSE) EXCEPT !.manifest = bundle.manifest, !.bundle = bundle])

(* The artifacts that are published are read first.                        *)
BeginRefresh(p, strict) ==
  /\ public # None
  /\ Begin(p, [Begun("refresh", strict) EXCEPT !.manifest = public.manifest])

ReadApproval(p) ==
  /\ At(p, "approve")
  /\ Proceed(p, approval # None, [job[p] EXCEPT !.pc = "select", !.approval = approval])

ReadSelection(p) ==
  /\ At(p, "select")
  /\ Proceed(p, Matches(job[p].approval, job[p].manifest, selection),
                [job[p] EXCEPT !.pc = "reload", !.selected = selection])

ReadBundle(p) ==
  /\ At(p, "reload")
  /\ Proceed(p, bundle # None /\ job[p].bundle \in {None, bundle},
                [job[p] EXCEPT !.pc = "snapshot", !.bundle = bundle])

(* _capture_relative_files: one source after the other.                    *)
ReadSource(p) ==
  /\ At(p, "snapshot") /\ Len(job[p].bytes) < Sources
  /\ Go(p, [job[p] EXCEPT !.bytes = Append(@, legacy.bytes[Len(@) + 1])])

(* _validate_construct_snapshots, and discover.                            *)
CheckConstructs(p) ==
  LET j == job[p]
  IN /\ At(p, "snapshot") /\ Len(j.bytes) = Sources
     /\ Proceed(p, /\ Extracted(j.bundle, j.bytes)
                   /\ j.kind = "refresh" => Undecided(j.selected) = {},
                   [j EXCEPT !.pc = "provenance"])

(* A refresh takes the sources as it read them and the commit as it is now.*)
Refreshed(b, bytes) ==
  [rev |-> b.manifest.rev, scope |-> b.manifest.scope,
   tree |-> [commit |-> legacy.commit, bytes |-> bytes], evidence |-> b.manifest.audit]

ReadProvenance(p) ==
  LET j == job[p]
      fresh == Refreshed(j.bundle, j.bytes)
  IN /\ At(p, "provenance")
     /\ \/ /\ j.kind = "refresh"
           /\ Go(p, [j EXCEPT !.pc = "check", !.prov = fresh, !.bundle.prov = fresh])
        \/ /\ j.kind = "publish"
           /\ Proceed(p, provenance # None, [j EXCEPT !.pc = "check", !.prov = provenance])

(* Mutants: only the sources, and only the commit, are compared.           *)
CheckCommit(p) ==
  LET j == job[p]
  IN /\ At(p, "check")
     /\ Proceed(p, /\ Valid(j.bundle, j.manifest, j.approval, j.selected, j.prov)
                   /\ j.prov.tree.commit = legacy.commit,
                   [j EXCEPT !.pc = "plugins"])

CheckSources(p) ==
  LET j == job[p]
  IN /\ At(p, "check")
     /\ Proceed(p, /\ Valid(j.bundle, j.manifest, j.approval, j.selected, j.prov)
                   /\ j.prov.tree.bytes = j.bytes,
                   [j EXCEPT !.pc = "plugins"])

(* The sources are those of the snapshot, the commit is read now.          *)
Check(p) ==
  LET j == job[p]
  IN /\ At(p, "check")
     /\ Proceed(p, /\ Valid(j.bundle, j.manifest, j.approval, j.selected, j.prov)
                   /\ j.prov.tree = [commit |-> legacy.commit, bytes |-> j.bytes],
                   [j EXCEPT !.pc = "plugins"])

ReadPlugins(p) ==
  /\ At(p, "plugins")
  /\ Go(p, [job[p] EXCEPT !.pc = "mirror", !.plugins = plugins.version])

(* The mirror is read and compared, then the scenarios run: one may fail.  *)
CompareMirror(p) ==
  /\ At(p, "mirror")
  /\ \E passed \in BOOLEAN :
       Proceed(p, job[p].plugins = plugins.mirror /\ Linked(job[p].manifest) /\ passed,
                  [job[p] EXCEPT !.pc = "write"])

Finish(p) ==
  /\ settled' = job[p].alone
  /\ job' = [Disturbed(job) EXCEPT ![p] = Idle]
  /\ UNCHANGED <<selection, preliminary, proposals, approval, world, counts>>

(* publish_transaction                                                     *)
Publish(p) ==
  LET j == job[p]
  IN /\ At(p, "write") /\ j.kind = "publish"
     /\ public' = [manifest |-> j.manifest, prov |-> j.prov,
                   approvals |-> j.approvals, trees |-> j.trees]
     /\ Finish(p)
     /\ UNCHANGED <<bundle, provenance>>

(* Mutant: the bundle keeps the provenance that it came with.              *)
RefreshAlone(p) ==
  LET j == job[p]
  IN /\ At(p, "write") /\ j.kind = "refresh"
     /\ j.strict => Strict(j.manifest.audit)
     /\ provenance' = j.prov
     /\ Finish(p)
     /\ UNCHANGED <<bundle, public>>

(* write_provenance_transaction: provenance, and the bundle that was read. *)
Refresh(p) ==
  LET j == job[p]
  IN /\ At(p, "write") /\ j.kind = "refresh"
     /\ j.strict => Strict(j.manifest.audit)
     /\ provenance' = j.prov /\ bundle' = j.bundle
     /\ Finish(p)
     /\ UNCHANGED public

(* Parity was required and is not there.                                   *)
Refuse(p) ==
  /\ At(p, "write") /\ job[p].kind = "refresh"
  /\ job[p].strict /\ ~Strict(job[p].manifest.audit)
  /\ Go(p, Idle)

Kill(p) == p \in Running /\ Go(p, Idle)

----------------------------------------------------------------------------
(* What else changes.                                                      *)

(* Another commit is checked out, or sources are edited.                   *)
MoveLegacy(tree) ==
  /\ tree # legacy
  /\ legacy' = tree
  /\ job' = Disturbed([p \in Procs |->
       IF p \in Running THEN [job[p] EXCEPT !.trees = @ \cup {tree}] ELSE job[p]])
  /\ moves < MaxMoves /\ moves' = moves + 1
  /\ settled' = FALSE
  /\ UNCHANGED <<files, plugins, commands, longs>>

EditPlugin ==
  /\ plugins' = [plugins EXCEPT !.version = 1 - @]
  /\ moves < MaxMoves /\ moves' = moves + 1
  /\ Changes
  /\ UNCHANGED <<files, legacy, commands, longs>>

CopyToMirror ==
  /\ ~Mirrored
  /\ plugins' = [plugins EXCEPT !.mirror = plugins.version]
  /\ Changes
  /\ UNCHANGED <<files, legacy, counts>>

Command ==
  \/ \E t \in Targets : Include(t) \/ Omit(t)
  \/ \E complete \in BOOLEAN :
       StagePreliminary([version |-> plugins.version, mapped |-> selection.included,
                         complete |-> complete])
  \/ ProposeScope
  \/ \E proposal \in proposals :
       \/ ApproveScope(proposal)
       \/ \E audit \in Audits : WriteProvenance(proposal, audit)
       \/ \E linked \in BOOLEAN, hashes \in {"provisional", "final"} :
            StageAudit(proposal, linked, hashes)
  \/ LinkIssues

LongCommand(p) ==
  \/ BeginPublish(p)
  \/ \E strict \in BOOLEAN : BeginRefresh(p, strict)
  \/ ReadApproval(p) \/ ReadSelection(p) \/ ReadBundle(p) \/ ReadSource(p)
  \/ CheckConstructs(p) \/ ReadProvenance(p) \/ Check(p)
  \/ ReadPlugins(p) \/ CompareMirror(p)
  \/ Publish(p) \/ Refresh(p) \/ Refuse(p) \/ Kill(p)

Next ==
  \/ Command
  \/ \E p \in Procs : LongCommand(p)
  \/ \E tree \in Trees : MoveLegacy(tree)
  \/ EditPlugin \/ CopyToMirror

Spec == Init /\ [][Next]_vars

----------------------------------------------------------------------------
(* Properties.                                                             *)

(* What is published, its revision and its scope, was the approval in force*)
(* at some moment of that publish; the commit that its provenance names was*)
(* the legacy tree's at some moment of it, and each source that it names   *)
(* was there, as it says, at some moment of it: not all of them at one.    *)
PublishedAsSeen ==
  public # None =>
    LET m == public.manifest
        tree == public.prov.tree
    IN /\ [rev |-> m.rev, scope |-> m.scope] \in public.approvals
       /\ \E then \in public.trees : then.commit = tree.commit
       /\ \A s \in 1..Sources :
            \E then \in public.trees : then.bytes[s] = tree.bytes[s]

(* Not so: the sources that the provenance of a publication names were     *)
(* those of the legacy tree at one moment of it ("Private legacy digest    *)
(* drift is fatal locally", 2026-08-07-legacy-plugin-parity-validation-     *)
(* design.md:460). The tree may drift again between two reads.             *)
DriftIsFatal ==
  public # None =>
    \E then \in public.trees : then.bytes = public.prov.tree.bytes

(* A target is published as being at parity only if every feature of it is *)
(* waived or passed, in private too where that is its evidence; and every  *)
(* blocker that is published has its issue.                                *)
PublishedIsEvidenced ==
  public # None =>
    LET m == public.manifest
    IN /\ Aggregate(m.audit) = "parity" =>
            \A f \in m.audit.features :
              \/ f.status = "waived" /\ f.waiver
              \/ f.outcome = "pass" /\ (f.local => f.private = "pass")
       /\ Linked(m)

(* When a publish or a refresh ended well and nothing has changed since it *)
(* began, full-private validation of what is published passes.             *)
SettledValidates == settled => Passes
=============================================================================
