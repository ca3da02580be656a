------------------------- MODULE ParityWorkflowProofs -------------------------
(***************************************************************************)
(* Proofs about ParityWorkflow, for any targets, audits, trees and         *)
(* terminals, and any number of commands, revisions and changes.           *)
(*                                                                         *)
(* What a long command has read is compared with what is there now: Found  *)
(* says what the checks it has passed establish of what it read, Seen what *)
(* it may have missed, and Undisturbed that nothing was.                   *)
(***************************************************************************)
EXTENDS ParityWorkflow, TLAPS

(* The steps after a command has read the approval, the selection, the     *)
(* bundle, the sources and the provenance, and has checked the bundle.     *)
HasChecked == {"plugins", "mirror", "write"}
HasProvenance == {"check"} \cup HasChecked
HasSources == {"provenance"} \cup HasProvenance
HasBundle == {"snapshot"} \cup HasSources
HasSelection == {"reload"} \cup HasBundle
HasApproval == {"select"} \cup HasSelection

(* Each source read so far was there, as it was read, in one of the trees. *)
Met(bytes, trees) ==
  \A s \in 1..Len(bytes) : \E then \in trees : then.bytes[s] = bytes[s]

(* What a command works with, and what it has checked of it.               *)
Found(j) ==
  /\ j \in Job
  /\ j.pc # "idle" => j.manifest \in Manifest
  /\ j.pc \in HasApproval => j.approval \in j.approvals /\ j.approval # None
  /\ j.pc \in HasSelection => Matches(j.approval, j.manifest, j.selected)
  /\ j.pc \in HasBundle => j.bundle \in Bundle
  /\ j.pc \notin HasBundle => j.bytes = <<>>
  /\ Len(j.bytes) <= Sources /\ Met(j.bytes, j.trees)
  /\ j.pc \in HasSources => j.bytes \in Snapshot /\ Extracted(j.bundle, j.bytes)
  /\ j.pc \in HasProvenance => j.prov \in Provenance
  /\ j.pc \in HasChecked =>
       /\ Valid(j.bundle, j.manifest, j.approval, j.selected, j.prov)
       /\ j.prov.tree.bytes = j.bytes
       /\ \E then \in j.trees : then.commit = j.prov.tree.commit
  /\ j.pc = "write" => Linked(j.manifest)

(* The state, as the commands look at it.                                  *)
Now ==
  [selection |-> selection, approval |-> approval, bundle |-> bundle,
   provenance |-> provenance, public |-> public, legacy |-> legacy,
   plugins |-> plugins.version, mirrored |-> Mirrored]

(* The approvals and the trees there were are counted from the start.      *)
Seen(j, now) ==
  j.pc # "idle" =>
    /\ now.legacy \in j.trees
    /\ now.approval # None => now.approval \in j.approvals

(* While nobody else changes anything, what was read is still so.          *)
Undisturbed(j, now) ==
  j.pc # "idle" /\ j.alone =>
    /\ j.kind = "publish" => now.bundle = j.bundle /\ now.bundle # None
    /\ j.kind = "refresh" => now.public # None /\ now.public.manifest = j.manifest
    /\ j.pc \in HasApproval => now.approval = j.approval
    /\ j.pc \in HasSelection => now.selection = j.selected
    /\ \A s \in 1..Len(j.bytes) : now.legacy.bytes[s] = j.bytes[s]
    /\ j.pc \in HasSources => now.legacy.bytes = j.bytes
    /\ j.pc \in HasProvenance /\ j.kind = "publish" => now.provenance = j.prov
    /\ j.pc \in HasChecked => now.legacy = j.prov.tree
    /\ j.pc = "mirror" => now.plugins = j.plugins
    /\ j.pc = "write" => now.mirrored

Watched(j, now) == Found(j) /\ Seen(j, now) /\ Undisturbed(j, now)

JobsWatched ==
  /\ job \in [Procs -> Job]
  /\ \A p \in Procs : Watched(job[p], Now)

(* TypeOK, less the jobs.                                                  *)
FilesTyped ==
  /\ selection \in Selection
  /\ preliminary \in Preliminary \cup {None}
  /\ proposals \subseteq Approval
  /\ approval \in Approval \cup {None}
  /\ bundle \in Bundle \cup {None}
  /\ provenance \in Provenance \cup {None}
  /\ public \in Public \cup {None}
  /\ legacy \in Trees /\ plugins \in [version : {0, 1}, mirror : {0, 1}]
  /\ settled \in BOOLEAN

Counted == commands \in 0..MaxCommands /\ longs \in 0..MaxLong /\ moves \in 0..MaxMoves

PublicGood == PublishedAsSeen /\ PublishedIsEvidenced

(* The inductive invariant.                                                *)
Inv == FilesTyped /\ Counted /\ JobsWatched /\ PublicGood /\ SettledValidates

----------------------------------------------------------------------------
(* A sound audit is evidence for what it is published as (compare.py's     *)
(* aggregate_target beside manifest.py's validate_evidence).               *)
LEMMA SoundIsEvidenced ==
  ASSUME NEW audit \in Audit, NEW linked, Sound(audit, linked), Aggregate(audit) = "parity",
         NEW f \in audit.features
  PROVE  \/ f.status = "waived" /\ f.waiver
         \/ f.outcome = "pass" /\ (f.local => f.private = "pass")
<1>. DEFINE statuses == {g.status : g \in audit.features}
<1>1. f.status \in {"parity", "waived"}
  <2>1. audit.converted \in BOOLEAN
    BY DEF Audit
  <2>2. statuses \subseteq {"parity", "waived"}
    BY <2>1 DEF Aggregate
  <2>. QED  BY <2>2
<1>2. Claims(f, linked) /\ Evidenced(f)
  BY DEF Sound
<1>. QED  BY <1>1, <1>2 DEF Claims, Evidenced

(* A command that has read no source yet.                                  *)
LEMMA NothingRead ==
  <<>> \in Seq(Versions) /\ Len(<<>>) <= Sources /\ \A trees : Met(<<>>, trees)
BY WorkflowAssumption DEF Met

(* Two snapshots that agree on every source are one.                       *)
LEMMA SameSources ==
  ASSUME NEW one \in Snapshot, NEW other \in Snapshot,
         \A s \in 1..Sources : one[s] = other[s]
  PROVE  one = other
<1>1. one = [s \in 1..Sources |-> one[s]] /\ other = [s \in 1..Sources |-> other[s]]
  BY DEF Snapshot
<1>2. [s \in 1..Sources |-> one[s]] = [s \in 1..Sources |-> other[s]]
  OBVIOUS
<1>. QED  BY <1>1, <1>2

LEMMA IdleWatched == ASSUME NEW now PROVE Watched(Idle, now)
<1>1. Idle \in Job /\ Idle.pc = "idle" /\ Idle.bytes = <<>>
  BY NothingRead DEF Idle, Job
<1>. QED  BY <1>1, NothingRead DEF Watched, Found, Seen, Undisturbed,
             HasApproval, HasSelection, HasBundle, HasSources, HasProvenance, HasChecked

(* The command of a terminal, when somebody else has changed something.    *)
Bothered(j, approvals, trees) ==
  IF j.pc = "idle" THEN j
  ELSE [j EXCEPT !.approvals = @ \cup approvals, !.trees = @ \cup trees, !.alone = FALSE]

(* What others add to what a command has met takes nothing back.           *)
LEMMA BotheredWatched ==
  ASSUME NEW j, NEW now, Watched(j, now),
         NEW approvals \in SUBSET Approval, NEW trees \in SUBSET Tree,
         NEW then, then.legacy \in {now.legacy} \cup trees,
         then.approval \in {now.approval} \cup approvals
  PROVE  Watched(Bothered(j, approvals, trees), then)
<1>1. CASE j.pc = "idle"
  BY <1>1 DEF Bothered, Watched, Seen, Undisturbed
<1>2. CASE j.pc # "idle"
  <2>. DEFINE d == [j EXCEPT !.approvals = @ \cup approvals, !.trees = @ \cup trees,
                             !.alone = FALSE]
  <2>0. Found(j) /\ j \in Job
    BY DEF Watched, Found
  <2>1. /\ d \in Job /\ d.pc = j.pc /\ d.manifest = j.manifest /\ d.approval = j.approval
        /\ d.selected = j.selected /\ d.bundle = j.bundle /\ d.bytes = j.bytes
        /\ d.prov = j.prov /\ d.plugins = j.plugins /\ d.alone = FALSE
        /\ d.approvals = j.approvals \cup approvals /\ d.trees = j.trees \cup trees
    BY <2>0 DEF Job
  <2>. HIDE DEF d
  <2>3. Found(d)
    BY <2>0, <2>1 DEF Found, Met
  <2>2. Seen(d, then) /\ Undisturbed(d, then)
    BY <1>2, <2>1 DEF Watched, Seen, Undisturbed
  <2>. QED  BY <1>2, <2>2, <2>3 DEF Bothered, Watched, d
<1>. QED  BY <1>1, <1>2

LEMMA BotheredForms ==
  ASSUME NEW j \in Job, NEW a, NEW t
  PROVE  j.pc # "idle" =>
           /\ Bothered(j, {}, {}) = [j EXCEPT !.alone = FALSE]
           /\ Bothered(j, {a}, {}) = [[j EXCEPT !.approvals = @ \cup {a}] EXCEPT !.alone = FALSE]
           /\ Bothered(j, {}, {t}) = [[j EXCEPT !.trees = @ \cup {t}] EXCEPT !.alone = FALSE]
BY DEF Bothered, Job

LEMMA Disturbs ==
  ASSUME JobsWatched, NEW p \in Procs PROVE Disturbed(job)[p] = Bothered(job[p], {}, {})
<1>1. job[p] \in Job
  BY DEF JobsWatched
<1>. QED  BY <1>1, BotheredForms DEF Disturbed, Running, Bothered

(* A short command, or an edit: all that was read may be stale.            *)
LEMMA ChangesWatched ==
  ASSUME JobsWatched, Changes, UNCHANGED <<legacy, approval>> PROVE JobsWatched'
<1>1. ASSUME NEW p \in Procs PROVE Watched(job'[p], Now')
  <2>1. job'[p] = Bothered(job[p], {}, {})
    BY Disturbs DEF Changes
  <2>2. Now'.legacy = Now.legacy /\ Now'.approval = Now.approval
    BY DEF Now
  <2>3. Watched(job[p], Now)
    BY DEF JobsWatched
  <2>. QED  BY <2>1, <2>2, <2>3, BotheredWatched
<1>2. job' \in [Procs -> Job]
  <2>1. \A p \in Procs : job'[p] \in Job
    BY <1>1 DEF Watched, Found
  <2>2. job' = [p \in Procs |-> job'[p]]
    BY DEF Changes, Disturbed
  <2>. QED  BY <2>1, <2>2
<1>. QED  BY <1>1, <1>2 DEF JobsWatched

LEMMA ApprovedWatched ==
  ASSUME JobsWatched, NEW a \in Approval, ApproveScope(a) PROVE JobsWatched'
<1>1. ASSUME NEW p \in Procs PROVE Watched(job'[p], Now')
  <2>1. job'[p] = Bothered(job[p], {a}, {})
    <3>1. job[p] \in Job
      BY DEF JobsWatched
    <3>. QED  BY <3>1, BotheredForms DEF ApproveScope, Disturbed, Running, Bothered
  <2>2. Now'.legacy = Now.legacy /\ Now'.approval = a
    BY DEF Now, ApproveScope, world
  <2>3. Watched(job[p], Now)
    BY DEF JobsWatched
  <2>. QED  BY <2>1, <2>2, <2>3, BotheredWatched
<1>2. job' \in [Procs -> Job]
  <2>1. \A p \in Procs : job'[p] \in Job
    BY <1>1 DEF Watched, Found
  <2>2. job' = [p \in Procs |-> job'[p]]
    BY DEF ApproveScope, Disturbed
  <2>. QED  BY <2>1, <2>2
<1>. QED  BY <1>1, <1>2 DEF JobsWatched

LEMMA MovedWatched ==
  ASSUME JobsWatched, NEW tree \in Tree, MoveLegacy(tree) PROVE JobsWatched'
<1>1. ASSUME NEW p \in Procs PROVE Watched(job'[p], Now')
  <2>1. job'[p] = Bothered(job[p], {}, {tree})
    <3>1. job[p] \in Job
      BY DEF JobsWatched
    <3>2. CASE job[p].pc = "idle"
      BY <3>2 DEF MoveLegacy, Disturbed, Running, Bothered
    <3>3. CASE job[p].pc # "idle"
      <4>1. job'[p] = [[job[p] EXCEPT !.trees = @ \cup {tree}] EXCEPT !.alone = FALSE]
        BY <3>3 DEF MoveLegacy, Disturbed, Running
      <4>. QED  BY <3>1, <3>3, <4>1, BotheredForms
    <3>. QED  BY <3>2, <3>3
  <2>2. Now'.legacy = tree /\ Now'.approval = Now.approval
    BY DEF Now, MoveLegacy, files
  <2>3. Watched(job[p], Now)
    BY DEF JobsWatched
  <2>. QED  BY <2>1, <2>2, <2>3, BotheredWatched
<1>2. job' \in [Procs -> Job]
  <2>1. \A p \in Procs : job'[p] \in Job
    BY <1>1 DEF Watched, Found
  <2>2. job' = [p \in Procs |-> job'[p]]
    BY DEF MoveLegacy, Disturbed
  <2>. QED  BY <2>1, <2>2
<1>. QED  BY <1>1, <1>2 DEF JobsWatched

(* A long command that ends by writing disturbs the others.                *)
LEMMA FinishWatched ==
  ASSUME JobsWatched, NEW p \in Procs, Finish(p) PROVE JobsWatched'
<1>1. ASSUME NEW q \in Procs PROVE Watched(job'[q], Now')
  <2>1. CASE q = p
    <3>1. job'[q] = Idle
      BY <2>1 DEF Finish, Disturbed
    <3>. QED  BY <3>1, IdleWatched
  <2>2. CASE q # p
    <3>1. job'[q] = Bothered(job[q], {}, {})
      BY <2>2, Disturbs DEF Finish, Disturbed
    <3>2. Now'.legacy = Now.legacy /\ Now'.approval = Now.approval
      BY DEF Now, Finish, world
    <3>3. Watched(job[q], Now)
      BY DEF JobsWatched
    <3>. QED  BY <3>1, <3>2, <3>3, BotheredWatched
  <2>. QED  BY <2>1, <2>2
<1>2. job' \in [Procs -> Job]
  <2>1. \A q \in Procs : job'[q] \in Job
    BY <1>1 DEF Watched, Found
  <2>2. job' = [q \in Procs |-> job'[q]]
    BY DEF Finish, Disturbed
  <2>. QED  BY <2>1, <2>2
<1>. QED  BY <1>1, <1>2 DEF JobsWatched

(* A step of one command, while nothing changes.                           *)
LEMMA OneWatched ==
  ASSUME JobsWatched, NEW p \in Procs, NEW d, Watched(d, Now),
         job' = [job EXCEPT ![p] = d], UNCHANGED <<files, world>>
  PROVE  JobsWatched'
<1>1. Now' = Now
  BY DEF Now, files, world, Mirrored
<1>2. d \in Job
  BY DEF Watched, Found
<1>. QED  BY <1>1, <1>2 DEF JobsWatched

----------------------------------------------------------------------------
(* The steps of publish and validate --refresh-legacy.                     *)

LEMMA BeginPublishWatched ==
  ASSUME FilesTyped, JobsWatched, NEW p \in Procs, BeginPublish(p) PROVE JobsWatched'
<1>. DEFINE d == [Begun("publish", FALSE) EXCEPT !.manifest = bundle.manifest, !.bundle = bundle]
<1>0. bundle # None /\ bundle \in Bundle /\ bundle.manifest \in Manifest
  BY DEF BeginPublish, FilesTyped, Bundle
<1>1. approval \in Approval \cup {None} /\ legacy \in Tree
  BY WorkflowAssumption DEF FilesTyped, Tree
<1>2. /\ d \in Job /\ d.pc = "approve" /\ d.kind = "publish" /\ d.manifest = bundle.manifest
      /\ d.bundle = bundle /\ d.approvals = {approval} \ {None} /\ d.trees = {legacy}
      /\ d.bytes = <<>>
  BY <1>0, <1>1, NothingRead DEF Begun, Idle, Job
<1>3. job' = [job EXCEPT ![p] = d] /\ UNCHANGED <<files, world>>
  BY DEF BeginPublish, Begin
<1>. HIDE DEF d
<1>4. Found(d)
  BY <1>0, <1>2, NothingRead DEF Found,
             HasApproval, HasSelection, HasBundle, HasSources, HasProvenance, HasChecked
<1>5. Seen(d, Now) /\ Undisturbed(d, Now)
  BY <1>0, <1>2 DEF Seen, Undisturbed, Now,
             HasApproval, HasSelection, HasBundle, HasSources, HasProvenance, HasChecked
<1>. QED  BY <1>3, <1>4, <1>5, OneWatched DEF Watched

LEMMA BeginRefreshWatched ==
  ASSUME FilesTyped, JobsWatched, NEW p \in Procs, NEW strict \in BOOLEAN,
         BeginRefresh(p, strict)
  PROVE  JobsWatched'
<1>. DEFINE d == [Begun("refresh", strict) EXCEPT !.manifest = public.manifest]
<1>0. public # None /\ public.manifest \in Manifest
  BY DEF BeginRefresh, FilesTyped, Public
<1>1. approval \in Approval \cup {None} /\ legacy \in Tree
  BY WorkflowAssumption DEF FilesTyped, Tree
<1>2. /\ d \in Job /\ d.pc = "approve" /\ d.kind = "refresh" /\ d.manifest = public.manifest
      /\ d.approvals = {approval} \ {None} /\ d.trees = {legacy} /\ d.bytes = <<>>
  BY <1>0, <1>1, NothingRead DEF Begun, Idle, Job
<1>3. job' = [job EXCEPT ![p] = d] /\ UNCHANGED <<files, world>>
  BY DEF BeginRefresh, Begin
<1>. HIDE DEF d
<1>4. Found(d)
  BY <1>0, <1>2, NothingRead DEF Found,
             HasApproval, HasSelection, HasBundle, HasSources, HasProvenance, HasChecked
<1>5. Seen(d, Now) /\ Undisturbed(d, Now)
  BY <1>0, <1>2 DEF Seen, Undisturbed, Now,
             HasApproval, HasSelection, HasBundle, HasSources, HasProvenance, HasChecked
<1>. QED  BY <1>3, <1>4, <1>5, OneWatched DEF Watched

(* A check: the command goes on, or it ends.                               *)
LEMMA ProceedWatched ==
  ASSUME JobsWatched, NEW p \in Procs, NEW passes, NEW d, passes => Watched(d, Now),
         Proceed(p, passes, d)
  PROVE  JobsWatched'
<1>1. Watched(IF passes THEN d ELSE Idle, Now)
  BY IdleWatched
<1>. QED  BY <1>1, OneWatched DEF Proceed, Go

LEMMA ReadApprovalWatched ==
  ASSUME FilesTyped, JobsWatched, NEW p \in Procs, ReadApproval(p) PROVE JobsWatched'
<1>. DEFINE j == job[p]
            d == [j EXCEPT !.pc = "select", !.approval = approval]
<1>1. j \in Job /\ j.pc = "approve" /\ Watched(j, Now)
  BY DEF JobsWatched, ReadApproval, At
<1>2. ASSUME approval # None PROVE Watched(d, Now)
  <2>0. approval \in j.approvals
    BY <1>1, <1>2 DEF Watched, Seen, Now
  <2>1. /\ d \in Job /\ d.pc = "select" /\ d.approval = approval /\ d.bytes = j.bytes
        /\ d.kind = j.kind /\ d.manifest = j.manifest /\ d.bundle = j.bundle
        /\ d.approvals = j.approvals /\ d.trees = j.trees /\ d.alone = j.alone
    BY <1>1 DEF Job, FilesTyped
  <2>. HIDE DEF d, j
  <2>2. Found(d)
    BY <1>1, <1>2, <2>0, <2>1 DEF Watched, Found,
             HasApproval, HasSelection, HasBundle, HasSources, HasProvenance, HasChecked
  <2>3. Seen(d, Now)
    BY <1>1, <2>1 DEF Watched, Seen
  <2>4. Undisturbed(d, Now)
    BY <1>1, <2>1 DEF Watched, Undisturbed, Now,
             HasApproval, HasSelection, HasBundle, HasSources, HasProvenance, HasChecked
  <2>. QED  BY <2>2, <2>3, <2>4 DEF Watched
<1>. QED  BY <1>2, ProceedWatched DEF ReadApproval

LEMMA ReadSelectionWatched ==
  ASSUME FilesTyped, JobsWatched, NEW p \in Procs, ReadSelection(p) PROVE JobsWatched'
<1>. DEFINE j == job[p]
            d == [j EXCEPT !.pc = "reload", !.selected = selection]
<1>1. j \in Job /\ j.pc = "select" /\ Watched(j, Now)
  BY DEF JobsWatched, ReadSelection, At
<1>2. ASSUME Matches(j.approval, j.manifest, selection) PROVE Watched(d, Now)
  <2>1. /\ d \in Job /\ d.pc = "reload" /\ d.approval = j.approval /\ d.selected = selection
        /\ d.kind = j.kind /\ d.manifest = j.manifest /\ d.bundle = j.bundle
        /\ d.bytes = j.bytes
        /\ d.approvals = j.approvals /\ d.trees = j.trees /\ d.alone = j.alone
    BY <1>1 DEF Job, FilesTyped
  <2>. HIDE DEF d, j
  <2>2. Found(d)
    BY <1>1, <1>2, <2>1 DEF Watched, Found,
             HasApproval, HasSelection, HasBundle, HasSources, HasProvenance, HasChecked
  <2>3. Seen(d, Now)
    BY <1>1, <2>1 DEF Watched, Seen
  <2>4. Undisturbed(d, Now)
    BY <1>1, <2>1 DEF Watched, Undisturbed, Now,
             HasApproval, HasSelection, HasBundle, HasSources, HasProvenance, HasChecked
  <2>. QED  BY <2>2, <2>3, <2>4 DEF Watched
<1>. QED  BY <1>2, ProceedWatched DEF ReadSelection

LEMMA ReadBundleWatched ==
  ASSUME FilesTyped, JobsWatched, NEW p \in Procs, ReadBundle(p) PROVE JobsWatched'
<1>. DEFINE j == job[p]
            d == [j EXCEPT !.pc = "snapshot", !.bundle = bundle]
<1>1. j \in Job /\ j.pc = "reload" /\ Watched(j, Now)
  BY DEF JobsWatched, ReadBundle, At
<1>2. ASSUME bundle # None PROVE Watched(d, Now)
  <2>0. bundle \in Bundle
    BY <1>2 DEF FilesTyped
  <2>1. /\ d \in Job /\ d.pc = "snapshot" /\ d.approval = j.approval /\ d.selected = j.selected
        /\ d.bytes = j.bytes
        /\ d.kind = j.kind /\ d.manifest = j.manifest /\ d.bundle = bundle
        /\ d.approvals = j.approvals /\ d.trees = j.trees /\ d.alone = j.alone
        /\ d.plugins = j.plugins
    BY <1>1, <2>0 DEF Job
  <2>. HIDE DEF d, j
  <2>2. Found(d)
    BY <1>1, <2>0, <2>1 DEF Watched, Found,
             HasApproval, HasSelection, HasBundle, HasSources, HasProvenance, HasChecked
  <2>3. Seen(d, Now)
    BY <1>1, <2>1 DEF Watched, Seen
  <2>4. Undisturbed(d, Now)
    BY <1>1, <1>2, <2>1
       DEF Watched, Undisturbed, Now,
             HasApproval, HasSelection, HasBundle, HasSources, HasProvenance, HasChecked
  <2>. QED  BY <2>2, <2>3, <2>4 DEF Watched
<1>. QED  BY <1>2, ProceedWatched DEF ReadBundle

(* One more source, as it is now in the tree.                              *)
LEMMA ReadSourceWatched ==
  ASSUME FilesTyped, JobsWatched, NEW p \in Procs, ReadSource(p) PROVE JobsWatched'
<1>. DEFINE j == job[p]
            next == legacy.bytes[Len(j.bytes) + 1]
            read == Append(j.bytes, next)
            d == [j EXCEPT !.bytes = read]
<1>1. /\ j \in Job /\ j.pc = "snapshot" /\ Watched(j, Now) /\ Len(j.bytes) < Sources
      /\ job' = [job EXCEPT ![p] = d] /\ UNCHANGED <<files, world>>
  BY DEF JobsWatched, ReadSource, At, Go
<1>2. j.bytes \in Seq(Versions) /\ legacy \in Tree /\ legacy \in j.trees
  BY <1>1, WorkflowAssumption DEF Job, FilesTyped, Watched, Seen, Now
<1>3. next \in Versions
  <2>1. Len(j.bytes) + 1 \in 1..Sources
    BY <1>1, <1>2, WorkflowAssumption
  <2>. QED  BY <1>2, <2>1 DEF Tree, Snapshot
<1>4. /\ read \in Seq(Versions) /\ Len(read) = Len(j.bytes) + 1
      /\ \A s \in 1..Len(j.bytes) : read[s] = j.bytes[s]
      /\ read[Len(j.bytes) + 1] = next
  <2>. HIDE DEF next
  <2>. QED  BY <1>2, <1>3
<1>5. \A s \in 1..Len(read) : s \in 1..Len(j.bytes) \/ s = Len(j.bytes) + 1
  BY <1>2, <1>4
<1>6. /\ d \in Job /\ d.pc = "snapshot" /\ d.approval = j.approval /\ d.selected = j.selected
      /\ d.bytes = read /\ d.kind = j.kind /\ d.manifest = j.manifest /\ d.bundle = j.bundle
      /\ d.approvals = j.approvals /\ d.trees = j.trees /\ d.alone = j.alone
  BY <1>1, <1>4 DEF Job
<1>7. Met(read, j.trees)
  <2>1. Met(j.bytes, j.trees)
    BY <1>1 DEF Watched, Found
  <2>2. \E then \in j.trees : then.bytes[Len(j.bytes) + 1] = next
    BY <1>2
  <2>. HIDE DEF next, read
  <2>. QED  BY <1>4, <1>5, <2>1, <2>2 DEF Met
<1>8. Undisturbed(d, Now)
  <2>1. ASSUME j.alone, NEW s \in 1..Len(read) PROVE legacy.bytes[s] = read[s]
    <3>1. \A r \in 1..Len(j.bytes) : legacy.bytes[r] = j.bytes[r]
      BY <1>1, <2>1 DEF Watched, Undisturbed, Now
    <3>2. legacy.bytes[Len(j.bytes) + 1] = next
      OBVIOUS
    <3>. HIDE DEF next, read
    <3>. QED  BY <1>4, <1>5, <2>1, <3>1, <3>2
  <2>. HIDE DEF d, j, read, next
  <2>. QED  BY <1>1, <1>6, <2>1 DEF Watched, Undisturbed, Now,
             HasApproval, HasSelection, HasBundle, HasSources, HasProvenance, HasChecked
<1>9. Found(d) /\ Seen(d, Now)
  <2>. HIDE DEF d, j, read, next
  <2>1. Len(read) <= Sources
    BY <1>1, <1>2, <1>4, WorkflowAssumption
  <2>. QED  BY <1>1, <1>6, <1>7, <2>1 DEF Watched, Found, Seen,
             HasApproval, HasSelection, HasBundle, HasSources, HasProvenance, HasChecked
<1>. HIDE DEF d
<1>. QED  BY <1>1, <1>8, <1>9, OneWatched DEF Watched

LEMMA CheckConstructsWatched ==
  ASSUME FilesTyped, JobsWatched, NEW p \in Procs, CheckConstructs(p) PROVE JobsWatched'
<1>. DEFINE j == job[p]
            d == [j EXCEPT !.pc = "provenance"]
            passes == /\ Extracted(j.bundle, j.bytes)
                      /\ j.kind = "refresh" => Undecided(j.selected) = {}
<1>1. j \in Job /\ j.pc = "snapshot" /\ Watched(j, Now) /\ Len(j.bytes) = Sources
      /\ Proceed(p, passes, d)
  BY DEF JobsWatched, CheckConstructs, At
<1>2. j.bytes \in Snapshot /\ legacy.bytes \in Snapshot
  BY <1>1, WorkflowAssumption DEF Job, FilesTyped, Tree, Snapshot
<1>3. ASSUME passes PROVE Watched(d, Now)
  <2>1. /\ d \in Job /\ d.pc = "provenance" /\ d.approval = j.approval
        /\ d.selected = j.selected /\ d.bytes = j.bytes
        /\ d.kind = j.kind /\ d.manifest = j.manifest /\ d.bundle = j.bundle
        /\ d.approvals = j.approvals /\ d.trees = j.trees /\ d.alone = j.alone
    BY <1>1 DEF Job
  <2>5. Extracted(j.bundle, j.bytes)
    BY <1>3
  <2>6. j.alone => legacy.bytes = j.bytes
    <3>1. j.alone => \A s \in 1..Sources : legacy.bytes[s] = j.bytes[s]
      BY <1>1 DEF Watched, Undisturbed, Now
    <3>. QED  BY <1>2, <3>1, SameSources
  <2>. HIDE DEF d, j
  <2>2. Found(d)
    BY <1>1, <1>2, <2>1, <2>5 DEF Watched, Found,
             HasApproval, HasSelection, HasBundle, HasSources, HasProvenance, HasChecked
  <2>3. Seen(d, Now)
    BY <1>1, <2>1 DEF Watched, Seen
  <2>4. Undisturbed(d, Now)
    BY <1>1, <2>1, <2>6 DEF Watched, Undisturbed, Now,
             HasApproval, HasSelection, HasBundle, HasSources, HasProvenance, HasChecked
  <2>. QED  BY <2>2, <2>3, <2>4 DEF Watched
<1>. HIDE DEF d, passes
<1>. QED  BY <1>1, <1>3, ProceedWatched

LEMMA ReadProvenanceWatched ==
  ASSUME FilesTyped, JobsWatched, NEW p \in Procs, ReadProvenance(p) PROVE JobsWatched'
<1>. DEFINE j == job[p]
            fresh == Refreshed(j.bundle, j.bytes)
            r == [j EXCEPT !.pc = "check", !.prov = fresh, !.bundle.prov = fresh]
            d == [j EXCEPT !.pc = "check", !.prov = provenance]
<1>1. j \in Job /\ j.pc = "provenance" /\ Watched(j, Now) /\ j.bundle \in Bundle
      /\ j.bytes \in Snapshot
  BY DEF JobsWatched, ReadProvenance, At, Watched, Found,
             HasApproval, HasSelection, HasBundle, HasSources, HasProvenance, HasChecked
<1>2. ASSUME j.kind = "refresh" PROVE Watched(r, Now)
  <2>0. fresh \in Provenance
    BY <1>1, WorkflowAssumption DEF Refreshed, Provenance, Bundle, Manifest, Tree, FilesTyped
  <2>. HIDE DEF fresh
  <2>1. /\ r \in Job /\ r.pc = "check" /\ r.approval = j.approval
        /\ r.selected = j.selected /\ r.bytes = j.bytes /\ r.prov = fresh
        /\ r.kind = j.kind /\ r.manifest = j.manifest
        /\ r.approvals = j.approvals /\ r.trees = j.trees /\ r.alone = j.alone
        /\ r.bundle = [j.bundle EXCEPT !.prov = fresh]
    <3>1. [j.bundle EXCEPT !.prov = fresh] \in Bundle
      BY <1>1, <2>0 DEF Bundle
    <3>. QED  BY <1>1, <2>0, <3>1 DEF Job
  <2>5. r.bundle \in Bundle /\ r.bundle.manifest = j.bundle.manifest
    BY <1>1, <2>0, <2>1 DEF Bundle
  <2>. HIDE DEF r, j
  <2>2. Found(r)
    BY <1>1, <2>0, <2>1, <2>5
       DEF Watched, Found, Extracted,
             HasApproval, HasSelection, HasBundle, HasSources, HasProvenance, HasChecked
  <2>3. Seen(r, Now)
    BY <1>1, <2>1 DEF Watched, Seen
  <2>4. Undisturbed(r, Now)
    BY <1>1, <1>2, <2>1 DEF Watched, Undisturbed,
             HasApproval, HasSelection, HasBundle, HasSources, HasProvenance, HasChecked
  <2>. QED  BY <2>2, <2>3, <2>4 DEF Watched
<1>3. ASSUME j.kind = "publish", provenance # None PROVE Watched(d, Now)
  <2>0. provenance \in Provenance
    BY <1>3 DEF FilesTyped
  <2>1. /\ d \in Job /\ d.pc = "check" /\ d.approval = j.approval
        /\ d.selected = j.selected /\ d.bytes = j.bytes /\ d.prov = provenance
        /\ d.kind = j.kind /\ d.manifest = j.manifest /\ d.bundle = j.bundle
        /\ d.approvals = j.approvals /\ d.trees = j.trees /\ d.alone = j.alone
        /\ d.plugins = j.plugins
    BY <1>1, <2>0 DEF Job
  <2>. HIDE DEF d, j
  <2>2. Found(d)
    BY <1>1, <2>0, <2>1 DEF Watched, Found,
             HasApproval, HasSelection, HasBundle, HasSources, HasProvenance, HasChecked
  <2>3. Seen(d, Now)
    BY <1>1, <2>1 DEF Watched, Seen
  <2>4. Undisturbed(d, Now)
    BY <1>1, <1>3, <2>1 DEF Watched, Undisturbed, Now,
             HasApproval, HasSelection, HasBundle, HasSources, HasProvenance, HasChecked
  <2>. QED  BY <2>2, <2>3, <2>4 DEF Watched
<1>4. CASE j.kind = "refresh" /\ Go(p, r)
  BY <1>2, <1>4, OneWatched DEF Go
<1>5. CASE j.kind = "publish" /\ Proceed(p, provenance # None, d)
  BY <1>3, <1>5, ProceedWatched
<1>. QED  BY <1>4, <1>5 DEF ReadProvenance

LEMMA CheckWatched ==
  ASSUME FilesTyped, JobsWatched, NEW p \in Procs, Check(p) PROVE JobsWatched'
<1>. DEFINE j == job[p]
            d == [j EXCEPT !.pc = "plugins"]
            valid == Valid(j.bundle, j.manifest, j.approval, j.selected, j.prov)
<1>1. j \in Job /\ j.pc = "check" /\ Watched(j, Now)
  BY DEF JobsWatched, Check, At
<1>2. ASSUME valid, j.prov.tree = [commit |-> legacy.commit, bytes |-> j.bytes]
      PROVE  Watched(d, Now)
  <2>0. legacy \in Tree /\ legacy \in j.trees /\ j.prov \in Provenance
    BY <1>1, WorkflowAssumption
       DEF FilesTyped, Watched, Found, Seen, Now, Tree,
             HasApproval, HasSelection, HasBundle, HasSources, HasProvenance, HasChecked
  <2>1. /\ d \in Job /\ d.pc = "plugins" /\ d.approval = j.approval
        /\ d.selected = j.selected /\ d.bytes = j.bytes /\ d.prov = j.prov
        /\ d.kind = j.kind /\ d.manifest = j.manifest /\ d.bundle = j.bundle
        /\ d.approvals = j.approvals /\ d.trees = j.trees /\ d.alone = j.alone
        /\ d.plugins = j.plugins
    BY <1>1 DEF Job
  <2>5. j.prov.tree.bytes = j.bytes /\ j.prov.tree.commit = legacy.commit
    BY <1>2
  <2>6. legacy.bytes = j.bytes => legacy = j.prov.tree
    BY <1>2, <2>0 DEF Tree
  <2>. HIDE DEF d, j
  <2>2. Found(d)
    BY <1>1, <1>2, <2>0, <2>1, <2>5
       DEF Watched, Found,
             HasApproval, HasSelection, HasBundle, HasSources, HasProvenance, HasChecked
  <2>3. Seen(d, Now)
    BY <1>1, <2>1 DEF Watched, Seen
  <2>4. Undisturbed(d, Now)
    BY <1>1, <2>1, <2>6 DEF Watched, Undisturbed, Now,
             HasApproval, HasSelection, HasBundle, HasSources, HasProvenance, HasChecked
  <2>. QED  BY <2>2, <2>3, <2>4 DEF Watched
<1>. QED  BY <1>2, ProceedWatched DEF Check

LEMMA ReadPluginsWatched ==
  ASSUME FilesTyped, JobsWatched, NEW p \in Procs, ReadPlugins(p) PROVE JobsWatched'
<1>. DEFINE j == job[p]
            d == [j EXCEPT !.pc = "mirror", !.plugins = plugins.version]
<1>1. /\ j \in Job /\ j.pc = "plugins" /\ Watched(j, Now)
      /\ job' = [job EXCEPT ![p] = d] /\ UNCHANGED <<files, world>>
  BY DEF JobsWatched, ReadPlugins, At, Go
<1>2. /\ d \in Job /\ d.pc = "mirror" /\ d.approval = j.approval
      /\ d.selected = j.selected /\ d.bytes = j.bytes /\ d.prov = j.prov
      /\ d.kind = j.kind /\ d.manifest = j.manifest /\ d.bundle = j.bundle
      /\ d.approvals = j.approvals /\ d.trees = j.trees /\ d.alone = j.alone
      /\ d.plugins = plugins.version
  BY <1>1 DEF Job, FilesTyped
<1>. HIDE DEF d, j
<1>3. Found(d)
  BY <1>1, <1>2 DEF Watched, Found,
             HasApproval, HasSelection, HasBundle, HasSources, HasProvenance, HasChecked
<1>4. Seen(d, Now)
  BY <1>1, <1>2 DEF Watched, Seen
<1>5. Undisturbed(d, Now)
  BY <1>1, <1>2 DEF Watched, Undisturbed, Now,
             HasApproval, HasSelection, HasBundle, HasSources, HasProvenance, HasChecked
<1>. QED  BY <1>1, <1>3, <1>4, <1>5, OneWatched DEF Watched

LEMMA CompareMirrorWatched ==
  ASSUME FilesTyped, JobsWatched, NEW p \in Procs, CompareMirror(p) PROVE JobsWatched'
<1>. DEFINE j == job[p]
            d == [j EXCEPT !.pc = "write"]
<1>1. j \in Job /\ j.pc = "mirror" /\ Watched(j, Now)
  BY DEF JobsWatched, CompareMirror, At
<1>2. ASSUME j.plugins = plugins.mirror, Linked(j.manifest) PROVE Watched(d, Now)
  <2>1. /\ d \in Job /\ d.pc = "write" /\ d.approval = j.approval
        /\ d.selected = j.selected /\ d.bytes = j.bytes /\ d.prov = j.prov
        /\ d.kind = j.kind /\ d.manifest = j.manifest /\ d.bundle = j.bundle
        /\ d.approvals = j.approvals /\ d.trees = j.trees /\ d.alone = j.alone
    BY <1>1 DEF Job
  <2>5. j.alone => Mirrored
    BY <1>1, <1>2 DEF Watched, Undisturbed, Now, Mirrored
  <2>. HIDE DEF d, j
  <2>2. Found(d)
    BY <1>1, <1>2, <2>1 DEF Watched, Found,
             HasApproval, HasSelection, HasBundle, HasSources, HasProvenance, HasChecked
  <2>3. Seen(d, Now)
    BY <1>1, <2>1 DEF Watched, Seen
  <2>4. Undisturbed(d, Now)
    BY <1>1, <2>1, <2>5 DEF Watched, Undisturbed, Now,
             HasApproval, HasSelection, HasBundle, HasSources, HasProvenance, HasChecked
  <2>. QED  BY <2>2, <2>3, <2>4 DEF Watched
<1>3. PICK passed \in BOOLEAN :
        Proceed(p, j.plugins = plugins.mirror /\ Linked(j.manifest) /\ passed, d)
  BY DEF CompareMirror
<1>. QED  BY <1>2, <1>3, ProceedWatched

----------------------------------------------------------------------------
(* What is written.                                                        *)

(* Before a command writes, it has all of this.                            *)
LEMMA Ready ==
  ASSUME JobsWatched, NEW p \in Procs, job[p].pc = "write"
  PROVE  LET j == job[p]
         IN /\ j \in Job /\ Watched(j, Now) /\ j.manifest \in Manifest /\ j.bundle \in Bundle
            /\ j.prov \in Provenance /\ j.approval \in j.approvals
            /\ Matches(j.approval, j.manifest, j.selected)
            /\ Valid(j.bundle, j.manifest, j.approval, j.selected, j.prov)
            /\ Extracted(j.bundle, j.bytes) /\ j.prov.tree.bytes = j.bytes
            /\ Linked(j.manifest)
            /\ j.bytes \in Snapshot /\ Met(j.bytes, j.trees)
            /\ \E then \in j.trees : then.commit = j.prov.tree.commit
BY DEF JobsWatched, Watched, Found,
             HasApproval, HasSelection, HasBundle, HasSources, HasProvenance, HasChecked

LEMMA PublishGood ==
  ASSUME JobsWatched, NEW p \in Procs, Publish(p) PROVE PublicGood'
<1>. DEFINE j == job[p]
<1>1. j.pc = "write" /\ j.kind = "publish"
  BY DEF Publish, At
<1>2. /\ public'.manifest = j.manifest /\ public'.prov = j.prov
      /\ public'.approvals = j.approvals /\ public'.trees = j.trees
  BY DEF Publish
<1>3. PublishedAsSeen'
  <2>1. j.approval \in Approval /\ Covers(j.approval, j.manifest)
    BY <1>1, Ready DEF Job, Matches
  <2>2. [rev |-> j.manifest.rev, scope |-> j.manifest.scope] = j.approval
    BY <2>1 DEF Covers, Approval
  <2>3. /\ j.approval \in j.approvals
        /\ \E then \in j.trees : then.commit = j.prov.tree.commit
        /\ \A s \in 1..Sources :
             \E then \in j.trees : then.bytes[s] = j.prov.tree.bytes[s]
    BY <1>1, Ready, WorkflowAssumption DEF Met, Snapshot
  <2>. QED  BY <1>2, <2>2, <2>3 DEF PublishedAsSeen
<1>4. PublishedIsEvidenced'
  <2>1. j.manifest.audit \in Audit
    BY <1>1, Ready, WorkflowAssumption DEF Manifest
  <2>2. Sound(j.manifest.audit, j.manifest.linked) /\ Linked(j.manifest)
    BY <1>1, Ready DEF Valid, Audited
  <2>. HIDE DEF j
  <2>3. Aggregate(j.manifest.audit) = "parity" =>
          \A f \in j.manifest.audit.features :
            \/ f.status = "waived" /\ f.waiver
            \/ f.outcome = "pass" /\ (f.local => f.private = "pass")
    BY <2>1, <2>2, SoundIsEvidenced
  <2>. QED  BY <1>2, <2>2, <2>3 DEF PublishedIsEvidenced
<1>. QED  BY <1>3, <1>4 DEF PublicGood

LEMMA PublicStays == ASSUME PublicGood, public' = public PROVE PublicGood'
BY DEF PublicGood, PublishedAsSeen, PublishedIsEvidenced

(* A publish that was alone leaves what full-private validation accepts    *)
(* (publish_bundle beside _validate_private).                              *)
LEMMA PublishSettles ==
  ASSUME FilesTyped, JobsWatched, NEW p \in Procs, Publish(p), job[p].alone PROVE Passes'
<1>. DEFINE j == job[p]
<1>1. j.pc = "write" /\ j.kind = "publish"
  BY DEF Publish, At
<1>2. /\ public'.manifest = j.manifest /\ public' \in Public /\ provenance' = provenance
      /\ bundle' = bundle /\ approval' = approval /\ selection' = selection
      /\ legacy' = legacy /\ plugins' = plugins
  BY <1>1, Ready DEF Publish, Finish, world, Public, Job
<1>3. /\ bundle = j.bundle /\ approval = j.approval /\ selection = j.selected
      /\ legacy.bytes = j.bytes /\ provenance = j.prov /\ legacy = j.prov.tree /\ Mirrored
  BY <1>1, Ready DEF Watched, Undisturbed, Now,
             HasApproval, HasSelection, HasBundle, HasSources, HasProvenance, HasChecked
<1>4. /\ Matches(j.approval, j.manifest, j.selected)
      /\ Valid(j.bundle, j.manifest, j.approval, j.selected, j.prov)
      /\ Extracted(j.bundle, j.bytes) /\ j.bundle \in Bundle /\ j.prov \in Provenance
  BY <1>1, Ready
<1>5. {public', approval', bundle', provenance'} \cap {None} = {}
  BY <1>2, <1>3, <1>4, NoneApart DEF Matches
<1>6. Mirrored'
  BY <1>2, <1>3 DEF Mirrored
<1>. QED  BY <1>2, <1>3, <1>4, <1>5, <1>6 DEF Passes

(* And so does a refresh, which writes the provenance that it has checked  *)
(* with the bundle (validate_artifacts).                                   *)
LEMMA RefreshSettles ==
  ASSUME FilesTyped, JobsWatched, NEW p \in Procs, Refresh(p), job[p].alone PROVE Passes'
<1>. DEFINE j == job[p]
<1>1. j.pc = "write" /\ j.kind = "refresh"
  BY DEF Refresh, At
<1>2. /\ public' = public /\ provenance' = j.prov
      /\ bundle' = j.bundle /\ approval' = approval /\ selection' = selection
      /\ legacy' = legacy /\ plugins' = plugins
  BY DEF Refresh, Finish, world
<1>3. /\ public # None /\ public.manifest = j.manifest
      /\ approval = j.approval /\ selection = j.selected
      /\ legacy.bytes = j.bytes /\ legacy = j.prov.tree /\ Mirrored
  BY <1>1, Ready DEF Watched, Undisturbed, Now,
             HasApproval, HasSelection, HasBundle, HasSources, HasProvenance, HasChecked
<1>4. /\ Matches(j.approval, j.manifest, j.selected)
      /\ Valid(j.bundle, j.manifest, j.approval, j.selected, j.prov)
      /\ Extracted(j.bundle, j.bytes) /\ j.bundle \in Bundle /\ j.prov \in Provenance
  BY <1>1, Ready
<1>5. {public', approval', bundle', provenance'} \cap {None} = {}
  BY <1>2, <1>3, <1>4, NoneApart DEF Matches
<1>6. Mirrored'
  BY <1>2, <1>3 DEF Mirrored
<1>. QED  BY <1>2, <1>3, <1>4, <1>5, <1>6 DEF Passes

LEMMA PassesStays == ASSUME Passes, UNCHANGED <<files, world>> PROVE Passes'
BY DEF Passes, files, world, Mirrored

----------------------------------------------------------------------------
(* The invariant.                                                          *)

LEMMA Bounds ==
  MaxRevision \in Nat /\ MaxCommands \in Nat /\ MaxLong \in Nat /\ MaxMoves \in Nat
BY WorkflowAssumption

LEMMA InitInv == Init => Inv
<1>. SUFFICES ASSUME Init PROVE Inv
  OBVIOUS
<1>1. FilesTyped /\ Counted
  <2>1. selection \in Selection /\ plugins \in [version : {0, 1}, mirror : {0, 1}]
    BY DEF Init, Selection, Scope
  <2>2. legacy \in Trees
    BY WorkflowAssumption DEF Init
  <2>3. Counted
    BY Bounds DEF Init, Counted
  <2>. QED  BY <2>1, <2>2, <2>3 DEF Init, FilesTyped
<1>2. JobsWatched
  <2>1. Idle \in Job
    BY NothingRead DEF Idle, Job
  <2>. QED  BY <2>1, IdleWatched DEF Init, JobsWatched
<1>3. PublicGood /\ SettledValidates
  BY DEF Init, PublicGood, PublishedAsSeen, PublishedIsEvidenced, SettledValidates
<1>. QED  BY <1>1, <1>2, <1>3 DEF Inv

(* The scope is proposed with a revision within the bound.                 *)
LEMMA ProposalTyped ==
  ASSUME FilesTyped, ProposeScope PROVE proposals' \subseteq Approval
<1>. DEFINE rev == IF approval = None THEN 1 ELSE approval.rev + 1
<1>1. rev \in 1..MaxRevision
  BY WorkflowAssumption DEF ProposeScope, FilesTyped, Approval
<1>2. selection.included \in Scope
  BY DEF FilesTyped, Selection
<1>3. proposals' = proposals \cup {[rev |-> rev, scope |-> selection.included]}
  BY DEF ProposeScope
<1>. HIDE DEF rev
<1>4. [rev |-> rev, scope |-> selection.included] \in Approval
  BY <1>1, <1>2 DEF Approval
<1>. QED  BY <1>3, <1>4 DEF FilesTyped

LEMMA CommandTyped ==
  ASSUME FilesTyped, Command PROVE FilesTyped'
<1>0. Trees \subseteq Tree /\ legacy \in Trees
  BY WorkflowAssumption DEF Tree, FilesTyped
<1>1. ASSUME NEW t \in Targets, Include(t) \/ Omit(t) PROVE FilesTyped'
  <2>1. selection' \in Selection
    BY <1>1 DEF Include, Omit, FilesTyped, Selection, Scope
  <2>. QED  BY <1>1, <2>1 DEF Include, Omit, FilesTyped, Changes, world
<1>2. ASSUME NEW complete \in BOOLEAN,
             StagePreliminary([version |-> plugins.version, mapped |-> selection.included,
                               complete |-> complete])
      PROVE  FilesTyped'
  <2>1. preliminary' \in Preliminary
    BY <1>2 DEF StagePreliminary, FilesTyped, Selection, Preliminary
  <2>. QED  BY <1>2, <2>1 DEF StagePreliminary, FilesTyped, Changes, world
<1>3. CASE ProposeScope
  BY <1>3, ProposalTyped DEF ProposeScope, FilesTyped, Changes, world
<1>4. ASSUME NEW a \in proposals, ApproveScope(a) PROVE FilesTyped'
  BY <1>4 DEF ApproveScope, FilesTyped, world
<1>5. ASSUME NEW a \in proposals, NEW audit \in Audits, WriteProvenance(a, audit)
      PROVE  FilesTyped'
  <2>1. a \in Approval
    BY DEF FilesTyped
  <2>2. provenance' \in Provenance
    BY <1>0, <1>5, <2>1 DEF WriteProvenance, Provenance, Approval
  <2>. QED  BY <1>5, <2>2 DEF WriteProvenance, FilesTyped, Changes, world
<1>6. ASSUME NEW a \in proposals, NEW linked \in BOOLEAN,
             NEW hashes \in {"provisional", "final"}, StageAudit(a, linked, hashes)
      PROVE  FilesTyped'
  <2>1. a \in Approval /\ provenance \in Provenance
    BY <1>6 DEF FilesTyped, StageAudit
  <2>2. bundle' \in Bundle
    BY <1>6, <2>1 DEF StageAudit, Bundle, Manifest, Provenance, Approval
  <2>. QED  BY <1>6, <2>2 DEF StageAudit, FilesTyped, Changes, world
<1>7. CASE LinkIssues
  <2>1. bundle \in Bundle /\ bundle' = [bundle EXCEPT !.manifest.linked = TRUE]
    BY <1>7 DEF LinkIssues, FilesTyped
  <2>2. bundle' \in Bundle
    BY <2>1 DEF Bundle, Manifest
  <2>. QED  BY <1>7, <2>2 DEF LinkIssues, FilesTyped, Changes, world
<1>. QED  BY <1>1, <1>2, <1>3, <1>4, <1>5, <1>6, <1>7 DEF Command

(* A short command unsettles, and leaves what is published.                *)
LEMMA CommandInv ==
  ASSUME Inv, Command PROVE Inv'
<1>1. FilesTyped'
  BY CommandTyped DEF Inv
<1>2. Counted'
  <2>1. Given
    BY DEF Command, Include, Omit, StagePreliminary, ProposeScope, ApproveScope,
           WriteProvenance, StageAudit, LinkIssues
  <2>. QED  BY <2>1, Bounds DEF Inv, Counted, Given
<1>3. public' = public /\ settled' = FALSE
  BY DEF Command, Include, Omit, StagePreliminary, ProposeScope, ApproveScope,
         WriteProvenance, StageAudit, LinkIssues, Changes
<1>4. JobsWatched'
  <2>1. ASSUME NEW a \in proposals, ApproveScope(a) PROVE JobsWatched'
    BY <2>1, ApprovedWatched DEF Inv, FilesTyped
  <2>2. CASE Changes /\ UNCHANGED <<legacy, approval>>
    BY <2>2, ChangesWatched DEF Inv
  <2>. QED  BY <2>1, <2>2
            DEF Command, Include, Omit, StagePreliminary, ProposeScope, WriteProvenance,
                StageAudit, LinkIssues, world
<1>. QED  BY <1>1, <1>2, <1>3, <1>4, PublicStays DEF Inv, SettledValidates

(* A step of a long command that writes nothing.                           *)
LEMMA QuietInv ==
  ASSUME Inv, JobsWatched', UNCHANGED <<files, world, settled, commands, moves>>,
         longs' = longs \/ (longs < MaxLong /\ longs' = longs + 1)
  PROVE  Inv'
<1>1. FilesTyped' /\ public' = public
  BY DEF Inv, FilesTyped, files, world
<1>2. Counted'
  BY Bounds DEF Inv, Counted
<1>3. SettledValidates'
  BY PassesStays DEF Inv, SettledValidates
<1>. QED  BY <1>1, <1>2, <1>3, PublicStays DEF Inv

LEMMA LongInv ==
  ASSUME Inv, NEW p \in Procs, LongCommand(p) PROVE Inv'
<1>0. FilesTyped /\ JobsWatched
  BY DEF Inv
<1>1. CASE BeginPublish(p) \/ \E strict \in BOOLEAN : BeginRefresh(p, strict)
  <2>1. JobsWatched'
    BY <1>0, <1>1, BeginPublishWatched, BeginRefreshWatched
  <2>. QED  BY <1>1, <2>1, QuietInv DEF BeginPublish, BeginRefresh, Begin
<1>2. CASE \/ ReadApproval(p) \/ ReadSelection(p) \/ ReadBundle(p) \/ ReadSource(p)
           \/ CheckConstructs(p) \/ ReadProvenance(p) \/ Check(p)
           \/ ReadPlugins(p) \/ CompareMirror(p)
  <2>1. JobsWatched'
    BY <1>0, <1>2, ReadApprovalWatched, ReadSelectionWatched, ReadBundleWatched,
       ReadSourceWatched, CheckConstructsWatched, ReadProvenanceWatched, CheckWatched,
       ReadPluginsWatched, CompareMirrorWatched
  <2>2. UNCHANGED <<files, world, settled, counts>>
    BY <1>2 DEF ReadApproval, ReadSelection, ReadBundle, ReadSource, CheckConstructs,
                ReadProvenance, Check, ReadPlugins, CompareMirror, Proceed, Go
  <2>. QED  BY <2>1, <2>2, QuietInv DEF counts
<1>3. CASE Refuse(p) \/ Kill(p)
  <2>1. Go(p, Idle)
    BY <1>3 DEF Refuse, Kill
  <2>2. JobsWatched'
    BY <1>0, <2>1, IdleWatched, OneWatched DEF Go
  <2>. QED  BY <2>1, <2>2, QuietInv DEF Go, counts
<1>4. CASE Publish(p)
  <2>1. job[p].pc = "write" /\ Finish(p) /\ job[p] \in Job
    BY <1>0, <1>4 DEF Publish, At, JobsWatched
  <2>2. public' \in Public
    BY <1>0, <1>4, <2>1, Ready DEF Publish, Public, Job
  <2>3. FilesTyped'
    BY <1>0, <1>4, <2>1, <2>2 DEF Publish, Finish, FilesTyped, world, Job
  <2>4. Counted' /\ JobsWatched' /\ PublicGood'
    BY <1>0, <1>4, <2>1, FinishWatched, PublishGood DEF Inv, Counted, Finish, counts
  <2>5. SettledValidates'
    BY <1>0, <1>4, <2>1, PublishSettles DEF Finish, SettledValidates
  <2>. QED  BY <2>3, <2>4, <2>5 DEF Inv
<1>5. CASE Refresh(p)
  <2>1. job[p].pc = "write" /\ Finish(p) /\ job[p] \in Job
    BY <1>0, <1>5 DEF Refresh, At, JobsWatched
  <2>2. provenance' \in Provenance /\ bundle' \in Bundle /\ public' = public
    BY <1>0, <1>5, <2>1, Ready DEF Refresh
  <2>3. FilesTyped'
    BY <1>0, <2>1, <2>2 DEF Finish, FilesTyped, world, Job
  <2>4. Counted' /\ JobsWatched' /\ PublicGood'
    BY <1>0, <2>1, <2>2, FinishWatched, PublicStays DEF Inv, Counted, Finish, counts
  <2>5. SettledValidates'
    BY <1>0, <1>5, <2>1, RefreshSettles DEF Finish, SettledValidates
  <2>. QED  BY <2>3, <2>4, <2>5 DEF Inv
<1>. QED  BY <1>1, <1>2, <1>3, <1>4, <1>5 DEF LongCommand

LEMMA WorldInv ==
  ASSUME Inv, (\E tree \in Trees : MoveLegacy(tree)) \/ EditPlugin \/ CopyToMirror
  PROVE  Inv'
<1>1. FilesTyped'
  <2>1. plugins' \in [version : {0, 1}, mirror : {0, 1}]
    <3>1. plugins \in [version : {0, 1}, mirror : {0, 1}] /\ 1 - plugins.version \in {0, 1}
      BY DEF Inv, FilesTyped
    <3>2. CASE EditPlugin
      BY <3>1, <3>2 DEF EditPlugin
    <3>3. CASE CopyToMirror
      BY <3>1, <3>3 DEF CopyToMirror
    <3>4. CASE UNCHANGED plugins
      BY <3>1, <3>4
    <3>. QED  BY <3>2, <3>3, <3>4 DEF MoveLegacy
  <2>2. legacy' \in Trees /\ settled' \in BOOLEAN /\ UNCHANGED files
    BY DEF Inv, FilesTyped, MoveLegacy, EditPlugin, CopyToMirror, Changes
  <2>. QED  BY <2>1, <2>2 DEF Inv, FilesTyped, files
<1>2. Counted'
  <2>1. /\ UNCHANGED <<commands, longs>>
        /\ moves' = moves \/ (moves < MaxMoves /\ moves' = moves + 1)
    BY DEF MoveLegacy, EditPlugin, CopyToMirror, counts
  <2>. QED  BY <2>1, Bounds DEF Inv, Counted
<1>3. public' = public /\ settled' = FALSE
  BY DEF MoveLegacy, EditPlugin, CopyToMirror, Changes, files
<1>4. JobsWatched'
  <2>1. Trees \subseteq Tree
    BY WorkflowAssumption DEF Tree
  <2>2. ASSUME NEW tree \in Trees, MoveLegacy(tree) PROVE JobsWatched'
    BY <2>1, <2>2, MovedWatched DEF Inv
  <2>3. CASE EditPlugin \/ CopyToMirror
    BY <2>3, ChangesWatched DEF Inv, EditPlugin, CopyToMirror, files
  <2>. QED  BY <2>2, <2>3
<1>. QED  BY <1>1, <1>2, <1>3, <1>4, PublicStays DEF Inv, SettledValidates

LEMMA NextInv == Inv /\ [Next]_vars => Inv'
<1>. SUFFICES ASSUME Inv, [Next]_vars PROVE Inv'
  OBVIOUS
<1>1. CASE UNCHANGED vars
  <2>1. JobsWatched'
    BY <1>1 DEF Inv, JobsWatched, Now, vars, files, world, Mirrored
  <2>. QED  BY <1>1, <2>1, QuietInv DEF vars, counts
<1>. QED  BY <1>1, CommandInv, LongInv, WorldInv DEF Next

LEMMA Invariance == Spec => []Inv
BY InitInv, NextInv, PTL DEF Spec

(* The files and the commands under way are what the commands expect.      *)
THEOREM WorkflowTypes == Spec => []TypeOK
<1>1. Inv => TypeOK
  BY DEF Inv, FilesTyped, Counted, JobsWatched, TypeOK
<1>. QED  BY <1>1, Invariance, PTL

(* What publish_bundle publishes was approved, the commit of its provenance*)
(* was checked out, and each of its sources was there as it says, each at  *)
(* some moment of that publish, though perhaps not all at one: the sources *)
(* are read file by file (_capture_relative_files) while anything else is  *)
(* approved, staged or checked out, in any number of terminals.            *)
THEOREM PublicAsSeen == Spec => []PublishedAsSeen
<1>1. Inv => PublishedAsSeen
  BY DEF Inv, PublicGood
<1>. QED  BY <1>1, Invariance, PTL

(* Nothing is published as being at parity without its evidence, and no    *)
(* blocker without its issue, whatever people write in a staged audit.     *)
THEOREM PublicEvidenced == Spec => []PublishedIsEvidenced
<1>1. Inv => PublishedIsEvidenced
  BY DEF Inv, PublicGood
<1>. QED  BY <1>1, Invariance, PTL

(* After a publish or a refresh that nothing has disturbed, and until      *)
(* something changes, full-private validation passes.                      *)
THEOREM SettledPasses == Spec => []SettledValidates
<1>1. Inv => SettledValidates
  BY DEF Inv
<1>. QED  BY <1>1, Invariance, PTL
=============================================================================
