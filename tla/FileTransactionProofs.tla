------------------------ MODULE FileTransactionProofs ------------------------
(***************************************************************************)
(* Proofs about FileTransaction, for any files, processes, writers and     *)
(* plans, any number of mishaps and any length of a transaction.           *)
(*                                                                         *)
(* Every system call replaces the record of one process, so there is one   *)
(* lemma per operator on records (Placed), then one per action.  The first *)
(* part proves the types and that no file is lost, the second what a step  *)
(* does to a record, and the third what becomes of the names.              *)
(***************************************************************************)
EXTENDS FileTransaction, TLAPS

Continuations == {"next", "original", "tidy", "owned"}

Stopped == {"idle", "done", "killed"}

(* The stage and the number of records prepared agree, and so on: what does*)
(* not depend on the step or on the record at work.                        *)
Sane(t, len) ==
  /\ t \in Record
  /\ t.n <= len
  /\ t.stage \in {"publish", "rollback", "finalize"} => t.n = len
  /\ t.then \in Continuations

(* A record at work on one of its len files.                               *)
AtWork(t, len) == Sane(t, len) /\ t.i \in 1..len

(* TypeOK of one record, with what makes it inductive: where a retirement  *)
(* goes on to, and that preparing comes first.                             *)
Placed(t, len) ==
  /\ Sane(t, len)
  /\ t.pc \notin Stopped => t.i \in 1..len
  /\ t.pc \in {"seize", "take"} => t.target \in Name
  /\ t.pc \in {"idle", "prepare"} => t.stage = "prepare"
  /\ t.pc = "idle" => t.i = 1

(* Steps that need no more than a record at work.                          *)
Plain == Steps \ {"idle", "prepare", "seize", "take"}

(* The elementary move of a record: to a step, at a file, in a stage.      *)
LEMMA Moved ==
  ASSUME NEW len \in Nat, NEW t, Sane(t, len),
         NEW pc \in Plain, NEW i \in Nat, NEW stage \in Stages,
         stage \in {"publish", "rollback", "finalize"} => t.n = len,
         pc \notin Stopped => i \in 1..len,
         NEW d \in Record,
         d.pc = pc, d.i = i, d.stage = stage, d.n = t.n, d.then = t.then
  PROVE  Placed(d, len)
BY DEF Sane, Placed, Plain, Stopped

(* Closing begins with the first record, or ends when there is none        *)
(* (the loop over records in the finally clauses).                         *)
LEMMA ClosingPlaced ==
  ASSUME NEW len \in Nat, NEW t, Sane(t, len) PROVE Placed(Closing(t), len)
<1>1. CASE t.n = 0
  <2>. DEFINE d == [t EXCEPT !.pc = "done"]
  <2>1. d \in Record /\ d.pc = "done" /\ d.i = t.i /\ d.stage = t.stage
        /\ d.n = t.n /\ d.then = t.then
    BY DEF Sane, Record, Steps
  <2>2. t.i \in Nat /\ t.stage \in Stages
    BY DEF Sane, Record
  <2>. HIDE DEF d
  <2>3. Placed(d, len)
    BY <2>1, <2>2, Moved DEF Sane, Plain, Steps, Stopped
  <2>. QED  BY <1>1, <2>3 DEF Closing, d
<1>2. CASE t.n # 0
  <2>. DEFINE d == [t EXCEPT !.stage = "close", !.i = 1, !.pc = "close"]
  <2>1. d \in Record /\ d.pc = "close" /\ d.i = 1 /\ d.stage = "close"
        /\ d.n = t.n /\ d.then = t.then
    BY DEF Sane, Record, Steps, Stages
  <2>2. 1 \in 1..len
    BY <1>2 DEF Sane, Record
  <2>. HIDE DEF d
  <2>3. Placed(d, len)
    BY <2>1, <2>2, Moved DEF Plain, Steps, Stopped, Stages
  <2>. QED  BY <1>2, <2>3 DEF Closing, d
<1>. QED  BY <1>1, <1>2

(* Publishing ends in a record (publish_transaction).                      *)
LEMMA RecordFinalizes ==
  ASSUME NEW t \in Record, NEW d,
         d = [t EXCEPT !.stage = "finalize", !.passed = TRUE, !.i = 1, !.pc = "finalize"]
  PROVE  d \in Record
BY DEF Record, Steps, Stages

(* The next record, or the next stage (the loops of publish_transaction).  *)
LEMMA OnwardPlaced ==
  ASSUME NEW len \in Nat, NEW t, AtWork(t, len) PROVE Placed(Onward(t), len)
<1>. DEFINE next(pc) == [t EXCEPT !.i = @ + 1, !.pc = pc]
            to(pc) == [t EXCEPT !.pc = pc]
            final == [t EXCEPT !.stage = "finalize", !.passed = TRUE, !.i = 1, !.pc = "finalize"]
<1>0. Sane(t, len) /\ t.i \in Nat /\ t.n \in Nat /\ t.stage \in Stages /\ t.i \in 1..len
  BY DEF AtWork, Sane, Record
<1>1. ASSUME NEW pc \in {"check", "finalize", "close"}, t.i < t.n PROVE Placed(next(pc), len)
  <2>. DEFINE d == next(pc)
  <2>0. t \in Record /\ t.i + 1 \in Nat /\ pc \in Steps
    BY <1>0 DEF Sane, Steps
  <2>1. d \in Record /\ d.pc = pc /\ d.i = t.i + 1 /\ d.stage = t.stage
        /\ d.n = t.n /\ d.then = t.then
    BY <2>0 DEF Record
  <2>2. t.i + 1 \in 1..len /\ t.i + 1 \in Nat
    BY <1>0, <1>1 DEF Sane
  <2>. HIDE DEF d
  <2>3. Placed(d, len)
    BY <1>0, <2>1, <2>2, Moved DEF Sane, Plain, Steps, Stopped
  <2>. QED  BY <2>3 DEF d
<1>2. ASSUME NEW pc \in {"seal", "done"} PROVE Placed(to(pc), len)
  <2>. DEFINE d == to(pc)
  <2>1. d \in Record /\ d.pc = pc /\ d.i = t.i /\ d.stage = t.stage
        /\ d.n = t.n /\ d.then = t.then
    BY <1>0 DEF Sane, Record, Steps
  <2>. HIDE DEF d
  <2>3. Placed(d, len)
    BY <1>0, <2>1, Moved DEF Sane, Plain, Steps, Stopped
  <2>. QED  BY <2>3 DEF d
<1>3. ASSUME t.stage = "publish" PROVE Placed(final, len)
  <2>0. t \in Record
    BY <1>0 DEF Sane
  <2>1. final \in Record
    BY <2>0, RecordFinalizes
  <2>3. /\ final.pc = "finalize" /\ final.i = 1 /\ final.stage = "finalize"
        /\ final.n = t.n /\ final.then = t.then
    BY <2>0 DEF Record
  <2>2. t.n = len /\ 1 \in 1..len
    BY <1>0, <1>3 DEF Sane
  <2>. HIDE DEF final
  <2>. QED  BY <1>0, <2>1, <2>2, <2>3, Moved DEF Plain, Steps, Stopped, Stages
<1>4. CASE t.stage = "publish"
  BY <1>0, <1>1, <1>3, <1>4 DEF Onward
<1>5. CASE t.stage = "finalize"
  BY <1>0, <1>1, <1>2, <1>5 DEF Onward
<1>6. CASE t.stage = "close"
  BY <1>0, <1>1, <1>2, <1>6 DEF Onward
<1>7. CASE t.stage \notin {"publish", "finalize", "close"}
  BY <1>2, <1>7 DEF Onward
<1>. QED  BY <1>4, <1>5, <1>6, <1>7

LEMMA FollowingPlaced ==
  ASSUME NEW len \in Nat, NEW t, AtWork(t, len) PROVE Placed(Following(t), len)
<1>0. Sane(t, len) /\ t.i \in Nat /\ t.i \in 1..len
  BY DEF AtWork, Sane, Record
<1>1. CASE t.stage = "rollback" /\ t.i > 1
  <2>. DEFINE d == [t EXCEPT !.i = @ - 1, !.pc = "undo"]
  <2>0. t.i - 1 \in Nat /\ t.i - 1 \in 1..len
    BY <1>0, <1>1
  <2>1. d \in Record /\ d.pc = "undo" /\ d.i = t.i - 1 /\ d.stage = "rollback"
        /\ d.n = t.n /\ d.then = t.then
    BY <1>0, <1>1, <2>0 DEF Sane, Record, Steps
  <2>. HIDE DEF d
  <2>2. Placed(d, len)
    BY <1>0, <1>1, <2>0, <2>1, Moved DEF Sane, Plain, Steps, Stopped, Stages
  <2>. QED  BY <1>0, <1>1, <2>2 DEF Following, d
<1>2. CASE t.stage = "rollback" /\ t.i <= 1
  BY <1>0, <1>2, ClosingPlaced DEF Following
<1>3. CASE t.stage # "rollback"
  BY <1>3, OnwardPlaced DEF Following
<1>. QED  BY <1>0, <1>1, <1>2, <1>3

LEMMA SettledAtWork ==
  ASSUME NEW len \in Nat, NEW t, AtWork(t, len) PROVE AtWork(Settled(t), len)
<1>. DEFINE d == Settled(t)
<1>1. d \in Record /\ d.i = t.i /\ d.stage = t.stage /\ d.n = t.n /\ d.then = "next"
  BY DEF AtWork, Sane, Settled, Record, Content, Steps
<1>. HIDE DEF d
<1>2. AtWork(d, len)
  BY <1>1 DEF AtWork, Sane, Continuations
<1>. QED  BY <1>2 DEF d

(* An exception leads to a step of the record at work, of another or to    *)
(* closing (the except clauses of both transactions).                      *)
LEMMA FailedPlaced ==
  ASSUME NEW len \in Nat, NEW t, AtWork(t, len), NEW p, Work(p)[t.i] \in Files
  PROVE  Placed(Failed(p, t), len)
<1>. DEFINE s == Settled(t)
            raised == Raised(t)
            left == Left(p, t)
            over == [raised EXCEPT !.pc = "done", !.hurt = TRUE]
            again == [t EXCEPT !.bad = TRUE, !.pc = "retire"]
            back == [t EXCEPT !.err = TRUE, !.stage = "rollback", !.i = t.n, !.pc = "undo"]
<1>1. AtWork(s, len) /\ s \in Record
  BY SettledAtWork DEF AtWork, Sane
<1>. HIDE DEF s
<1>2. AtWork(raised, len) /\ raised \in Record
  <2>1. /\ raised \in Record /\ raised.i = s.i /\ raised.stage = s.stage
        /\ raised.n = s.n /\ raised.then = s.then
    BY <1>1 DEF Record, Raised, s
  <2>. HIDE DEF raised
  <2>. QED  BY <1>1, <2>1 DEF AtWork, Sane
<1>. HIDE DEF raised
<1>3. AtWork(left, len)
  <2>1. /\ left \in Record /\ left.i = raised.i /\ left.stage = raised.stage
        /\ left.n = raised.n /\ left.then = raised.then
    BY <1>2 DEF Record, Left, raised
  <2>. HIDE DEF left
  <2>. QED  BY <1>2, <2>1 DEF AtWork, Sane
<1>4. Placed(over, len)
  <2>1. /\ over \in Record /\ over.pc = "done" /\ over.i = raised.i
        /\ over.stage = raised.stage /\ over.n = raised.n /\ over.then = raised.then
    BY <1>2 DEF Record, Steps
  <2>2. raised.i \in Nat /\ raised.stage \in Stages
    BY <1>2 DEF Record
  <2>. HIDE DEF over
  <2>. QED  BY <1>2, <2>1, <2>2, Moved DEF AtWork, Sane, Plain, Steps, Stopped
<1>5. Placed(again, len)
  <2>0. t \in Record /\ t.i \in Nat /\ t.stage \in Stages
    BY DEF AtWork, Sane, Record
  <2>1. /\ again \in Record /\ again.pc = "retire" /\ again.i = t.i
        /\ again.stage = t.stage /\ again.n = t.n /\ again.then = t.then
    BY <2>0 DEF Record, Steps
  <2>. HIDE DEF again
  <2>. QED  BY <2>0, <2>1, Moved DEF AtWork, Sane, Plain, Steps, Stopped
<1>6. CASE t.stage = "publish"
  <2>0. t \in Record /\ t.n \in Nat /\ t.n = len /\ t.n \in 1..len
    BY <1>6 DEF AtWork, Sane, Record
  <2>1. /\ back \in Record /\ back.pc = "undo" /\ back.i = t.n
        /\ back.stage = "rollback" /\ back.n = t.n /\ back.then = t.then
    BY <2>0 DEF Record, Steps, Stages
  <2>. HIDE DEF back
  <2>2. Placed(back, len)
    BY <2>0, <2>1, Moved DEF AtWork, Sane, Plain, Steps, Stopped, Stages
  <2>. QED  BY <1>6, <2>2 DEF Failed, back
<1>7. CASE t.stage # "publish"
  <2>1. Placed(Closing(raised), len)
    BY <1>2, ClosingPlaced DEF AtWork
  <2>2. Placed(Following(raised), len) /\ Placed(Following(left), len)
    BY <1>2, <1>3, FollowingPlaced
  <2>. HIDE DEF left, over, again
  <2>3. FailedLate(p, t) \in {Closing(raised), Following(left), Following(raised), again, over}
    BY DEF FailedLate, FailedFinal, raised, left, over, again
  <2>. QED  BY <1>4, <1>5, <1>7, <2>1, <2>2, <2>3 DEF Failed
<1>. QED  BY <1>6, <1>7

(* A retirement is set up (_retire_identity_aliases).                      *)
LEMMA RetiringPlaced ==
  ASSUME NEW len \in Nat, NEW t, AtWork(t, len),
         NEW id \in Content, NEW keep \in SUBSET Name, NEW then \in Continuations
  PROVE  /\ Placed(Retiring(t, id, keep, then), len)
         /\ AtWork(Retiring(t, id, keep, then), len)
<1>. DEFINE d == Retiring(t, id, keep, then)
<1>1. t \in Record /\ t.i \in Nat /\ t.stage \in Stages
  BY DEF AtWork, Sane, Record
<1>2. /\ d \in Record /\ d.pc = "retire" /\ d.i = t.i /\ d.stage = t.stage
      /\ d.n = t.n /\ d.then = then
  BY <1>1 DEF Retiring, Record, Steps, Continuations
<1>. HIDE DEF d
<1>3. Placed(d, len) /\ AtWork(d, len)
  BY <1>1, <1>2 DEF AtWork, Sane, Placed, Stopped
<1>. QED  BY <1>3 DEF d

(* A retirement that is over goes on where it was asked to.                *)
LEMMA ResumePlaced ==
  ASSUME NEW len \in Nat, NEW t, AtWork(t, len) PROVE Placed(Resume(t), len)
<1>. DEFINE s == Settled(t)
            d == [s EXCEPT !.pc = t.then]
<1>1. AtWork(s, len) /\ s \in Record /\ s.i \in Nat /\ s.stage \in Stages
  BY SettledAtWork DEF AtWork, Sane, Record
<1>. HIDE DEF s
<1>2. CASE t.then = "next"
  BY <1>1, <1>2, FollowingPlaced DEF Resume, s
<1>3. CASE t.then # "next"
  <2>1. t.then \in {"original", "tidy", "owned"}
    BY <1>3 DEF AtWork, Sane, Continuations
  <2>2. /\ d \in Record /\ d.pc = t.then /\ d.i = s.i /\ d.stage = s.stage
        /\ d.n = s.n /\ d.then = s.then
    BY <1>1, <2>1 DEF Record, Steps
  <2>. HIDE DEF d
  <2>3. Placed(d, len)
    BY <1>1, <2>1, <2>2, Moved DEF AtWork, Sane, Plain, Steps, Stopped
  <2>. QED  BY <1>3, <2>3 DEF Resume, d, s
<1>. QED  BY <1>2, <1>3

----------------------------------------------------------------------------
(* The state.                                                              *)

DiskTyped ==
  /\ dir \in [Name -> Content]
  /\ kept \subseteq Ident /\ made \subseteq Ident /\ destroyed \subseteq Ident

RecordsPlaced ==
  /\ tx \in [Procs -> Record]
  /\ \A p \in Procs : Placed(tx[p], Len(Work(p)))

Counted ==
  /\ plan \in Plans
  /\ mixed \subseteq Procs /\ visited \subseteq Procs /\ acted \subseteq Others
  /\ mishaps \in 0..plan.mishaps

(* The inductive invariant.                                                *)
Inv == DiskTyped /\ RecordsPlaced /\ Counted /\ NothingLost

(* What the assumption on plans says of the plan of a run.                 *)
LEMMA PlanFacts ==
  ASSUME plan \in Plans
  PROVE  /\ plan.mishaps \in Nat
         /\ \A p \in Procs : Work(p) \in Seq(Files) /\ Len(Work(p)) \in Nat
BY PlansTyped DEF Plan, Work

(* The process replaces its record by a placed one.                        *)
Goes(p) == \E t : Placed(t, Len(Work(p))) /\ Go(p, t)

(* A process that is not stopped works on a file, whose names are names.   *)
LEMMA Working ==
  ASSUME Inv, NEW p \in Procs, tx[p].pc \notin Stopped
  PROVE  /\ AtWork(tx[p], Len(Work(p))) /\ Len(Work(p)) \in Nat
         /\ tx[p] \in Record /\ tx[p].i \in Nat /\ tx[p].stage \in Stages
         /\ File(p) \in Files
         /\ NameOf(p) \in Name /\ Temporary(p) \in Name /\ Candidate(p) \in Ident
         /\ dir[NameOf(p)] \in Content /\ dir[Temporary(p)] \in Content
         /\ Original(p) \in Content
<1>1. Len(Work(p)) \in Nat /\ Work(p) \in Seq(Files)
  BY PlanFacts DEF Inv, Counted
<1>2. AtWork(tx[p], Len(Work(p))) /\ tx[p] \in Record
  BY DEF Inv, RecordsPlaced, Placed, AtWork, Sane
<1>3. tx[p].i \in 1..Len(Work(p)) /\ tx[p].i \in Nat /\ tx[p].stage \in Stages
  BY <1>2 DEF AtWork, Record
<1>4. File(p) \in Files
  BY <1>1, <1>3 DEF File
<1>5. NameOf(p) \in Name /\ Temporary(p) \in Name /\ Candidate(p) \in Ident
  BY <1>4 DEF NameOf, Temporary, Candidate, Name, Ident
<1>6. tx[p].orig \in [Files -> Content]
  BY <1>2 DEF Record
<1>7. dir[NameOf(p)] \in Content /\ dir[Temporary(p)] \in Content /\ Original(p) \in Content
  BY <1>4, <1>5, <1>6 DEF Inv, DiskTyped, Original
<1>. QED  BY <1>1, <1>2, <1>3, <1>4, <1>5, <1>7

(* A step to a plain step of the same record, which keeps the control.     *)
LEMMA StaysPlaced ==
  ASSUME NEW len \in Nat, NEW t, AtWork(t, len), NEW pc \in Plain,
         NEW d \in Record, d.pc = pc, d.i = t.i, d.stage = t.stage, d.n = t.n, d.then = t.then
  PROVE  Placed(d, len)
BY Moved DEF AtWork, Sane, Record

(* An exception.                                                           *)
LEMMA RaiseGoes ==
  ASSUME Inv, NEW p \in Procs, tx[p].pc \notin Stopped, Go(p, Failed(p, tx[p]))
  PROVE  Goes(p)
BY Working, FailedPlaced DEF Goes, File

(* The step after the record at work.                                      *)
LEMMA FollowingGoes ==
  ASSUME Inv, NEW p \in Procs, tx[p].pc \notin Stopped, Go(p, Following(tx[p]))
  PROVE  Goes(p)
BY Working, FollowingPlaced DEF Goes

LEMMA PrepareGoes ==
  ASSUME Inv, NEW p \in Procs, Prepare(p) PROVE Goes(p)
<1>. DEFINE len == Len(Work(p))
            t == [tx[p] EXCEPT !.orig[File(p)] = dir[NameOf(p)], !.n = tx[p].i]
            next == [t EXCEPT !.i = @ + 1]
            begun == [t EXCEPT !.stage = "publish", !.i = 1, !.pc = "check"]
<1>0. tx[p].pc = "prepare" /\ tx[p].stage = "prepare" /\ tx[p].pc \notin Stopped
  BY DEF Prepare, At, Inv, RecordsPlaced, Placed, Stopped
<1>1. /\ tx[p] \in Record /\ tx[p].i \in Nat /\ len \in Nat /\ File(p) \in Files
      /\ dir[NameOf(p)] \in Content /\ Sane(tx[p], len) /\ tx[p].i \in 1..len
  BY <1>0, Working DEF AtWork
<1>2. /\ t \in Record /\ t.i = tx[p].i /\ t.n = tx[p].i /\ t.stage = "prepare"
      /\ t.pc = "prepare" /\ t.then = tx[p].then
  BY <1>0, <1>1 DEF Record
<1>. HIDE DEF t
<1>3. CASE t.i < len
  <2>1. /\ next \in Record /\ next.i = t.i + 1 /\ next.n = t.n /\ next.stage = "prepare"
        /\ next.pc = "prepare" /\ next.then = t.then
    BY <1>1, <1>2 DEF Record
  <2>. HIDE DEF next
  <2>2. Placed(next, len)
    BY <1>1, <1>2, <1>3, <2>1 DEF Placed, Sane
  <2>. QED  BY <1>3, <2>2 DEF Prepare, Goes, next, t
<1>4. CASE ~(t.i < len)
  <2>1. /\ begun \in Record /\ begun.i = 1 /\ begun.n = t.n /\ begun.stage = "publish"
        /\ begun.pc = "check" /\ begun.then = t.then
    BY <1>2 DEF Record, Steps, Stages
  <2>. HIDE DEF begun
  <2>2. Placed(begun, len)
    BY <1>1, <1>2, <1>4, <2>1 DEF Placed, Sane, Stopped
  <2>. QED  BY <1>4, <2>2 DEF Prepare, Goes, begun, t
<1>. QED  BY <1>3, <1>4

LEMMA CheckGoes ==
  ASSUME Inv, NEW p \in Procs, Check(p) PROVE Goes(p)
<1>. DEFINE m == IF Original(p) = None THEN "noreplace" ELSE "exchange"
            d == [tx[p] EXCEPT !.pc = "rename", !.mode[File(p)] = m]
<1>0. tx[p].pc \notin Stopped
  BY DEF Check, At, Stopped
<1>1. CASE Go(p, Failed(p, tx[p]))
  BY <1>0, <1>1, RaiseGoes
<1>2. CASE Go(p, d)
  <2>0. tx[p] \in Record /\ File(p) \in Files /\ m \in {"none", "exchange", "noreplace"}
    BY <1>0, Working
  <2>. HIDE DEF m
  <2>1. /\ d \in Record /\ d.pc = "rename" /\ d.i = tx[p].i /\ d.stage = tx[p].stage
        /\ d.n = tx[p].n /\ d.then = tx[p].then
    BY <2>0 DEF Record, Steps
  <2>. HIDE DEF d
  <2>2. Placed(d, Len(Work(p)))
    BY <1>0, <2>1, Working, StaysPlaced DEF Plain, Steps
  <2>. QED  BY <1>2, <2>2 DEF Goes
<1>. QED  BY <1>1, <1>2 DEF Check, Raise

LEMMA RenameGoes ==
  ASSUME Inv, NEW p \in Procs, Rename(p) PROVE Goes(p)
<1>. DEFINE d == [tx[p] EXCEPT !.published = @ \cup {File(p)}, !.pc = "verify"]
            seen(moved) ==
              [tx[p] EXCEPT !.published = IF moved THEN @ \cup {File(p)} ELSE @]
<1>0. /\ tx[p].pc \notin Stopped /\ tx[p] \in Record /\ File(p) \in Files
      /\ AtWork(tx[p], Len(Work(p))) /\ Len(Work(p)) \in Nat
  <2>1. tx[p].pc \notin Stopped
    BY DEF Rename, At, Stopped
  <2>. QED  BY <2>1, Working
<1>1. ASSUME NEW moved \in BOOLEAN PROVE AtWork(seen(moved), Len(Work(p)))
  <2>. DEFINE e == seen(moved)
  <2>1. /\ e \in Record /\ e.i = tx[p].i /\ e.stage = tx[p].stage
        /\ e.n = tx[p].n /\ e.then = tx[p].then
    BY <1>0 DEF Record
  <2>. HIDE DEF e
  <2>2. AtWork(e, Len(Work(p)))
    BY <1>0, <2>1 DEF AtWork, Sane
  <2>. QED  BY <2>2 DEF e
<1>2. CASE Go(p, d)
  <2>1. /\ d \in Record /\ d.pc = "verify" /\ d.i = tx[p].i /\ d.stage = tx[p].stage
        /\ d.n = tx[p].n /\ d.then = tx[p].then
    BY <1>0 DEF Record, Steps
  <2>. HIDE DEF d
  <2>2. Placed(d, Len(Work(p)))
    BY <1>0, <2>1, StaysPlaced DEF Plain, Steps
  <2>. QED  BY <1>2, <2>2 DEF Goes
<1>3. CASE Go(p, Missed(p))
  <2>. DEFINE here == Aliases(Candidate(p), {})
              moved == NameOf(p) \in here \/ (here # {} /\ Temporary(p) \notin here)
  <2>1. Missed(p) = Failed(p, seen(moved)) /\ moved \in BOOLEAN
    BY DEF Missed
  <2>2. Work(p)[seen(moved).i] \in Files
    BY <1>0 DEF File, Record
  <2>. HIDE DEF moved, seen
  <2>3. Placed(Missed(p), Len(Work(p)))
    BY <1>0, <1>1, <2>1, <2>2, FailedPlaced
  <2>. QED  BY <1>3, <2>3 DEF Goes
<1>. QED  BY <1>2, <1>3 DEF Rename

LEMMA VerifyGoes ==
  ASSUME Inv, NEW p \in Procs, Verify(p) \/ Owned(p) PROVE Goes(p)
<1>0. tx[p].pc \notin Stopped
  BY DEF Verify, Owned, At, Stopped
<1>. QED  BY <1>0, RaiseGoes, FollowingGoes DEF Verify, Owned, Raise

(* Moving to a step and changing nothing else of the record.               *)
LEMMA ToGoes ==
  ASSUME Inv, NEW p \in Procs, tx[p].pc \notin Stopped, NEW pc \in Plain,
         Go(p, [tx[p] EXCEPT !.pc = pc])
  PROVE  Goes(p)
<1>. DEFINE d == [tx[p] EXCEPT !.pc = pc]
<1>1. /\ d \in Record /\ d.pc = pc /\ d.i = tx[p].i /\ d.stage = tx[p].stage
      /\ d.n = tx[p].n /\ d.then = tx[p].then
  BY Working DEF Record, Plain
<1>2. Go(p, d)
  OBVIOUS
<1>. HIDE DEF d
<1>3. Placed(d, Len(Work(p)))
  BY <1>1, Working, StaysPlaced
<1>. QED  BY <1>2, <1>3 DEF Goes

(* Retiring a file from the step of a process.                             *)
LEMMA RetiringGoes ==
  ASSUME Inv, NEW p \in Procs, tx[p].pc \notin Stopped,
         NEW t, AtWork(t, Len(Work(p))),
         NEW id \in Content, NEW keep \in SUBSET Name, NEW then \in Continuations,
         Go(p, Retiring(t, id, keep, then))
  PROVE  Goes(p)
BY Working, RetiringPlaced DEF Goes

LEMMA PreservedNames ==
  ASSUME Inv, NEW p \in Procs, tx[p].pc \notin Stopped, NEW id
  PROVE  Preserved(p, id) \in SUBSET Name
BY Working DEF Preserved

(* The file of a process is a content.                                     *)
LEMMA CandidateContent ==
  ASSUME Inv, NEW p \in Procs, tx[p].pc \notin Stopped PROVE Candidate(p) \in Content
BY Working DEF Content

LEMMA UndoGoes ==
  ASSUME Inv, NEW p \in Procs, Undo(p) PROVE Goes(p)
<1>. DEFINE keep == Preserved(p, Original(p))
            d == [tx[p] EXCEPT !.spare = keep]
<1>0. tx[p].pc \notin Stopped
  BY DEF Undo, At, Stopped
<1>1. CASE Go(p, [tx[p] EXCEPT !.pc = "back"])
  BY <1>0, <1>1, ToGoes DEF Plain, Steps
<1>2. CASE Go(p, Failed(p, tx[p]))
  BY <1>0, <1>2, RaiseGoes
<1>3. CASE Go(p, Retiring(d, Candidate(p), {}, "tidy"))
  <2>0. keep \in SUBSET Name /\ tx[p] \in Record /\ AtWork(tx[p], Len(Work(p)))
        /\ Candidate(p) \in Content
    BY <1>0, PreservedNames, Working, CandidateContent
  <2>. HIDE DEF keep
  <2>1. /\ d \in Record /\ d.i = tx[p].i /\ d.stage = tx[p].stage
        /\ d.n = tx[p].n /\ d.then = tx[p].then
    BY <2>0 DEF Record
  <2>. HIDE DEF d
  <2>2. AtWork(d, Len(Work(p)))
    BY <2>0, <2>1 DEF AtWork, Sane
  <2>. QED  BY <1>0, <1>3, <2>0, <2>2, RetiringGoes DEF Continuations
<1>. QED  BY <1>1, <1>2, <1>3 DEF Undo

LEMMA BackGoes ==
  ASSUME Inv, NEW p \in Procs, Back(p) PROVE Goes(p)
<1>0. tx[p].pc \notin Stopped
  BY DEF Back, At, Stopped
<1>1. "undone" \in Plain
  BY DEF Plain, Steps
<1>. QED  BY <1>0, <1>1, RaiseGoes, ToGoes DEF Back, Raise

(* A retirement that begins with a name instead of the aliases.            *)
LEMMA TakingGoes ==
  ASSUME Inv, NEW p \in Procs, tx[p].pc \notin Stopped,
         NEW id \in Content, NEW then \in Continuations,
         NEW pc \in {"seize", "take"}, NEW target \in Name,
         Go(p, [Retiring(tx[p], id, {}, then) EXCEPT !.target = target, !.pc = pc])
  PROVE  Goes(p)
<1>. DEFINE t == Retiring(tx[p], id, {}, then)
            d == [t EXCEPT !.target = target, !.pc = pc]
<1>0. Len(Work(p)) \in Nat
  BY Working
<1>1. AtWork(t, Len(Work(p))) /\ t \in Record
  <2>1. {} \in SUBSET Name /\ AtWork(tx[p], Len(Work(p)))
    BY Working
  <2>2. AtWork(t, Len(Work(p)))
    BY <1>0, <2>1, RetiringPlaced
  <2>. QED  BY <2>2 DEF AtWork, Sane
<1>2. Go(p, d)
  OBVIOUS
<1>. HIDE DEF t
<1>3. /\ d \in Record /\ d.pc = pc /\ d.target = target /\ d.i = t.i
      /\ d.stage = t.stage /\ d.n = t.n /\ d.then = t.then
  BY <1>1 DEF Record, Steps
<1>. HIDE DEF d
<1>4. Placed(d, Len(Work(p)))
  BY <1>0, <1>1, <1>3 DEF AtWork, Sane, Placed, Stopped
<1>. QED  BY <1>2, <1>4 DEF Goes

LEMMA UndoneGoes ==
  ASSUME Inv, NEW p \in Procs, Undone(p) PROVE Goes(p)
<1>. DEFINE then == IF Exchanging(p) THEN "original" ELSE "next"
<1>0. tx[p].pc \notin Stopped
  BY DEF Undone, At, Stopped
<1>1. CASE Go(p, Failed(p, tx[p]))
  BY <1>0, <1>1, RaiseGoes
<1>2. CASE Go(p, [Retiring(tx[p], Candidate(p), {}, then)
                   EXCEPT !.target = Temporary(p), !.pc = "take"])
  <2>1. then \in Continuations /\ Temporary(p) \in Name /\ Candidate(p) \in Content
    BY <1>0, Working, CandidateContent DEF Continuations
  <2>. HIDE DEF then
  <2>. QED  BY <1>0, <1>2, <2>1, TakingGoes
<1>. QED  BY <1>1, <1>2 DEF Undone, Raise

LEMMA RetireOriginalGoes ==
  ASSUME Inv, NEW p \in Procs, RetireOriginal(p) PROVE Goes(p)
<1>0. tx[p].pc \notin Stopped
  BY DEF RetireOriginal, At, Stopped
<1>1. /\ AtWork(tx[p], Len(Work(p))) /\ Original(p) \in Content
      /\ Preserved(p, Original(p)) \in SUBSET Name /\ "next" \in Continuations
  BY <1>0, Working, PreservedNames DEF Continuations
<1>. QED  BY <1>0, <1>1, RetiringGoes DEF RetireOriginal

LEMMA TidyGoes ==
  ASSUME Inv, NEW p \in Procs, Tidy(p) PROVE Goes(p)
<1>. DEFINE d == [tx[p] EXCEPT !.spare = {}]
<1>0. tx[p].pc \notin Stopped
  BY DEF Tidy, At, Stopped
<1>1. /\ AtWork(tx[p], Len(Work(p))) /\ Original(p) \in Content /\ tx[p] \in Record
      /\ "owned" \in Continuations
  BY <1>0, Working DEF Continuations
<1>2. /\ d \in Record /\ d.i = tx[p].i /\ d.stage = tx[p].stage
      /\ d.n = tx[p].n /\ d.then = tx[p].then /\ tx[p].spare \in SUBSET Name
  BY <1>1 DEF Record
<1>3. Go(p, Retiring(d, Original(p), tx[p].spare, "owned"))
  BY DEF Tidy
<1>. HIDE DEF d
<1>4. AtWork(d, Len(Work(p)))
  BY <1>1, <1>2 DEF AtWork, Sane
<1>. QED  BY <1>0, <1>1, <1>2, <1>3, <1>4, RetiringGoes

LEMMA FinalizeGoes ==
  ASSUME Inv, NEW p \in Procs, Finalize(p) PROVE Goes(p)
<1>. DEFINE t == Retiring(tx[p], Original(p), Preserved(p, Original(p)), "next")
            d == [t EXCEPT !.bad = TRUE]
<1>0. tx[p].pc \notin Stopped
  BY DEF Finalize, At, Stopped
<1>1. /\ AtWork(tx[p], Len(Work(p))) /\ Original(p) \in Content /\ Temporary(p) \in Name
      /\ Preserved(p, Original(p)) \in SUBSET Name /\ "next" \in Continuations
      /\ Len(Work(p)) \in Nat
  BY <1>0, Working, PreservedNames DEF Continuations
<1>2. CASE Go(p, Following(tx[p]))
  BY <1>0, <1>2, FollowingGoes
<1>3. CASE Go(p, [Retiring(tx[p], Original(p), {}, "next")
                   EXCEPT !.target = Temporary(p), !.pc = "seize"])
  BY <1>0, <1>1, <1>3, TakingGoes
<1>4. CASE Go(p, d)
  <2>1. AtWork(t, Len(Work(p))) /\ t \in Record /\ t.pc = "retire"
    <3>1. AtWork(t, Len(Work(p)))
      BY <1>1, RetiringPlaced
    <3>2. t.pc = "retire"
      BY <1>1 DEF Retiring, AtWork, Sane, Record
    <3>. QED  BY <3>1, <3>2 DEF AtWork, Sane
  <2>. HIDE DEF t
  <2>2. /\ d \in Record /\ d.pc = "retire" /\ d.i = t.i /\ d.stage = t.stage
        /\ d.n = t.n /\ d.then = t.then
    BY <2>1 DEF Record
  <2>. HIDE DEF d
  <2>3. Placed(d, Len(Work(p)))
    BY <1>1, <2>1, <2>2, StaysPlaced DEF Plain, Steps
  <2>. QED  BY <1>4, <2>3 DEF Goes
<1>. QED  BY <1>2, <1>3, <1>4 DEF Finalize

LEMMA SealGoes ==
  ASSUME Inv, NEW p \in Procs, Seal(p) PROVE Goes(p)
<1>0. tx[p].pc \notin Stopped
  BY DEF Seal, At, Stopped
<1>1. Placed(Closing(tx[p]), Len(Work(p)))
  BY <1>0, Working, ClosingPlaced DEF AtWork
<1>. QED  BY <1>1 DEF Seal, Goes

LEMMA CloseGoes ==
  ASSUME Inv, NEW p \in Procs, Close(p) PROVE Goes(p)
<1>0. tx[p].pc \notin Stopped
  BY DEF Close, At, Stopped
<1>1. /\ AtWork(tx[p], Len(Work(p))) /\ Candidate(p) \in Content
      /\ Preserved(p, Candidate(p)) \in SUBSET Name /\ "next" \in Continuations
  BY <1>0, Working, CandidateContent, PreservedNames DEF Continuations
<1>. QED  BY <1>0, <1>1, RetiringGoes DEF Close

LEMMA RetireGoes ==
  ASSUME Inv, NEW p \in Procs, Retire(p) PROVE Goes(p)
<1>0. tx[p].pc \notin Stopped /\ tx[p].pc = "retire"
  BY DEF Retire, At, Stopped
<1>1. AtWork(tx[p], Len(Work(p))) /\ Len(Work(p)) \in Nat /\ tx[p] \in Record
  BY <1>0, Working
<1>2. ASSUME NEW alias \in Name, Go(p, [tx[p] EXCEPT !.target = alias, !.pc = "take"])
      PROVE  Goes(p)
  <2>. DEFINE d == [tx[p] EXCEPT !.target = alias, !.pc = "take"]
  <2>1. /\ d \in Record /\ d.pc = "take" /\ d.target = alias /\ d.i = tx[p].i
        /\ d.stage = tx[p].stage /\ d.n = tx[p].n /\ d.then = tx[p].then
    BY <1>1 DEF Record, Steps
  <2>2. Go(p, d)
    BY <1>2
  <2>. HIDE DEF d
  <2>3. Placed(d, Len(Work(p)))
    BY <1>1, <2>1 DEF AtWork, Sane, Placed, Stopped
  <2>. QED  BY <2>2, <2>3 DEF Goes
<1>3. CASE Go(p, Failed(p, tx[p]))
  BY <1>0, <1>3, RaiseGoes
<1>4. CASE Go(p, Resume(tx[p]))
  BY <1>1, <1>4, ResumePlaced DEF Goes
<1>. QED  BY <1>2, <1>3, <1>4 DEF Retire, Aliases

LEMMA TakeGoes ==
  ASSUME Inv, NEW p \in Procs, Take(p) PROVE Goes(p)
<1>. DEFINE m == tx[p].bad \/ dir[tx[p].target] # tx[p].goal
            d == [tx[p] EXCEPT !.bad = m, !.pc = "retire"]
<1>0. tx[p].pc \notin Stopped
  BY DEF Take, Stopped
<1>1. CASE Go(p, Failed(p, tx[p]))
  BY <1>0, <1>1, RaiseGoes
<1>2. CASE Go(p, d)
  <2>0. tx[p] \in Record /\ m \in BOOLEAN
    BY <1>0, Working DEF Record
  <2>. HIDE DEF m
  <2>1. /\ d \in Record /\ d.pc = "retire" /\ d.i = tx[p].i /\ d.stage = tx[p].stage
        /\ d.n = tx[p].n /\ d.then = tx[p].then
    BY <2>0 DEF Record, Steps
  <2>. HIDE DEF d
  <2>2. Placed(d, Len(Work(p)))
    BY <1>0, <2>1, Working, StaysPlaced DEF Plain, Steps
  <2>. QED  BY <1>2, <2>2 DEF Goes
<1>. QED  BY <1>1, <1>2 DEF Take, Raise

LEMMA KillGoes ==
  ASSUME Inv, NEW p \in Procs, Kill(p) PROVE Goes(p)
<1>0. tx[p].pc \notin Stopped
  BY DEF Kill, Active, Stopped
<1>1. "killed" \in Plain
  BY DEF Plain, Steps
<1>. QED  BY <1>0, <1>1, ToGoes DEF Kill

LEMMA StartGoes ==
  ASSUME Inv, NEW p \in Procs, Start(p) PROVE Goes(p)
<1>. DEFINE d == [tx[p] EXCEPT !.pc = "prepare"]
<1>0. /\ Placed(tx[p], Len(Work(p))) /\ tx[p] \in Record /\ tx[p].pc = "idle"
      /\ tx[p].stage = "prepare" /\ tx[p].i = 1
  BY DEF Inv, RecordsPlaced, Placed, Start, At
<1>1. Len(Work(p)) \in Nat /\ 1 \in 1..Len(Work(p))
  BY PlanFacts DEF Inv, Counted, Start
<1>2. /\ d \in Record /\ d.pc = "prepare" /\ d.i = 1 /\ d.stage = "prepare"
      /\ d.n = tx[p].n /\ d.then = tx[p].then
  BY <1>0 DEF Record, Steps
<1>3. Go(p, d)
  BY DEF Start
<1>. HIDE DEF d
<1>4. Placed(d, Len(Work(p)))
  BY <1>0, <1>1, <1>2 DEF Placed, Sane
<1>. QED  BY <1>3, <1>4 DEF Goes

LEMMA FaultGoes ==
  ASSUME Inv, NEW p \in Procs, Fault(p) PROVE Goes(p)
<1>0. tx[p].pc \notin Stopped
  BY DEF Fault, Active, Stopped
<1>. QED  BY <1>0, RaiseGoes DEF Fault, Raise

LEMMA StepGoes ==
  ASSUME Inv, NEW p \in Procs, Step(p) PROVE Goes(p)
BY PrepareGoes, CheckGoes, RenameGoes, VerifyGoes, UndoGoes, BackGoes, UndoneGoes,
   RetireOriginalGoes, TidyGoes, FinalizeGoes, SealGoes, CloseGoes, RetireGoes, TakeGoes
   DEF Step

(* One record changes, to a placed one.                                    *)
LEMMA GoesKeepsRecords ==
  ASSUME Inv, NEW p \in Procs, Goes(p), plan' = plan PROVE RecordsPlaced'
<1>1. PICK t : Placed(t, Len(Work(p))) /\ Go(p, t)
  BY DEF Goes
<1>2. t \in Record
  BY <1>1 DEF Placed, Sane
<1>3. tx' \in [Procs -> Record]
  BY <1>1, <1>2 DEF Go, Inv, RecordsPlaced
<1>4. ASSUME NEW q \in Procs PROVE Placed(tx'[q], Len(Work(q))')
  <2>1. Len(Work(q))' = Len(Work(q))
    BY DEF Work
  <2>2. Placed(tx[q], Len(Work(q)))
    BY DEF Inv, RecordsPlaced
  <2>3. tx'[q] = IF q = p THEN t ELSE tx[q]
    BY <1>1 DEF Go, Inv, RecordsPlaced
  <2>. QED  BY <1>1, <2>1, <2>2, <2>3
<1>5. \A q \in Procs : Placed(tx'[q], Len(Work(q))')
  BY <1>4
<1>. QED  BY <1>3, <1>5 DEF RecordsPlaced

----------------------------------------------------------------------------
(* The directory.                                                          *)

Intact == DiskTyped /\ NothingLost

(* An exchange, or a rename to a free name, moves files and loses none     *)
(* (_renameat2).                                                           *)
LEMMA SwapKeeps ==
  ASSUME Intact, NEW a \in Name, NEW b \in Name, Swap(a, b), UNCHANGED <<kept, made, destroyed>>
  PROVE  Intact'
<1>1. dir' \in [Name -> Content]
  BY DEF Intact, DiskTyped, Swap
<1>2. dir'[a] = dir[b] /\ dir'[b] = dir[a] /\ \A n \in Name \ {a, b} : dir'[n] = dir[n]
  BY DEF Intact, DiskTyped, Swap
<1>3. ASSUME NEW n \in Name PROVE \E m \in Name : dir'[m] = dir[n]
  BY <1>2
<1>4. NothingLost'
  BY <1>3 DEF Intact, NothingLost
<1>. QED  BY <1>1, <1>4 DEF Intact, DiskTyped

(* A new file takes a free name.                                           *)
LEMMA WriteKeeps ==
  ASSUME Intact, NEW n \in Name, dir[n] = None, NEW x \in Ident,
         dir' = [dir EXCEPT ![n] = x], made' = made \cup {x}, UNCHANGED <<kept, destroyed>>
  PROVE  Intact'
<1>1. dir' \in [Name -> Content]
  BY DEF Intact, DiskTyped, Content
<1>2. dir'[n] = x /\ \A m \in Name \ {n} : dir'[m] = dir[m]
  BY DEF Intact, DiskTyped
<1>3. ASSUME NEW y \in made', y \notin destroyed'
      PROVE  y \in kept' \/ \E m \in Name : dir'[m] = y
  <2>1. CASE y = x
    BY <1>2, <2>1
  <2>2. CASE y # x
    <3>1. y \in made /\ y \notin destroyed /\ y # None
      BY <1>3, <2>2, NamesApart DEF Intact, DiskTyped
    <3>2. y \in kept \/ \E m \in Name : dir[m] = y
      BY <3>1 DEF Intact, NothingLost
    <3>. QED  BY <1>2, <3>1, <3>2
  <2>. QED  BY <2>1, <2>2
<1>. QED  BY <1>1, <1>3 DEF Intact, DiskTyped, NothingLost

(* A file taken from a name goes to the recoveries (_retire_name).         *)
LEMMA TakeKeeps ==
  ASSUME Intact, NEW n \in Name, dir[n] # None,
         dir' = [dir EXCEPT ![n] = None], kept' = kept \cup {dir[n]},
         UNCHANGED <<made, destroyed>>
  PROVE  Intact'
<1>1. dir' \in [Name -> Content] /\ dir[n] \in Ident
  BY DEF Intact, DiskTyped, Content
<1>2. \A m \in Name \ {n} : dir'[m] = dir[m]
  BY DEF Intact, DiskTyped
<1>3. NothingLost'
  BY <1>2 DEF Intact, NothingLost
<1>. QED  BY <1>1, <1>3 DEF Intact, DiskTyped

(* Another writer destroys no more than the file it overwrites.            *)
LEMMA OverwriteKeeps ==
  ASSUME Inv, NEW o \in Others, NEW f \in Files, Overwrite(o, f) PROVE Intact'
<1>. DEFINE n == <<Public, f>>
            x == <<o, f>>
<1>1. n \in Name /\ x \in Ident
  BY DEF Name, Ident
<1>2. /\ dir \in [Name -> Content] /\ dir' = [dir EXCEPT ![n] = x]
      /\ made' = made \cup {x} /\ destroyed' = destroyed \cup ({dir[n]} \ {None})
      /\ kept' = kept
  BY DEF Overwrite, Visit, Inv, DiskTyped
<1>. HIDE DEF n, x
<1>3. dir' \in [Name -> Content] /\ dir[n] \in Content
  BY <1>1, <1>2 DEF Content
<1>4. made' \subseteq Ident /\ destroyed' \subseteq Ident
  BY <1>1, <1>2, <1>3 DEF Inv, DiskTyped, Content
<1>5. dir'[n] = x /\ \A m \in Name \ {n} : dir'[m] = dir[m]
  BY <1>1, <1>2
<1>6. ASSUME NEW y \in made', y \notin destroyed'
      PROVE  y \in kept' \/ \E m \in Name : dir'[m] = y
  <2>1. CASE y = x
    BY <1>1, <1>5, <2>1
  <2>2. CASE y # x
    <3>1. y \in made /\ y \notin destroyed /\ y # None /\ y # dir[n]
      BY <1>2, <1>6, <2>2, NamesApart DEF Inv, DiskTyped
    <3>2. y \in kept \/ \E m \in Name : dir[m] = y
      BY <3>1 DEF Inv, NothingLost
    <3>. QED  BY <1>2, <1>5, <3>1, <3>2
  <2>. QED  BY <2>1, <2>2
<1>. QED  BY <1>2, <1>3, <1>4, <1>6 DEF Intact, DiskTyped, NothingLost, Inv

LEMMA MoveAsideKeeps ==
  ASSUME Inv, NEW o \in Others, NEW f \in Files, NEW new \in {<<o, f>>, None},
         MoveAside(o, f, new)
  PROVE  Intact'
<1>. DEFINE n == <<Public, f>>
            a == <<Aside, f>>
<1>1. n \in Name /\ a \in Name /\ <<o, f>> \in Ident /\ n # a
  BY NamesApart DEF Name, Ident
<1>2. /\ dir \in [Name -> Content] /\ dir' = [dir EXCEPT ![a] = dir[n], ![n] = new]
      /\ made' = made \cup ({new} \ {None}) /\ destroyed' = destroyed /\ kept' = kept
      /\ dir[a] = None
  BY DEF MoveAside, Visit, Inv, DiskTyped
<1>3. new \in Content /\ (new # None => new \in Ident)
  BY <1>1 DEF Content
<1>. HIDE DEF n, a
<1>4. dir' \in [Name -> Content] /\ made' \subseteq Ident
  BY <1>1, <1>2, <1>3 DEF Inv, DiskTyped
<1>5. dir'[a] = dir[n] /\ dir'[n] = new /\ \A m \in Name \ {n, a} : dir'[m] = dir[m]
  BY <1>1, <1>2
<1>6. ASSUME NEW y \in made', y \notin destroyed'
      PROVE  y \in kept' \/ \E m \in Name : dir'[m] = y
  <2>1. CASE y = new
    BY <1>1, <1>5, <2>1
  <2>2. CASE y # new
    <3>1. y \in made /\ y \notin destroyed /\ y # None
      BY <1>2, <1>6, <2>2, NamesApart DEF Inv, DiskTyped
    <3>2. y \in kept \/ \E m \in Name : dir[m] = y
      BY <3>1 DEF Inv, NothingLost
    <3>. QED  BY <1>1, <1>2, <1>5, <3>1, <3>2
  <2>. QED  BY <2>1, <2>2
<1>. QED  BY <1>2, <1>4, <1>6 DEF Intact, DiskTyped, NothingLost, Inv

LEMMA StillIntact ==
  ASSUME Intact, UNCHANGED disk PROVE Intact'
BY DEF Intact, DiskTyped, NothingLost, disk

(* The system calls of a transaction keep every file.                      *)
LEMMA StepKeeps ==
  ASSUME Inv, NEW p \in Procs, Step(p) PROVE Intact'
<1>. Intact
  BY DEF Inv, Intact
<1>1. CASE Prepare(p)
  <2>1. tx[p].pc \notin Stopped
    BY <1>1 DEF Prepare, At, Stopped
  <2>2. Temporary(p) \in Name /\ Candidate(p) \in Ident
    BY <2>1, Working
  <2>. QED  BY <1>1, <2>2, WriteKeeps DEF Prepare
<1>2. CASE Rename(p)
  <2>1. tx[p].pc \notin Stopped
    BY <1>2 DEF Rename, At, Stopped
  <2>2. Temporary(p) \in Name /\ NameOf(p) \in Name
    BY <2>1, Working
  <2>. QED  BY <1>2, <2>2, SwapKeeps, StillIntact DEF Rename
<1>3. CASE Back(p)
  <2>1. tx[p].pc \notin Stopped
    BY <1>3 DEF Back, At, Stopped
  <2>2. Temporary(p) \in Name /\ NameOf(p) \in Name
    BY <2>1, Working
  <2>. QED  BY <1>3, <2>2, SwapKeeps, StillIntact DEF Back, Raise
<1>4. CASE Take(p)
  <2>1. tx[p].target \in Name
    BY <1>4 DEF Take, Inv, RecordsPlaced, Placed
  <2>. QED  BY <1>4, <2>1, TakeKeeps, StillIntact DEF Take, Raise
<1>5. CASE Check(p) \/ Verify(p) \/ Undo(p) \/ Undone(p) \/ RetireOriginal(p) \/ Tidy(p)
           \/ Owned(p) \/ Finalize(p) \/ Seal(p) \/ Close(p) \/ Retire(p)
  <2>1. UNCHANGED disk
    BY <1>5 DEF Check, Verify, Undo, Undone, RetireOriginal, Tidy, Owned, Finalize, Seal,
                Close, Retire, Raise
  <2>. QED  BY <2>1, StillIntact
<1>. QED  BY <1>1, <1>2, <1>3, <1>4, <1>5 DEF Step

----------------------------------------------------------------------------
(* The invariant.                                                          *)

LEMMA InitInv == Init => Inv
<1>. SUFFICES ASSUME Init PROVE Inv
  OBVIOUS
<1>1. PICK there \in SUBSET UNION {Planned(p) : p \in Procs} :
        /\ dir = [n \in Name |-> IF n[1] = Public /\ n[2] \in there THEN <<Old, n[2]>> ELSE None]
        /\ made = {<<Old, f>> : f \in there}
  BY DEF Init
<1>2. plan \in Plans /\ plan.mishaps \in Nat /\ \A p \in Procs : Work(p) \in Seq(Files)
  BY PlanFacts DEF Init
<1>3. there \subseteq Files
  BY <1>2 DEF Planned
<1>4. DiskTyped
  BY <1>1, <1>3 DEF Init, DiskTyped, Name, Content, Ident
<1>5. NothingLost
  <2>. SUFFICES ASSUME NEW f \in there PROVE \E n \in Name : dir[n] = <<Old, f>>
    BY <1>1 DEF NothingLost
  <2>1. <<Public, f>> \in Name
    BY <1>3 DEF Name
  <2>2. dir[<<Public, f>>] = <<Old, f>>
    BY <1>1, <2>1
  <2>. QED  BY <2>1, <2>2
<1>6. Fresh \in Record
  BY DEF Fresh, Record, Stages, Steps, Content
<1>7. RecordsPlaced
  <2>1. \A p \in Procs : Placed(Fresh, Len(Work(p)))
    <3>. SUFFICES ASSUME NEW p \in Procs PROVE Placed(Fresh, Len(Work(p)))
      OBVIOUS
    <3>1. Len(Work(p)) \in Nat
      BY <1>2
    <3>2. /\ Fresh.pc = "idle" /\ Fresh.stage = "prepare" /\ Fresh.n = 0
          /\ Fresh.then = "next" /\ Fresh.i = 1
      BY DEF Fresh
    <3>. QED  BY <1>6, <3>1, <3>2 DEF Placed, Sane, Stopped, Continuations
  <2>. QED  BY <1>6, <2>1 DEF Init, RecordsPlaced
<1>8. Counted
  BY <1>2 DEF Init, Counted
<1>. QED  BY <1>4, <1>5, <1>7, <1>8 DEF Inv

LEMMA CountedKept ==
  ASSUME Inv, [Next]_vars PROVE Counted' /\ plan' = plan
<1>1. plan.mishaps \in Nat
  BY PlanFacts DEF Inv, Counted
<1>2. ASSUME UNCHANGED <<observed, mishaps>> PROVE Counted' /\ plan' = plan
  BY <1>2 DEF Inv, Counted, observed
<1>3. ASSUME Mishap, plan' = plan PROVE mishaps' \in 0..plan'.mishaps
  BY <1>1, <1>3 DEF Inv, Counted, Mishap
<1>4. CASE \E p \in Procs : Start(p)
  BY <1>4 DEF Start, Active, Inv, Counted
<1>5. CASE \E p \in Procs : Step(p)
  BY <1>2, <1>5 DEF Step
<1>6. CASE \E p \in Procs : Fault(p) \/ Kill(p)
  BY <1>3, <1>6 DEF Fault, Kill, observed, Inv, Counted
<1>7. CASE \E o \in Others, f \in Files : Visit(o, f)
  BY <1>3, <1>7 DEF Visit, Active, Inv, Counted
<1>8. CASE UNCHANGED vars
  BY <1>2, <1>8 DEF vars, observed
<1>. QED  BY <1>4, <1>5, <1>6, <1>7, <1>8 DEF Next, Overwrite, MoveAside

LEMMA NextInv == Inv /\ [Next]_vars => Inv'
<1>. SUFFICES ASSUME Inv, [Next]_vars PROVE RecordsPlaced' /\ Intact'
  BY CountedKept DEF Inv, Intact
<1>0. plan' = plan /\ Intact
  BY CountedKept DEF Inv, Intact
<1>1. ASSUME NEW p \in Procs, Start(p) \/ Fault(p) \/ Kill(p)
      PROVE  RecordsPlaced' /\ Intact'
  <2>1. Goes(p)
    BY <1>1, StartGoes, FaultGoes, KillGoes
  <2>2. UNCHANGED disk
    BY <1>1 DEF Start, Fault, Kill, Raise, disk
  <2>. QED  BY <1>0, <2>1, <2>2, GoesKeepsRecords, StillIntact
<1>2. ASSUME NEW p \in Procs, Step(p) PROVE RecordsPlaced' /\ Intact'
  BY <1>0, <1>2, StepGoes, StepKeeps, GoesKeepsRecords
<1>3. ASSUME tx' = tx PROVE RecordsPlaced'
  BY <1>0, <1>3 DEF Inv, RecordsPlaced, Work
<1>4. ASSUME NEW o \in Others, NEW f \in Files, Overwrite(o, f)
      PROVE  RecordsPlaced' /\ Intact'
  BY <1>3, <1>4, OverwriteKeeps DEF Overwrite, Visit
<1>5. ASSUME NEW o \in Others, NEW f \in Files, NEW new \in {<<o, f>>, None},
             MoveAside(o, f, new)
      PROVE  RecordsPlaced' /\ Intact'
  BY <1>3, <1>5, MoveAsideKeeps DEF MoveAside, Visit
<1>6. CASE UNCHANGED vars
  BY <1>0, <1>3, <1>6, StillIntact DEF vars, disk
<1>. QED  BY <1>1, <1>2, <1>4, <1>5, <1>6 DEF Next

LEMMA InvTyped == Inv => TypeOK
<1>. SUFFICES ASSUME Inv PROVE TypeOK
  OBVIOUS
<1>1. ASSUME NEW p \in Procs PROVE WellFormed(p)
  BY DEF Inv, RecordsPlaced, Placed, Sane, WellFormed, Active, Stopped
<1>. QED  BY <1>1 DEF Inv, DiskTyped, RecordsPlaced, Counted, TypeOK

LEMMA Invariance == Spec => []Inv
BY InitInv, NextInv, PTL DEF Spec

(* Whatever raises, is killed or is replaced by others: a process works on *)
(* one of its files, retires only what has a name, and publishes, rolls    *)
(* back and finalizes only when it has prepared every record.              *)
THEOREM TransactionTypes == Spec => []TypeOK
BY Invariance, InvTyped, PTL

(* publish_transaction and write_provenance_transaction destroy no file,   *)
(* whatever the number of transactions, of writers and of mishaps: only    *)
(* another writer overwrites one.                                          *)
THEOREM FilesKept == Spec => []NothingLost
<1>1. Inv => NothingLost
  BY DEF Inv
<1>. QED  BY <1>1, Invariance, PTL

-----------------------------------------------------------------------------
(* What each system call does to the record of its process, field by       *)
(* field: for the proofs about whole transactions in the third part.       *)

(* What an outcome leaves alone of a record.                               *)
Keeps(t, u) ==
  u.orig = t.orig /\ u.mode = t.mode /\ u.published = t.published /\ u.n = t.n

Marks(t, u) == u.passed = t.passed /\ u.hurt = t.hurt /\ u.left = t.left

(* A step of the same record.                                              *)
Stands(t, u) == Keeps(t, u) /\ Marks(t, u) /\ u.stage = t.stage /\ u.i = t.i

ClosesTo(t, u) ==
  /\ Keeps(t, u) /\ Marks(t, u) /\ u.then = "next"
  /\ \/ t.n = 0 /\ u.pc = "done" /\ u.stage = t.stage /\ u.i = t.i
     \/ t.n # 0 /\ u.pc = "close" /\ u.stage = "close" /\ u.i = 1

(* To another record of the same stage, or the end of the stage.           *)
WithinStage(t, u) ==
  /\ Marks(t, u) /\ u.stage = t.stage
  /\ \/ t.stage = "rollback" /\ t.i > 1 /\ u.i = t.i - 1 /\ u.pc = "undo"
     \/ t.stage = "publish" /\ t.i < t.n /\ u.i = t.i + 1 /\ u.pc = "check"
     \/ t.stage = "finalize" /\ t.i < t.n /\ u.i = t.i + 1 /\ u.pc = "finalize"
     \/ t.stage = "finalize" /\ t.i >= t.n /\ u.i = t.i /\ u.pc = "seal"
     \/ t.stage = "close" /\ t.i < t.n /\ u.i = t.i + 1 /\ u.pc = "close"
     \/ t.stage = "close" /\ t.i >= t.n /\ u.i = t.i /\ u.pc = "done"

Passes(t, u) ==
  /\ t.stage = "publish" /\ t.i >= t.n
  /\ u.stage = "finalize" /\ u.i = 1 /\ u.pc = "finalize" /\ u.passed
  /\ u.hurt = t.hurt /\ u.left = t.left

FollowsTo(t, u) ==
  \/ Keeps(t, u) /\ u.then = "next" /\ (WithinStage(t, u) \/ Passes(t, u))
  \/ t.stage = "rollback" /\ t.i <= 1 /\ ClosesTo(t, u)

(* An exception while publishing rolls back from the last record.          *)
Reverts(t, u) ==
  /\ Keeps(t, u) /\ Marks(t, u) /\ u.then = t.then
  /\ t.stage = "publish" /\ u.stage = "rollback" /\ u.i = t.n /\ u.pc = "undo"

(* An exception while rolling file f back, or while closing.               *)
Hurts(f, t, u) ==
  /\ Keeps(t, u) /\ u.then = "next" /\ u.hurt /\ u.passed = t.passed
  /\ u.left = IF t.stage = "rollback" THEN t.left \cup {f} ELSE t.left
  /\ \/ /\ t.stage = "rollback" /\ t.i > 1
        /\ u.stage = "rollback" /\ u.pc = "undo" /\ u.i = t.i - 1
     \/ /\ t.stage = "rollback" /\ t.i <= 1 /\ t.n # 0
        /\ u.stage = "close" /\ u.pc = "close" /\ u.i = 1
     \/ t.stage = "close" /\ u.stage = "close" /\ u.pc = "done" /\ u.i = t.i

(* An exception while finalizing: a seized file is looked for under the    *)
(* other names.                                                            *)
SeizesElsewhere(t, u) ==
  /\ t.stage = "finalize" /\ t.pc = "seize" /\ u.pc = "retire"
  /\ Stands(t, u) /\ u.then = t.then /\ u.goal = t.goal /\ u.keep = t.keep

FailsTo(f, t, u) ==
  \/ Reverts(t, u)
  \/ t.stage = "prepare" /\ ClosesTo(t, u)
  \/ t.stage \in {"rollback", "close"} /\ Hurts(f, t, u)
  \/ SeizesElsewhere(t, u)
  \/ t.stage = "finalize" /\ (FollowsTo(t, u) \/ ClosesTo(t, u))

RetiresTo(t, u, goal, keep, then) ==
  Stands(t, u) /\ u.pc = "retire" /\ u.goal = goal /\ u.keep = keep /\ u.then = then

TakesFrom(t, u, goal, keep, then, pc, target) ==
  /\ Stands(t, u) /\ u.pc = pc /\ u.target = target
  /\ u.goal = goal /\ u.keep = keep /\ u.then = then

ResumesTo(t, u) ==
  \/ t.then = "next" /\ FollowsTo(t, u)
  \/ t.then # "next" /\ Stands(t, u) /\ u.pc = t.then /\ u.then = "next" /\ u.spare = t.spare

LEMMA ClosingTo ==
  ASSUME NEW t \in Record, t.then = "next" PROVE ClosesTo(t, Closing(t))
<1>1. CASE t.n = 0
  <2>. DEFINE d == [t EXCEPT !.pc = "done"]
  <2>1. Stands(t, d) /\ d.pc = "done" /\ d.then = t.then
    BY DEF Record, Stands, Keeps, Marks
  <2>. QED  BY <1>1, <2>1 DEF Closing, ClosesTo, Stands
<1>2. CASE t.n # 0
  <2>. DEFINE d == [t EXCEPT !.stage = "close", !.i = 1, !.pc = "close"]
  <2>1. Keeps(t, d) /\ Marks(t, d) /\ d.stage = "close" /\ d.i = 1 /\ d.pc = "close"
        /\ d.then = t.then
    BY DEF Record, Keeps, Marks
  <2>. QED  BY <1>2, <2>1 DEF Closing, ClosesTo
<1>. QED  BY <1>1, <1>2

LEMMA FollowingTo ==
  ASSUME NEW t \in Record, t.then = "next", t.stage # "prepare"
  PROVE  FollowsTo(t, Following(t))
<1>. DEFINE next(pc) == [t EXCEPT !.i = @ + 1, !.pc = pc]
            back == [t EXCEPT !.i = @ - 1, !.pc = "undo"]
            to(pc) == [t EXCEPT !.pc = pc]
            final == [t EXCEPT !.stage = "finalize", !.passed = TRUE, !.i = 1, !.pc = "finalize"]
<1>0. t.i \in Nat /\ t.n \in Nat /\ t.stage \in Stages
  BY DEF Record
<1>1. ASSUME NEW pc
      PROVE  /\ Keeps(t, next(pc)) /\ Marks(t, next(pc)) /\ next(pc).stage = t.stage
             /\ next(pc).i = t.i + 1 /\ next(pc).pc = pc /\ next(pc).then = t.then
  BY DEF Record, Keeps, Marks
<1>2. ASSUME NEW pc
      PROVE  /\ Keeps(t, to(pc)) /\ Marks(t, to(pc)) /\ to(pc).stage = t.stage
             /\ to(pc).i = t.i /\ to(pc).pc = pc /\ to(pc).then = t.then
  BY DEF Record, Keeps, Marks
<1>3. /\ Keeps(t, back) /\ Marks(t, back) /\ back.stage = t.stage /\ back.i = t.i - 1
      /\ back.pc = "undo" /\ back.then = t.then
  BY DEF Record, Keeps, Marks
<1>4. /\ Keeps(t, final) /\ final.stage = "finalize" /\ final.i = 1 /\ final.pc = "finalize"
      /\ final.passed /\ final.hurt = t.hurt /\ final.left = t.left /\ final.then = t.then
  BY DEF Record, Keeps
<1>. HIDE DEF next, back, to, final
<1>5. CASE t.stage = "rollback" /\ t.i > 1
  <2>1. Following(t) = back
    BY <1>0, <1>5 DEF Following, back
  <2>. QED  BY <1>3, <1>5, <2>1 DEF FollowsTo, WithinStage
<1>6. CASE t.stage = "rollback" /\ t.i <= 1
  <2>1. Following(t) = Closing(t)
    BY <1>0, <1>6 DEF Following
  <2>. QED  BY <1>6, <2>1, ClosingTo DEF FollowsTo
<1>7. CASE t.stage # "rollback"
  <2>1. Following(t) = Onward(t)
    BY <1>7 DEF Following
  <2>2. CASE t.stage = "publish" /\ t.i < t.n
    <3>1. Onward(t) = next("check")
      BY <1>0, <2>2 DEF Onward, next
    <3>. QED  BY <1>1, <2>1, <2>2, <3>1 DEF FollowsTo, WithinStage
  <2>3. CASE t.stage = "publish" /\ t.i >= t.n
    <3>1. Onward(t) = final
      BY <1>0, <2>3 DEF Onward, final
    <3>. QED  BY <1>4, <2>1, <2>3, <3>1 DEF FollowsTo, Passes
  <2>4. CASE t.stage = "finalize" /\ t.i < t.n
    <3>1. Onward(t) = next("finalize")
      BY <1>0, <2>4 DEF Onward, next
    <3>. QED  BY <1>1, <2>1, <2>4, <3>1 DEF FollowsTo, WithinStage
  <2>5. CASE t.stage = "finalize" /\ t.i >= t.n
    <3>1. Onward(t) = to("seal")
      BY <1>0, <2>5 DEF Onward, to
    <3>. QED  BY <1>2, <2>1, <2>5, <3>1 DEF FollowsTo, WithinStage
  <2>6. CASE t.stage = "close" /\ t.i < t.n
    <3>1. Onward(t) = next("close")
      BY <1>0, <2>6 DEF Onward, next
    <3>. QED  BY <1>1, <2>1, <2>6, <3>1 DEF FollowsTo, WithinStage
  <2>7. CASE t.stage = "close" /\ ~(t.i < t.n)
    <3>1. Onward(t) = to("done")
      BY <1>0, <2>7 DEF Onward, to
    <3>2. t.i >= t.n
      BY <1>0, <2>7
    <3>. QED  BY <1>2, <2>1, <2>7, <3>1, <3>2 DEF FollowsTo, WithinStage
  <2>. QED  BY <1>0, <1>7, <2>2, <2>3, <2>4, <2>5, <2>6, <2>7 DEF Stages
<1>. QED  BY <1>0, <1>5, <1>6, <1>7

LEMMA SettledTo ==
  ASSUME NEW t \in Record
  PROVE  /\ Settled(t) \in Record /\ Stands(t, Settled(t)) /\ Settled(t).pc = t.pc
         /\ Settled(t).then = "next" /\ Settled(t).spare = t.spare
BY DEF Settled, Record, Content, Steps, Stands, Keeps, Marks

LEMMA ResumingTo ==
  ASSUME NEW t \in Record, t.stage # "prepare", NEW u, u = Resume(t)
  PROVE  ResumesTo(t, u)
<1>. DEFINE s == Settled(t)
            d == [s EXCEPT !.pc = t.then]
<1>1. s \in Record /\ Stands(t, s) /\ s.then = "next" /\ s.spare = t.spare
  BY SettledTo
<1>. HIDE DEF s
<1>2. CASE t.then = "next"
  <2>1. FollowsTo(s, u)
    BY <1>1, <1>2, FollowingTo DEF Resume, s, Stands
  <2>. QED  BY <1>1, <1>2, <2>1 DEF ResumesTo, FollowsTo, ClosesTo, WithinStage, Passes,
                                    Stands, Keeps, Marks
<1>3. CASE t.then # "next"
  <2>1. u = d
    BY <1>3 DEF Resume, s
  <2>2. Stands(s, d) /\ d.pc = t.then /\ d.then = s.then /\ d.spare = s.spare
    BY <1>1 DEF Record, Stands, Keeps, Marks
  <2>. HIDE DEF d
  <2>. QED  BY <1>1, <1>3, <2>1, <2>2 DEF ResumesTo, Stands, Keeps, Marks
<1>. QED  BY <1>2, <1>3

LEMMA FailingTo ==
  ASSUME NEW p, NEW t \in Record, t.stage = "rollback" => t.n # 0,
         Work(p)[t.i] \in Files, NEW u, u = Failed(p, t)
  PROVE  FailsTo(Work(p)[t.i], t, u)
<1>. DEFINE s == Settled(t)
            raised == Raised(t)
            left == Left(p, t)
            over == [raised EXCEPT !.pc = "done", !.hurt = TRUE]
            again == [t EXCEPT !.bad = TRUE, !.pc = "retire"]
            back == [t EXCEPT !.err = TRUE, !.stage = "rollback", !.i = t.n, !.pc = "undo"]
<1>1. s \in Record /\ Stands(t, s) /\ s.pc = t.pc /\ s.then = "next"
  BY SettledTo
<1>. HIDE DEF s
<1>2. /\ raised \in Record /\ Stands(s, raised) /\ raised.pc = s.pc
      /\ raised.then = s.then
  BY <1>1 DEF Record, Raised, Stands, Keeps, Marks, s
<1>. HIDE DEF raised
<1>3. /\ Stands(t, raised) /\ raised.then = "next" /\ raised.pc = t.pc
  BY <1>1, <1>2 DEF Stands, Keeps, Marks
<1>4. /\ left \in Record /\ left.hurt /\ left.passed = t.passed /\ Keeps(t, left)
      /\ left.left = t.left \cup {Work(p)[t.i]}
      /\ left.stage = t.stage /\ left.i = t.i /\ left.then = "next"
  BY <1>2, <1>3 DEF Record, Left, Stands, Keeps, Marks, raised
<1>5. /\ over.hurt /\ over.passed = t.passed /\ Keeps(t, over) /\ over.pc = "done"
      /\ over.left = t.left
      /\ over.stage = t.stage /\ over.i = t.i /\ over.then = "next"
  BY <1>2, <1>3 DEF Record, Stands, Keeps, Marks
<1>6. /\ Stands(t, again) /\ again.pc = "retire" /\ again.then = t.then
      /\ again.goal = t.goal /\ again.keep = t.keep
  BY DEF Record, Stands, Keeps, Marks
<1>7. /\ Keeps(t, back) /\ Marks(t, back) /\ back.then = t.then
      /\ back.stage = "rollback" /\ back.i = t.n /\ back.pc = "undo"
  BY DEF Record, Keeps, Marks
<1>. HIDE DEF left, over, again, back
<1>8. t.stage \in Stages /\ t.i \in Nat
  BY DEF Record
<1>9. CASE t.stage = "publish"
  BY <1>7, <1>9 DEF Failed, FailsTo, Reverts, back
<1>10. CASE t.stage = "prepare"
  <2>1. u = Closing(raised)
    BY <1>10 DEF Failed, FailedLate, raised
  <2>2. ClosesTo(raised, u)
    BY <1>2, <1>3, <2>1, ClosingTo
  <2>. QED  BY <1>3, <1>10, <2>2 DEF FailsTo, ClosesTo, Stands, Keeps, Marks
<1>11. CASE t.stage = "rollback"
  <2>1. u = Following(left)
    BY <1>11 DEF Failed, FailedLate, left
  <2>2. FollowsTo(left, u)
    BY <1>4, <1>11, <2>1, FollowingTo
  <2>3. Hurts(Work(p)[t.i], t, u)
    BY <1>4, <1>8, <1>11, <2>2
       DEF FollowsTo, ClosesTo, WithinStage, Passes, Hurts, Keeps, Marks
  <2>. QED  BY <1>11, <2>3 DEF FailsTo
<1>12. CASE t.stage = "finalize" /\ t.pc = "seize"
  <2>1. u = again
    BY <1>12 DEF Failed, FailedLate, FailedFinal, again
  <2>. QED  BY <1>6, <1>12, <2>1 DEF FailsTo, SeizesElsewhere
<1>13. CASE t.stage = "finalize" /\ t.pc # "seize"
  <2>1. u \in {Following(raised), Closing(raised)}
    BY <1>13 DEF Failed, FailedLate, FailedFinal, raised
  <2>2. raised.stage # "prepare"
    BY <1>3, <1>13 DEF Stands
  <2>3. FollowsTo(raised, u) \/ ClosesTo(raised, u)
    BY <1>2, <1>3, <2>1, <2>2, FollowingTo, ClosingTo
  <2>. QED  BY <1>3, <1>13, <2>3
               DEF FailsTo, FollowsTo, ClosesTo, WithinStage, Passes, Stands, Keeps, Marks
<1>14. CASE t.stage = "close"
  <2>1. u = over
    BY <1>14 DEF Failed, FailedLate, over, raised
  <2>. QED  BY <1>5, <1>14, <2>1 DEF FailsTo, Hurts
<1>. QED  BY <1>8, <1>9, <1>10, <1>11, <1>12, <1>13, <1>14 DEF Stages

----------------------------------------------------------------------------
(* The calls, as relations between the record t and the record u of process*)
(* p at work on file f, and between the directories d and e.               *)

Exchanged(d, a, b) == [d EXCEPT ![a] = d[b], ![b] = d[a]]

KeptName(f, d, x) == IF d[<<Public, f>>] = x THEN {<<Public, f>>} ELSE {}

Writes(p, f, len, t, u, d, e) ==
  /\ t.pc = "prepare" /\ d[<<p, f>>] = None /\ e = [d EXCEPT ![<<p, f>>] = <<p, f>>]
  /\ u.orig = [t.orig EXCEPT ![f] = d[<<Public, f>>]]
  /\ u.mode = t.mode /\ u.published = t.published /\ Marks(t, u)
  /\ u.n = t.i /\ u.then = t.then
  /\ \/ t.i < len /\ u.stage = "prepare" /\ u.pc = "prepare" /\ u.i = t.i + 1
     \/ t.i = len /\ u.stage = "publish" /\ u.pc = "check" /\ u.i = 1

Checks(f, t, u, d) ==
  /\ t.pc = "check" /\ d[<<Public, f>>] = t.orig[f]
  /\ u.orig = t.orig /\ u.published = t.published /\ u.n = t.n /\ Marks(t, u)
  /\ u.mode = [t.mode EXCEPT ![f] = IF t.orig[f] = None THEN "noreplace" ELSE "exchange"]
  /\ u.stage = t.stage /\ u.i = t.i /\ u.pc = "rename" /\ u.then = t.then

Exchanges(t, u, f) ==
  /\ u.orig = t.orig /\ u.mode = t.mode /\ u.n = t.n /\ Marks(t, u)
  /\ u.published = t.published \cup {f}
  /\ u.stage = t.stage /\ u.i = t.i /\ u.pc = "verify" /\ u.then = t.then

Publishes(p, f, t, u, d, e) ==
  /\ t.pc = "rename" /\ d[<<p, f>>] # None
  /\ (d[<<Public, f>>] # None) = (t.mode[f] = "exchange")
  /\ e = Exchanged(d, <<p, f>>, <<Public, f>>)
  /\ Exchanges(t, u, f)

Misses(p, f, t, u, d) ==
  /\ t.pc = "rename"
  /\ u.orig = t.orig /\ u.mode = t.mode /\ u.n = t.n /\ Marks(t, u) /\ u.then = t.then
  /\ \/ u.published = t.published
     \/ /\ u.published = t.published \cup {f}
        /\ \E n \in Name \ {<<p, f>>} : d[n] = <<p, f>>
  /\ u.stage = "rollback" /\ u.i = t.n /\ u.pc = "undo"

Verifies(p, f, t, u, d) ==
  /\ t.pc = "verify" /\ d[<<Public, f>>] = <<p, f>>
  /\ d[<<p, f>>] = IF t.mode[f] = "exchange" THEN t.orig[f] ELSE None
  /\ FollowsTo(t, u)

Turns(p, f, t, u, d) ==
  /\ t.pc = "undo" /\ f \in t.published /\ d[<<Public, f>>] = <<p, f>>
  /\ (d[<<p, f>>] # None) = (t.mode[f] = "exchange")
  /\ Stands(t, u) /\ u.pc = "back" /\ u.then = t.then

Abandons(p, f, t, u, d) ==
  /\ t.pc = "undo"
  /\ \/ f \notin t.published \/ d[<<Public, f>>] # <<p, f>>
     \/ t.mode[f] = "exchange" /\ d[<<p, f>>] = None
  /\ RetiresTo(t, u, <<p, f>>, {}, "tidy")
  /\ u.spare = KeptName(f, d, t.orig[f])

Restores(p, f, t, u, d, e) ==
  /\ t.pc = "back" /\ d[<<Public, f>>] # None
  /\ (d[<<p, f>>] # None) = (t.mode[f] = "exchange")
  /\ e = Exchanged(d, <<Public, f>>, <<p, f>>)
  /\ Stands(t, u) /\ u.pc = "undone" /\ u.then = t.then

Withdraws(p, f, t, u, d) ==
  /\ t.pc = "undone" /\ d[<<p, f>>] = <<p, f>>
  /\ TakesFrom(t, u, <<p, f>>, {}, IF t.mode[f] = "exchange" THEN "original" ELSE "next",
               "take", <<p, f>>)

Discards(f, t, u, d) ==
  t.pc = "original" /\ RetiresTo(t, u, t.orig[f], KeptName(f, d, t.orig[f]), "next")

Tidies(f, t, u) ==
  t.pc = "tidy" /\ RetiresTo(t, u, t.orig[f], t.spare, "owned")

Owns(p, f, t, u, d) ==
  t.pc = "owned" /\ d[<<p, f>>] \in {<<p, f>>, t.orig[f], None} /\ FollowsTo(t, u)

Skips(f, t, u) == t.pc = "finalize" /\ FollowsTo(t, u)

Seizes(p, f, t, u, d) ==
  /\ t.pc = "finalize" /\ t.mode[f] = "exchange" /\ d[<<p, f>>] = t.orig[f]
  /\ TakesFrom(t, u, t.orig[f], {}, "next", "seize", <<p, f>>)

Hunts(f, t, u, d) ==
  t.pc = "finalize" /\ RetiresTo(t, u, t.orig[f], KeptName(f, d, t.orig[f]), "next")

Seals(t, u) == t.pc = "seal" /\ ClosesTo(t, u)

Sweeps(p, f, t, u, d) ==
  t.pc = "close" /\ RetiresTo(t, u, <<p, f>>, KeptName(f, d, <<p, f>>), "next")

Picks(t, u, d) ==
  /\ t.pc = "retire" /\ t.goal # None
  /\ \E n \in Name \ t.keep :
       d[n] = t.goal /\ TakesFrom(t, u, t.goal, t.keep, t.then, "take", n)
  /\ u.spare = t.spare

Resumes(t, u, d) ==
  /\ t.pc = "retire" /\ \A n \in Name : d[n] = t.goal /\ t.goal # None => n \in t.keep
  /\ ResumesTo(t, u)

Takes(t, u, d, e) ==
  /\ t.pc \in {"seize", "take"} /\ d[t.target] # None
  /\ e = [d EXCEPT ![t.target] = None]
  /\ RetiresTo(t, u, t.goal, t.keep, t.then) /\ u.spare = t.spare

(* Every step of a process under way: what it does to the directory, or    *)
(* one that leaves it alone.                                               *)
Looks(p, f, t, u, d) ==
  \/ Checks(f, t, u, d) \/ Misses(p, f, t, u, d) \/ Verifies(p, f, t, u, d)
  \/ Turns(p, f, t, u, d) \/ Abandons(p, f, t, u, d) \/ Withdraws(p, f, t, u, d)
  \/ Discards(f, t, u, d) \/ Tidies(f, t, u) \/ Owns(p, f, t, u, d)
  \/ Skips(f, t, u) \/ Seizes(p, f, t, u, d) \/ Hunts(f, t, u, d) \/ Seals(t, u)
  \/ Sweeps(p, f, t, u, d) \/ Picks(t, u, d) \/ Resumes(t, u, d) \/ FailsTo(f, t, u)

Calls(p, f, len, t, u, d, e) ==
  \/ Writes(p, f, len, t, u, d, e)
  \/ Publishes(p, f, t, u, d, e)
  \/ Restores(p, f, t, u, d, e)
  \/ Takes(t, u, d, e)
  \/ Looks(p, f, t, u, d) /\ e = d

Called(p) == Calls(p, File(p), Len(Work(p)), tx[p], tx'[p], dir, dir')

(* Where the steps of each stage are, and what every stage has in common.  *)
Course(stage) ==
  CASE stage = "prepare"  -> {"idle", "prepare", "done", "killed"}
    [] stage = "publish"  -> {"check", "rename", "verify", "killed"}
    [] stage = "rollback" -> {"undo", "back", "undone", "original", "tidy", "owned",
                              "retire", "take", "killed"}
    [] stage = "finalize" -> {"finalize", "seize", "retire", "take", "seal", "killed"}
    [] OTHER              -> {"close", "retire", "take", "done", "killed"}

Controlled(t) ==
  /\ t.pc \in Course(t.stage)
  /\ t.stage \in {"prepare", "publish", "rollback"} => ~t.passed
  /\ t.stage = "finalize" => t.passed
  /\ t.hurt => t.stage \in {"rollback", "close"}
  /\ t.left # {} => t.hurt
  /\ t.pc \in {"idle", "prepare"} => t.n = t.i - 1
  /\ t.stage = "prepare" => t.published = {}
  /\ t.stage = "prepare" /\ t.pc = "done" => t.n = 0
  /\ t.stage # "prepare" => t.n # 0
  /\ t.stage = "close" => t.i <= t.n
  /\ t.then # "next" => t.stage = "rollback" /\ t.pc \in {"retire", "take", "killed"}

InControl == Inv /\ \A p \in Procs : Controlled(tx[p])

(* The new record of the process that acts.                                *)
LEMMA Going ==
  ASSUME Inv, NEW p \in Procs, NEW t, Go(p, t) PROVE tx'[p] = t
BY DEF Go, Inv, RecordsPlaced

(* The files of a process under way, as its plan lists them.               *)
LEMMA WorkFacts ==
  ASSUME InControl, NEW p \in Procs
  PROVE  /\ Work(p) \in Seq(Files) /\ Len(Work(p)) \in Nat
         /\ \A i, j \in 1..Len(Work(p)) : Work(p)[i] = Work(p)[j] => i = j
         /\ tx[p] \in Record /\ tx[p].n \in Nat /\ tx[p].n <= Len(Work(p))
         /\ \A j \in 1..tx[p].n : Work(p)[j] \in Files
<1>1. Work(p) \in Seq(Files) /\ Len(Work(p)) \in Nat /\ plan \in Plans
  BY PlanFacts DEF InControl, Inv, Counted
<1>2. \A i, j \in DOMAIN Work(p) : Work(p)[i] = Work(p)[j] => i = j
  BY <1>1, PlansTyped DEF Work
<1>3. tx[p] \in Record /\ tx[p].n \in Nat /\ tx[p].n <= Len(Work(p))
  BY DEF InControl, Inv, RecordsPlaced, Placed, Sane, Record
<1>. QED  BY <1>1, <1>2, <1>3

(* What holds of a process at work.                                        *)
LEMMA AtCall ==
  ASSUME InControl, NEW p \in Procs, tx[p].pc \notin Stopped
  PROVE  /\ tx[p] \in Record /\ Controlled(tx[p]) /\ AtWork(tx[p], Len(Work(p)))
         /\ Len(Work(p)) \in Nat /\ File(p) \in Files
         /\ dir \in [Name -> Content]
BY Working DEF InControl, Inv, DiskTyped

LEMMA RaisedCall ==
  ASSUME InControl, NEW p \in Procs, tx[p].pc \notin Stopped, Raise(p) PROVE Called(p)
<1>1. tx'[p] = Failed(p, tx[p]) /\ dir' = dir
  BY Going DEF Raise, InControl, disk
<1>2. tx[p] \in Record /\ (tx[p].stage = "rollback" => tx[p].n # 0)
  BY AtCall DEF Controlled
<1>3. FailsTo(File(p), tx[p], tx'[p])
  BY <1>1, <1>2, AtCall, FailingTo DEF File
<1>. QED  BY <1>1, <1>3 DEF Called, Calls, Looks

LEMMA PrepareCalled ==
  ASSUME InControl, NEW p \in Procs, Prepare(p) PROVE Called(p)
<1>. DEFINE f == File(p)
            len == Len(Work(p))
            t == [tx[p] EXCEPT !.orig[f] = dir[NameOf(p)], !.n = tx[p].i]
            next == [t EXCEPT !.i = @ + 1]
            begun == [t EXCEPT !.stage = "publish", !.i = 1, !.pc = "check"]
<1>0. tx[p].pc = "prepare" /\ tx[p].pc \notin Stopped
  BY DEF Prepare, At, Stopped
<1>1. /\ tx[p] \in Record /\ f \in Files /\ len \in Nat /\ tx[p].i \in 1..len
      /\ dir[NameOf(p)] \in Content /\ tx[p].stage = "prepare"
  <2>1. /\ tx[p] \in Record /\ f \in Files /\ len \in Nat /\ tx[p].i \in 1..len
        /\ dir[NameOf(p)] \in Content /\ Controlled(tx[p]) /\ tx[p].stage \in Stages
    BY <1>0, AtCall, Working DEF InControl, AtWork
  <2>. QED  BY <1>0, <2>1 DEF Controlled, Course, Stages
<1>2. /\ t \in Record /\ t.i = tx[p].i /\ t.n = tx[p].i /\ t.stage = "prepare"
      /\ t.pc = "prepare" /\ t.then = tx[p].then /\ Marks(tx[p], t)
      /\ t.orig = [tx[p].orig EXCEPT ![f] = dir[NameOf(p)]]
      /\ t.mode = tx[p].mode /\ t.published = tx[p].published
  BY <1>0, <1>1 DEF Record, Marks
<1>3. /\ dir[<<p, f>>] = None /\ dir' = [dir EXCEPT ![<<p, f>>] = <<p, f>>]
      /\ Go(p, IF t.i < len THEN next ELSE begun)
  BY DEF Prepare, Temporary, Candidate
<1>. HIDE DEF t
<1>4. CASE t.i < len
  <2>1. tx'[p] = next
    BY <1>3, <1>4, Going DEF InControl
  <2>2. Stands(t, [next EXCEPT !.i = t.i]) /\ next.i = t.i + 1 /\ next.pc = t.pc
        /\ Keeps(t, next) /\ Marks(t, next) /\ next.stage = t.stage /\ next.then = t.then
    BY <1>2 DEF Record, Stands, Keeps, Marks
  <2>. HIDE DEF next
  <2>3. Writes(p, f, len, tx[p], tx'[p], dir, dir')
    BY <1>0, <1>2, <1>3, <1>4, <2>1, <2>2 DEF Writes, Keeps, Marks, NameOf
  <2>. QED  BY <2>3 DEF Called, Calls
<1>5. CASE ~(t.i < len)
  <2>1. tx'[p] = begun
    BY <1>3, <1>5, Going DEF InControl
  <2>2. /\ Keeps(t, begun) /\ Marks(t, begun) /\ begun.stage = "publish" /\ begun.i = 1
        /\ begun.pc = "check" /\ begun.then = t.then
    BY <1>2 DEF Record, Keeps, Marks
  <2>. HIDE DEF begun
  <2>3. tx[p].i = len
    BY <1>1, <1>2, <1>5
  <2>4. Writes(p, f, len, tx[p], tx'[p], dir, dir')
    BY <1>0, <1>2, <1>3, <2>1, <2>2, <2>3 DEF Writes, Keeps, Marks, NameOf
  <2>. QED  BY <2>4 DEF Called, Calls
<1>. QED  BY <1>4, <1>5

LEMMA CheckCalled ==
  ASSUME InControl, NEW p \in Procs, Check(p) PROVE Called(p)
<1>. DEFINE m == IF Original(p) = None THEN "noreplace" ELSE "exchange"
            d == [tx[p] EXCEPT !.pc = "rename", !.mode[File(p)] = m]
<1>0. tx[p].pc = "check" /\ tx[p].pc \notin Stopped
  BY DEF Check, At, Stopped
<1>1. CASE Raise(p)
  BY <1>0, <1>1, RaisedCall
<1>2. CASE dir[NameOf(p)] = Original(p) /\ Go(p, d) /\ UNCHANGED disk
  <2>0. tx[p] \in Record /\ File(p) \in Files
    BY <1>0, AtCall
  <2>. HIDE DEF m
  <2>1. /\ d.pc = "rename" /\ d.i = tx[p].i /\ d.stage = tx[p].stage /\ d.n = tx[p].n
        /\ d.then = tx[p].then /\ Marks(tx[p], d) /\ d.orig = tx[p].orig
        /\ d.published = tx[p].published /\ d.mode = [tx[p].mode EXCEPT ![File(p)] = m]
    BY <2>0 DEF Record, Marks
  <2>2. tx'[p] = d /\ dir' = dir
    BY <1>2, Going DEF InControl, disk
  <2>. HIDE DEF d
  <2>3. Checks(File(p), tx[p], tx'[p], dir)
    BY <1>0, <1>2, <2>1, <2>2 DEF Checks, Marks, NameOf, Original, m
  <2>. QED  BY <2>2, <2>3 DEF Called, Calls, Looks
<1>. QED  BY <1>1, <1>2 DEF Check

LEMMA RenameCalled ==
  ASSUME InControl, NEW p \in Procs, Rename(p) PROVE Called(p)
<1>. DEFINE f == File(p)
            d == [tx[p] EXCEPT !.published = @ \cup {f}, !.pc = "verify"]
            s(moved) == [tx[p] EXCEPT !.published = IF moved THEN @ \cup {f} ELSE @]
            here == Aliases(Candidate(p), {})
            moved == NameOf(p) \in here \/ (here # {} /\ Temporary(p) \notin here)
<1>0. tx[p].pc = "rename" /\ tx[p].pc \notin Stopped
  BY DEF Rename, At, Stopped
<1>1. tx[p] \in Record /\ f \in Files /\ Controlled(tx[p]) /\ tx[p].stage \in Stages
  BY <1>0, AtCall DEF Record
<1>2. tx[p].stage = "publish"
  BY <1>0, <1>1 DEF Controlled, Course, Stages
<1>3. CASE /\ CanRename(p, Temporary(p), NameOf(p)) /\ Swap(Temporary(p), NameOf(p))
           /\ Go(p, d)
  <2>1. /\ d.orig = tx[p].orig /\ d.mode = tx[p].mode /\ d.n = tx[p].n /\ Marks(tx[p], d)
        /\ d.published = tx[p].published \cup {f} /\ d.stage = tx[p].stage
        /\ d.i = tx[p].i /\ d.pc = "verify" /\ d.then = tx[p].then
    BY <1>1 DEF Record, Marks
  <2>2. tx'[p] = d
    BY <1>3, Going DEF InControl
  <2>. HIDE DEF d
  <2>3. Exchanges(tx[p], tx'[p], f)
    BY <2>1, <2>2 DEF Exchanges
  <2>4. Publishes(p, f, tx[p], tx'[p], dir, dir')
    BY <1>0, <1>3, <2>3
       DEF Publishes, CanRename, Swap, Exchanged, Temporary, NameOf, Exchanging
  <2>. QED  BY <2>4 DEF Called, Calls
<1>4. CASE Go(p, Missed(p)) /\ UNCHANGED disk
  <2>1. tx'[p] = Failed(p, s(moved)) /\ dir' = dir
    BY <1>4, Going DEF InControl, disk, Missed
  <2>2. moved \in BOOLEAN
    OBVIOUS
  <2>3. moved => \E n \in Name \ {<<p, f>>} : dir[n] = <<p, f>>
    <3>1. NameOf(p) # <<p, f>>
      BY NamesApart DEF NameOf
    <3>2. \A n \in here : n \in Name /\ dir[n] = <<p, f>>
      BY DEF Aliases, Candidate
    <3>. QED  BY <3>1, <3>2 DEF Temporary
  <2>. HIDE DEF moved
  <2>4. /\ s(moved) \in Record /\ s(moved).stage = "publish" /\ s(moved).n = tx[p].n
        /\ s(moved).i = tx[p].i /\ s(moved).orig = tx[p].orig /\ s(moved).mode = tx[p].mode
        /\ Marks(tx[p], s(moved)) /\ s(moved).then = tx[p].then
        /\ s(moved).published = IF moved THEN tx[p].published \cup {f} ELSE tx[p].published
    BY <1>1, <1>2, <2>2 DEF Record, Marks
  <2>. HIDE DEF s
  <2>5. FailsTo(f, s(moved), tx'[p])
    BY <1>1, <2>1, <2>4, FailingTo DEF File
  <2>6. Reverts(s(moved), tx'[p])
    BY <2>4, <2>5 DEF FailsTo, SeizesElsewhere
  <2>7. Misses(p, f, tx[p], tx'[p], dir)
    BY <1>0, <2>3, <2>4, <2>6 DEF Misses, Reverts, Keeps, Marks
  <2>. QED  BY <2>1, <2>7 DEF Called, Calls, Looks
<1>. QED  BY <1>3, <1>4 DEF Rename

(* The record after a retirement was set up, and after a name was chosen.  *)
LEMMA RetiringTo ==
  ASSUME NEW t \in Record, NEW id, NEW keep, NEW then
  PROVE  /\ RetiresTo(t, Retiring(t, id, keep, then), id, keep, then)
         /\ Retiring(t, id, keep, then).spare = t.spare
         /\ Retiring(t, id, keep, then).bad = t.bad
BY DEF Retiring, RetiresTo, Record, Stands, Keeps, Marks

LEMMA TakingFrom ==
  ASSUME NEW t \in Record, NEW id, NEW then, NEW target, NEW pc,
         NEW u, u = [Retiring(t, id, {}, then) EXCEPT !.target = target, !.pc = pc]
  PROVE  TakesFrom(t, u, id, {}, then, pc, target)
BY DEF Retiring, TakesFrom, Record, Stands, Keeps, Marks

LEMMA ToStep ==
  ASSUME InControl, NEW p \in Procs, tx[p].pc \notin Stopped, NEW pc,
         Go(p, [tx[p] EXCEPT !.pc = pc])
  PROVE  Stands(tx[p], tx'[p]) /\ tx'[p].pc = pc /\ tx'[p].then = tx[p].then
<1>. DEFINE d == [tx[p] EXCEPT !.pc = pc]
<1>1. Stands(tx[p], d) /\ d.pc = pc /\ d.then = tx[p].then
  BY AtCall DEF Record, Stands, Keeps, Marks
<1>2. tx'[p] = d
  BY Going DEF InControl
<1>. QED  BY <1>1, <1>2

(* The next record, from a step at which no retirement is pending.         *)
LEMMA NextRecord ==
  ASSUME InControl, NEW p \in Procs, Go(p, Following(tx[p])),
         tx[p].pc \in Steps \ {"idle", "prepare", "done", "killed", "retire", "take"}
  PROVE  FollowsTo(tx[p], tx'[p])
<1>1. tx[p] \in Record /\ Controlled(tx[p]) /\ tx[p].stage \in Stages
  BY AtCall DEF Stopped, Record
<1>2. tx[p].then = "next" /\ tx[p].stage # "prepare"
  BY <1>1 DEF Controlled, Course
<1>. QED  BY <1>1, <1>2, FollowingTo, Going DEF InControl

LEMMA KeptNames ==
  ASSUME NEW p, NEW id
  PROVE  Preserved(p, id) = KeptName(File(p), dir, id)
BY DEF Preserved, KeptName, NameOf

LEMMA VerifyCalled ==
  ASSUME InControl, NEW p \in Procs, Verify(p) PROVE Called(p)
<1>0. tx[p].pc = "verify" /\ tx[p].pc \notin Stopped
  BY DEF Verify, At, Stopped
<1>1. CASE Raise(p)
  BY <1>0, <1>1, RaisedCall
<1>2. CASE /\ dir[NameOf(p)] = Candidate(p) /\ dir[Temporary(p)] = Displaced(p)
           /\ Go(p, Following(tx[p])) /\ UNCHANGED disk
  <2>1. FollowsTo(tx[p], tx'[p])
    BY <1>0, <1>2, NextRecord DEF Steps
  <2>2. Verifies(p, File(p), tx[p], tx'[p], dir)
    BY <1>0, <1>2, <2>1 DEF Verifies, NameOf, Candidate, Temporary, Displaced, Exchanging, Original
  <2>. QED  BY <1>2, <2>2 DEF Called, Calls, Looks, disk
<1>. QED  BY <1>1, <1>2 DEF Verify

LEMMA UndoCalled ==
  ASSUME InControl, NEW p \in Procs, Undo(p) PROVE Called(p)
<1>. DEFINE d == [tx[p] EXCEPT !.spare = Preserved(p, Original(p))]
            f == File(p)
<1>0. tx[p].pc = "undo" /\ tx[p].pc \notin Stopped /\ dir' = dir
  BY DEF Undo, At, Stopped, disk
<1>1. CASE Go(p, Failed(p, tx[p]))
  <2>1. Raise(p)
    BY <1>1 DEF Undo, Raise
  <2>. QED  BY <1>0, <2>1, RaisedCall
<1>2. CASE /\ InPlace(p) /\ (dir[Temporary(p)] # None) = Exchanging(p)
           /\ Go(p, [tx[p] EXCEPT !.pc = "back"])
  <2>1. Turns(p, f, tx[p], tx'[p], dir)
    BY <1>0, <1>2, ToStep DEF Turns, InPlace, Temporary, Exchanging, NameOf, Candidate
  <2>. QED  BY <1>0, <2>1 DEF Called, Calls, Looks
<1>3. CASE /\ ~InPlace(p) \/ (Exchanging(p) /\ ~(dir[Temporary(p)] # None))
           /\ Go(p, Retiring(d, Candidate(p), {}, "tidy"))
  <2>1. tx[p] \in Record /\ Preserved(p, Original(p)) \in SUBSET Name
    BY <1>0, AtCall, PreservedNames DEF InControl
  <2>2. d \in Record /\ Stands(tx[p], d) /\ d.spare = Preserved(p, Original(p))
    BY <2>1 DEF Record, Stands, Keeps, Marks
  <2>3. tx'[p] = Retiring(d, Candidate(p), {}, "tidy")
    BY <1>3, Going DEF InControl
  <2>. HIDE DEF d
  <2>4. RetiresTo(d, tx'[p], Candidate(p), {}, "tidy") /\ tx'[p].spare = d.spare
    BY <2>2, <2>3, RetiringTo
  <2>5. /\ RetiresTo(tx[p], tx'[p], <<p, f>>, {}, "tidy")
        /\ tx'[p].spare = KeptName(f, dir, tx[p].orig[f])
    BY <2>2, <2>4, KeptNames DEF RetiresTo, Stands, Keeps, Marks, Candidate, Original
  <2>6. Abandons(p, f, tx[p], tx'[p], dir)
    BY <1>0, <1>3, <2>5 DEF Abandons, InPlace, Temporary, Exchanging, NameOf, Candidate
  <2>. QED  BY <1>0, <2>6 DEF Called, Calls, Looks
<1>. QED  BY <1>1, <1>2, <1>3 DEF Undo

LEMMA BackCalled ==
  ASSUME InControl, NEW p \in Procs, Back(p) PROVE Called(p)
<1>0. tx[p].pc = "back" /\ tx[p].pc \notin Stopped
  BY DEF Back, At, Stopped
<1>1. CASE Raise(p)
  BY <1>0, <1>1, RaisedCall
<1>2. CASE /\ CanRename(p, NameOf(p), Temporary(p)) /\ Swap(NameOf(p), Temporary(p))
           /\ Go(p, [tx[p] EXCEPT !.pc = "undone"])
  <2>1. Restores(p, File(p), tx[p], tx'[p], dir, dir')
    BY <1>0, <1>2, ToStep
       DEF Restores, CanRename, Swap, Exchanged, Temporary, NameOf, Exchanging
  <2>. QED  BY <2>1 DEF Called, Calls
<1>. QED  BY <1>1, <1>2 DEF Back

LEMMA UndoneCalled ==
  ASSUME InControl, NEW p \in Procs, Undone(p) PROVE Called(p)
<1>. DEFINE then == IF Exchanging(p) THEN "original" ELSE "next"
<1>0. tx[p].pc = "undone" /\ tx[p].pc \notin Stopped
  BY DEF Undone, At, Stopped
<1>1. CASE Raise(p)
  BY <1>0, <1>1, RaisedCall
<1>2. CASE /\ dir[Temporary(p)] = Candidate(p)
           /\ Go(p, [Retiring(tx[p], Candidate(p), {}, then)
                      EXCEPT !.target = Temporary(p), !.pc = "take"])
           /\ UNCHANGED disk
  <2>1. TakesFrom(tx[p], tx'[p], Candidate(p), {}, then, "take", Temporary(p))
    BY <1>0, <1>2, AtCall, Going, TakingFrom DEF InControl
  <2>2. Withdraws(p, File(p), tx[p], tx'[p], dir)
    BY <1>0, <1>2, <2>1 DEF Withdraws, Candidate, Temporary, Exchanging
  <2>. QED  BY <1>2, <2>2 DEF Called, Calls, Looks, disk
<1>. QED  BY <1>1, <1>2 DEF Undone

LEMMA RetireOriginalCalled ==
  ASSUME InControl, NEW p \in Procs, RetireOriginal(p) PROVE Called(p)
<1>0. tx[p].pc = "original" /\ tx[p].pc \notin Stopped /\ dir' = dir
  BY DEF RetireOriginal, At, Stopped, disk
<1>1. tx'[p] = Retiring(tx[p], Original(p), Preserved(p, Original(p)), "next")
  BY Going DEF InControl, RetireOriginal
<1>2. RetiresTo(tx[p], tx'[p], tx[p].orig[File(p)], KeptName(File(p), dir, tx[p].orig[File(p)]),
                "next")
  BY <1>0, <1>1, AtCall, RetiringTo, KeptNames DEF Original
<1>. QED  BY <1>0, <1>2 DEF Called, Calls, Looks, Discards

LEMMA TidyCalled ==
  ASSUME InControl, NEW p \in Procs, Tidy(p) PROVE Called(p)
<1>. DEFINE d == [tx[p] EXCEPT !.spare = {}]
<1>0. tx[p].pc = "tidy" /\ tx[p].pc \notin Stopped /\ dir' = dir
  BY DEF Tidy, At, Stopped, disk
<1>1. d \in Record /\ Stands(tx[p], d)
  BY <1>0, AtCall DEF Record, Stands, Keeps, Marks
<1>2. tx'[p] = Retiring(d, Original(p), tx[p].spare, "owned")
  BY Going DEF InControl, Tidy
<1>. HIDE DEF d
<1>3. RetiresTo(d, tx'[p], Original(p), tx[p].spare, "owned")
  BY <1>1, <1>2, RetiringTo
<1>4. Tidies(File(p), tx[p], tx'[p])
  BY <1>0, <1>1, <1>3 DEF Tidies, RetiresTo, Stands, Keeps, Marks, Original
<1>. QED  BY <1>0, <1>4 DEF Called, Calls, Looks

LEMMA OwnedCalled ==
  ASSUME InControl, NEW p \in Procs, Owned(p) PROVE Called(p)
<1>0. tx[p].pc = "owned" /\ tx[p].pc \notin Stopped
  BY DEF Owned, At, Stopped
<1>1. CASE Raise(p)
  BY <1>0, <1>1, RaisedCall
<1>2. CASE /\ dir[Temporary(p)] \in {Candidate(p), Original(p), None}
           /\ Go(p, Following(tx[p])) /\ UNCHANGED disk
  <2>1. FollowsTo(tx[p], tx'[p])
    BY <1>0, <1>2, NextRecord DEF Steps
  <2>2. Owns(p, File(p), tx[p], tx'[p], dir)
    BY <1>0, <1>2, <2>1 DEF Owns, Candidate, Temporary, Original
  <2>. QED  BY <1>2, <2>2 DEF Called, Calls, Looks, disk
<1>. QED  BY <1>1, <1>2 DEF Owned

LEMMA FinalizeCalled ==
  ASSUME InControl, NEW p \in Procs, Finalize(p) PROVE Called(p)
<1>. DEFINE f == File(p)
            t == Retiring(tx[p], Original(p), Preserved(p, Original(p)), "next")
            d == [t EXCEPT !.bad = TRUE]
<1>0. tx[p].pc = "finalize" /\ tx[p].pc \notin Stopped /\ dir' = dir
  BY DEF Finalize, At, Stopped, disk
<1>1. CASE Go(p, Following(tx[p]))
  <2>1. FollowsTo(tx[p], tx'[p])
    BY <1>0, <1>1, NextRecord DEF Steps
  <2>. QED  BY <1>0, <2>1 DEF Called, Calls, Looks, Skips
<1>2. CASE /\ Exchanging(p) /\ dir[Temporary(p)] = Original(p)
           /\ Go(p, [Retiring(tx[p], Original(p), {}, "next")
                      EXCEPT !.target = Temporary(p), !.pc = "seize"])
  <2>1. TakesFrom(tx[p], tx'[p], Original(p), {}, "next", "seize", Temporary(p))
    BY <1>0, <1>2, AtCall, Going, TakingFrom DEF InControl
  <2>2. Seizes(p, f, tx[p], tx'[p], dir)
    BY <1>0, <1>2, <2>1 DEF Seizes, Original, Temporary, Exchanging
  <2>. QED  BY <1>0, <2>2 DEF Called, Calls, Looks
<1>3. CASE Go(p, d)
  <2>1. RetiresTo(tx[p], t, Original(p), Preserved(p, Original(p)), "next") /\ t.bad = tx[p].bad
    BY <1>0, AtCall, RetiringTo
  <2>2. tx'[p] = d
    BY <1>3, Going DEF InControl
  <2>3. /\ Stands(t, d) /\ d.pc = t.pc /\ d.goal = t.goal /\ d.keep = t.keep
        /\ d.then = t.then
    BY <1>0, AtCall DEF Retiring, Record, Stands, Keeps, Marks
  <2>. HIDE DEF d, t
  <2>4. Hunts(f, tx[p], tx'[p], dir)
    BY <1>0, <2>1, <2>2, <2>3, KeptNames DEF Hunts, RetiresTo, Stands, Keeps, Marks, Original
  <2>. QED  BY <1>0, <2>4 DEF Called, Calls, Looks
<1>. QED  BY <1>1, <1>2, <1>3 DEF Finalize

LEMMA SealCalled ==
  ASSUME InControl, NEW p \in Procs, Seal(p) PROVE Called(p)
<1>0. tx[p].pc = "seal" /\ tx[p].pc \notin Stopped /\ dir' = dir
  BY DEF Seal, At, Stopped, disk
<1>1. tx[p] \in Record /\ tx[p].then = "next"
  BY <1>0, AtCall DEF Controlled
<1>2. ClosesTo(tx[p], tx'[p])
  BY <1>1, ClosingTo, Going DEF InControl, Seal
<1>. QED  BY <1>0, <1>2 DEF Called, Calls, Looks, Seals

LEMMA CloseCalled ==
  ASSUME InControl, NEW p \in Procs, Close(p) PROVE Called(p)
<1>0. tx[p].pc = "close" /\ tx[p].pc \notin Stopped /\ dir' = dir
  BY DEF Close, At, Stopped, disk
<1>1. tx'[p] = Retiring(tx[p], Candidate(p), Preserved(p, Candidate(p)), "next")
  BY Going DEF InControl, Close
<1>2. RetiresTo(tx[p], tx'[p], <<p, File(p)>>, KeptName(File(p), dir, <<p, File(p)>>), "next")
  BY <1>0, <1>1, AtCall, RetiringTo, KeptNames DEF Candidate
<1>. QED  BY <1>0, <1>2 DEF Called, Calls, Looks, Sweeps

LEMMA RetireCalled ==
  ASSUME InControl, NEW p \in Procs, Retire(p) PROVE Called(p)
<1>0. tx[p].pc = "retire" /\ tx[p].pc \notin Stopped /\ dir' = dir
  BY DEF Retire, At, Stopped, disk
<1>1. tx[p] \in Record /\ Controlled(tx[p]) /\ tx[p].stage \in Stages
  BY <1>0, AtCall DEF Record
<1>2. ASSUME NEW alias \in Aliases(tx[p].goal, tx[p].keep),
             Go(p, [tx[p] EXCEPT !.target = alias, !.pc = "take"])
      PROVE  Called(p)
  <2>. DEFINE d == [tx[p] EXCEPT !.target = alias, !.pc = "take"]
  <2>1. /\ TakesFrom(tx[p], d, tx[p].goal, tx[p].keep, tx[p].then, "take", alias)
        /\ d.spare = tx[p].spare
    BY <1>1 DEF Record, TakesFrom, Stands, Keeps, Marks
  <2>2. tx'[p] = d
    BY <1>2, Going DEF InControl
  <2>. HIDE DEF d
  <2>3. alias \in Name \ tx[p].keep /\ dir[alias] = tx[p].goal /\ tx[p].goal # None
    BY DEF Aliases
  <2>4. Picks(tx[p], tx'[p], dir)
    BY <1>0, <2>1, <2>2, <2>3 DEF Picks
  <2>. QED  BY <1>0, <2>4 DEF Called, Calls, Looks
<1>3. CASE Go(p, Failed(p, tx[p]))
  <2>1. Raise(p)
    BY <1>3 DEF Retire, Raise
  <2>. QED  BY <1>0, <2>1, RaisedCall
<1>4. CASE Aliases(tx[p].goal, tx[p].keep) = {} /\ Go(p, Resume(tx[p]))
  <2>1. tx[p].stage # "prepare"
    BY <1>0, <1>1 DEF Controlled, Course
  <2>2. ResumesTo(tx[p], tx'[p])
    BY <1>1, <1>4, <2>1, ResumingTo, Going DEF InControl
  <2>3. \A n \in Name : dir[n] = tx[p].goal /\ tx[p].goal # None => n \in tx[p].keep
    BY <1>4 DEF Aliases
  <2>. QED  BY <1>0, <2>2, <2>3 DEF Called, Calls, Looks, Resumes
<1>. QED  BY <1>2, <1>3, <1>4 DEF Retire

LEMMA TakeCalled ==
  ASSUME InControl, NEW p \in Procs, Take(p) PROVE Called(p)
<1>. DEFINE m == tx[p].bad \/ dir[tx[p].target] # tx[p].goal
            d == [tx[p] EXCEPT !.bad = m, !.pc = "retire"]
<1>0. tx[p].pc \in {"seize", "take"} /\ tx[p].pc \notin Stopped
  BY DEF Take, Stopped
<1>1. CASE Raise(p)
  BY <1>0, <1>1, RaisedCall
<1>2. CASE /\ dir[tx[p].target] # None /\ dir' = [dir EXCEPT ![tx[p].target] = None]
           /\ Go(p, d)
  <2>0. tx[p] \in Record /\ m \in BOOLEAN
    BY <1>0, AtCall DEF Record
  <2>. HIDE DEF m
  <2>1. RetiresTo(tx[p], d, tx[p].goal, tx[p].keep, tx[p].then) /\ d.spare = tx[p].spare
    BY <2>0 DEF Record, RetiresTo, Stands, Keeps, Marks
  <2>2. tx'[p] = d
    BY <1>2, Going DEF InControl
  <2>. HIDE DEF d
  <2>3. Takes(tx[p], tx'[p], dir, dir')
    BY <1>0, <1>2, <2>1, <2>2 DEF Takes
  <2>. QED  BY <2>3 DEF Called, Calls
<1>. QED  BY <1>1, <1>2 DEF Take

LEMMA StepCalled ==
  ASSUME InControl, NEW p \in Procs, Step(p) PROVE Called(p)
BY PrepareCalled, CheckCalled, RenameCalled, VerifyCalled, UndoCalled, BackCalled,
   UndoneCalled, RetireOriginalCalled, TidyCalled, OwnedCalled, FinalizeCalled, SealCalled,
   CloseCalled, RetireCalled, TakeCalled
   DEF Step

LEMMA FaultCalled ==
  ASSUME InControl, NEW p \in Procs, Fault(p) PROVE Called(p)
BY RaisedCall DEF Fault, Active, Stopped

LEMMA StartsTo ==
  ASSUME InControl, NEW p \in Procs, Start(p)
  PROVE  Stands(tx[p], tx'[p]) /\ tx'[p].pc = "prepare" /\ tx'[p].then = tx[p].then
<1>. DEFINE d == [tx[p] EXCEPT !.pc = "prepare"]
<1>1. Stands(tx[p], d) /\ d.pc = "prepare" /\ d.then = tx[p].then
  BY DEF Record, Stands, Keeps, Marks, InControl, Inv, RecordsPlaced
<1>2. tx'[p] = d
  BY Going DEF InControl, Start
<1>. QED  BY <1>1, <1>2

LEMMA KillsTo ==
  ASSUME InControl, NEW p \in Procs, Kill(p)
  PROVE  Stands(tx[p], tx'[p]) /\ tx'[p].pc = "killed" /\ tx'[p].then = tx[p].then
BY ToStep DEF Kill, Active, Stopped

----------------------------------------------------------------------------
(* Control.                                                                *)

LEMMA FollowControlled ==
  ASSUME NEW t \in Record, NEW u, Controlled(t), t.stage # "prepare",
         FollowsTo(t, u) \/ ClosesTo(t, u)
  PROVE  Controlled(u)
<1>1. t.n \in Nat /\ t.i \in Nat
  BY DEF Record
<1>2. CASE ClosesTo(t, u)
  BY <1>1, <1>2 DEF ClosesTo, Controlled, Course, Keeps, Marks
<1>3. CASE Keeps(t, u) /\ u.then = "next" /\ WithinStage(t, u)
  BY <1>1, <1>3 DEF WithinStage, Controlled, Course, Keeps, Marks
<1>4. CASE Keeps(t, u) /\ u.then = "next" /\ Passes(t, u)
  BY <1>4 DEF Passes, Controlled, Course, Keeps, Marks
<1>. QED  BY <1>2, <1>3, <1>4 DEF FollowsTo

LEMMA FailControlled ==
  ASSUME NEW f, NEW t \in Record, NEW u, Controlled(t), t.pc \notin Stopped, FailsTo(f, t, u)
  PROVE  Controlled(u)
<1>0. t.n \in Nat /\ t.i \in Nat
  BY DEF Record
<1>1. CASE Reverts(t, u)
  BY <1>1 DEF Reverts, Controlled, Course, Keeps, Marks
<1>2. CASE t.stage = "prepare" /\ ClosesTo(t, u)
  BY <1>0, <1>2 DEF ClosesTo, Controlled, Course, Keeps, Marks
<1>3. CASE t.stage \in {"rollback", "close"} /\ Hurts(f, t, u)
  BY <1>0, <1>3 DEF Hurts, Controlled, Course, Keeps
<1>4. CASE SeizesElsewhere(t, u)
  BY <1>4 DEF SeizesElsewhere, Controlled, Course, Stands, Keeps, Marks
<1>5. CASE t.stage = "finalize" /\ (FollowsTo(t, u) \/ ClosesTo(t, u))
  BY <1>5, FollowControlled
<1>. QED  BY <1>1, <1>2, <1>3, <1>4, <1>5 DEF FailsTo

LEMMA CallControlled ==
  ASSUME NEW p, NEW f, NEW len \in Nat, NEW t, AtWork(t, len), NEW u, NEW d, NEW e,
         Controlled(t), t.pc \notin Stopped, Calls(p, f, len, t, u, d, e)
  PROVE  Controlled(u)
<1>1. t \in Record /\ t.i \in 1..len /\ t.then \in Continuations /\ t.stage \in Stages
  BY DEF AtWork, Sane, Record
<1>2. CASE Writes(p, f, len, t, u, d, e)
  BY <1>1, <1>2 DEF Writes, Controlled, Course, Marks, Stages
<1>3. CASE Publishes(p, f, t, u, d, e)
  BY <1>1, <1>3 DEF Publishes, Exchanges, Controlled, Course, Marks, Stages
<1>4. CASE Restores(p, f, t, u, d, e)
  BY <1>1, <1>4 DEF Restores, Controlled, Course, Stands, Keeps, Marks, Stages
<1>5. CASE Takes(t, u, d, e)
  BY <1>1, <1>5 DEF Takes, RetiresTo, Controlled, Course, Stands, Keeps, Marks, Stages
<1>6. CASE Checks(f, t, u, d)
  BY <1>1, <1>6 DEF Checks, Controlled, Course, Marks, Stages
<1>7. CASE Misses(p, f, t, u, d)
  BY <1>1, <1>7 DEF Misses, Controlled, Course, Marks, Stages
<1>8. CASE Verifies(p, f, t, u, d) \/ Owns(p, f, t, u, d) \/ Skips(f, t, u) \/ Seals(t, u)
  <2>1. t.stage # "prepare"
    BY <1>1, <1>8 DEF Verifies, Owns, Skips, Seals, Controlled, Course
  <2>. QED  BY <1>1, <1>8, <2>1, FollowControlled DEF Verifies, Owns, Skips, Seals
<1>9. CASE Turns(p, f, t, u, d)
  BY <1>1, <1>9 DEF Turns, Controlled, Course, Stands, Keeps, Marks, Stages
<1>10. CASE Abandons(p, f, t, u, d) \/ Discards(f, t, u, d) \/ Tidies(f, t, u)
            \/ Hunts(f, t, u, d) \/ Sweeps(p, f, t, u, d)
  BY <1>1, <1>10 DEF Abandons, Discards, Tidies, Hunts, Sweeps, RetiresTo, Controlled, Course,
                     Stands, Keeps, Marks, Stages
<1>11. CASE Withdraws(p, f, t, u, d) \/ Seizes(p, f, t, u, d)
  BY <1>1, <1>11 DEF Withdraws, Seizes, TakesFrom, Controlled, Course, Stands, Keeps, Marks,
                     Stages
<1>12. CASE Picks(t, u, d)
  BY <1>1, <1>12 DEF Picks, TakesFrom, Controlled, Course, Stands, Keeps, Marks, Stages
<1>13. CASE Resumes(t, u, d)
  <2>1. t.stage # "prepare"
    BY <1>1, <1>13 DEF Resumes, Controlled, Course
  <2>2. CASE FollowsTo(t, u)
    BY <1>1, <2>1, <2>2, FollowControlled
  <2>3. CASE t.then # "next" /\ Stands(t, u) /\ u.pc = t.then /\ u.then = "next"
    BY <1>1, <2>3 DEF Controlled, Course, Stands, Keeps, Marks, Continuations
  <2>. QED  BY <1>13, <2>2, <2>3 DEF Resumes, ResumesTo
<1>14. CASE FailsTo(f, t, u)
  BY <1>1, <1>14, FailControlled
<1>. QED  BY <1>2, <1>3, <1>4, <1>5, <1>6, <1>7, <1>8, <1>9, <1>10, <1>11, <1>12, <1>13, <1>14
          DEF Calls, Looks

(* A process takes a step: its record alone changes, and nobody else acts. *)
Acts(p) ==
  /\ tx[p].pc \notin Stopped /\ Called(p)
  /\ \A q \in Procs \ {p} : tx'[q] = tx[q]
  /\ UNCHANGED observed

LEMMA Acting ==
  ASSUME InControl, NEW p \in Procs, Step(p) \/ Fault(p) PROVE Acts(p)
<1>1. Called(p)
  BY StepCalled, FaultCalled
<1>2. tx[p].pc \notin Stopped
  BY DEF Step, Fault, Active, Stopped, Prepare, Check, Rename, Verify, Undo, Back, Undone,
         RetireOriginal, Tidy, Owned, Finalize, Seal, Close, Retire, Take, At
<1>3. \E t : Go(p, t)
  BY StepGoes, FaultGoes DEF Goes, InControl
<1>4. \A q \in Procs \ {p} : tx'[q] = tx[q]
  BY <1>3 DEF Go, InControl, Inv, RecordsPlaced
<1>5. UNCHANGED observed
  BY DEF Step, Fault
<1>. QED  BY <1>1, <1>2, <1>4, <1>5 DEF Acts

LEMMA OthersKept ==
  ASSUME InControl, NEW p \in Procs, Start(p) \/ Kill(p)
  PROVE  \A q \in Procs \ {p} : tx'[q] = tx[q]
BY DEF Start, Kill, Go, InControl, Inv, RecordsPlaced

LEMMA InitControl == Init => InControl
<1>. SUFFICES ASSUME Init PROVE InControl
  OBVIOUS
<1>1. Controlled(Fresh)
  BY DEF Fresh, Controlled, Course
<1>. QED  BY <1>1, InitInv DEF Init, InControl

LEMMA NextControl == InControl /\ [Next]_vars => InControl'
<1>. SUFFICES ASSUME InControl, [Next]_vars PROVE \A p \in Procs : Controlled(tx'[p])
  BY NextInv DEF InControl
<1>1. \A p \in Procs : Controlled(tx[p])
  BY DEF InControl
<1>2. CASE tx' = tx
  BY <1>1, <1>2
<1>3. ASSUME NEW p \in Procs, Step(p) \/ Fault(p) PROVE \A q \in Procs : Controlled(tx'[q])
  <2>1. Acts(p)
    BY <1>3, Acting
  <2>2. Controlled(tx'[p])
    BY <1>1, <2>1, AtCall, CallControlled DEF Acts, Called
  <2>. QED  BY <1>1, <2>1, <2>2 DEF Acts
<1>4. ASSUME NEW p \in Procs, Start(p) PROVE \A q \in Procs : Controlled(tx'[q])
  <2>1. Controlled(tx[p]) /\ tx[p].pc = "idle" /\ tx[p].stage = "prepare" /\ tx[p].n = tx[p].i - 1
        /\ tx[p].then = "next"
    BY <1>1, <1>4 DEF Start, At, Controlled, InControl, Inv, RecordsPlaced, Placed
  <2>2. Controlled(tx'[p])
    BY <1>4, <2>1, StartsTo DEF Controlled, Course, Stands, Keeps, Marks
  <2>. QED  BY <1>1, <1>4, <2>2, OthersKept
<1>5. ASSUME NEW p \in Procs, Kill(p) PROVE \A q \in Procs : Controlled(tx'[q])
  <2>1. Controlled(tx[p]) /\ tx[p].stage \in Stages
    BY <1>1 DEF InControl, Inv, RecordsPlaced, Record
  <2>2. Controlled(tx'[p])
    BY <1>5, <2>1, KillsTo DEF Controlled, Course, Stands, Keeps, Marks, Stages
  <2>. QED  BY <1>1, <1>5, <2>2, OthersKept
<1>. QED  BY <1>2, <1>3, <1>4, <1>5 DEF Next, Overwrite, MoveAside, Visit, vars

----------------------------------------------------------------------------
(* The directory.                                                          *)

(* A file without a name.                                                  *)
Vanished(d, x) == \A n \in Name : d[n] # x

(* A call moves files between its temporary name and the public one, and   *)
(* makes no file but its candidate.                                        *)
LEMMA CallMoves ==
  ASSUME NEW p, NEW f, NEW len, NEW t, NEW u, NEW d, NEW e, Calls(p, f, len, t, u, d, e),
         p \in Procs, f \in Files, d \in [Name -> Content],
         t.pc \in {"seize", "take"} => t.target \in Name
  PROVE  \A n \in Name :
           \/ e[n] = None
           \/ e[n] = <<p, f>> /\ n = <<p, f>> /\ t.pc = "prepare"
           \/ \E m \in Name : d[m] = e[n] /\ (m = n \/ m \in {<<p, f>>, <<Public, f>>})
<1>. DEFINE a == <<p, f>>
            b == <<Public, f>>
<1>1. a \in Name /\ b \in Name /\ a # b
  BY NamesApart DEF Name
<1>. HIDE DEF a, b
<1>2. CASE Writes(p, f, len, t, u, d, e)
  BY <1>1, <1>2 DEF Writes, a
<1>3. CASE e = Exchanged(d, a, b) \/ e = Exchanged(d, b, a)
  <2>1. /\ e[a] = d[b] /\ e[b] = d[a]
        /\ \A n \in Name \ {a, b} : e[n] = d[n]
    BY <1>1, <1>3 DEF Exchanged
  <2>. QED  BY <1>1, <2>1 DEF a, b
<1>4. CASE Takes(t, u, d, e)
  BY <1>4 DEF Takes
<1>5. CASE e = d
  BY <1>5
<1>. QED  BY <1>2, <1>3, <1>4, <1>5 DEF Calls, Publishes, Restores, a, b

LEMMA VisitMoves ==
  ASSUME Inv, NEW o \in Others, NEW f \in Files,
         Overwrite(o, f) \/ \E new \in {<<o, f>>, None} : MoveAside(o, f, new)
  PROVE  \A n \in Name :
           \/ dir'[n] = None
           \/ dir'[n] = <<o, f>> /\ n = <<Public, f>>
           \/ dir'[n] = dir[n]
           \/ n = <<Aside, f>> /\ dir'[n] = dir[<<Public, f>>]
<1>. DEFINE a == <<Aside, f>>
            b == <<Public, f>>
<1>1. a \in Name /\ b \in Name /\ a # b /\ dir \in [Name -> Content]
  BY NamesApart DEF Name, Inv, DiskTyped
<1>. HIDE DEF a, b
<1>2. CASE Overwrite(o, f)
  BY <1>1, <1>2 DEF Overwrite, b
<1>3. ASSUME NEW new \in {<<o, f>>, None}, MoveAside(o, f, new)
      PROVE  dir'[b] = new /\ dir'[a] = dir[b] /\ \A n \in Name \ {a, b} : dir'[n] = dir[n]
  BY <1>1, <1>3 DEF MoveAside, a, b
<1>. QED  BY <1>1, <1>2, <1>3 DEF a, b

(* A call prepares at most the record at work.                             *)
LEMMA CallNotes ==
  ASSUME NEW p, NEW f, NEW len, NEW t, NEW u, NEW d, NEW e, Controlled(t), t \in Record,
         t.pc \notin Stopped, Calls(p, f, len, t, u, d, e)
  PROVE  \/ u.n = t.n
         \/ u.n = t.i /\ t.n = t.i - 1 /\ Writes(p, f, len, t, u, d, e)
<1>1. t.n \in Nat /\ t.i \in Nat
  BY DEF Record
<1>2. CASE Writes(p, f, len, t, u, d, e)
  BY <1>1, <1>2 DEF Writes, Controlled
<1>3. CASE FailsTo(f, t, u)
  BY <1>3 DEF FailsTo, Reverts, Hurts, SeizesElsewhere, FollowsTo, ClosesTo, Stands, Keeps
<1>4. CASE ResumesTo(t, u)
  BY <1>4 DEF ResumesTo, FollowsTo, ClosesTo, Stands, Keeps
<1>5. CASE FollowsTo(t, u) \/ ClosesTo(t, u)
  BY <1>5 DEF FollowsTo, ClosesTo, Keeps
<1>6. CASE Stands(t, u)
  BY <1>6 DEF Stands, Keeps
<1>7. CASE Publishes(p, f, t, u, d, e) \/ Checks(f, t, u, d) \/ Misses(p, f, t, u, d)
  BY <1>7 DEF Publishes, Exchanges, Checks, Misses
<1>. QED  BY <1>2, <1>3, <1>4, <1>5, <1>6, <1>7
          DEF Calls, Restores, Takes, RetiresTo, TakesFrom, Looks, Verifies, Turns, Abandons,
              Withdraws, Discards, Tidies, Owns, Skips, Seizes, Hunts, Seals, Sweeps, Picks,
              Resumes

(* The candidates there are were noted by their transaction.               *)
FilesNoted ==
  \A p \in Procs, f \in Files, n \in Name : dir[n] = <<p, f>> => f \in Noted(p)


(* A file that is there was there before, under the same name or one that  *)
(* is not the temporary name of another process, or it is new.             *)
LEMMA StepMoves ==
  ASSUME InControl, NEW p \in Procs, Acts(p)
  PROVE  \A n \in Name :
           \/ dir'[n] = None
           \/ dir'[n] = <<p, File(p)>> /\ n = <<p, File(p)>> /\ tx[p].pc = "prepare"
           \/ \E m \in Name : dir[m] = dir'[n] /\ (m = n \/ m \in {<<p, File(p)>>, <<Public, File(p)>>})
<1>1. Calls(p, File(p), Len(Work(p)), tx[p], tx'[p], dir, dir') /\ tx[p].pc \notin Stopped
  BY DEF Acts, Called
<1>2. File(p) \in Files /\ dir \in [Name -> Content]
  BY <1>1, AtCall
<1>3. tx[p].pc \in {"seize", "take"} => tx[p].target \in Name
  BY DEF InControl, Inv, RecordsPlaced, Placed
<1>. QED  BY <1>1, <1>2, <1>3, CallMoves

(* Only preparing notes more files (records.append in both transactions).  *)
LEMMA StepNotes ==
  ASSUME InControl, NEW p \in Procs, Acts(p)
  PROVE  /\ tx[p].n \in Nat /\ tx[p].i \in Nat /\ tx[p].i # 0
         /\ \/ tx'[p].n = tx[p].n /\ tx[p].pc # "prepare"
            \/ tx'[p].n = tx[p].n /\ dir' = dir
            \/ tx[p].n = tx[p].i - 1 /\ tx'[p].n = tx[p].i /\ tx[p].pc = "prepare"
               /\ Writes(p, File(p), Len(Work(p)), tx[p], tx'[p], dir, dir')
<1>1. Calls(p, File(p), Len(Work(p)), tx[p], tx'[p], dir, dir') /\ tx[p].pc \notin Stopped
  BY DEF Acts, Called
<1>2. tx[p] \in Record /\ Controlled(tx[p]) /\ AtWork(tx[p], Len(Work(p))) /\ Len(Work(p)) \in Nat
  BY <1>1, AtCall
<1>3. tx[p].n \in Nat /\ tx[p].i \in Nat /\ tx[p].i # 0
  BY <1>2 DEF Record, AtWork
<1>4. \/ tx'[p].n = tx[p].n
      \/ /\ tx'[p].n = tx[p].i /\ tx[p].n = tx[p].i - 1
         /\ Writes(p, File(p), Len(Work(p)), tx[p], tx'[p], dir, dir')
  BY <1>1, <1>2, CallNotes
<1>5. tx[p].pc # "prepare" \/ dir' = dir
      \/ Writes(p, File(p), Len(Work(p)), tx[p], tx'[p], dir, dir')
  BY <1>1 DEF Calls, Publishes, Restores, Takes
<1>6. tx[p].pc = "prepare" => tx[p].n = tx[p].i - 1
  BY <1>2 DEF Controlled
<1>. QED  BY <1>3, <1>4, <1>5, <1>6 DEF Writes

LEMMA NotedGrows ==
  ASSUME InControl, NEW p \in Procs, Acts(p), plan' = plan
  PROVE  Noted(p) \subseteq Noted(p)'
<1>1. Work(p)' = Work(p)
  BY DEF Work
<1>. QED  BY <1>1, StepNotes DEF Noted

LEMMA NotedKept ==
  ASSUME InControl, NEW q \in Procs, tx'[q] = tx[q] \/ Stands(tx[q], tx'[q]), plan' = plan
  PROVE  Noted(q)' = Noted(q) /\ Work(q)' = Work(q)
BY DEF Noted, Work, Stands, Keeps

LEMMA InitNoted == Init => FilesNoted
<1>. SUFFICES ASSUME Init, NEW p \in Procs, NEW f \in Files, NEW n \in Name, dir[n] = <<p, f>>
              PROVE  FALSE
  BY DEF FilesNoted
<1>1. dir[n] = None \/ dir[n] = <<Old, n[2]>>
  BY DEF Init
<1>2. <<p, f>> # None /\ <<p, f>> # <<Old, n[2]>>
  BY NamesApart DEF Ident
<1>. QED  BY <1>1, <1>2

LEMMA NextNoted == InControl /\ FilesNoted /\ [Next]_vars => FilesNoted'
<1>. SUFFICES ASSUME InControl, FilesNoted, [Next]_vars PROVE FilesNoted'
  OBVIOUS
<1>0. plan' = plan
  BY CountedKept DEF InControl
<1>1. ASSUME dir' = dir, \A q \in Procs : tx'[q] = tx[q] \/ Stands(tx[q], tx'[q])
      PROVE  FilesNoted'
  BY <1>0, <1>1, NotedKept DEF FilesNoted
<1>2. ASSUME NEW p \in Procs, Step(p) \/ Fault(p) PROVE FilesNoted'
  <2>1. Acts(p)
    BY <1>2, Acting
  <2>. SUFFICES ASSUME NEW q \in Procs, NEW f \in Files, NEW n \in Name, dir'[n] = <<q, f>>
                PROVE  f \in Noted(q)'
    BY DEF FilesNoted
  <2>2. <<q, f>> # None
    BY NamesApart DEF Ident
  <2>3. Noted(q) \subseteq Noted(q)'
    BY <1>0, <2>1, NotedGrows, NotedKept DEF Acts
  <2>4. CASE \E m \in Name : dir[m] = dir'[n]
    BY <2>3, <2>4 DEF FilesNoted
  <2>5. CASE dir'[n] = <<p, File(p)>> /\ tx[p].pc = "prepare" /\ ~\E m \in Name : dir[m] = dir'[n]
    <3>1. q = p /\ f = File(p)
      BY <2>5
    <3>2. dir' # dir
      BY <2>5
    <3>3. tx'[p].n = tx[p].i /\ tx[p].i \in Nat /\ tx[p].i # 0
      BY <2>1, <2>5, <3>2, StepNotes
    <3>. QED  BY <1>0, <3>1, <3>3 DEF Noted, File, Work
  <2>. QED  BY <2>1, <2>2, <2>4, <2>5, StepMoves
<1>3. ASSUME NEW p \in Procs, Start(p) \/ Kill(p) PROVE FilesNoted'
  BY <1>1, <1>3, StartsTo, KillsTo, OthersKept DEF Start, Kill, disk
<1>4. ASSUME NEW o \in Others, NEW f \in Files,
             Overwrite(o, f) \/ \E new \in {<<o, f>>, None} : MoveAside(o, f, new)
      PROVE  FilesNoted'
  <2>1. tx' = tx
    BY <1>4 DEF Overwrite, MoveAside, Visit
  <2>2. \A n \in Name : dir'[n] \in {None, <<o, f>>} \/ \E m \in Name : dir[m] = dir'[n]
    BY <1>4, VisitMoves DEF InControl, Name
  <2>3. \A q \in Procs, g \in Files : <<q, g>> \notin {None, <<o, f>>}
    BY NamesApart DEF Ident
  <2>. QED  BY <1>0, <2>1, <2>2, <2>3, NotedKept DEF FilesNoted
<1>5. CASE UNCHANGED vars
  BY <1>1, <1>5 DEF vars
<1>. QED  BY <1>2, <1>3, <1>4, <1>5 DEF Next

-----------------------------------------------------------------------------
(***************************************************************************)
(* What a transaction does to the names it was given: it implements        *)
(* Publication, all of its files new or all as they were, and it leaves    *)
(* what other writers put in place where it finds it; and, first, what     *)
(* becomes of its candidates when it fails: for any number of transactions *)
(* at once, of other writers and of mishaps.                               *)
(*                                                                         *)
(* The first two rest on what the temporary name of each file holds while  *)
(* nothing but the transaction and other writers is at work (Holds), and   *)
(* on what a retirement may take (Aims): never a file under a public name. *)
(***************************************************************************)


(* The candidates of a transaction that failed.  The invariant (Swept)     *)
(* follows a candidate through a failure: until it is published it has no  *)
(* name but its temporary one, and every record behind the one at work, in *)
(* the order of rolling back or closing, has vanished.                     *)

(* A candidate that was not published, named or not.                       *)
Unmoved(d, x) == \A n \in Name : d[n] = x => n = x

(* Gone, or being retired until it has no name.                            *)
Leaving(t, d, x) ==
  Vanished(d, x) \/ (t.pc \in {"retire", "take"} /\ t.goal = x /\ t.keep = {})

Swept(p, w, t, d) ==
  ~t.hurt /\ ~t.passed =>
    /\ t.stage \in {"prepare", "close"} => \A j \in 1..t.n : Unmoved(d, <<p, w[j]>>)
    /\ t.stage = "close" =>
         \A j \in 1..t.n : j < t.i \/ t.pc = "done" => Vanished(d, <<p, w[j]>>)
    /\ t.stage = "rollback" => \A j \in 1..t.n : t.i < j => Vanished(d, <<p, w[j]>>)
    /\ t.stage = "rollback" /\ t.pc \in {"original", "tidy", "owned"} =>
         Vanished(d, <<p, w[t.i]>>)
    /\ t.stage \in {"rollback", "close"} /\ t.pc \in {"retire", "take"} =>
         Leaving(t, d, <<p, w[t.i]>>)

SweptInv ==
  InControl /\ FilesNoted /\ \A p \in Procs : Swept(p, Work(p), tx[p], dir)


(* A directory in which the candidates of p are where they were, or where  *)
(* only files that are not under its temporary names could be.             *)
Settles(p, d, e) ==
  \A n \in Name, f \in Files :
    e[n] = <<p, f>> => \E m \in Name : d[m] = <<p, f>> /\ (m = n \/ m[1] # p)

LEMMA Stable ==
  ASSUME NEW p, NEW f \in Files, NEW d, NEW e, Settles(p, d, e)
  PROVE  /\ Vanished(d, <<p, f>>) => Vanished(e, <<p, f>>)
         /\ Unmoved(d, <<p, f>>) => Unmoved(e, <<p, f>>)
<1>1. ASSUME NEW n \in Name, e[n] = <<p, f>>
      PROVE  \E m \in Name : d[m] = <<p, f>> /\ (m = n \/ m[1] # p)
  BY <1>1 DEF Settles
<1>2. ASSUME Unmoved(d, <<p, f>>), NEW n \in Name, e[n] = <<p, f>> PROVE n = <<p, f>>
  <2>1. PICK m \in Name : d[m] = <<p, f>> /\ (m = n \/ m[1] # p)
    BY <1>1, <1>2
  <2>2. m = <<p, f>>
    BY <1>2, <2>1 DEF Unmoved
  <2>. QED  BY <2>1, <2>2
<1>. QED  BY <1>1, <1>2 DEF Vanished, Unmoved

(* What others do leaves the candidates of a transaction swept.            *)
LEMMA SweptStays ==
  ASSUME NEW p, NEW w, NEW t, NEW d, NEW e, Swept(p, w, t, d), Settles(p, d, e),
         w \in Seq(Files), t \in Record, t.n <= Len(w),
         t.pc \notin Stopped => t.i \in 1..Len(w)
  PROVE  Swept(p, w, t, e)
<1>0. t.n \in Nat /\ Len(w) \in Nat
  BY DEF Record
<1>1. \A j \in 1..Len(w) : w[j] \in Files
  OBVIOUS
<1>2. \A j \in 1..t.n : w[j] \in Files
  BY <1>0, <1>1
<1>3. \A f \in Files : (Vanished(d, <<p, f>>) => Vanished(e, <<p, f>>))
                       /\ (Unmoved(d, <<p, f>>) => Unmoved(e, <<p, f>>))
  BY Stable
<1>4. t.pc \notin Stopped => w[t.i] \in Files
  BY <1>1
<1>5. {"original", "tidy", "owned", "retire", "take"} \cap Stopped = {}
  BY DEF Stopped
<1>. QED  BY <1>2, <1>3, <1>4, <1>5 DEF Swept, Leaving

(* The next record, once the candidate of the one at work has vanished.    *)
LEMMA FollowSwept ==
  ASSUME NEW p, NEW w, NEW t, NEW u, NEW d, Swept(p, w, t, d), t \in Record,
         Controlled(t), t.stage # "prepare", t.i # 0, FollowsTo(t, u),
         t.stage \in {"rollback", "close"} /\ ~t.hurt /\ ~t.passed =>
           Vanished(d, <<p, w[t.i]>>)
  PROVE  Swept(p, w, u, d)
<1>0. t.n \in Nat /\ t.i \in Nat
  BY DEF Record
<1>1. CASE u.hurt \/ u.passed
  BY <1>1 DEF Swept
<1>2. CASE ~u.hurt /\ ~u.passed
  <2>1. ~t.hurt /\ ~t.passed /\ u.n = t.n /\ FollowsTo(t, u)
    BY <1>2 DEF FollowsTo, ClosesTo, WithinStage, Passes, Keeps, Marks
  <2>0. t.stage # "finalize"
    BY <2>1 DEF Controlled
  <2>2. CASE t.stage = "rollback" /\ t.i > 1 /\ u.i = t.i - 1 /\ u.stage = "rollback"
             /\ u.pc = "undo"
    BY <1>0, <2>1, <2>2 DEF Swept
  <2>3. CASE t.stage = "rollback" /\ t.i <= 1 /\ ClosesTo(t, u)
    <3>1. \A j \in 1..t.n : Vanished(d, <<p, w[j]>>)
      BY <1>0, <2>1, <2>3 DEF Swept
    <3>2. \/ u.stage = "close" /\ u.pc = "close" /\ u.i = 1
          \/ u.stage = "rollback" /\ u.n = 0 /\ u.pc = "done"
      BY <2>3 DEF ClosesTo, Keeps
    <3>. QED  BY <1>0, <2>1, <3>1, <3>2 DEF Swept, Unmoved, Vanished
  <2>4. CASE /\ t.stage = "close" /\ u.stage = "close"
             /\ \/ t.i < t.n /\ u.i = t.i + 1 /\ u.pc = "close"
                \/ t.i >= t.n /\ u.i = t.i /\ u.pc = "done"
    <3>1. \A j \in 1..t.n : j <= t.i => Vanished(d, <<p, w[j]>>)
      BY <1>0, <2>1, <2>4 DEF Swept
    <3>2. \A j \in 1..t.n : Unmoved(d, <<p, w[j]>>)
      BY <2>1, <2>4 DEF Swept
    <3>3. \A j \in 1..u.n : j < u.i \/ u.pc = "done" => Vanished(d, <<p, w[j]>>)
      BY <1>0, <2>1, <2>4, <3>1
    <3>. QED  BY <2>1, <2>4, <3>2, <3>3 DEF Swept
  <2>5. CASE t.stage = "publish" /\ u.stage = "publish"
    BY <2>5 DEF Swept
  <2>6. CASE WithinStage(t, u)
    BY <2>0, <2>2, <2>4, <2>5, <2>6 DEF WithinStage
  <2>. QED  BY <1>2, <2>1, <2>3, <2>6 DEF FollowsTo, Passes
<1>. QED  BY <1>1, <1>2

LEMMA FailSwept ==
  ASSUME NEW p, NEW f, NEW w, NEW t, NEW u, NEW d, Swept(p, w, t, d), t \in Record,
         Controlled(t), t.pc \notin Stopped, FailsTo(f, t, u)
  PROVE  Swept(p, w, u, d)
<1>0. t.n \in Nat /\ t.i \in Nat
  BY DEF Record
<1>1. CASE Reverts(t, u)
  BY <1>0, <1>1 DEF Reverts, Swept, Keeps, Marks
<1>2. CASE t.stage = "prepare" /\ ClosesTo(t, u)
  BY <1>0, <1>2 DEF ClosesTo, Swept, Keeps, Marks
<1>3. CASE Hurts(f, t, u)
  BY <1>3 DEF Hurts, Swept
<1>4. CASE t.stage = "finalize"
  <2>1. t.passed
    BY <1>4 DEF Controlled
  <2>2. u.passed
    BY <1>4, <2>1
       DEF FailsTo, Reverts, SeizesElsewhere, FollowsTo, ClosesTo, WithinStage, Passes, Stands,
           Marks
  <2>. QED  BY <2>2 DEF Swept
<1>. QED  BY <1>1, <1>2, <1>3, <1>4 DEF FailsTo, SeizesElsewhere

(* What a call of p itself leaves of its candidates.                       *)
LEMMA CallKeepsAway ==
  ASSUME NEW p, NEW f, NEW len, NEW t, NEW u, NEW d, NEW e, Calls(p, f, len, t, u, d, e),
         p \in Procs, f \in Files, d \in [Name -> Content],
         t.pc \in {"seize", "take"} => t.target \in Name,
         NEW g \in Files, g # f \/ t.pc # "prepare", Vanished(d, <<p, g>>)
  PROVE  Vanished(e, <<p, g>>)
<1>. SUFFICES ASSUME NEW n \in Name, e[n] = <<p, g>> PROVE FALSE
  BY DEF Vanished
<1>1. <<p, g>> # None
  BY NamesApart DEF Ident
<1>2. \/ e[n] = None
      \/ e[n] = <<p, f>> /\ n = <<p, f>> /\ t.pc = "prepare"
      \/ \E m \in Name : d[m] = e[n] /\ (m = n \/ m \in {<<p, f>>, <<Public, f>>})
  BY CallMoves
<1>. QED  BY <1>1, <1>2 DEF Vanished

LEMMA WriteSwept ==
  ASSUME NEW p, NEW w, NEW len, NEW t, NEW u, NEW d, NEW e,
         Writes(p, w[t.i], len, t, u, d, e), Swept(p, w, t, d),
         Controlled(t), t.stage = "prepare", t \in Record, d \in [Name -> Content],
         p \in Procs, w \in Seq(Files), len = Len(w), t.i \in 1..len,
         \A i, j \in 1..len : w[i] = w[j] => i = j,
         Vanished(d, <<p, w[t.i]>>)
  PROVE  Swept(p, w, u, e)
<1>0. /\ t.n = t.i - 1 /\ t.i \in Nat /\ len \in Nat /\ w[t.i] \in Files
      /\ u.n = t.i /\ e = [d EXCEPT ![<<p, w[t.i]>>] = <<p, w[t.i]>>]
  BY DEF Writes, Controlled
<1>1. CASE u.stage = "publish" \/ u.hurt \/ u.passed
  BY <1>1 DEF Swept
<1>2. CASE u.stage = "prepare" /\ ~u.hurt /\ ~u.passed
  <2>1. \A j \in 1..t.n : Unmoved(d, <<p, w[j]>>)
    BY <1>2 DEF Swept, Writes, Marks
  <2>2. ASSUME NEW j \in 1..u.n PROVE Unmoved(e, <<p, w[j]>>)
    <3>1. CASE j = t.i
      BY <1>0, <3>1 DEF Unmoved, Vanished
    <3>2. CASE j # t.i
      <4>1. j \in 1..t.n /\ j \in 1..len /\ w[j] # w[t.i]
        BY <1>0, <3>2
      <4>. QED  BY <1>0, <2>1, <4>1 DEF Unmoved
    <3>. QED  BY <3>1, <3>2
  <2>. QED  BY <1>2, <2>2 DEF Swept
<1>. QED  BY <1>1, <1>2 DEF Writes

LEMMA TakeSwept ==
  ASSUME NEW p, NEW w, NEW t, NEW u, NEW d, NEW e, Takes(t, u, d, e), Swept(p, w, t, d),
         Controlled(t), t.stage \in Stages, t.n \in Nat, t.i \in Nat,
         p \in Procs, d \in [Name -> Content], \A j \in 1..t.n : w[j] \in Files, w[t.i] \in Files,
         \A g \in Files : Vanished(d, <<p, g>>) => Vanished(e, <<p, g>>)
  PROVE  Swept(p, w, u, e)
<1>1. /\ u.stage = t.stage /\ u.i = t.i /\ u.n = t.n /\ u.hurt = t.hurt /\ u.passed = t.passed
      /\ u.pc = "retire" /\ u.goal = t.goal /\ u.keep = t.keep
  BY DEF Takes, RetiresTo, Stands, Keeps, Marks
<1>2. t.stage \in {"rollback", "close", "finalize"} /\ (t.stage # "finalize" => t.pc = "take")
  BY DEF Takes, Controlled, Course, Stages
<1>3. \A g \in Files : Unmoved(d, <<p, g>>) => Unmoved(e, <<p, g>>)
  <2>. SUFFICES ASSUME NEW g \in Files, Unmoved(d, <<p, g>>), NEW n \in Name, e[n] = <<p, g>>
                PROVE  n = <<p, g>>
    BY DEF Unmoved
  <2>1. <<p, g>> # None
    BY NamesApart DEF Ident
  <2>. QED  BY <2>1 DEF Takes, Unmoved
<1>4. CASE t.hurt \/ t.passed
  BY <1>1, <1>4 DEF Swept
<1>5. CASE ~t.hurt /\ ~t.passed
  <2>1. t.stage # "finalize"
    BY <1>5 DEF Controlled
  <2>. QED  BY <1>1, <1>2, <1>3, <1>5, <2>1 DEF Swept, Leaving
<1>. QED  BY <1>4, <1>5

LEMMA SwapSwept ==
  ASSUME NEW p, NEW w, NEW f, NEW t, NEW u, NEW d, NEW e,
         Publishes(p, f, t, u, d, e) \/ Restores(p, f, t, u, d, e), Swept(p, w, t, d),
         Controlled(t), t.stage \in Stages, t.n \in Nat, t.i \in Nat,
         \A j \in 1..t.n : w[j] \in Files,
         \A g \in Files : Vanished(d, <<p, g>>) => Vanished(e, <<p, g>>)
  PROVE  Swept(p, w, u, e)
<1>1. CASE Publishes(p, f, t, u, d, e)
  <2>1. t.stage = "publish" /\ u.stage = "publish"
    BY <1>1 DEF Publishes, Exchanges, Controlled, Course, Stages
  <2>. QED  BY <2>1 DEF Swept
<1>2. CASE Restores(p, f, t, u, d, e)
  <2>1. /\ t.stage = "rollback" /\ u.stage = "rollback" /\ u.i = t.i /\ u.n = t.n
        /\ u.hurt = t.hurt /\ u.passed = t.passed /\ u.pc = "undone"
    BY <1>2 DEF Restores, Stands, Keeps, Marks, Controlled, Course, Stages
  <2>. QED  BY <2>1 DEF Swept
<1>. QED  BY <1>1, <1>2

LEMMA LookSwept ==
  ASSUME NEW p, NEW w, NEW len, NEW t, NEW u, NEW d, Looks(p, w[t.i], t, u, d),
         Swept(p, w, t, d), Controlled(t), AtWork(t, len), t.pc \notin Stopped,
         p \in Procs, len \in Nat, w[t.i] \in Files
  PROVE  Swept(p, w, u, d)
<1>. DEFINE f == w[t.i]
            c == <<p, f>>
<1>0. /\ t \in Record /\ t.n \in Nat /\ t.i \in Nat /\ t.i # 0 /\ t.stage \in Stages
      /\ t.n <= len /\ t.then \in Continuations /\ c # None
  BY NamesApart DEF AtWork, Sane, Record, Ident
<1>1. CASE Checks(f, t, u, d)
  BY <1>0, <1>1 DEF Checks, Marks, Swept, Controlled, Course, Stages
<1>2. CASE Misses(p, f, t, u, d)
  BY <1>0, <1>2 DEF Misses, Marks, Swept
<1>3. CASE Verifies(p, f, t, u, d) \/ Skips(f, t, u)
  <2>1. t.stage \in {"publish", "finalize"}
    BY <1>0, <1>3 DEF Verifies, Skips, Controlled, Course, Stages
  <2>. QED  BY <1>0, <1>3, <2>1, FollowSwept DEF Verifies, Skips
<1>4. CASE Owns(p, f, t, u, d)
  <2>1. t.stage = "rollback" /\ t.pc = "owned"
    BY <1>0, <1>4 DEF Owns, Controlled, Course, Stages
  <2>2. ~t.hurt /\ ~t.passed => Vanished(d, c)
    BY <2>1 DEF Swept
  <2>. QED  BY <1>0, <1>4, <2>1, <2>2, FollowSwept DEF Owns
<1>5. CASE Seals(t, u) \/ Seizes(p, f, t, u, d) \/ Hunts(f, t, u, d)
  <2>1. t.stage = "finalize"
    BY <1>0, <1>5 DEF Seals, Seizes, Hunts, Controlled, Course, Stages
  <2>2. u.passed
    BY <1>5, <2>1
       DEF Seals, ClosesTo, Seizes, TakesFrom, Hunts, RetiresTo, Stands, Marks, Controlled
  <2>. QED  BY <2>2 DEF Swept
<1>6. CASE Turns(p, f, t, u, d)
  BY <1>0, <1>6 DEF Turns, Stands, Keeps, Marks, Swept, Controlled, Course, Stages
<1>7. CASE Abandons(p, f, t, u, d) \/ Withdraws(p, f, t, u, d)
  <2>1. t.stage = "rollback"
    BY <1>0, <1>7 DEF Abandons, Withdraws, Controlled, Course, Stages
  <2>. QED  BY <1>0, <1>7, <2>1
               DEF Abandons, Withdraws, RetiresTo, TakesFrom, Stands, Keeps, Marks, Swept, Leaving
<1>8. CASE Discards(f, t, u, d) \/ Tidies(f, t, u)
  <2>1. t.stage = "rollback" /\ t.pc \in {"original", "tidy"}
    BY <1>0, <1>8 DEF Discards, Tidies, Controlled, Course, Stages
  <2>. QED  BY <1>0, <1>8, <2>1
               DEF Discards, Tidies, RetiresTo, Stands, Keeps, Marks, Swept, Leaving
<1>9. CASE Sweeps(p, f, t, u, d)
  <2>1. t.stage = "close" /\ t.i \in 1..t.n
    BY <1>0, <1>9 DEF Sweeps, Controlled, Course, Stages
  <2>2. <<Public, f>> \in Name /\ <<Public, f>> # c
    BY NamesApart DEF Name
  <2>3. ~t.hurt /\ ~t.passed => KeptName(f, d, c) = {}
    BY <2>1, <2>2 DEF Swept, Unmoved, KeptName
  <2>. QED  BY <1>0, <1>9, <2>1, <2>3
               DEF Sweeps, RetiresTo, Stands, Keeps, Marks, Swept, Leaving
<1>10. CASE Picks(t, u, d)
  BY <1>0, <1>10 DEF Picks, TakesFrom, Stands, Keeps, Marks, Swept, Leaving
<1>11. CASE Resumes(t, u, d)
  <2>1. t.stage \in {"rollback", "close", "finalize"} /\ t.pc = "retire"
    BY <1>0, <1>11 DEF Resumes, Controlled, Course, Stages
  <2>2. t.stage \in {"rollback", "close"} /\ ~t.hurt /\ ~t.passed => Vanished(d, c)
    BY <1>0, <1>11, <2>1 DEF Swept, Leaving, Resumes, Vanished
  <2>3. CASE FollowsTo(t, u)
    BY <1>0, <2>1, <2>2, <2>3, FollowSwept
  <2>4. CASE t.then # "next" /\ Stands(t, u) /\ u.pc = t.then
    <3>1. t.stage = "rollback" /\ u.pc \in {"original", "tidy", "owned"}
      BY <1>0, <2>4 DEF Controlled, Continuations
    <3>. QED  BY <1>0, <2>2, <2>4, <3>1 DEF Stands, Keeps, Marks, Swept
  <2>. QED  BY <1>11, <2>3, <2>4 DEF Resumes, ResumesTo
<1>12. CASE FailsTo(f, t, u)
  BY <1>0, <1>12, FailSwept
<1>. QED  BY <1>1, <1>2, <1>3, <1>4, <1>5, <1>6, <1>7, <1>8, <1>9, <1>10, <1>11, <1>12 DEF Looks

----------------------------------------------------------------------------
(* The state.                                                              *)

LEMMA OwnSwept ==
  ASSUME SweptInv, NEW p \in Procs, Acts(p)
  PROVE  Swept(p, Work(p), tx'[p], dir')
<1>. DEFINE w == Work(p)
            t == tx[p]
            u == tx'[p]
            f == File(p)
            len == Len(w)
<1>0. /\ Calls(p, f, len, t, u, dir, dir') /\ t.pc \notin Stopped /\ f = w[t.i]
      /\ InControl /\ FilesNoted /\ Swept(p, w, t, dir)
  BY DEF Acts, Called, SweptInv, File
<1>1. /\ w \in Seq(Files) /\ len \in Nat /\ \A i, j \in 1..len : w[i] = w[j] => i = j
      /\ t \in Record /\ t.n \in Nat /\ t.n <= len /\ \A j \in 1..t.n : w[j] \in Files
  BY <1>0, WorkFacts
<1>2. /\ Controlled(t) /\ AtWork(t, len) /\ f \in Files /\ dir \in [Name -> Content]
      /\ t.stage \in Stages /\ t.i \in Nat /\ t.i \in 1..len
  BY <1>0, AtCall DEF AtWork, Record
<1>3. t.pc \in {"seize", "take"} => t.target \in Name
  BY DEF SweptInv, InControl, Inv, RecordsPlaced, Placed
<1>4. t.pc = "prepare" => t.stage = "prepare" /\ Vanished(dir, <<p, f>>)
  <2>. SUFFICES ASSUME t.pc = "prepare" PROVE t.stage = "prepare" /\ Vanished(dir, <<p, f>>)
    OBVIOUS
  <2>1. t.stage = "prepare" /\ t.n = t.i - 1
    BY <1>2 DEF Controlled, Course, Stages
  <2>2. f \notin Noted(p)
    BY <1>0, <1>1, <1>2, <2>1 DEF Noted
  <2>. QED  BY <1>0, <1>2, <2>1, <2>2 DEF FilesNoted, Vanished
<1>5. \A g \in Files : (g # f \/ t.pc # "prepare") =>
                       (Vanished(dir, <<p, g>>) => Vanished(dir', <<p, g>>))
  BY <1>0, <1>2, <1>3, CallKeepsAway
<1>. HIDE DEF w, t, u, f, len
<1>6. CASE Writes(p, f, len, t, u, dir, dir')
  <2>1. t.pc = "prepare" /\ Writes(p, w[t.i], len, t, u, dir, dir') /\ Vanished(dir, <<p, w[t.i]>>)
    BY <1>0, <1>4, <1>6 DEF Writes
  <2>. QED  BY <1>0, <1>1, <1>2, <1>4, <2>1, WriteSwept DEF w, t, u, len
<1>7. CASE Publishes(p, f, t, u, dir, dir') \/ Restores(p, f, t, u, dir, dir')
  <2>1. t.pc # "prepare"
    BY <1>7 DEF Publishes, Restores
  <2>. QED  BY <1>0, <1>1, <1>2, <1>5, <1>7, <2>1, SwapSwept DEF w, t, u
<1>8. CASE Takes(t, u, dir, dir')
  <2>1. t.pc # "prepare"
    BY <1>8 DEF Takes
  <2>. QED  BY <1>0, <1>1, <1>2, <1>5, <1>8, <2>1, TakeSwept DEF w, t, u
<1>9. CASE Looks(p, f, t, u, dir) /\ dir' = dir
  BY <1>0, <1>1, <1>2, <1>9, LookSwept DEF w, t, u
<1>. QED  BY <1>0, <1>6, <1>7, <1>8, <1>9 DEF Calls

LEMMA OtherSwept ==
  ASSUME SweptInv, NEW q \in Procs, tx'[q] = tx[q], Settles(q, dir, dir')
  PROVE  Swept(q, Work(q), tx'[q], dir')
<1>1. tx[q].pc \notin Stopped => tx[q].i \in 1..Len(Work(q))
  BY DEF SweptInv, InControl, Inv, RecordsPlaced, Placed
<1>2. Swept(q, Work(q), tx[q], dir) /\ InControl
  BY DEF SweptInv
<1>. QED  BY <1>1, <1>2, WorkFacts, SweptStays

LEMMA StepSettles ==
  ASSUME InControl, NEW p \in Procs, Acts(p), NEW q \in Procs, q # p
  PROVE  Settles(q, dir, dir')
<1>. SUFFICES ASSUME NEW n \in Name, NEW g \in Files, dir'[n] = <<q, g>>
              PROVE  \E m \in Name : dir[m] = <<q, g>> /\ (m = n \/ m[1] # q)
  BY DEF Settles
<1>1. <<q, g>> # None /\ q # Public /\ <<q, g>> # <<p, File(p)>>
  BY NamesApart DEF Ident
<1>2. \E m \in Name : dir[m] = dir'[n] /\ (m = n \/ m \in {<<p, File(p)>>, <<Public, File(p)>>})
  BY <1>1, StepMoves
<1>. QED  BY <1>1, <1>2

LEMMA VisitSettles ==
  ASSUME InControl, NEW o \in Others, NEW f \in Files,
         Overwrite(o, f) \/ \E new \in {<<o, f>>, None} : MoveAside(o, f, new),
         NEW q \in Procs
  PROVE  Settles(q, dir, dir')
<1>. SUFFICES ASSUME NEW n \in Name, NEW g \in Files, dir'[n] = <<q, g>>
              PROVE  \E m \in Name : dir[m] = <<q, g>> /\ (m = n \/ m[1] # q)
  BY DEF Settles
<1>1. <<q, g>> # None /\ q # Public /\ q # o /\ <<Public, f>> \in Name
  BY NamesApart DEF Ident, Name
<1>2. \/ dir'[n] = None \/ dir'[n] = <<o, f>> \/ dir'[n] = dir[n]
      \/ dir'[n] = dir[<<Public, f>>]
  BY VisitMoves DEF InControl
<1>. QED  BY <1>1, <1>2

LEMMA InitSwept == Init => SweptInv
<1>. SUFFICES ASSUME Init PROVE \A p \in Procs : Swept(p, Work(p), Fresh, dir)
  BY InitControl, InitNoted DEF SweptInv, Init
<1>. QED  BY DEF Swept, Fresh

LEMMA NextSwept == SweptInv /\ [Next]_vars => SweptInv'
<1>. SUFFICES ASSUME SweptInv, [Next]_vars PROVE SweptInv'
  OBVIOUS
<1>0. InControl /\ InControl' /\ FilesNoted' /\ plan' = plan
  BY NextControl, NextNoted, CountedKept DEF SweptInv, InControl
<1>1. ASSUME NEW p \in Procs, Step(p) \/ Fault(p), NEW q \in Procs
      PROVE  Swept(q, Work(q), tx'[q], dir')
  <2>1. Acts(p)
    BY <1>0, <1>1, Acting
  <2>. QED  BY <1>0, <2>1, OwnSwept, OtherSwept, StepSettles DEF Acts
<1>2. ASSUME dir' = dir, NEW q \in Procs, Stands(tx[q], tx'[q]), tx'[q].pc \in {"prepare", "killed"}
      PROVE  Swept(q, Work(q), tx'[q], dir')
  BY <1>2 DEF SweptInv, Swept, Stands, Keeps, Marks
<1>3. ASSUME dir' = dir, NEW q \in Procs, tx'[q] = tx[q]
      PROVE  Swept(q, Work(q), tx'[q], dir')
  BY <1>3 DEF SweptInv
<1>4. ASSUME NEW p \in Procs, Start(p) \/ Kill(p), NEW q \in Procs
      PROVE  Swept(q, Work(q), tx'[q], dir')
  <2>1. dir' = dir
    BY <1>4 DEF Start, Kill, disk
  <2>2. Stands(tx[p], tx'[p]) /\ tx'[p].pc \in {"prepare", "killed"}
    BY <1>0, <1>4, StartsTo, KillsTo
  <2>. QED  BY <1>0, <1>2, <1>3, <1>4, <2>1, <2>2, OthersKept
<1>5. ASSUME NEW o \in Others, NEW f \in Files,
             Overwrite(o, f) \/ \E new \in {<<o, f>>, None} : MoveAside(o, f, new),
             NEW q \in Procs
      PROVE  Swept(q, Work(q), tx'[q], dir')
  <2>1. tx'[q] = tx[q]
    BY <1>5 DEF Overwrite, MoveAside, Visit
  <2>. QED  BY <1>0, <1>5, <2>1, OtherSwept, VisitSettles
<1>6. ASSUME UNCHANGED vars, NEW q \in Procs
      PROVE  Swept(q, Work(q), tx'[q], dir')
  BY <1>3, <1>6 DEF vars
<1>7. \A q \in Procs : Swept(q, Work(q), tx'[q], dir')
  BY <1>1, <1>4, <1>5, <1>6 DEF Next
<1>. QED  BY <1>0, <1>7 DEF SweptInv, Work

LEMMA SweptEnds == SweptInv => NoCandidateAfterFailure
<1>. SUFFICES ASSUME SweptInv, NEW p \in Procs, Ended(p), ~tx[p].passed, ~tx[p].hurt,
                     NEW n \in Name, NEW f \in Files, dir[n] = <<p, f>>
              PROVE  FALSE
  BY DEF NoCandidateAfterFailure
<1>1. /\ f \in Noted(p) /\ Controlled(tx[p]) /\ Swept(p, Work(p), tx[p], dir)
      /\ tx[p].stage \in Stages /\ tx[p].n \in Nat
  BY WorkFacts DEF SweptInv, InControl, FilesNoted, Record
<1>2. tx[p].stage = "close" \/ tx[p].n = 0
  BY <1>1 DEF Controlled, Course, Stages, Ended
<1>. QED  BY <1>1, <1>2 DEF Noted, Swept, Vanished, Ended

(* The inductive invariant.                                                *)
LEMMA SweptInvariance == Spec => []SweptInv
BY InitSwept, NextSwept, PTL DEF Spec

(* publish_transaction and write_provenance_transaction: a transaction that*)
(* failed, and whose rollback and closing raised nothing, leaves none of   *)
(* its candidates in the directory, under whatever name they were put.     *)
THEOREM CandidatesSwept == Spec => []NoCandidateAfterFailure
BY SweptInvariance, SweptEnds, PTL

-----------------------------------------------------------------------------
(* The fates of record j, of file g: still to be exchanged, exchanged, and *)
(* done with.                                                              *)
Ready(t, j, g) ==
  \/ t.stage = "prepare"
  \/ t.stage = "publish" /\ t.i < j
  \/ t.stage = "publish" /\ t.i = j /\ t.pc \in {"check", "rename"}
  \/ t.stage = "rollback" /\ g \notin t.published /\ j < t.i
  \/ t.stage = "rollback" /\ g \notin t.published /\ j = t.i /\ t.pc = "undo"

Swapped(t, j, g) ==
  \/ t.stage = "publish" /\ j < t.i
  \/ t.stage = "publish" /\ j = t.i /\ t.pc = "verify"
  \/ t.stage = "rollback" /\ g \in t.published /\ j < t.i
  \/ t.stage = "rollback" /\ g \in t.published /\ j = t.i /\ t.pc = "undo"
  \/ t.stage = "rollback" /\ j = t.i /\ t.pc = "back"

Tidied(t, j) ==
  \/ t.stage \in {"finalize", "close"}
  \/ t.stage = "rollback" /\ t.i < j
  \/ t.stage = "rollback" /\ t.i = j /\ t.pc = "original"
  \/ t.stage = "rollback" /\ t.i = j /\ t.pc \in {"retire", "take"} /\ t.then \in {"original", "next"}

(* What the temporary name of a file holds.                                *)
Holds(p, t, d, j, g) ==
  LET there == d[<<p, g>>]
  IN /\ Ready(t, j, g) => there = <<p, g>> /\ g \notin t.published
     /\ Swapped(t, j, g) =>
          /\ g \in t.published /\ there # <<p, g>>
          /\ (t.mode[g] = "exchange") = (there # None)
          /\ (t.mode[g] = "exchange") = (t.orig[g] # None)
     /\ t.stage = "publish" /\ j < t.i => there = t.orig[g]
     /\ t.stage = "publish" /\ j = t.i /\ t.pc = "rename" =>
          (t.mode[g] = "exchange") = (t.orig[g] # None)
     /\ Tidied(t, j) => there \in {None, <<p, g>>, t.orig[g]}

(* What a retirement of a file of record f looks for, and may take.        *)
Aims(p, t, d, f) ==
  LET shown == d[<<Public, f>>]
  IN /\ t.pc \in {"retire", "take", "seize"} =>
          /\ t.goal \in {<<p, f>>, t.orig[f]}
          /\ shown = t.goal /\ shown # None => <<Public, f>> \in t.keep
     /\ t.pc \in {"take", "seize"} =>
          /\ t.target[1] # Public /\ d[t.target] = t.goal
          /\ t.target = <<p, f>> \/ t.goal # None
     /\ t.pc = "tidy" \/ t.then = "tidy" =>
          (shown = t.orig[f] /\ shown # None => <<Public, f>> \in t.spare)

(* What shows of record j, when nobody else has touched the file.          *)
Undoing(t, j) == t.stage = "rollback" /\ j = t.i /\ t.pc = "undone"

Shown(p, t, d, j, g) ==
  /\ Swapped(t, j, g) => d[<<Public, g>>] = <<p, g>> /\ d[<<p, g>>] = t.orig[g]
  /\ Undoing(t, j) => d[<<p, g>>] = <<p, g>>
  /\ ~Swapped(t, j, g) => d[<<Public, g>>] = t.orig[g]

----------------------------------------------------------------------------
(* A file has one name, and a name holds versions of its own file only.    *)

OneName(d) == \A m, n \in Name : d[m] = d[n] /\ d[n] # None => m = n

OwnFile(d) == \A n \in Name : d[n] # None => d[n][2] = n[2]

OwnOriginals(p, t) ==
  \A f \in Files : t.orig[f] # <<p, f>> /\ (t.orig[f] # None => t.orig[f][2] = f)

(* What is known of a process at work on the record of f.                  *)
Sound(p, f, t, d) ==
  /\ p \in Procs /\ f \in Files /\ d \in [Name -> Content] /\ t \in Record
  /\ OneName(d) /\ OwnFile(d) /\ OwnOriginals(p, t)
  /\ Controlled(t) /\ t.pc \notin Stopped /\ t.then \in Continuations
  /\ t.i # 0 /\ (t.stage # "prepare" => t.i <= t.n)
  /\ Aims(p, t, d, f)

(* Record j, of file g, of a process at work on the record of f.           *)
AtRecord(p, f, t, d, j, g) ==
  /\ Sound(p, f, t, d)
  /\ g \in Files /\ j \in Nat /\ j # 0 /\ (j = t.i <=> g = f)

(* A file whose rollback raised is left out.                               *)
Kept(p, t, u, d, e, j, g) ==
  g \notin u.left =>
    /\ Holds(p, u, e, j, g)
    /\ ~u.passed /\ Shown(p, t, d, j, g) => Shown(p, u, e, j, g)

(* No retirement is under way or planned.                                  *)
Resting(u) == u.pc \notin {"retire", "take", "seize", "tidy"} /\ u.then # "tidy"

LEMMA NamesOf ==
  ASSUME NEW p, NEW f, NEW g, p \in Procs, f \in Files, g \in Files
  PROVE  /\ <<p, f>> \in Name /\ <<Public, f>> \in Name
         /\ <<p, g>> \in Name /\ <<Public, g>> \in Name /\ <<Aside, g>> \in Name
         /\ p # Public /\ p # Aside /\ Public # Aside
         /\ <<p, f>> # None /\ <<p, g>> # None
BY NamesApart DEF Name, Ident

(* A step that only looks: the record is as it was, or as the look found.  *)
Fares(p, t, u, d, j, g) ==
  LET there == d[<<p, g>>]
  IN /\ Ready(u, j, g) => Ready(t, j, g)
     /\ Swapped(u, j, g) => Swapped(t, j, g)
     /\ Swapped(t, j, g) /\ ~u.passed /\ Shown(p, t, d, j, g) => Swapped(u, j, g)
     /\ u.stage = "publish" /\ j < u.i => there = t.orig[g] \/ (t.stage = "publish" /\ j < t.i)
     /\ Tidied(u, j) => there \in {None, <<p, g>>, t.orig[g]} \/ Tidied(t, j)
     /\ ~(u.stage = "publish" /\ j = u.i /\ u.pc = "rename")
     /\ ~Undoing(u, j)

LEMMA FaresKept ==
  ASSUME NEW p, NEW t, NEW u, NEW d, NEW j, NEW g, Holds(p, t, d, j, g), Keeps(t, u),
         Fares(p, t, u, d, j, g)
  PROVE  Kept(p, t, u, d, d, j, g)
<1>1. Holds(p, u, d, j, g)
  BY DEF Fares, Holds, Keeps
<1>2. ASSUME ~u.passed, Shown(p, t, d, j, g) PROVE Shown(p, u, d, j, g)
  BY <1>2 DEF Fares, Shown, Keeps
<1>. QED  BY <1>1, <1>2 DEF Kept

(* A record, and its index.                                                *)
Indexed(t, j) ==
  /\ t.n \in Nat /\ t.i \in Nat /\ t.i # 0 /\ j \in Nat /\ j # 0
  /\ t.stage \in Stages /\ t.pc \in Course(t.stage) /\ t.pc \notin Stopped

LEMMA WithinFares ==
  ASSUME NEW p, NEW t, NEW u, NEW d, NEW j, NEW g, Indexed(t, j), j <= t.n,
         Keeps(t, u), u.then = "next", WithinStage(t, u),
         j = t.i => /\ t.stage = "publish" => t.pc = "verify" /\ d[<<p, g>>] = t.orig[g]
                    /\ t.stage = "rollback" => /\ d[<<p, g>>] \in {None, <<p, g>>, t.orig[g]}
                                               /\ t.pc \notin {"undo", "back"}
  PROVE  Fares(p, t, u, d, j, g)
<1>1. CASE t.stage = "rollback"
  BY <1>1 DEF Fares, WithinStage, Keeps, Ready, Swapped, Tidied, Undoing, Indexed, Course
<1>2. CASE t.stage = "publish"
  BY <1>2 DEF Fares, WithinStage, Keeps, Ready, Swapped, Tidied, Undoing, Indexed, Course
<1>3. CASE t.stage \in {"finalize", "close"}
  BY <1>3 DEF Fares, WithinStage, Keeps, Ready, Swapped, Tidied, Undoing, Indexed, Course
<1>. QED  BY <1>1, <1>2, <1>3 DEF WithinStage

LEMMA FollowFares ==
  ASSUME NEW p, NEW t, NEW u, NEW d, NEW j, NEW g, Indexed(t, j), j <= t.n, FollowsTo(t, u),
         Holds(p, t, d, j, g),
         j = t.i => /\ t.stage = "publish" => t.pc = "verify" /\ d[<<p, g>>] = t.orig[g]
                    /\ t.stage = "rollback" => /\ d[<<p, g>>] \in {None, <<p, g>>, t.orig[g]}
                                               /\ t.pc \notin {"undo", "back"}
  PROVE  Fares(p, t, u, d, j, g) /\ Keeps(t, u) /\ Resting(u)
<1>1. CASE WithinStage(t, u) /\ Keeps(t, u) /\ u.then = "next"
  <2>1. Resting(u)
    BY <1>1 DEF WithinStage, Resting
  <2>. QED  BY <1>1, <2>1, WithinFares
<1>2. CASE Passes(t, u) /\ Keeps(t, u) /\ u.then = "next"
  <2>1. /\ t.stage = "publish" /\ j <= t.i /\ t.n \in Nat /\ t.i \in Nat /\ j \in Nat
        /\ u.stage = "finalize" /\ u.pc = "finalize" /\ u.passed
    BY <1>2 DEF Passes, Indexed
  <2>2. d[<<p, g>>] = t.orig[g] \/ (j < t.i /\ Swapped(t, j, g))
    BY <2>1 DEF Swapped
  <2>3. d[<<p, g>>] = t.orig[g]
    BY <2>1, <2>2 DEF Holds
  <2>4. Fares(p, t, u, d, j, g)
    BY <2>1, <2>3 DEF Fares, Ready, Swapped, Undoing
  <2>. QED  BY <1>2, <2>1, <2>4 DEF Resting
<1>3. CASE t.stage = "rollback" /\ t.i <= 1 /\ ClosesTo(t, u)
  BY <1>3 DEF ClosesTo, Fares, Ready, Swapped, Tidied, Undoing, Indexed, Course, Resting
<1>. QED  BY <1>1, <1>2, <1>3 DEF FollowsTo

LEMMA RevertFares ==
  ASSUME NEW p, NEW t, NEW u, NEW d, NEW j, NEW g, Indexed(t, j), j <= t.n,
         Holds(p, t, d, j, g), Keeps(t, u), t.stage = "publish",
         u.stage = "rollback", u.i = t.n, u.pc = "undo", u.then = "next"
  PROVE  Fares(p, t, u, d, j, g) /\ Resting(u)
<1>1. /\ Ready(t, j, g) => g \notin t.published
      /\ Swapped(t, j, g) => g \in t.published
  BY DEF Holds
<1>2. t.pc \in {"check", "rename", "verify"} /\ j \in Nat /\ t.i \in Nat /\ t.n \in Nat
  BY DEF Indexed, Course, Stopped
<1>3. Ready(t, j, g) \/ Swapped(t, j, g)
  BY <1>2 DEF Ready, Swapped
<1>4. /\ Ready(u, j, g) => g \notin t.published
      /\ Swapped(u, j, g) <=> g \in t.published
      /\ ~Tidied(u, j) /\ ~Undoing(u, j)
  BY <1>2 DEF Ready, Swapped, Tidied, Undoing, Keeps
<1>. QED  BY <1>1, <1>3, <1>4 DEF Fares, Resting

LEMMA FailFares ==
  ASSUME NEW p, NEW t, NEW u, NEW d, NEW j, NEW g, Indexed(t, j), j <= t.n,
         NEW f, Holds(p, t, d, j, g), Controlled(t), FailsTo(f, t, u),
         j = t.i => f = g, g \notin u.left
  PROVE  /\ Fares(p, t, u, d, j, g) /\ Keeps(t, u)
         /\ Resting(u) \/ SeizesElsewhere(t, u)
<1>1. CASE Reverts(t, u)
  <2>1. t.then = "next"
    BY <1>1 DEF Reverts, Controlled
  <2>. QED  BY <1>1, <2>1, RevertFares DEF Reverts
<1>2. CASE t.stage = "prepare" /\ ClosesTo(t, u)
  <2>1. Holds(p, t, d, j, g) /\ Ready(t, j, g)
    BY <1>2 DEF Ready
  <2>2. d[<<p, g>>] = <<p, g>>
    BY <2>1 DEF Holds
  <2>. QED  BY <1>2, <2>2 DEF ClosesTo, Fares, Ready, Swapped, Tidied, Undoing, Indexed, Course,
                              Resting, Keeps
<1>3. CASE SeizesElsewhere(t, u)
  BY <1>3 DEF SeizesElsewhere, Stands, Fares, Ready, Swapped, Tidied, Undoing
<1>4. CASE t.stage = "finalize" /\ FollowsTo(t, u)
  BY <1>4, FollowFares
<1>5. CASE t.stage = "finalize" /\ ClosesTo(t, u)
  BY <1>5 DEF ClosesTo, Fares, Ready, Swapped, Tidied, Undoing, Indexed, Course, Resting, Keeps
<1>6. CASE t.stage = "rollback" /\ Hurts(f, t, u)
  <2>1. j # t.i
    BY <1>6 DEF Hurts
  <2>2. Keeps(t, u) /\ u.then = "next" /\ t.n \in Nat /\ t.i \in Nat /\ j \in Nat /\ j # 0
    BY <1>6 DEF Hurts, Indexed
  <2>3. CASE t.i > 1 /\ u.stage = "rollback" /\ u.pc = "undo" /\ u.i = t.i - 1
    BY <1>6, <2>1, <2>2, <2>3 DEF Fares, Ready, Swapped, Tidied, Undoing, Resting, Keeps
  <2>4. CASE t.i <= 1 /\ u.stage = "close" /\ u.pc = "close"
    BY <1>6, <2>1, <2>2, <2>4 DEF Fares, Ready, Swapped, Tidied, Undoing, Resting, Keeps
  <2>. QED  BY <1>6, <2>3, <2>4 DEF Hurts
<1>7. CASE t.stage = "close" /\ Hurts(f, t, u)
  BY <1>7 DEF Hurts, Fares, Ready, Swapped, Tidied, Undoing, Resting, Keeps
<1>. QED  BY <1>1, <1>2, <1>3, <1>4, <1>5, <1>6, <1>7 DEF FailsTo

(* What is found under the two names of the file at work.                  *)
LEMMA NamesApartHere ==
  ASSUME NEW p, NEW f, NEW d, p \in Procs, f \in Files, OneName(d)
  PROVE  /\ <<p, f>> \in Name /\ <<Public, f>> \in Name /\ <<p, f>> # <<Public, f>>
         /\ <<p, f>> # None
         /\ d[<<p, f>>] = d[<<Public, f>>] => d[<<p, f>>] = None
BY NamesApart DEF Name, Ident, OneName

LEMMA StandFares ==
  ASSUME NEW p, NEW t, NEW u, NEW d, NEW j, NEW g, Indexed(t, j), Stands(t, u),
         t.stage \notin {"prepare", "publish"},
         j = t.i /\ t.stage = "rollback" =>
           /\ ~Ready(u, j, g) /\ ~Undoing(u, j)
           /\ Swapped(u, j, g) => Swapped(t, j, g)
           /\ Swapped(t, j, g) /\ Shown(p, t, d, j, g) => Swapped(u, j, g)
           /\ Tidied(u, j) => d[<<p, g>>] \in {None, <<p, g>>, t.orig[g]} \/ Tidied(t, j)
  PROVE  Fares(p, t, u, d, j, g)
<1>1. CASE j = t.i /\ t.stage = "rollback"
  BY <1>1 DEF Fares, Stands
<1>2. CASE j # t.i \/ t.stage # "rollback"
  BY <1>2 DEF Fares, Stands, Keeps, Indexed, Ready, Swapped, Tidied, Undoing
<1>. QED  BY <1>1, <1>2

(* A rollback looks at the two names of its record.                        *)
LEMMA UndoFares ==
  ASSUME NEW p, NEW f, NEW t, NEW u, NEW d, NEW j, NEW g, AtRecord(p, f, t, d, j, g),
         Indexed(t, j), Holds(p, t, d, j, g),
         Turns(p, f, t, u, d) \/ Abandons(p, f, t, u, d)
  PROVE  Fares(p, t, u, d, j, g) /\ Stands(t, u)
<1>1. t.pc = "undo" /\ t.stage = "rollback" /\ Stands(t, u)
  BY DEF Turns, Abandons, RetiresTo, Indexed, Course
<1>2. ASSUME j = t.i, Turns(p, f, t, u, d)
      PROVE  /\ ~Ready(u, j, g) /\ ~Undoing(u, j) /\ Swapped(u, j, g) /\ Swapped(t, j, g)
             /\ ~Tidied(u, j)
  BY <1>1, <1>2 DEF AtRecord, Indexed, Turns, Stands, Keeps, Ready, Swapped, Tidied, Undoing
<1>3. ASSUME j = t.i, Abandons(p, f, t, u, d)
      PROVE  /\ ~Ready(u, j, g) /\ ~Undoing(u, j) /\ ~Swapped(u, j, g) /\ ~Tidied(u, j)
  BY <1>1, <1>3 DEF AtRecord, Indexed, Abandons, RetiresTo, Stands, Keeps, Ready, Swapped, Tidied, Undoing
<1>4. ASSUME j = t.i, Abandons(p, f, t, u, d), Swapped(t, j, g) PROVE ~Shown(p, t, d, j, g)
  <2>1. g = f /\ f \in t.published /\ ((t.mode[f] = "exchange") = (d[<<p, f>>] # None))
    BY <1>4 DEF AtRecord, Holds
  <2>. QED  BY <1>4, <2>1 DEF Abandons, Shown
<1>5. Fares(p, t, u, d, j, g)
  BY <1>1, <1>2, <1>3, <1>4, StandFares
<1>. QED  BY <1>1, <1>5

LEMMA RetireFares ==
  ASSUME NEW p, NEW f, NEW t, NEW u, NEW d, NEW j, NEW g, AtRecord(p, f, t, d, j, g),
         Indexed(t, j), Holds(p, t, d, j, g),
         \/ Withdraws(p, f, t, u, d) \/ Discards(f, t, u, d) \/ Tidies(f, t, u)
         \/ Seizes(p, f, t, u, d) \/ Hunts(f, t, u, d) \/ Sweeps(p, f, t, u, d)
         \/ Picks(t, u, d)
  PROVE  Fares(p, t, u, d, j, g) /\ Stands(t, u)
<1>1. Stands(t, u) /\ t.stage \notin {"prepare", "publish"}
  BY DEF Withdraws, Discards, Tidies, Seizes, Hunts, Sweeps, Picks, RetiresTo, TakesFrom,
         Indexed, Course
<1>2. /\ t.pc \in {"undone", "original", "tidy", "finalize", "close", "retire"}
      /\ u.pc \in {"retire", "take", "seize"}
      /\ t.pc = "undone" => d[<<p, f>>] = <<p, f>>
      /\ t.pc = "tidy" => u.then = "owned"
      /\ t.pc = "retire" => u.then = t.then /\ u.pc = "take"
      /\ t.stage = "rollback" => t.pc \in {"undone", "original", "tidy", "retire"}
  BY DEF Withdraws, Discards, Tidies, Seizes, Hunts, Sweeps, Picks, RetiresTo, TakesFrom,
         Indexed, Course
<1>3. ASSUME j = t.i, t.stage = "rollback"
      PROVE  /\ ~Ready(u, j, g) /\ ~Undoing(u, j) /\ ~Swapped(u, j, g) /\ ~Swapped(t, j, g)
             /\ Tidied(u, j) => d[<<p, g>>] \in {None, <<p, g>>, t.orig[g]} \/ Tidied(t, j)
  BY <1>1, <1>2, <1>3 DEF AtRecord, Indexed, Stands, Keeps, Ready, Swapped, Tidied, Undoing
<1>. QED  BY <1>1, <1>3, StandFares

LEMMA ResumeFares ==
  ASSUME NEW p, NEW f, NEW t, NEW u, NEW d, NEW j, NEW g, AtRecord(p, f, t, d, j, g),
         Indexed(t, j), j <= t.n, Holds(p, t, d, j, g), Resumes(t, u, d)
  PROVE  Fares(p, t, u, d, j, g) /\ Keeps(t, u)
<1>0. t.pc = "retire" /\ t.stage \in {"rollback", "finalize", "close"}
  BY DEF Resumes, Indexed, Course, Stages
<1>1. CASE t.then = "next" /\ FollowsTo(t, u)
  <2>1. j = t.i /\ t.stage = "rollback" => Tidied(t, j)
    BY <1>0, <1>1 DEF Tidied
  <2>2. Tidied(t, j) => d[<<p, g>>] \in {None, <<p, g>>, t.orig[g]}
    BY DEF Holds
  <2>. QED  BY <1>0, <1>1, <2>1, <2>2, FollowFares
<1>2. CASE t.then # "next" /\ Stands(t, u) /\ u.pc = t.then
  <2>1. t.stage = "rollback" /\ t.then \in {"original", "tidy", "owned"}
    BY <1>2 DEF AtRecord, Sound, Controlled, Continuations
  <2>2. CASE j # t.i
    BY <1>2, <2>1, <2>2, StandFares DEF Stands
  <2>3. CASE j = t.i
    <3>1. /\ ~Ready(u, j, g) /\ ~Undoing(u, j) /\ ~Swapped(u, j, g) /\ ~Swapped(t, j, g)
          /\ Tidied(u, j) => Tidied(t, j)
      BY <1>0, <1>2, <2>1, <2>3 DEF Indexed, Stands, Keeps, Ready, Swapped, Tidied, Undoing
    <3>. QED  BY <1>2, <2>1, <3>1, StandFares DEF Stands
  <2>. QED  BY <1>2, <2>2, <2>3 DEF Stands
<1>. QED  BY <1>1, <1>2 DEF Resumes, ResumesTo

LEMMA PassFares ==
  ASSUME NEW p, NEW f, NEW t, NEW u, NEW d, NEW j, NEW g, AtRecord(p, f, t, d, j, g),
         Indexed(t, j), j <= t.n, Holds(p, t, d, j, g),
         \/ Verifies(p, f, t, u, d) \/ Owns(p, f, t, u, d) \/ Skips(f, t, u) \/ Seals(t, u)
  PROVE  Fares(p, t, u, d, j, g) /\ Keeps(t, u)
<1>1. CASE Verifies(p, f, t, u, d)
  <2>1. t.stage = "publish" /\ t.pc = "verify" /\ FollowsTo(t, u)
    BY <1>1 DEF Verifies, Indexed, Course
  <2>2. ASSUME j = t.i PROVE d[<<p, g>>] = t.orig[g]
    <3>1. g = f /\ Swapped(t, j, g)
      BY <2>1, <2>2 DEF AtRecord, Swapped
    <3>2. ((t.mode[g] = "exchange") = (t.orig[g] # None))
      BY <3>1 DEF Holds
    <3>. QED  BY <1>1, <3>1, <3>2 DEF Verifies
  <2>. QED  BY <2>1, <2>2, FollowFares
<1>2. CASE Owns(p, f, t, u, d)
  <2>1. t.pc = "owned" /\ FollowsTo(t, u) /\ t.stage = "rollback"
        /\ d[<<p, f>>] \in {None, <<p, f>>, t.orig[f]}
    BY <1>2 DEF Owns, Indexed, Course
  <2>2. j = t.i => d[<<p, g>>] \in {None, <<p, g>>, t.orig[g]}
    BY <2>1 DEF AtRecord
  <2>. QED  BY <2>1, <2>2, FollowFares
<1>3. CASE Skips(f, t, u)
  BY <1>3, FollowFares DEF Skips, Indexed, Course
<1>4. CASE Seals(t, u)
  BY <1>4 DEF Seals, ClosesTo, Fares, Ready, Swapped, Tidied, Undoing, Indexed, Course, Keeps
<1>. QED  BY <1>1, <1>2, <1>3, <1>4

LEMMA CheckKept ==
  ASSUME NEW p, NEW f, NEW t, NEW u, NEW d, NEW j, NEW g, AtRecord(p, f, t, d, j, g),
         Indexed(t, j), Holds(p, t, d, j, g), Checks(f, t, u, d)
  PROVE  Kept(p, t, u, d, d, j, g)
<1>1. /\ t.stage = "publish" /\ t.pc = "check" /\ u.stage = "publish" /\ u.pc = "rename"
      /\ u.i = t.i /\ u.orig = t.orig /\ u.published = t.published
  BY DEF Checks, Indexed, Course
<1>2. IF j = t.i THEN (u.mode[g] = "exchange") = (t.orig[g] # None) ELSE u.mode[g] = t.mode[g]
  <2>1. t.mode \in [Files -> {"none", "exchange", "noreplace"}] /\ f \in Files /\ g \in Files
    BY DEF AtRecord, Sound, Record
  <2>2. u.mode = [t.mode EXCEPT ![f] = IF t.orig[f] = None THEN "noreplace" ELSE "exchange"]
    BY DEF Checks
  <2>. QED  BY <2>1, <2>2 DEF AtRecord
<1>3. /\ Ready(u, j, g) <=> Ready(t, j, g)
      /\ Swapped(u, j, g) <=> Swapped(t, j, g)
      /\ Swapped(t, j, g) => j # t.i
      /\ ~Tidied(u, j) /\ ~Undoing(u, j)
  BY <1>1 DEF Indexed, Ready, Swapped, Tidied, Undoing
<1>4. Holds(p, u, d, j, g)
  BY <1>1, <1>2, <1>3 DEF Indexed, Holds
<1>5. Shown(p, t, d, j, g) => Shown(p, u, d, j, g)
  BY <1>1, <1>3 DEF Shown
<1>. QED  BY <1>4, <1>5 DEF Kept

LEMMA MissFares ==
  ASSUME NEW p, NEW f, NEW t, NEW u, NEW d, NEW j, NEW g, AtRecord(p, f, t, d, j, g),
         Indexed(t, j), j <= t.n, Holds(p, t, d, j, g), d[<<p, f>>] = <<p, f>>,
         Misses(p, f, t, u, d)
  PROVE  Fares(p, t, u, d, j, g) /\ Keeps(t, u)
<1>1. <<p, f>> \in Name /\ OneName(d) /\ <<p, f>> # None
  BY NamesApartHere DEF AtRecord, Sound
<1>2. ~\E n \in Name \ {<<p, f>>} : d[n] = <<p, f>>
  BY <1>1 DEF OneName
<1>3. Keeps(t, u) /\ t.stage = "publish" /\ t.then = "next"
  BY <1>2 DEF Misses, Keeps, Indexed, Course, AtRecord, Sound, Controlled
<1>. QED  BY <1>3, RevertFares DEF Misses

LEMMA LookKept ==
  ASSUME NEW p, NEW f, NEW t, NEW u, NEW d, NEW j, NEW g, AtRecord(p, f, t, d, j, g),
         Indexed(t, j), j <= t.n, Holds(p, t, d, j, g), Looks(p, f, t, u, d),
         t.pc = "rename" => d[<<p, f>>] = <<p, f>>
  PROVE  Kept(p, t, u, d, d, j, g)
<1>1. CASE Checks(f, t, u, d)
  BY <1>1, CheckKept
<1>2. CASE Misses(p, f, t, u, d)
  <2>1. d[<<p, f>>] = <<p, f>>
    BY <1>2 DEF Misses
  <2>. QED  BY <1>2, <2>1, MissFares, FaresKept
<1>3. CASE \/ Verifies(p, f, t, u, d) \/ Owns(p, f, t, u, d) \/ Skips(f, t, u) \/ Seals(t, u)
  BY <1>3, PassFares, FaresKept
<1>4. CASE Turns(p, f, t, u, d) \/ Abandons(p, f, t, u, d)
  BY <1>4, UndoFares, FaresKept DEF Stands
<1>5. CASE \/ Withdraws(p, f, t, u, d) \/ Discards(f, t, u, d) \/ Tidies(f, t, u)
           \/ Seizes(p, f, t, u, d) \/ Hunts(f, t, u, d) \/ Sweeps(p, f, t, u, d)
           \/ Picks(t, u, d)
  BY <1>5, RetireFares, FaresKept DEF Stands
<1>6. CASE Resumes(t, u, d)
  BY <1>6, ResumeFares, FaresKept
<1>7. CASE FailsTo(f, t, u)
  <2>1. Controlled(t) /\ (j = t.i => f = g)
    BY DEF AtRecord, Sound
  <2>2. CASE g \notin u.left
    BY <1>7, <2>1, <2>2, FailFares, FaresKept
  <2>. QED  BY <2>2 DEF Kept
<1>. QED  BY <1>1, <1>2, <1>3, <1>4, <1>5, <1>6, <1>7 DEF Looks

(* The steps that change the directory.                                    *)
LEMMA WriteKept ==
  ASSUME NEW p, NEW f, NEW len, NEW t, NEW u, NEW d, NEW e, NEW j, NEW g,
         AtRecord(p, f, t, d, j, g), Indexed(t, j), Writes(p, f, len, t, u, d, e)
  PROVE  /\ j # t.i /\ Holds(p, t, d, j, g) => Kept(p, t, u, d, e, j, g)
         /\ j = t.i => Holds(p, u, e, j, g) /\ Shown(p, u, e, j, g)
<1>1. /\ <<p, f>> \in Name /\ <<Public, f>> \in Name /\ <<p, g>> \in Name
      /\ <<Public, g>> \in Name /\ p # Public
  BY NamesOf DEF AtRecord, Sound
<1>2. /\ t.pc = "prepare" /\ t.stage = "prepare" /\ t.published = {} /\ u.published = {}
      /\ t.orig \in [Files -> Content] /\ f \in Files /\ g \in Files /\ d \in [Name -> Content]
  BY DEF AtRecord, Sound, Record, Controlled, Course, Writes
<1>3. /\ e[<<p, f>>] = <<p, f>> /\ \A n \in Name \ {<<p, f>>} : e[n] = d[n]
      /\ u.orig[f] = d[<<Public, f>>] /\ \A h \in Files \ {f} : u.orig[h] = t.orig[h]
  BY <1>1, <1>2 DEF Writes
<1>4. /\ ~Swapped(u, j, g) /\ ~Swapped(t, j, g) /\ ~Undoing(u, j) /\ ~Undoing(t, j)
      /\ ~Tidied(u, j) /\ ~Tidied(t, j) /\ Ready(t, j, g)
      /\ ~(u.stage = "publish" /\ (j < u.i \/ (j = u.i /\ u.pc = "rename")))
  BY <1>2 DEF Writes, Indexed, Swapped, Undoing, Ready, Tidied
<1>5. ASSUME j # t.i, Holds(p, t, d, j, g) PROVE Kept(p, t, u, d, e, j, g)
  <2>1. /\ <<p, g>> # <<p, f>> /\ e[<<p, g>>] = d[<<p, g>>]
        /\ e[<<Public, g>>] = d[<<Public, g>>] /\ u.orig[g] = t.orig[g]
    BY <1>1, <1>2, <1>3, <1>5 DEF AtRecord
  <2>2. Holds(p, u, e, j, g)
    BY <1>2, <1>4, <1>5, <2>1 DEF Holds
  <2>. QED  BY <1>4, <2>1, <2>2 DEF Kept, Shown
<1>6. ASSUME j = t.i PROVE Holds(p, u, e, j, g) /\ Shown(p, u, e, j, g)
  <2>1. g = f
    BY <1>6 DEF AtRecord
  <2>. QED  BY <1>1, <1>2, <1>3, <1>4, <2>1 DEF Holds, Shown
<1>. QED  BY <1>5, <1>6

LEMMA ExchangeMoves ==
  ASSUME NEW p, NEW f, NEW d, NEW e, NEW a, NEW b, p \in Procs, f \in Files,
         d \in [Name -> Content],
         \/ a = <<p, f>> /\ b = <<Public, f>>
         \/ a = <<Public, f>> /\ b = <<p, f>>,
         e = Exchanged(d, a, b)
  PROVE  /\ e[<<p, f>>] = d[<<Public, f>>] /\ e[<<Public, f>>] = d[<<p, f>>]
         /\ \A n \in Name \ {<<p, f>>, <<Public, f>>} : e[n] = d[n]
         /\ e \in [Name -> Content]
<1>1. <<p, f>> \in Name /\ <<Public, f>> \in Name /\ <<p, f>> # <<Public, f>>
  BY NamesApart DEF Name
<1>. QED  BY <1>1 DEF Exchanged

LEMMA PublishKept ==
  ASSUME NEW p, NEW f, NEW t, NEW u, NEW d, NEW e, NEW j, NEW g,
         AtRecord(p, f, t, d, j, g), Indexed(t, j), Holds(p, t, d, j, g),
         Publishes(p, f, t, u, d, e)
  PROVE  Kept(p, t, u, d, e, j, g)
<1>1. /\ <<p, f>> \in Name /\ <<Public, f>> \in Name /\ <<p, g>> \in Name
      /\ <<Public, g>> \in Name /\ p # Public /\ <<p, f>> # None
  BY NamesOf DEF AtRecord, Sound
<1>2. /\ t.pc = "rename" /\ t.stage = "publish" /\ u.pc = "verify" /\ u.stage = "publish"
      /\ u.i = t.i /\ u.orig = t.orig /\ u.mode = t.mode
      /\ u.published = t.published \cup {f}
  BY DEF Publishes, Exchanges, Indexed, Course
<1>3. /\ e[<<p, f>>] = d[<<Public, f>>] /\ e[<<Public, f>>] = d[<<p, f>>]
      /\ \A n \in Name \ {<<p, f>>, <<Public, f>>} : e[n] = d[n]
  BY ExchangeMoves DEF AtRecord, Sound, Publishes
<1>4. CASE j # t.i
  <2>1. /\ g # f /\ e[<<p, g>>] = d[<<p, g>>] /\ e[<<Public, g>>] = d[<<Public, g>>]
    BY <1>1, <1>3, <1>4 DEF AtRecord
  <2>2. /\ Ready(u, j, g) <=> Ready(t, j, g)
        /\ Swapped(u, j, g) <=> Swapped(t, j, g)
        /\ ~Tidied(u, j) /\ ~Undoing(u, j)
    BY <1>2, <1>4 DEF Ready, Swapped, Tidied, Undoing
  <2>3. Holds(p, u, e, j, g)
    BY <1>2, <1>4, <2>1, <2>2 DEF Holds
  <2>. QED  BY <1>2, <2>1, <2>2, <2>3 DEF Kept, Shown
<1>5. CASE j = t.i
  <2>1. g = f /\ j \in Nat
    BY <1>5 DEF AtRecord, Indexed
  <2>2. /\ Ready(t, j, g) /\ ~Swapped(t, j, g) /\ ~Ready(u, j, g) /\ Swapped(u, j, g)
        /\ ~Tidied(u, j) /\ ~Undoing(u, j) /\ ~(j < u.i) /\ u.pc # "rename"
    BY <1>2, <1>5, <2>1 DEF Ready, Swapped, Tidied, Undoing
  <2>3. /\ d[<<p, f>>] = <<p, f>> /\ (t.mode[f] = "exchange") = (t.orig[f] # None)
    BY <1>2, <1>5, <2>1, <2>2 DEF Holds
  <2>4. d[<<Public, f>>] # <<p, f>>
    BY <1>1, <2>3 DEF AtRecord, Sound, OneName
  <2>5. (d[<<Public, f>>] # None) = (t.mode[f] = "exchange")
    BY DEF Publishes
  <2>6. Holds(p, u, e, j, g)
    BY <1>2, <1>3, <1>5, <2>1, <2>2, <2>3, <2>4, <2>5 DEF Holds
  <2>7. Shown(p, t, d, j, g) => Shown(p, u, e, j, g)
    BY <1>2, <1>3, <2>1, <2>2, <2>3 DEF Shown
  <2>. QED  BY <2>6, <2>7 DEF Kept
<1>. QED  BY <1>4, <1>5

LEMMA RestoreKept ==
  ASSUME NEW p, NEW f, NEW t, NEW u, NEW d, NEW e, NEW j, NEW g,
         AtRecord(p, f, t, d, j, g), Indexed(t, j), Holds(p, t, d, j, g),
         Restores(p, f, t, u, d, e)
  PROVE  Kept(p, t, u, d, e, j, g)
<1>1. /\ <<p, f>> \in Name /\ <<Public, f>> \in Name /\ <<p, g>> \in Name
      /\ <<Public, g>> \in Name /\ p # Public
  BY NamesOf DEF AtRecord, Sound
<1>2. t.pc = "back" /\ t.stage = "rollback" /\ u.pc = "undone" /\ Stands(t, u)
  BY DEF Restores, Indexed, Course
<1>3. /\ e[<<p, f>>] = d[<<Public, f>>] /\ e[<<Public, f>>] = d[<<p, f>>]
      /\ \A n \in Name \ {<<p, f>>, <<Public, f>>} : e[n] = d[n]
  BY ExchangeMoves DEF AtRecord, Sound, Restores
<1>4. CASE j # t.i
  <2>1. /\ g # f /\ e[<<p, g>>] = d[<<p, g>>] /\ e[<<Public, g>>] = d[<<Public, g>>]
    BY <1>1, <1>3, <1>4 DEF AtRecord
  <2>2. /\ Ready(u, j, g) <=> Ready(t, j, g)
        /\ Swapped(u, j, g) <=> Swapped(t, j, g)
        /\ Tidied(u, j) <=> Tidied(t, j)
        /\ ~Undoing(u, j) /\ u.stage # "publish"
    BY <1>2, <1>4 DEF Stands, Keeps, Ready, Swapped, Tidied, Undoing
  <2>3. Holds(p, u, e, j, g)
    BY <1>2, <1>4, <2>1, <2>2 DEF Holds, Stands, Keeps
  <2>. QED  BY <1>2, <2>1, <2>2, <2>3 DEF Kept, Shown, Stands, Keeps
<1>5. CASE j = t.i
  <2>1. g = f /\ j \in Nat
    BY <1>5 DEF AtRecord, Indexed
  <2>2. /\ Swapped(t, j, g) /\ ~Ready(u, j, g) /\ ~Swapped(u, j, g)
        /\ ~Tidied(u, j) /\ Undoing(u, j) /\ u.stage # "publish" /\ u.orig = t.orig
    BY <1>2, <1>5, <2>1 DEF Stands, Keeps, Ready, Swapped, Tidied, Undoing
  <2>3. Holds(p, u, e, j, g)
    BY <2>2 DEF Holds
  <2>4. Shown(p, t, d, j, g) => Shown(p, u, e, j, g)
    BY <1>3, <2>1, <2>2 DEF Shown
  <2>. QED  BY <2>3, <2>4 DEF Kept
<1>. QED  BY <1>4, <1>5

(* What is taken is a file of the record, and not under its public name.   *)
LEMMA TakeTarget ==
  ASSUME NEW p, NEW f, NEW t, NEW d, Sound(p, f, t, d), t.pc \in {"seize", "take"},
         t.target \in Name
  PROVE  /\ t.target[1] # Public /\ t.target[2] = f
         /\ d[t.target] \in {<<p, f>>, t.orig[f]}
<1>1. /\ t.target[1] # Public /\ d[t.target] = t.goal
      /\ t.target = <<p, f>> \/ t.goal # None
      /\ t.goal \in {<<p, f>>, t.orig[f]}
  BY DEF Sound, Aims
<1>2. ASSUME t.goal # None PROVE t.target[2] = f
  <2>1. d[t.target][2] = t.target[2]
    BY <1>1, <1>2 DEF Sound, OwnFile
  <2>2. t.goal[2] = f
    BY <1>1, <1>2 DEF Sound, OwnOriginals
  <2>. QED  BY <1>1, <2>1, <2>2
<1>. QED  BY <1>1, <1>2

LEMMA TakeKept ==
  ASSUME NEW p, NEW f, NEW t, NEW u, NEW d, NEW e, NEW j, NEW g,
         AtRecord(p, f, t, d, j, g), Indexed(t, j), Holds(p, t, d, j, g),
         t.target \in Name, Takes(t, u, d, e)
  PROVE  Kept(p, t, u, d, e, j, g)
<1>1. /\ <<p, f>> \in Name /\ <<Public, f>> \in Name /\ <<p, g>> \in Name
      /\ <<Public, g>> \in Name /\ p # Public
  BY NamesOf DEF AtRecord, Sound
<1>2. /\ t.pc \in {"seize", "take"} /\ t.stage \notin {"prepare", "publish"}
      /\ u.pc = "retire" /\ u.then = t.then /\ Stands(t, u)
      /\ t.stage = "rollback" => t.pc = "take"
  BY DEF Takes, RetiresTo, Indexed, Course
<1>3. /\ e[t.target] = None /\ \A n \in Name \ {t.target} : e[n] = d[n]
  BY DEF Takes, AtRecord, Sound
<1>4. t.target[1] # Public /\ t.target[2] = f
  BY <1>2, TakeTarget DEF AtRecord
<1>5. e[<<Public, g>>] = d[<<Public, g>>] /\ (j # t.i => e[<<p, g>>] = d[<<p, g>>])
      /\ e[<<p, g>>] \in {None, d[<<p, g>>]}
  BY <1>1, <1>3, <1>4 DEF AtRecord
<1>6. /\ Ready(u, j, g) => Ready(t, j, g) /\ j # t.i
      /\ Swapped(u, j, g) => Swapped(t, j, g) /\ j # t.i
      /\ Swapped(t, j, g) => Swapped(u, j, g)
      /\ Tidied(u, j) => Tidied(t, j)
      /\ ~Undoing(u, j) /\ u.stage # "publish"
  BY <1>2 DEF Indexed, Stands, Keeps, Ready, Swapped, Tidied, Undoing
<1>7. Holds(p, u, e, j, g)
  BY <1>2, <1>5, <1>6 DEF Holds, Stands, Keeps
<1>8. Shown(p, t, d, j, g) => Shown(p, u, e, j, g)
  BY <1>2, <1>5, <1>6 DEF Shown, Stands, Keeps
<1>. QED  BY <1>7, <1>8 DEF Kept

----------------------------------------------------------------------------
(* What a retirement may take.                                             *)

Aiming(p, f, t, u, e) == Resting(u) \/ (u.i = t.i /\ Aims(p, u, e, f))

LEMMA TakeAims ==
  ASSUME NEW p, NEW f, NEW t, NEW u, NEW d, NEW e, Sound(p, f, t, d), Indexed(t, t.i),
         t.target \in Name, Takes(t, u, d, e)
  PROVE  Aiming(p, f, t, u, e)
<1>1. /\ t.pc \in {"seize", "take"} /\ t.target[1] # Public
      /\ t.goal \in {<<p, f>>, t.orig[f]}
      /\ d[<<Public, f>>] = t.goal /\ d[<<Public, f>>] # None => <<Public, f>> \in t.keep
      /\ t.then # "tidy" \/ (d[<<Public, f>>] = t.orig[f] /\ d[<<Public, f>>] # None => <<Public, f>> \in t.spare)
  BY DEF Takes, Sound, Aims
<1>2. e[<<Public, f>>] = d[<<Public, f>>]
  BY <1>1, NamesOf DEF Takes, Sound
<1>. QED  BY <1>1, <1>2 DEF Takes, RetiresTo, Stands, Keeps, Aiming, Aims

LEMMA SetAims ==
  ASSUME NEW p, NEW f, NEW t, NEW u, NEW d, NEW goal, NEW keep, NEW then,
         RetiresTo(t, u, goal, keep, then), then # "tidy", goal \in {<<p, f>>, t.orig[f]},
         d[<<Public, f>>] = goal /\ d[<<Public, f>>] # None => <<Public, f>> \in keep
  PROVE  Aiming(p, f, t, u, d)
BY DEF RetiresTo, Stands, Keeps, Aiming, Aims

LEMMA SetAimsHere ==
  ASSUME NEW p, NEW f, NEW t, NEW u, NEW d, NEW goal, NEW then, NEW pc,
         Sound(p, f, t, d), d[<<p, f>>] = goal, goal \in {<<p, f>>, t.orig[f]},
         TakesFrom(t, u, goal, {}, then, pc, <<p, f>>), then # "tidy", pc # "tidy"
  PROVE  Aiming(p, f, t, u, d)
<1>1. p # Public /\ (d[<<p, f>>] = d[<<Public, f>>] => d[<<p, f>>] = None)
  BY NamesOf, NamesApartHere DEF Sound
<1>. QED  BY <1>1 DEF TakesFrom, Stands, Keeps, Aiming, Aims

LEMMA LookAims ==
  ASSUME NEW p, NEW f, NEW t, NEW u, NEW d, Sound(p, f, t, d), Indexed(t, t.i),
         t.stage = "rollback" => Holds(p, t, d, t.i, f), Looks(p, f, t, u, d)
  PROVE  Aiming(p, f, t, u, d)
<1>0. /\ <<p, f>> \in Name /\ <<Public, f>> \in Name /\ <<p, f>> # <<Public, f>>
      /\ <<p, f>> # None
      /\ d[<<p, f>>] = d[<<Public, f>>] => d[<<p, f>>] = None
      /\ p # Public
  BY NamesOf, NamesApartHere DEF Sound
<1>1. /\ t.then # "next" => t.stage = "rollback" /\ t.pc \in {"retire", "take"}
      /\ t.then \in Continuations /\ t.pc \in Course(t.stage)
  BY DEF Sound, Controlled, Stopped
<1>2. CASE Checks(f, t, u, d) \/ Misses(p, f, t, u, d) \/ Turns(p, f, t, u, d)
  BY <1>1, <1>2 DEF Checks, Misses, Turns, Aiming, Resting
<1>3. CASE \/ Verifies(p, f, t, u, d) \/ Owns(p, f, t, u, d) \/ Skips(f, t, u) \/ Seals(t, u)
  BY <1>3 DEF Verifies, Owns, Skips, Seals, FollowsTo, ClosesTo, WithinStage, Passes,
              Aiming, Resting
<1>4. CASE Abandons(p, f, t, u, d)
  <2>1. t.stage = "rollback" /\ t.pc = "undo" /\ t.i \in Nat
    BY <1>4 DEF Abandons, Indexed, Course
  <2>2. Ready(t, t.i, f) \/ Swapped(t, t.i, f)
    BY <2>1 DEF Ready, Swapped
  <2>3. d[<<Public, f>>] # <<p, f>>
    BY <1>0, <1>4, <2>1, <2>2 DEF Abandons, Holds
  <2>4. RetiresTo(t, u, <<p, f>>, {}, "tidy") /\ u.spare = KeptName(f, d, t.orig[f])
    BY <1>4 DEF Abandons
  <2>. QED  BY <2>3, <2>4 DEF RetiresTo, Stands, Keeps, Aiming, Aims, KeptName
<1>5. CASE Withdraws(p, f, t, u, d)
  BY <1>5, SetAimsHere DEF Withdraws
<1>6. CASE Seizes(p, f, t, u, d)
  BY <1>6, SetAimsHere DEF Seizes
<1>7. CASE \/ Discards(f, t, u, d) \/ Hunts(f, t, u, d) \/ Sweeps(p, f, t, u, d)
  BY <1>7, SetAims DEF Discards, Hunts, Sweeps, KeptName
<1>8. CASE Tidies(f, t, u)
  <2>1. /\ RetiresTo(t, u, t.orig[f], t.spare, "owned")
        /\ d[<<Public, f>>] = t.orig[f] /\ d[<<Public, f>>] # None => <<Public, f>> \in t.spare
    BY <1>8 DEF Tidies, Sound, Aims
  <2>. QED  BY <2>1, SetAims
<1>9. CASE Picks(t, u, d)
  <2>1. PICK n \in Name \ t.keep :
               d[n] = t.goal /\ TakesFrom(t, u, t.goal, t.keep, t.then, "take", n)
    BY <1>9 DEF Picks
  <2>2. /\ t.pc = "retire" /\ t.goal # None /\ u.spare = t.spare
    BY <1>9 DEF Picks
  <2>3. /\ t.goal \in {<<p, f>>, t.orig[f]} /\ t.goal[2] = f
        /\ d[<<Public, f>>] = t.goal => <<Public, f>> \in t.keep
        /\ t.then = "tidy" =>
             (d[<<Public, f>>] = t.orig[f] /\ d[<<Public, f>>] # None => <<Public, f>> \in t.spare)
    BY <2>2 DEF Sound, Aims, OwnOriginals
  <2>4. n[1] # Public
    <3>1. SUFFICES ASSUME n[1] = Public PROVE FALSE
      OBVIOUS
    <3>2. n[2] = f
      BY <2>1, <2>2, <2>3 DEF Sound, OwnFile
    <3>3. n = <<Public, f>>
      BY <2>1, <3>1, <3>2 DEF Name
    <3>. QED  BY <2>1, <2>3, <3>3
  <2>. QED  BY <2>1, <2>2, <2>3, <2>4 DEF TakesFrom, Stands, Keeps, Aiming, Aims
<1>10. CASE Resumes(t, u, d)
  <2>1. CASE t.then = "next" /\ FollowsTo(t, u)
    BY <2>1 DEF FollowsTo, ClosesTo, WithinStage, Passes, Aiming, Resting
  <2>2. CASE t.then # "next" /\ Stands(t, u) /\ u.pc = t.then /\ u.then = "next"
             /\ u.spare = t.spare
    BY <1>1, <2>2 DEF Sound, Aims, Stands, Keeps, Aiming, Resting, Continuations
  <2>. QED  BY <1>10, <2>1, <2>2 DEF Resumes, ResumesTo
<1>11. CASE FailsTo(f, t, u)
  <2>1. CASE SeizesElsewhere(t, u)
    <3>1. /\ t.goal \in {<<p, f>>, t.orig[f]} /\ t.then = "next"
          /\ d[<<Public, f>>] = t.goal /\ d[<<Public, f>>] # None => <<Public, f>> \in t.keep
      BY <1>1, <2>1 DEF SeizesElsewhere, Sound, Aims
    <3>. QED  BY <2>1, <3>1 DEF SeizesElsewhere, Stands, Keeps, Aiming, Aims
  <2>2. CASE Reverts(t, u)
    BY <1>1, <2>2 DEF Reverts, Aiming, Resting
  <2>3. CASE FollowsTo(t, u) \/ ClosesTo(t, u)
    BY <2>3 DEF FollowsTo, ClosesTo, WithinStage, Passes, Aiming, Resting, Sound, Controlled, Course
  <2>4. CASE Hurts(f, t, u)
    BY <2>4 DEF Hurts, Aiming, Resting
  <2>. QED  BY <1>11, <2>1, <2>2, <2>3, <2>4 DEF FailsTo
<1>. QED  BY <1>2, <1>3, <1>4, <1>5, <1>6, <1>7, <1>8, <1>9, <1>10, <1>11 DEF Looks

LEMMA CallAims ==
  ASSUME NEW p, NEW f, NEW len, NEW t, NEW u, NEW d, NEW e, Sound(p, f, t, d),
         Indexed(t, t.i), t.stage = "rollback" => Holds(p, t, d, t.i, f),
         t.pc \in {"seize", "take"} => t.target \in Name,
         Calls(p, f, len, t, u, d, e)
  PROVE  Aiming(p, f, t, u, e)
<1>0. t.pc \in {"prepare", "rename", "back"} => t.then = "next"
  BY DEF Sound, Controlled
<1>1. CASE Writes(p, f, len, t, u, d, e)
  BY <1>0, <1>1 DEF Writes, Aiming, Resting
<1>2. CASE Publishes(p, f, t, u, d, e)
  BY <1>0, <1>2 DEF Publishes, Exchanges, Aiming, Resting
<1>3. CASE Restores(p, f, t, u, d, e)
  BY <1>0, <1>3 DEF Restores, Aiming, Resting
<1>4. CASE Takes(t, u, d, e)
  BY <1>4, TakeAims DEF Takes
<1>5. CASE Looks(p, f, t, u, d) /\ e = d
  BY <1>5, LookAims
<1>. QED  BY <1>1, <1>2, <1>3, <1>4, <1>5 DEF Calls

----------------------------------------------------------------------------
(* The steps of a process, and what surrounds them.                        *)

LEMMA CallKept ==
  ASSUME NEW p, NEW f, NEW len, NEW t, NEW u, NEW d, NEW e, NEW j, NEW g,
         AtRecord(p, f, t, d, j, g), Indexed(t, j), j <= t.n, Holds(p, t, d, j, g),
         t.pc \in {"seize", "take"} => t.target \in Name,
         t.stage = "prepare" => t.n < t.i,
         t.pc = "rename" => d[<<p, f>>] = <<p, f>>,
         Calls(p, f, len, t, u, d, e)
  PROVE  Kept(p, t, u, d, e, j, g)
<1>1. CASE Writes(p, f, len, t, u, d, e)
  <2>1. t.stage = "prepare"
    BY <1>1 DEF Writes, Indexed, Course
  <2>2. j # t.i
    BY <2>1 DEF Indexed
  <2>. QED  BY <1>1, <2>2, WriteKept
<1>2. CASE Publishes(p, f, t, u, d, e)
  BY <1>2, PublishKept
<1>3. CASE Restores(p, f, t, u, d, e)
  BY <1>3, RestoreKept
<1>4. CASE Takes(t, u, d, e)
  BY <1>4, TakeKept DEF Takes
<1>5. CASE Looks(p, f, t, u, d) /\ e = d
  BY <1>5, LookKept DEF Kept
<1>. QED  BY <1>1, <1>2, <1>3, <1>4, <1>5 DEF Calls

(* A call leaves every file one name, for versions of that file only.      *)
LEMMA CallNames ==
  ASSUME NEW p, NEW f, NEW len, NEW t, NEW u, NEW d, NEW e, Calls(p, f, len, t, u, d, e),
         p \in Procs, f \in Files, d \in [Name -> Content], OneName(d), OwnFile(d),
         t.pc \in {"seize", "take"} => t.target \in Name,
         t.pc = "prepare" => \A n \in Name : d[n] # <<p, f>>
  PROVE  /\ OneName(e) /\ OwnFile(e)
         /\ \A n \in Name \ {<<p, f>>, <<Public, f>>} : e[n] \in {d[n], None}
<1>0. <<p, f>> \in Name /\ <<Public, f>> \in Name /\ p # Public
  BY NamesOf
<1>1. CASE Writes(p, f, len, t, u, d, e)
  <2>1. /\ e[<<p, f>>] = <<p, f>> /\ \A n \in Name \ {<<p, f>>} : e[n] = d[n]
        /\ \A n \in Name : d[n] # <<p, f>>
    BY <1>0, <1>1 DEF Writes
  <2>. QED  BY <2>1 DEF OneName, OwnFile
<1>2. CASE Publishes(p, f, t, u, d, e) \/ Restores(p, f, t, u, d, e)
  <2>1. /\ e[<<p, f>>] = d[<<Public, f>>] /\ e[<<Public, f>>] = d[<<p, f>>]
        /\ \A n \in Name \ {<<p, f>>, <<Public, f>>} : e[n] = d[n]
    BY <1>2, ExchangeMoves DEF Publishes, Restores
  <2>2. OwnFile(e)
    BY <1>0, <2>1 DEF OwnFile
  <2>. QED  BY <1>0, <2>1, <2>2 DEF OneName
<1>3. CASE Takes(t, u, d, e)
  <2>1. e[t.target] = None /\ \A n \in Name \ {t.target} : e[n] = d[n]
    BY <1>3 DEF Takes
  <2>. QED  BY <2>1 DEF OneName, OwnFile
<1>4. CASE e = d
  BY <1>4
<1>. QED  BY <1>1, <1>2, <1>3, <1>4 DEF Calls

(* Only preparing notes an original.                                       *)
NotesOriginal(f, t, u, d) ==
  \A h \in Files : \/ u.orig[h] = t.orig[h]
                   \/ /\ h = f /\ t.pc = "prepare" /\ u.n = t.i
                      /\ u.orig[h] = d[<<Public, f>>]

LEMMA CallOriginals ==
  ASSUME NEW p, NEW f, NEW len, NEW t, NEW u, NEW d, NEW e, Calls(p, f, len, t, u, d, e),
         t \in Record, f \in Files
  PROVE  NotesOriginal(f, t, u, d)
<1>. USE DEF NotesOriginal
<1>1. CASE Writes(p, f, len, t, u, d, e)
  BY <1>1 DEF Writes, Record
<1>2. CASE FailsTo(f, t, u)
  BY <1>2 DEF FailsTo, Reverts, Hurts, SeizesElsewhere, FollowsTo, ClosesTo, Stands, Keeps
<1>3. CASE ResumesTo(t, u)
  BY <1>3 DEF ResumesTo, FollowsTo, ClosesTo, Stands, Keeps
<1>4. CASE FollowsTo(t, u) \/ ClosesTo(t, u)
  BY <1>4 DEF FollowsTo, ClosesTo, Keeps
<1>5. CASE Stands(t, u)
  BY <1>5 DEF Stands, Keeps
<1>6. CASE Publishes(p, f, t, u, d, e) \/ Checks(f, t, u, d) \/ Misses(p, f, t, u, d)
  BY <1>6 DEF Publishes, Exchanges, Checks, Misses
<1>. QED  BY <1>1, <1>2, <1>3, <1>4, <1>5, <1>6
          DEF Calls, Restores, Takes, RetiresTo, TakesFrom, Looks, Verifies, Turns, Abandons,
              Withdraws, Discards, Tidies, Owns, Skips, Seizes, Hunts, Seals, Sweeps, Picks,
              Resumes

(* There is no way back from having failed, or from having started.        *)
LEMMA CallMarks ==
  ASSUME NEW p, NEW f, NEW len, NEW t, NEW u, NEW d, NEW e, Calls(p, f, len, t, u, d, e),
         t.then \in Continuations
  PROVE  /\ t.left \subseteq u.left
         /\ t.passed => u.passed
         /\ u.pc \notin {"idle", "killed"}
<1>1. CASE Writes(p, f, len, t, u, d, e)
  BY <1>1 DEF Writes, Marks
<1>2. CASE FailsTo(f, t, u)
  BY <1>2 DEF FailsTo, Reverts, Hurts, SeizesElsewhere, FollowsTo, ClosesTo, WithinStage, Passes,
              Stands, Marks
<1>3. CASE ResumesTo(t, u)
  BY <1>3 DEF ResumesTo, FollowsTo, ClosesTo, WithinStage, Passes, Stands, Marks, Continuations
<1>4. CASE FollowsTo(t, u) \/ ClosesTo(t, u)
  BY <1>4 DEF FollowsTo, ClosesTo, WithinStage, Passes, Marks
<1>5. CASE Stands(t, u) /\ u.pc \notin {"idle", "killed"}
  BY <1>5 DEF Stands, Marks
<1>6. CASE Publishes(p, f, t, u, d, e) \/ Checks(f, t, u, d) \/ Misses(p, f, t, u, d)
  BY <1>6 DEF Publishes, Exchanges, Checks, Misses, Marks
<1>. QED  BY <1>1, <1>2, <1>3, <1>4, <1>5, <1>6
          DEF Calls, Restores, Takes, RetiresTo, TakesFrom, Looks, Verifies, Turns, Abandons,
              Withdraws, Discards, Tidies, Owns, Skips, Seizes, Hunts, Seals, Sweeps, Picks,
              Resumes

----------------------------------------------------------------------------
(* The surroundings, in every reachable state.                             *)

(* A file that was not noted left no trace.                                *)
Surrounds ==
  /\ OneName(dir) /\ OwnFile(dir)
  /\ \A p \in Procs : OwnOriginals(p, tx[p])
  /\ \A p \in Procs, f \in Files :
       f \notin Noted(p) => dir[<<p, f>>] = None /\ tx[p].orig[f] = None

(* Nothing is known of a writer who has not acted.                         *)
Strangers ==
  \A o \in Others \ acted, f \in Files :
    /\ <<o, f>> \notin made /\ Vanished(dir, <<o, f>>)
    /\ \A p \in Procs : tx[p].orig[f] # <<o, f>>

(* A process that met no other is by itself while it works.                *)
Company ==
  /\ \A p \in Active \ mixed : Active = {p}
  /\ \A p \in mixed : \E q \in Procs \ {p} : tx[q].pc # "idle"

World == InControl /\ FilesNoted /\ Surrounds /\ Strangers /\ Company

(* What is known of a process that takes a step.                           *)
LEMMA ActsKnown ==
  ASSUME InControl, FilesNoted, NEW p \in Procs, Acts(p)
  PROVE  /\ Calls(p, File(p), Len(Work(p)), tx[p], tx'[p], dir, dir')
         /\ tx[p] \in Record /\ Controlled(tx[p]) /\ tx[p].then \in Continuations
         /\ File(p) \in Files /\ dir \in [Name -> Content] /\ Indexed(tx[p], tx[p].i)
         /\ tx[p].pc \in {"seize", "take"} => tx[p].target \in Name
         /\ tx[p].stage # "prepare" => tx[p].i <= tx[p].n
         /\ tx[p].stage = "prepare" => tx[p].n = tx[p].i - 1
         /\ tx[p].pc = "prepare" => \A n \in Name : dir[n] # <<p, File(p)>>
         /\ tx[p].i \in 1..Len(Work(p)) /\ File(p) = Work(p)[tx[p].i]
<1>1. Calls(p, File(p), Len(Work(p)), tx[p], tx'[p], dir, dir') /\ tx[p].pc \notin Stopped
  BY DEF Acts, Called
<1>2. /\ tx[p] \in Record /\ Controlled(tx[p]) /\ AtWork(tx[p], Len(Work(p)))
      /\ File(p) \in Files /\ dir \in [Name -> Content] /\ Len(Work(p)) \in Nat
  BY <1>1, AtCall
<1>3. /\ tx[p].then \in Continuations /\ tx[p].i \in 1..Len(Work(p))
      /\ tx[p].stage \in {"publish", "rollback", "finalize"} => tx[p].n = Len(Work(p))
  BY <1>2 DEF AtWork, Sane
<1>4. tx[p].n \in Nat /\ tx[p].i \in Nat /\ tx[p].stage \in Stages
  BY <1>2 DEF Record
<1>5. Indexed(tx[p], tx[p].i)
  BY <1>1, <1>2, <1>3, <1>4 DEF Indexed, Controlled
<1>6. tx[p].pc \in {"seize", "take"} => tx[p].target \in Name
  BY DEF InControl, Inv, RecordsPlaced, Placed
<1>7. tx[p].stage # "prepare" => tx[p].i <= tx[p].n
  BY <1>2, <1>3, <1>4 DEF Controlled, Stages
<1>8. /\ tx[p].stage = "prepare" => tx[p].pc = "prepare"
      /\ tx[p].pc = "prepare" => tx[p].n = tx[p].i - 1
  BY <1>1, <1>2 DEF Controlled, Course, Stopped
<1>9. ASSUME tx[p].pc = "prepare", NEW n \in Name PROVE dir[n] # <<p, File(p)>>
  <2>1. /\ \A i, j \in 1..Len(Work(p)) : Work(p)[i] = Work(p)[j] => i = j
        /\ tx[p].n <= Len(Work(p)) /\ Len(Work(p)) \in Nat
    BY WorkFacts
  <2>2. File(p) \notin Noted(p)
    BY <1>3, <1>4, <1>8, <1>9, <2>1 DEF Noted, File
  <2>. QED  BY <1>2, <2>2 DEF FilesNoted
<1>. QED  BY <1>1, <1>2, <1>3, <1>5, <1>6, <1>7, <1>8, <1>9 DEF File

LEMMA ActsOriginals ==
  ASSUME InControl, FilesNoted, NEW p \in Procs, Acts(p)
  PROVE  NotesOriginal(File(p), tx[p], tx'[p], dir)
<1>1. /\ Calls(p, File(p), Len(Work(p)), tx[p], tx'[p], dir, dir')
      /\ tx[p] \in Record /\ File(p) \in Files
  BY ActsKnown
<1>. QED  BY <1>1, CallOriginals

LEMMA StepSurrounds ==
  ASSUME InControl, FilesNoted, Surrounds, NEW p \in Procs, Acts(p)
  PROVE  Surrounds'
<1>. DEFINE f == File(p)
            t == tx[p]
            u == tx'[p]
<1>1. /\ Calls(p, f, Len(Work(p)), t, u, dir, dir')
      /\ t \in Record /\ Controlled(t) /\ t.then \in Continuations
      /\ f \in Files /\ dir \in [Name -> Content] /\ Indexed(t, t.i)
      /\ t.pc \in {"seize", "take"} => t.target \in Name
      /\ t.stage # "prepare" => t.i <= t.n
      /\ t.pc = "prepare" => \A n \in Name : dir[n] # <<p, f>>
      /\ f = Work(p)[t.i]
  BY ActsKnown
<1>2. /\ OneName(dir') /\ OwnFile(dir')
      /\ \A n \in Name \ {<<p, f>>, <<Public, f>>} : dir'[n] \in {dir[n], None}
  BY <1>1, CallNames DEF Surrounds
<1>0. /\ OwnOriginals(p, t) /\ OwnFile(dir) /\ plan' = plan
      /\ t.pc = "prepare" => dir[<<Public, f>>] # <<p, f>>
  BY <1>1, NamesOf DEF Surrounds, Acts, observed
<1>3. \A h \in Files : \/ u.orig[h] = t.orig[h]
                       \/ /\ h = f /\ t.pc = "prepare" /\ u.n = t.i
                          /\ u.orig[h] = dir[<<Public, f>>]
  BY ActsOriginals DEF NotesOriginal
<1>4. \A q \in Procs \ {p} : tx'[q] = tx[q] /\ Noted(q)' = Noted(q)
  BY NotedKept DEF Acts, observed
<1>5. Noted(p) \subseteq Noted(p)'
  BY NotedGrows DEF Acts, observed
<1>6. OwnOriginals(p, u)
  <2>. HIDE DEF f, t, u
  <2>. SUFFICES ASSUME NEW h \in Files
                PROVE  u.orig[h] # <<p, h>> /\ (u.orig[h] # None => u.orig[h][2] = h)
    BY DEF OwnOriginals
  <2>1. CASE u.orig[h] = t.orig[h]
    BY <1>0, <2>1 DEF OwnOriginals
  <2>2. CASE h = f /\ t.pc = "prepare" /\ u.orig[h] = dir[<<Public, f>>]
    <3>1. <<Public, f>> \in Name
      BY <1>1, NamesOf
    <3>. QED  BY <1>0, <2>2, <3>1 DEF OwnFile
  <2>. QED  BY <1>3, <2>1, <2>2
<1>7. \A q \in Procs : OwnOriginals(q, tx'[q])
  BY <1>4, <1>6 DEF Surrounds
<1>8. ASSUME NEW q \in Procs, NEW h \in Files, h \notin Noted(q)'
      PROVE  dir'[<<q, h>>] = None /\ tx'[q].orig[h] = None
  <2>1. h \notin Noted(q)
    BY <1>4, <1>5, <1>8
  <2>2. dir[<<q, h>>] = None /\ tx[q].orig[h] = None
    BY <2>1 DEF Surrounds
  <2>3. ASSUME u.n = t.i PROVE f \in Noted(p)'
    <3>1. Work(p)' = Work(p)
      BY <1>0 DEF Work
    <3>2. t.i \in 1..u.n
      BY <1>1, <2>3 DEF Indexed
    <3>3. Work(p)'[t.i] = f
      BY <1>1, <3>1
    <3>. QED  BY <3>2, <3>3 DEF Noted
  <2>4. tx'[q].orig[h] = None
    BY <1>3, <1>4, <1>8, <2>2, <2>3
  <2>5. CASE q # p \/ h # f
    <3>1. <<q, h>> \in Name \ {<<p, f>>, <<Public, f>>}
      BY <2>5, NamesOf
    <3>. QED  BY <1>2, <2>2, <2>4, <3>1
  <2>6. CASE q = p /\ h = f
    <3>1. t.stage = "prepare"
      BY <1>1, <2>1, <2>6 DEF Noted, Indexed
    <3>2. t.pc = "prepare"
      BY <1>1, <3>1 DEF Indexed, Course, Stopped
    <3>3. u.n # t.i
      BY <1>8, <2>3, <2>6
    <3>4. dir' = dir
      BY <3>2, <3>3, StepNotes
    <3>. QED  BY <2>2, <2>4, <2>6, <3>4
  <2>. QED  BY <2>4, <2>5, <2>6
<1>. QED  BY <1>2, <1>7, <1>8 DEF Surrounds

(* What another writer does to the directory.                              *)
Visits(o, f, d, e) ==
  \/ e = [d EXCEPT ![<<Public, f>>] = <<o, f>>]
  \/ \E new \in {<<o, f>>, None} :
       /\ d[<<Aside, f>>] = None
       /\ e = [d EXCEPT ![<<Aside, f>>] = d[<<Public, f>>], ![<<Public, f>>] = new]

LEMMA Visiting ==
  ASSUME NEW o, NEW f, Overwrite(o, f) \/ \E new \in {<<o, f>>, None} : MoveAside(o, f, new)
  PROVE  /\ Visits(o, f, dir, dir') /\ tx' = tx /\ plan' = plan /\ mixed' = mixed
         /\ o \notin acted /\ acted' = acted \cup {o}
         /\ visited' = visited \cup {p \in Active : f \in Planned(p)}
         /\ made' \subseteq made \cup {<<o, f>>}
BY DEF Overwrite, MoveAside, Visit, Visits

(* The same files under all names but these, and no file but x is new.     *)
SameBut(d, e, names) == \A n \in Name \ names : e[n] = d[n]

Brings(d, e, x) == \A n \in Name : e[n] \in {None, x} \/ \E m \in Name : e[n] = d[m]

(* A visit to one file, by a writer nothing is known of: what it leaves at *)
(* the names, those it visits and the others.                              *)
Leaves(o, f, d, e) ==
  /\ OneName(e) /\ OwnFile(e)
  /\ SameBut(d, e, {<<Public, f>>, <<Aside, f>>}) /\ Brings(d, e, <<o, f>>)
  /\ e[<<Public, f>>] = None \/ e[<<Public, f>>] = <<o, f>>
  /\ d[<<Aside, f>>] = None \/ e[<<Aside, f>>] = d[<<Aside, f>>]

LEMMA VisitNames ==
  ASSUME NEW o, NEW f, NEW d, NEW e, Visits(o, f, d, e), f \in Files, d \in [Name -> Content],
         OneName(d), OwnFile(d), Vanished(d, <<o, f>>)
  PROVE  Leaves(o, f, d, e)
<1>. DEFINE a == <<Aside, f>>
            b == <<Public, f>>
<1>0. a \in Name /\ b \in Name /\ a # b /\ a[2] = f /\ b[2] = f
  BY NamesApart DEF Name
<1>. HIDE DEF a, b
<1>1. CASE e = [d EXCEPT ![b] = <<o, f>>]
  <2>1. e[b] = <<o, f>> /\ \A n \in Name \ {b} : e[n] = d[n]
    BY <1>0, <1>1
  <2>2. OneName(e) /\ OwnFile(e)
    BY <1>0, <2>1 DEF OneName, OwnFile, Vanished, a, b
  <2>3. SameBut(d, e, {b, a}) /\ Brings(d, e, <<o, f>>)
    BY <1>0, <2>1 DEF SameBut, Brings
  <2>4. d[a] = None \/ e[a] = d[a]
    BY <1>0, <2>1
  <2>. QED  BY <2>1, <2>2, <2>3, <2>4 DEF Leaves, a, b
<1>2. ASSUME NEW new \in {<<o, f>>, None}, d[a] = None, e = [d EXCEPT ![a] = d[b], ![b] = new]
      PROVE  /\ OneName(e) /\ OwnFile(e) /\ e[b] = new
             /\ SameBut(d, e, {b, a}) /\ Brings(d, e, <<o, f>>)
  <2>1. e[b] = new /\ e[a] = d[b] /\ \A n \in Name \ {a, b} : e[n] = d[n]
    BY <1>0, <1>2
  <2>2. OneName(e)
    BY <1>0, <1>2, <2>1 DEF OneName, Vanished
  <2>3. OwnFile(e)
    BY <1>0, <1>2, <2>1 DEF OwnFile
  <2>. QED  BY <1>0, <1>2, <2>1, <2>2, <2>3 DEF SameBut, Brings
<1>3. ASSUME NEW new \in {<<o, f>>, None}, d[a] = None, e = [d EXCEPT ![a] = d[b], ![b] = new]
      PROVE  Leaves(o, f, d, e)
  BY <1>2, <1>3 DEF Leaves, a, b
<1>. QED  BY <1>1, <1>3 DEF Visits, a, b

LEMMA VisitSurrounds ==
  ASSUME InControl, Surrounds, Strangers, NEW o \in Others, NEW f \in Files,
         Overwrite(o, f) \/ \E new \in {<<o, f>>, None} : MoveAside(o, f, new)
  PROVE  Surrounds'
<1>1. /\ Visits(o, f, dir, dir') /\ tx' = tx /\ plan' = plan /\ o \notin acted
      /\ dir \in [Name -> Content] /\ OneName(dir) /\ OwnFile(dir)
  BY Visiting DEF InControl, Inv, DiskTyped, Surrounds
<1>0. Vanished(dir, <<o, f>>)
  BY <1>1 DEF Strangers
<1>2. /\ OneName(dir') /\ OwnFile(dir')
      /\ SameBut(dir, dir', {<<Public, f>>, <<Aside, f>>})
  <2>1. Leaves(o, f, dir, dir')
    BY <1>0, <1>1, VisitNames
  <2>. QED  BY <2>1 DEF Leaves
<1>3. \A q \in Procs, h \in Files : dir'[<<q, h>>] = dir[<<q, h>>]
  <2>. SUFFICES ASSUME NEW q \in Procs, NEW h \in Files PROVE dir'[<<q, h>>] = dir[<<q, h>>]
    OBVIOUS
  <2>1. <<q, h>> \in Name /\ q # Public /\ q # Aside
    BY NamesOf
  <2>. QED  BY <1>2, <2>1 DEF SameBut
<1>4. \A q \in Procs : Noted(q)' = Noted(q)
  BY <1>1, NotedKept
<1>. QED  BY <1>1, <1>2, <1>3, <1>4 DEF Surrounds

LEMMA NextSurrounds ==
  ASSUME InControl, FilesNoted, Surrounds, Strangers, [Next]_vars PROVE Surrounds'
<1>1. ASSUME NEW p \in Procs, Start(p) \/ Kill(p) PROVE Surrounds'
  <2>1. /\ dir' = dir /\ plan' = plan /\ Stands(tx[p], tx'[p])
        /\ \A q \in Procs \ {p} : tx'[q] = tx[q]
    BY <1>1, StartsTo, KillsTo, OthersKept DEF Start, Kill, disk, observed
  <2>2. \A q \in Procs : Noted(q)' = Noted(q) /\ tx'[q].orig = tx[q].orig
    BY <2>1, NotedKept DEF Stands, Keeps
  <2>. QED  BY <2>1, <2>2 DEF Surrounds, OwnOriginals
<1>2. CASE UNCHANGED vars
  BY <1>2, NotedKept DEF vars, Surrounds
<1>. QED  BY <1>1, <1>2, Acting, StepSurrounds, VisitSurrounds DEF Next

(* The steps of the tools make candidates, and destroy nothing.            *)
LEMMA StepMakes ==
  ASSUME InControl, NEW p \in Procs, Step(p) \/ Fault(p)
  PROVE  /\ destroyed' = destroyed
         /\ made' \subseteq made \cup {<<p, File(p)>>}
BY DEF Step, Fault, Raise, Prepare, Check, Rename, Verify, Undo, Back, Undone,
       RetireOriginal, Tidy, Owned, Finalize, Seal, Close, Retire, Take, disk, Candidate

LEMMA NextStrangers ==
  ASSUME InControl, FilesNoted, Surrounds, Strangers, [Next]_vars PROVE Strangers'
<1>. SUFFICES ASSUME NEW o \in Others \ acted', NEW f \in Files
              PROVE  /\ <<o, f>> \notin made' /\ Vanished(dir', <<o, f>>)
                     /\ \A p \in Procs : tx'[p].orig[f] # <<o, f>>
  BY DEF Strangers
<1>. DEFINE x == <<o, f>>
<1>0. ASSUME o \notin acted
      PROVE  /\ x \notin made /\ Vanished(dir, x)
             /\ \A p \in Procs : tx[p].orig[f] # x
  BY <1>0 DEF Strangers
<1>1. x # None /\ \A p \in Procs, h \in Files : x # <<p, h>>
  BY NamesApart DEF Ident
<1>2. ASSUME NEW p \in Procs, Step(p) \/ Fault(p)
      PROVE  /\ x \notin made' /\ Vanished(dir', x)
             /\ \A q \in Procs : tx'[q].orig[f] # x
  <2>1. Acts(p) /\ acted' = acted
    BY <1>2, Acting DEF Acts, observed
  <2>2. /\ NotesOriginal(File(p), tx[p], tx'[p], dir) /\ File(p) \in Files
        /\ made' \subseteq made \cup {<<p, File(p)>>}
        /\ \A q \in Procs \ {p} : tx'[q] = tx[q]
        /\ <<Public, File(p)>> \in Name
    BY <1>2, <2>1, ActsOriginals, ActsKnown, StepMakes, NamesOf DEF Acts
  <2>0. o \notin acted
    BY <2>1
  <2>3. x \notin made' /\ \A q \in Procs : tx'[q].orig[f] # x
    <3>1. tx'[p].orig[f] = tx[p].orig[f] \/ tx'[p].orig[f] = dir[<<Public, File(p)>>]
      BY <2>2 DEF NotesOriginal
    <3>2. tx[p].orig[f] # x /\ dir[<<Public, File(p)>>] # x
      BY <1>0, <2>0, <2>2 DEF Vanished
    <3>. QED  BY <1>0, <1>1, <2>0, <2>2, <3>1, <3>2
  <2>4. Vanished(dir', x)
    BY <1>0, <1>1, <2>0, <2>1, <2>2, StepMoves DEF Vanished
  <2>. QED  BY <2>3, <2>4
<1>3. ASSUME NEW p \in Procs, Start(p) \/ Kill(p)
      PROVE  /\ x \notin made' /\ Vanished(dir', x)
             /\ \A q \in Procs : tx'[q].orig[f] # x
  <2>1. /\ dir' = dir /\ made' = made /\ acted' = acted /\ Stands(tx[p], tx'[p])
        /\ \A q \in Procs \ {p} : tx'[q] = tx[q]
    BY <1>3, StartsTo, KillsTo, OthersKept DEF Start, Kill, disk, observed
  <2>2. \A q \in Procs : tx'[q].orig = tx[q].orig
    BY <2>1 DEF Stands, Keeps
  <2>. QED  BY <1>0, <2>1, <2>2
<1>4. ASSUME NEW v \in Others, NEW h \in Files,
             Overwrite(v, h) \/ \E new \in {<<v, h>>, None} : MoveAside(v, h, new)
      PROVE  /\ x \notin made' /\ Vanished(dir', x)
             /\ \A q \in Procs : tx'[q].orig[f] # x
  <2>1. /\ Visits(v, h, dir, dir') /\ tx' = tx /\ v \notin acted /\ acted' = acted \cup {v}
        /\ made' \subseteq made \cup {<<v, h>>} /\ dir \in [Name -> Content]
        /\ OneName(dir) /\ OwnFile(dir)
    BY <1>4, Visiting DEF InControl, Inv, DiskTyped, Surrounds
  <2>0. Vanished(dir, <<v, h>>)
    BY <2>1 DEF Strangers
  <2>2. Brings(dir, dir', <<v, h>>)
    <3>1. Leaves(v, h, dir, dir')
      BY <2>0, <2>1, VisitNames
    <3>. QED  BY <3>1 DEF Leaves
  <2>3. o # v /\ o \notin acted
    BY <2>1
  <2>. QED  BY <1>0, <1>1, <2>1, <2>2, <2>3 DEF Vanished, Brings
<1>5. CASE UNCHANGED vars
  BY <1>0, <1>5 DEF vars
<1>. QED  BY <1>2, <1>3, <1>4, <1>5 DEF Next

LEMMA NextCompany ==
  ASSUME InControl, FilesNoted, Company, [Next]_vars PROVE Company'
<1>0. \A p \in Procs : tx[p] \in Record
  BY WorkFacts
<1>1. ASSUME mixed' = mixed,
             \A p \in Procs : /\ tx[p].pc \in Stopped => tx'[p].pc \in Stopped
                              /\ tx[p].pc # "idle" => tx'[p].pc # "idle"
      PROVE  Company'
  <2>1. Active' \subseteq Active
    BY <1>1 DEF Active, Stopped
  <2>2. ASSUME NEW p \in Active' \ mixed' PROVE Active' = {p}
    <3>1. p \in Active \ mixed
      BY <1>1, <2>1, <2>2
    <3>2. Active = {p}
      BY <3>1 DEF Company
    <3>. QED  BY <2>1, <2>2, <3>2
  <2>. QED  BY <1>1, <2>2 DEF Company
<1>2. ASSUME NEW p \in Procs, Step(p) \/ Fault(p) PROVE Company'
  <2>1. Acts(p)
    BY <1>2, Acting
  <2>2. tx'[p].pc # "idle"
    BY <2>1, ActsKnown, CallMarks
  <2>. QED  BY <1>1, <2>1, <2>2 DEF Acts, observed
<1>3. ASSUME NEW p \in Procs, Kill(p) PROVE Company'
  BY <1>1, <1>3, KillsTo, OthersKept DEF Kill, observed, Active, Stopped
<1>4. ASSUME NEW p \in Procs, Start(p) PROVE Company'
  <2>1. /\ tx[p].pc = "idle" /\ tx'[p].pc = "prepare"
        /\ \A q \in Procs \ {p} : tx'[q] = tx[q]
        /\ mixed' = IF Active = {} THEN mixed ELSE mixed \cup Active \cup {p}
    BY <1>4, StartsTo, OthersKept DEF Start, At
  <2>2. Active' = Active \cup {p} /\ p \notin Active
    BY <2>1 DEF Active
  <2>3. \A q \in mixed : \E r \in Procs \ {q} : tx'[r].pc # "idle"
    BY <2>1 DEF Company
  <2>4. CASE Active = {}
    BY <2>1, <2>2, <2>3, <2>4 DEF Company
  <2>5. CASE Active # {}
    <3>1. \A q \in Active' : q \in mixed'
      BY <2>1, <2>2, <2>5
    <3>2. PICK r \in Active : TRUE
      BY <2>5
    <3>3. /\ \A q \in Active : p \in Procs \ {q} /\ tx'[p].pc # "idle"
          /\ r \in Procs \ {p} /\ tx'[r].pc # "idle"
      BY <2>1, <2>2, <3>2 DEF Active
    <3>4. \A q \in mixed' : \E s \in Procs \ {q} : tx'[s].pc # "idle"
      BY <2>1, <2>3, <2>5, <3>3
    <3>. QED  BY <3>1, <3>4 DEF Company
  <2>. QED  BY <2>4, <2>5
<1>5. ASSUME NEW o \in Others, NEW f \in Files,
             Overwrite(o, f) \/ \E new \in {<<o, f>>, None} : MoveAside(o, f, new)
      PROVE  Company'
  BY <1>1, <1>5, Visiting DEF Active
<1>6. CASE UNCHANGED vars
  BY <1>1, <1>6 DEF vars, Active
<1>. QED  BY <1>2, <1>3, <1>4, <1>5, <1>6 DEF Next

----------------------------------------------------------------------------
(* A transaction by itself.                                                *)

AllHeld(p, w, t, d) == \A j \in 1..t.n : w[j] \notin t.left => Holds(p, t, d, j, w[j])

(* The file that could not be restored shows the candidate, or what was    *)
(* there before.                                                           *)
Showing(p, t, d, j, g) ==
  IF g \in t.left THEN d[<<Public, g>>] \in {<<p, g>>, t.orig[g]} ELSE Shown(p, t, d, j, g)

AllShown(p, w, t, d) == \A j \in 1..t.n : Showing(p, t, d, j, w[j])

(* The files whose rollback raised are behind the one at work.             *)
LeftBehind(w, t) ==
  t.stage = "rollback" /\ t.pc \notin Stopped => \A j \in 1..t.i : w[j] \notin t.left

(* The files of a transaction, each named once.                            *)
Lists(w, len) ==
  /\ w \in Seq(Files) /\ len = Len(w)
  /\ \A i, j \in 1..len : w[i] = w[j] => i = j

(* Where the files that were left are, seen from the record at work.       *)
LEMMA CallLeaves ==
  ASSUME NEW p, NEW f, NEW len, NEW t, NEW u, NEW d, NEW e, Calls(p, f, len, t, u, d, e),
         t \in Record, Controlled(t), u.stage = "rollback"
  PROVE  \/ t.stage = "publish" /\ t.left = {} /\ u.left = {}
         \/ t.stage = "rollback" /\ u.left = t.left /\ u.i \in 0..t.i
         \/ t.stage = "rollback" /\ u.left = t.left \cup {f} /\ u.i = t.i - 1
<1>0. t.stage = "publish" => t.left = {}
  BY DEF Controlled
<1>1. t.i \in Nat /\ t.n \in Nat
  BY DEF Record
<1>2. CASE Writes(p, f, len, t, u, d, e)
  BY <1>2 DEF Writes
<1>3. CASE FailsTo(f, t, u)
  BY <1>0, <1>1, <1>3 DEF FailsTo, Reverts, Hurts, SeizesElsewhere, FollowsTo, ClosesTo,
                          WithinStage, Passes, Stands, Marks
<1>4. CASE FollowsTo(t, u) \/ ClosesTo(t, u)
  BY <1>1, <1>4 DEF FollowsTo, ClosesTo, WithinStage, Passes, Marks
<1>5. CASE Stands(t, u)
  BY <1>1, <1>5 DEF Stands, Marks
<1>6. CASE Publishes(p, f, t, u, d, e) \/ Checks(f, t, u, d)
  BY <1>1, <1>6 DEF Publishes, Exchanges, Checks, Marks
<1>7. CASE Misses(p, f, t, u, d)
  BY <1>0, <1>7 DEF Misses, Marks, Controlled, Course
<1>. QED  BY <1>2, <1>3, <1>4, <1>5, <1>6, <1>7
          DEF Calls, Restores, Takes, RetiresTo, TakesFrom, Looks, Verifies, Turns, Abandons,
              Withdraws, Discards, Tidies, Owns, Skips, Seizes, Hunts, Seals, Sweeps, Picks,
              Resumes, ResumesTo

(* A file that could not be restored keeps its public name from then on.   *)
LEMMA LeftUntouched ==
  ASSUME NEW p, NEW f, NEW len, NEW t, NEW u, NEW d, NEW e, Calls(p, f, len, t, u, d, e),
         Sound(p, f, t, d), Indexed(t, t.i), t.stage = "rollback" => f \notin t.left,
         t.pc \in {"seize", "take"} => t.target \in Name,
         NEW g \in Files, g \in u.left
  PROVE  /\ e[<<Public, g>>] = d[<<Public, g>>] /\ u.orig[g] = t.orig[g]
         /\ g \in t.left \/ g = f
<1>0. /\ p \in Procs /\ f \in Files /\ d \in [Name -> Content] /\ t \in Record
      /\ t.left # {} => t.stage \in {"rollback", "close"}
      /\ t.pc \in Course(t.stage) /\ <<Public, g>> \in Name
  BY NamesOf DEF Sound, Controlled
<1>1. g \in t.left => t.stage \in {"rollback", "close"}
  BY <1>0
<1>2. CASE Writes(p, f, len, t, u, d, e) \/ Publishes(p, f, t, u, d, e)
  <2>1. t.stage \in {"prepare", "publish"} /\ u.left = t.left
    BY <1>0, <1>2 DEF Writes, Publishes, Exchanges, Marks, Indexed, Course
  <2>. QED  BY <1>1, <2>1
<1>3. CASE Restores(p, f, t, u, d, e)
  <2>1. t.stage = "rollback" /\ u.left = t.left /\ u.orig = t.orig
    BY <1>0, <1>3 DEF Restores, Stands, Keeps, Marks, Indexed, Course
  <2>2. g # f
    BY <2>1
  <2>3. \A n \in Name \ {<<p, f>>, <<Public, f>>} : e[n] = d[n]
    BY <1>0, <1>3, ExchangeMoves DEF Restores
  <2>4. p # Public
    BY <1>0, NamesOf
  <2>. QED  BY <1>0, <2>1, <2>2, <2>3, <2>4
<1>4. CASE Takes(t, u, d, e)
  <2>1. t.target[1] # Public
    BY <1>4, TakeTarget DEF Takes
  <2>. QED  BY <1>0, <1>4, <2>1 DEF Takes, RetiresTo, Stands, Keeps, Marks
<1>5. CASE Looks(p, f, t, u, d) /\ e = d
  <2>1. u.left = t.left \/ u.left = t.left \cup {f}
    BY <1>5 DEF Looks, Checks, Misses, Verifies, Turns, Abandons, Withdraws, Discards, Tidies,
                Owns, Skips, Seizes, Hunts, Seals, Sweeps, Picks, Resumes, ResumesTo, RetiresTo,
                TakesFrom, FailsTo, Reverts, Hurts, SeizesElsewhere, FollowsTo, ClosesTo,
                WithinStage, Passes, Stands, Marks
  <2>2. t.pc = "prepare" => t.stage = "prepare"
    BY <1>0 DEF Indexed, Course, Stages
  <2>3. u.orig = t.orig
    BY <1>5 DEF Looks, Checks, Misses, Verifies, Turns, Abandons, Withdraws, Discards, Tidies,
                Owns, Skips, Seizes, Hunts, Seals, Sweeps, Picks, Resumes, ResumesTo, RetiresTo,
                TakesFrom, FailsTo, Reverts, Hurts, SeizesElsewhere, FollowsTo, ClosesTo,
                WithinStage, Passes, Stands, Keeps
  <2>. QED  BY <1>5, <2>1, <2>3
<1>. QED  BY <1>2, <1>3, <1>4, <1>5 DEF Calls

(* The process goes on with its work w, from t to u.                       *)
LEMMA RunKept ==
  ASSUME NEW p, NEW w, NEW len, NEW t, NEW u, NEW d, NEW e,
         Sound(p, w[t.i], t, d), Indexed(t, t.i), AllHeld(p, w, t, d), LeftBehind(w, t),
         Lists(w, len), t.i \in 1..len, t.n <= len,
         t.stage = "prepare" => t.n = t.i - 1,
         t.pc \in {"seize", "take"} => t.target \in Name,
         Calls(p, w[t.i], len, t, u, d, e)
  PROVE  /\ AllHeld(p, w, u, e) /\ LeftBehind(w, u)
         /\ ~u.passed /\ AllShown(p, w, t, d) => AllShown(p, w, u, e)
         /\ Aiming(p, w[t.i], t, u, e)
<1>0. /\ t.n \in Nat /\ t.i \in Nat /\ len \in Nat /\ t.i # 0
      /\ Controlled(t) /\ t \in Record /\ w[t.i] \in Files
      /\ t.stage # "prepare" => t.i <= t.n
      /\ w \in Seq(Files) /\ len = Len(w) /\ \A i, j \in 1..len : w[i] = w[j] => i = j
  BY DEF Sound, Record, Lists
<1>1. /\ t.stage \in {"publish", "rollback"} => Holds(p, t, d, t.i, w[t.i])
      /\ t.stage = "rollback" => w[t.i] \notin t.left
  <2>1. t.stage = "rollback" => w[t.i] \notin t.left
    BY <1>0 DEF LeftBehind, Indexed
  <2>2. t.stage = "publish" => w[t.i] \notin t.left
    BY <1>0 DEF Controlled
  <2>. QED  BY <1>0, <2>1, <2>2 DEF AllHeld
<1>2. t.pc = "rename" => d[<<p, w[t.i]>>] = <<p, w[t.i]>>
  <2>. SUFFICES ASSUME t.pc = "rename" PROVE d[<<p, w[t.i]>>] = <<p, w[t.i]>>
    OBVIOUS
  <2>1. t.stage = "publish"
    BY DEF Indexed, Course, Stages
  <2>2. Ready(t, t.i, w[t.i])
    BY <2>1 DEF Ready
  <2>. QED  BY <1>1, <2>1, <2>2 DEF Holds
<1>3. \A j \in 1..len : AtRecord(p, w[t.i], t, d, j, w[j]) /\ Indexed(t, j)
  <2>. SUFFICES ASSUME NEW j \in 1..len
                PROVE  AtRecord(p, w[t.i], t, d, j, w[j]) /\ Indexed(t, j)
    OBVIOUS
  <2>1. j \in Nat /\ j # 0 /\ w[j] \in Files /\ (j = t.i <=> w[j] = w[t.i])
    BY <1>0
  <2>. QED  BY <2>1 DEF AtRecord, Indexed
<1>4. ASSUME NEW j \in 1..t.n, w[j] \notin u.left
      PROVE  /\ Holds(p, u, e, j, w[j])
             /\ ~u.passed /\ Showing(p, t, d, j, w[j]) => Showing(p, u, e, j, w[j])
  <2>1. /\ AtRecord(p, w[t.i], t, d, j, w[j]) /\ Indexed(t, j) /\ j <= t.n
        /\ t.stage = "prepare" => t.n < t.i
    BY <1>0, <1>3
  <2>2. w[j] \notin t.left
    BY <1>4, CallMarks DEF Sound
  <2>3. Holds(p, t, d, j, w[j])
    BY <2>2 DEF AllHeld
  <2>4. Kept(p, t, u, d, e, j, w[j])
    BY <1>2, <2>1, <2>3, CallKept
  <2>. QED  BY <1>4, <2>2, <2>4 DEF Kept, Showing
<1>5. \/ u.n = t.n
      \/ u.n = t.i /\ t.n = t.i - 1 /\ Writes(p, w[t.i], len, t, u, d, e)
  <2>1. t.pc \notin Stopped
    BY DEF Indexed
  <2>. QED  BY <1>0, <2>1, CallNotes
<1>6. ASSUME Writes(p, w[t.i], len, t, u, d, e)
      PROVE  Holds(p, u, e, t.i, w[t.i]) /\ Shown(p, u, e, t.i, w[t.i])
  BY <1>3, <1>6, WriteKept
<1>7. AllHeld(p, w, u, e)
  BY <1>0, <1>4, <1>5, <1>6 DEF AllHeld
<1>8. ASSUME ~u.passed, AllShown(p, w, t, d), NEW j \in 1..u.n PROVE Showing(p, u, e, j, w[j])
  <2>1. CASE Writes(p, w[t.i], len, t, u, d, e) /\ j = t.i
    <3>1. u.left = {}
      BY <1>0, <2>1 DEF Writes, Marks, Indexed, Course, Controlled
    <3>. QED  BY <1>6, <2>1, <3>1 DEF Showing
  <2>2. CASE j \in 1..t.n /\ w[j] \in u.left
    <3>1. /\ e[<<Public, w[j]>>] = d[<<Public, w[j]>>] /\ u.orig[w[j]] = t.orig[w[j]]
          /\ w[j] \in Files
      BY <1>0, <1>1, <2>2, LeftUntouched
    <3>2. Showing(p, t, d, j, w[j])
      BY <1>8, <2>2 DEF AllShown
    <3>3. d[<<Public, w[j]>>] \in {<<p, w[j]>>, t.orig[w[j]]}
      BY <3>2 DEF Showing, Shown
    <3>. QED  BY <2>2, <3>1, <3>3 DEF Showing
  <2>3. CASE j \in 1..t.n /\ w[j] \notin u.left
    BY <1>4, <1>8, <2>3 DEF AllShown
  <2>. QED  BY <1>0, <1>5, <2>1, <2>2, <2>3
<1>9. Aiming(p, w[t.i], t, u, e)
  BY <1>1, CallAims
<1>10. LeftBehind(w, u)
  <2>. SUFFICES ASSUME u.stage = "rollback", NEW j \in 1..u.i, w[j] \in u.left PROVE FALSE
    BY DEF LeftBehind
  <2>1. \/ u.left = {}
        \/ t.stage = "rollback" /\ u.left = t.left /\ u.i \in 0..t.i
        \/ t.stage = "rollback" /\ u.left = t.left \cup {w[t.i]} /\ u.i = t.i - 1
    BY <1>0, CallLeaves
  <2>2. t.stage = "rollback" => \A k \in 1..t.i : w[k] \notin t.left
    BY DEF LeftBehind, Indexed
  <2>3. CASE t.stage = "rollback" /\ u.left = t.left /\ u.i \in 0..t.i
    <3>1. j \in 1..t.i
      BY <1>0, <2>3
    <3>. QED  BY <2>2, <2>3, <3>1
  <2>4. CASE /\ t.stage = "rollback" /\ u.left = t.left \cup {w[t.i]}
             /\ u.i = t.i - 1
    <3>1. j \in 1..t.i /\ j # t.i /\ j \in 1..len
      BY <1>0, <2>4
    <3>2. w[j] # w[t.i]
      BY <1>0, <3>1
    <3>. QED  BY <2>2, <2>4, <3>1, <3>2
  <2>. QED  BY <2>1, <2>3, <2>4
<1>. QED  BY <1>7, <1>8, <1>9, <1>10 DEF AllShown

(* Nobody else was at work while the process was.                          *)
Undisturbed(p) == p \notin mixed /\ (p \in Active \/ Alone(p))

Held(p) ==
  Undisturbed(p) =>
    /\ AllHeld(p, Work(p), tx[p], dir) /\ LeftBehind(Work(p), tx[p])
    /\ p \in Active => Aims(p, tx[p], dir, Work(p)[tx[p].i])

(* Nor has another writer come by.                                         *)
Unseen(p) == p \in Active \ (mixed \cup visited) /\ ~tx[p].passed

Appears(p) == Unseen(p) => AllShown(p, Work(p), tx[p], dir)

LEMMA ActsSound ==
  ASSUME World, NEW p \in Procs, Acts(p), Held(p), p \notin mixed
  PROVE  /\ Sound(p, Work(p)[tx[p].i], tx[p], dir) /\ AllHeld(p, Work(p), tx[p], dir)
         /\ LeftBehind(Work(p), tx[p])
<1>1. p \in Active
  BY DEF Acts, Active, Stopped
<1>2. /\ tx[p] \in Record /\ Controlled(tx[p]) /\ tx[p].then \in Continuations
      /\ File(p) \in Files /\ dir \in [Name -> Content] /\ Indexed(tx[p], tx[p].i)
      /\ tx[p].stage # "prepare" => tx[p].i <= tx[p].n
      /\ File(p) = Work(p)[tx[p].i]
  BY ActsKnown DEF World
<1>3. /\ Aims(p, tx[p], dir, File(p)) /\ AllHeld(p, Work(p), tx[p], dir)
      /\ LeftBehind(Work(p), tx[p])
  BY <1>1, <1>2 DEF Held, Undisturbed
<1>4. OneName(dir) /\ OwnFile(dir) /\ OwnOriginals(p, tx[p])
  BY DEF World, Surrounds
<1>. QED  BY <1>2, <1>3, <1>4 DEF Sound, Indexed

LEMMA OwnHeld ==
  ASSUME World, NEW p \in Procs, Acts(p), Held(p), p \notin mixed
  PROVE  /\ AllHeld(p, Work(p), tx'[p], dir') /\ LeftBehind(Work(p), tx'[p])
         /\ ~tx'[p].passed /\ AllShown(p, Work(p), tx[p], dir) =>
              AllShown(p, Work(p), tx'[p], dir')
         /\ Aiming(p, File(p), tx[p], tx'[p], dir')
         /\ Sound(p, File(p), tx[p], dir)
<1>1. /\ Calls(p, File(p), Len(Work(p)), tx[p], tx'[p], dir, dir')
      /\ tx[p].then \in Continuations /\ Indexed(tx[p], tx[p].i)
      /\ tx[p].pc \in {"seize", "take"} => tx[p].target \in Name
      /\ tx[p].stage = "prepare" => tx[p].n = tx[p].i - 1
      /\ tx[p].i \in 1..Len(Work(p)) /\ File(p) = Work(p)[tx[p].i]
  BY ActsKnown DEF World
<1>3. /\ Sound(p, File(p), tx[p], dir) /\ AllHeld(p, Work(p), tx[p], dir)
      /\ LeftBehind(Work(p), tx[p])
  BY <1>1, ActsSound
<1>4. /\ Work(p) \in Seq(Files) /\ tx[p].n <= Len(Work(p))
      /\ \A i, j \in 1..Len(Work(p)) : Work(p)[i] = Work(p)[j] => i = j
  BY WorkFacts DEF World
<1>5. /\ Calls(p, Work(p)[tx[p].i], Len(Work(p)), tx[p], tx'[p], dir, dir')
      /\ Sound(p, Work(p)[tx[p].i], tx[p], dir)
      /\ Lists(Work(p), Len(Work(p)))
  BY <1>1, <1>3, <1>4 DEF Lists
<1>6. /\ AllHeld(p, Work(p), tx'[p], dir') /\ LeftBehind(Work(p), tx'[p])
      /\ ~tx'[p].passed /\ AllShown(p, Work(p), tx[p], dir) =>
           AllShown(p, Work(p), tx'[p], dir')
      /\ Aiming(p, Work(p)[tx[p].i], tx[p], tx'[p], dir')
  BY <1>1, <1>3, <1>4, <1>5, RunKept
<1>. QED  BY <1>1, <1>3, <1>6

LEMMA OwnHeldNext ==
  ASSUME World, NEW p \in Procs, Acts(p), Held(p), Appears(p)
  PROVE  Held(p)' /\ Appears(p)'
<1>0. /\ plan' = plan /\ mixed' = mixed /\ visited' = visited /\ p \in Active
      /\ Work(p)' = Work(p)
  BY DEF Acts, observed, Active, Stopped, Work
<1>1. ASSUME p \notin mixed
      PROVE  /\ AllHeld(p, Work(p), tx'[p], dir') /\ LeftBehind(Work(p), tx'[p])
             /\ Aims(p, tx'[p], dir', Work(p)[tx'[p].i])
             /\ ~tx'[p].passed /\ AllShown(p, Work(p), tx[p], dir) =>
                  AllShown(p, Work(p), tx'[p], dir')
  <2>1. /\ AllHeld(p, Work(p), tx'[p], dir') /\ LeftBehind(Work(p), tx'[p])
        /\ ~tx'[p].passed /\ AllShown(p, Work(p), tx[p], dir) =>
             AllShown(p, Work(p), tx'[p], dir')
        /\ Aiming(p, File(p), tx[p], tx'[p], dir')
    BY <1>1, OwnHeld
  <2>2. Aims(p, tx'[p], dir', Work(p)[tx'[p].i])
    <3>1. CASE Resting(tx'[p])
      BY <3>1 DEF Resting, Aims
    <3>2. CASE tx'[p].i = tx[p].i /\ Aims(p, tx'[p], dir', File(p))
      BY <3>2 DEF File
    <3>. QED  BY <2>1, <3>1, <3>2 DEF Aiming
  <2>. QED  BY <2>1, <2>2
<1>2. Held(p)'
  BY <1>0, <1>1 DEF Held, Undisturbed
<1>3. ASSUME Unseen(p)' PROVE AllShown(p, Work(p), tx'[p], dir')
  <2>1. p \notin mixed \cup visited /\ ~tx'[p].passed
    BY <1>0, <1>3 DEF Unseen
  <2>2. ~tx[p].passed
    BY <2>1, ActsKnown, CallMarks DEF World
  <2>3. Unseen(p)
    BY <1>0, <1>1, <2>1, <2>2 DEF Unseen
  <2>. QED  BY <1>1, <2>1, <2>3 DEF Appears
<1>4. Appears(p)'
  BY <1>0, <1>3 DEF Appears
<1>. QED  BY <1>2, <1>4

(* While a process goes on undisturbed, nobody else does.                  *)
LEMMA NotBeside ==
  ASSUME World, NEW p \in Procs, NEW q \in Procs, q # p, tx[q].pc \notin Stopped,
         tx'[q].pc # "idle", mixed' = mixed, \A r \in Procs \ {q} : tx'[r] = tx[r]
  PROVE  ~Undisturbed(p)' /\ ~Unseen(p)'
<1>1. q \in Active
  BY DEF Active, Stopped
<1>2. p \in Active' => p \in Active
  BY DEF Active
<1>3. p \in Active => p \in mixed
  BY <1>1 DEF World, Company
<1>. QED  BY <1>1, <1>2, <1>3 DEF Undisturbed, Unseen, Alone

LEMMA StartHeld ==
  ASSUME World, NEW p \in Procs, NEW q \in Procs, Start(q), Held(p), Appears(p)
  PROVE  Held(p)' /\ Appears(p)'
<1>1. /\ Stands(tx[q], tx'[q]) /\ tx'[q].pc = "prepare" /\ tx'[q].then = tx[q].then
      /\ tx[q].pc = "idle" /\ \A r \in Procs \ {q} : tx'[r] = tx[r]
      /\ mixed' = IF Active = {} THEN mixed ELSE mixed \cup Active \cup {q}
  BY StartsTo, OthersKept DEF World, Start, At
<1>2. CASE p = q
  <2>1. tx[p].n = 0 /\ tx[p].then = "next" /\ tx[p].stage = "prepare"
    BY <1>1, <1>2 DEF World, InControl, Controlled, Inv, RecordsPlaced, Placed
  <2>2. /\ tx'[p].n = 0 /\ tx'[p].then = "next" /\ tx'[p].pc = "prepare"
        /\ tx'[p].stage = "prepare"
    BY <1>1, <1>2, <2>1 DEF Stands, Keeps
  <2>. QED  BY <2>2 DEF Held, Appears, AllHeld, AllShown, Aims, LeftBehind
<1>3. CASE p # q
  <2>1. p \in Active' => p \in Active
    BY <1>1, <1>3 DEF Active
  <2>2. p \in Active => p \in mixed'
    BY <1>1
  <2>3. ~Alone(p)'
    BY <1>1, <1>3 DEF Alone
  <2>. QED  BY <2>1, <2>2, <2>3 DEF Held, Appears, Undisturbed, Unseen
<1>. QED  BY <1>2, <1>3

(* Less is known of a transaction that was killed.                         *)
LEMMA KilledHolds ==
  ASSUME NEW p, NEW t, NEW u, NEW d, NEW j, NEW g, Holds(p, t, d, j, g), Stands(t, u),
         u.pc = "killed"
  PROVE  Holds(p, u, d, j, g)
<1>1. /\ Ready(u, j, g) => Ready(t, j, g)
      /\ Swapped(u, j, g) => Swapped(t, j, g)
      /\ Tidied(u, j) => Tidied(t, j)
  BY DEF Stands, Keeps, Ready, Swapped, Tidied
<1>. QED  BY <1>1 DEF Holds, Stands, Keeps

LEMMA KillHeld ==
  ASSUME World, NEW p \in Procs, NEW q \in Procs, Kill(q), Held(p), Appears(p)
  PROVE  Held(p)' /\ Appears(p)'
<1>1. /\ Stands(tx[q], tx'[q]) /\ tx'[q].pc = "killed" /\ q \in Active
      /\ \A r \in Procs \ {q} : tx'[r] = tx[r]
      /\ mixed' = mixed /\ dir' = dir /\ plan' = plan
  BY KillsTo, OthersKept DEF World, Kill, disk, observed
<1>2. CASE p = q
  <2>1. p \notin Active'
    BY <1>1, <1>2 DEF Active
  <2>2. ASSUME p \notin mixed
        PROVE  AllHeld(p, Work(p), tx'[p], dir) /\ LeftBehind(Work(p), tx'[p])
    <3>1. AllHeld(p, Work(p), tx[p], dir) /\ tx'[p].n = tx[p].n /\ tx'[p].left = tx[p].left
      BY <1>1, <1>2, <2>2 DEF Held, Undisturbed, Stands, Keeps, Marks
    <3>. QED  BY <1>1, <1>2, <3>1, KilledHolds DEF AllHeld, LeftBehind, Stopped
  <2>. QED  BY <1>1, <2>1, <2>2 DEF Held, Appears, Undisturbed, Unseen, Work
<1>3. CASE p # q
  <2>1. tx[q].pc \notin Stopped
    BY <1>1 DEF Active, Stopped
  <2>. QED  BY <1>1, <1>3, <2>1, NotBeside DEF Held, Appears
<1>. QED  BY <1>2, <1>3

(* Another writer leaves temporary names alone, and the public names of    *)
(* other files.                                                            *)
Untouched(p, g, h, d, e) ==
  /\ e[<<p, g>>] = d[<<p, g>>]
  /\ g # h => e[<<Public, g>>] = d[<<Public, g>>]

LEMMA VisitAway ==
  ASSUME NEW p, NEW g, NEW h, NEW d, NEW e, SameBut(d, e, {<<Public, h>>, <<Aside, h>>}),
         p \in Procs, g \in Files
  PROVE  Untouched(p, g, h, d, e)
<1>1. /\ <<p, g>> \in Name \ {<<Public, h>>, <<Aside, h>>}
      /\ g # h => <<Public, g>> \in Name \ {<<Public, h>>, <<Aside, h>>}
  BY NamesApart DEF Name
<1>. QED  BY <1>1 DEF SameBut, Untouched

LEMMA VisitAims ==
  ASSUME NEW p, NEW f, NEW o, NEW h, NEW t, NEW d, NEW e, Visits(o, h, d, e),
         p \in Procs, f \in Files, o \in Others, h \in Files, d \in [Name -> Content],
         OneName(d), OwnFile(d), Vanished(d, <<o, h>>), t.orig[f] # <<o, h>>,
         t.pc \in {"seize", "take"} => t.target \in Name, Aims(p, t, d, f)
  PROVE  Aims(p, t, e, f)
<1>1. /\ SameBut(d, e, {<<Public, h>>, <<Aside, h>>})
      /\ e[<<Public, h>>] = None \/ e[<<Public, h>>] = <<o, h>>
      /\ d[<<Aside, h>>] = None \/ e[<<Aside, h>>] = d[<<Aside, h>>]
  <2>1. Leaves(o, h, d, e)
    BY VisitNames
  <2>. QED  BY <2>1 DEF Leaves
<1>2. <<p, f>> # <<o, h>>
  <2>1. p # o
    BY NamesApart
  <2>. QED  BY <2>1
<1>0. Untouched(p, f, h, d, e)
  BY <1>1, VisitAway
<1>3. \/ e[<<Public, f>>] = d[<<Public, f>>]
      \/ e[<<Public, f>>] = None
      \/ e[<<Public, f>>] = <<o, h>>
  BY <1>0, <1>1 DEF Untouched
<1>4. ASSUME t.pc \in {"seize", "take"} PROVE e[t.target] = t.goal
  <2>1. /\ t.target \in Name /\ t.target[1] # Public /\ d[t.target] = t.goal
        /\ t.target = <<p, f>> \/ t.goal # None
    BY <1>4 DEF Aims
  <2>2. CASE t.target = <<p, f>>
    BY <1>0, <2>1, <2>2 DEF Untouched
  <2>3. CASE t.target # <<p, f>> /\ t.target = <<Aside, h>>
    BY <1>1, <2>1, <2>3
  <2>4. CASE t.target # <<Aside, h>>
    BY <1>1, <2>1, <2>4 DEF SameBut
  <2>. QED  BY <2>2, <2>3, <2>4
<1>. QED  BY <1>2, <1>3, <1>4 DEF Aims

LEMMA VisitHeld ==
  ASSUME World, NEW p \in Procs, NEW o \in Others, NEW h \in Files,
         Overwrite(o, h) \/ \E new \in {<<o, h>>, None} : MoveAside(o, h, new),
         Held(p), Appears(p)
  PROVE  Held(p)' /\ Appears(p)'
<1>1. /\ Visits(o, h, dir, dir') /\ tx' = tx /\ plan' = plan /\ mixed' = mixed /\ o \notin acted
      /\ visited' = visited \cup {q \in Active : h \in Planned(q)}
      /\ dir \in [Name -> Content] /\ OneName(dir) /\ OwnFile(dir)
  BY Visiting DEF World, InControl, Inv, DiskTyped, Surrounds
<1>2. Vanished(dir, <<o, h>>) /\ \A f \in Files : tx[p].orig[f] # <<o, h>>
  <2>1. \A f \in Files : f = h => tx[p].orig[f] # <<o, h>>
    BY <1>1 DEF World, Strangers
  <2>2. ASSUME NEW f \in Files, f # h PROVE tx[p].orig[f] # <<o, h>>
    <3>1. tx[p].orig[f] # None => tx[p].orig[f][2] = f
      BY DEF World, Surrounds, OwnOriginals
    <3>2. <<o, h>> # None /\ <<o, h>>[2] = h
      BY NamesApart DEF Ident
    <3>. QED  BY <2>2, <3>1, <3>2
  <2>. QED  BY <1>1, <2>1, <2>2 DEF World, Strangers
<1>3. SameBut(dir, dir', {<<Public, h>>, <<Aside, h>>})
  <2>1. Leaves(o, h, dir, dir')
    BY <1>1, <1>2, VisitNames
  <2>. QED  BY <2>1 DEF Leaves
<1>4. /\ Work(p) \in Seq(Files) /\ tx[p].n \in Nat /\ tx[p].n <= Len(Work(p))
      /\ \A j \in 1..tx[p].n : Work(p)[j] \in Files
  BY WorkFacts DEF World
<1>5. ASSUME AllHeld(p, Work(p), tx[p], dir) PROVE AllHeld(p, Work(p), tx[p], dir')
  <2>1. ASSUME NEW j \in 1..tx[p].n PROVE dir'[<<p, Work(p)[j]>>] = dir[<<p, Work(p)[j]>>]
    <3>1. Untouched(p, Work(p)[j], h, dir, dir')
      BY <1>3, <1>4, VisitAway
    <3>. QED  BY <3>1 DEF Untouched
  <2>. QED  BY <1>5, <2>1 DEF AllHeld, Holds
<1>6. ASSUME p \in Active, Aims(p, tx[p], dir, File(p)) PROVE Aims(p, tx[p], dir', File(p))
  <2>1. File(p) \in Files
    BY <1>6, AtCall DEF World, Active, Stopped
  <2>2. tx[p].pc \in {"seize", "take"} => tx[p].target \in Name
    BY DEF World, InControl, Inv, RecordsPlaced, Placed
  <2>. QED  BY <1>1, <1>2, <1>6, <2>1, <2>2, VisitAims
<1>7. Held(p)'
  <2>1. Undisturbed(p)' <=> Undisturbed(p)
    BY <1>1 DEF Undisturbed, Active, Alone
  <2>2. p \in Active' <=> p \in Active
    BY <1>1 DEF Active
  <2>3. Work(p)' = Work(p) /\ File(p) = Work(p)[tx[p].i]
    BY <1>1 DEF Work, File
  <2>. QED  BY <1>1, <1>5, <1>6, <2>1, <2>2, <2>3 DEF Held
<1>8. ASSUME Unseen(p)' PROVE AllShown(p, Work(p), tx[p], dir')
  <2>1. Unseen(p) /\ h \notin Planned(p)
    BY <1>1, <1>8 DEF Unseen, Active
  <2>2. \A j \in 1..tx[p].n : Work(p)[j] # h /\ Work(p)[j] \in Files
    BY <1>4, <2>1 DEF Planned
  <2>3. ASSUME NEW j \in 1..tx[p].n
        PROVE  /\ dir'[<<p, Work(p)[j]>>] = dir[<<p, Work(p)[j]>>]
               /\ dir'[<<Public, Work(p)[j]>>] = dir[<<Public, Work(p)[j]>>]
    <3>1. Untouched(p, Work(p)[j], h, dir, dir')
      BY <1>3, <2>2, VisitAway
    <3>. QED  BY <2>2, <3>1 DEF Untouched
  <2>. QED  BY <2>1, <2>3 DEF Appears, AllShown, Showing, Shown
<1>9. Appears(p)'
  BY <1>1, <1>8 DEF Appears, Work
<1>. QED  BY <1>7, <1>9

LEMMA NextHeld ==
  ASSUME World, NEW p \in Procs, Held(p), Appears(p), [Next]_vars
  PROVE  Held(p)' /\ Appears(p)'
<1>1. ASSUME NEW q \in Procs, Step(q) \/ Fault(q) PROVE Held(p)' /\ Appears(p)'
  <2>1. Acts(q)
    BY <1>1, Acting DEF World
  <2>2. CASE q = p
    BY <2>1, <2>2, OwnHeldNext
  <2>3. CASE q # p
    <3>1. tx'[q].pc # "idle"
      BY <2>1, ActsKnown, CallMarks DEF World
    <3>. QED  BY <2>1, <2>3, <3>1, NotBeside DEF Acts, observed, Held, Appears
  <2>. QED  BY <2>2, <2>3
<1>2. CASE UNCHANGED vars
  BY <1>2 DEF vars, Held, Appears, Undisturbed, Unseen, Alone, Active, Work
<1>. QED  BY <1>1, <1>2, StartHeld, KillHeld, VisitHeld DEF Next

(* What is known of every state.                                           *)
Settlement == World /\ \A p \in Procs : Held(p) /\ Appears(p)

LEMMA InitSettlement == Init => Settlement
<1>. SUFFICES ASSUME Init PROVE Settlement
  OBVIOUS
<1>1. InControl /\ FilesNoted
  BY InitControl, InitNoted
<1>2. /\ tx = [p \in Procs |-> Fresh] /\ mixed = {} /\ acted = {}
      /\ \A n \in Name : dir[n] = None \/ (n[1] = Public /\ dir[n] = <<Old, n[2]>>)
      /\ \A x \in made : \E f \in Files : x = <<Old, f>>
  <2>1. \A n \in Name : dir[n] = None \/ (n[1] = Public /\ dir[n] = <<Old, n[2]>>)
    BY DEF Init
  <2>2. made \subseteq Ident /\ \A x \in made : x[1] = Old
    BY <1>1 DEF Init, InControl, Inv, DiskTyped
  <2>3. \A x \in made : \E f \in Files : x = <<Old, f>>
    BY <2>2 DEF Ident
  <2>. QED  BY <2>1, <2>3 DEF Init
<1>3. \A p \in Procs : /\ tx[p].orig = [f \in Files |-> None] /\ tx[p].n = 0
                       /\ tx[p].pc = "idle" /\ tx[p].then = "next"
                       /\ tx[p].stage = "prepare"
  BY <1>2 DEF Fresh
<1>4. Active = {}
  BY <1>3 DEF Active
<1>5. Surrounds
  <2>1. OneName(dir)
    <3>. SUFFICES ASSUME NEW m \in Name, NEW n \in Name, dir[m] = dir[n], dir[n] # None
                  PROVE  m = n
      BY DEF OneName
    <3>1. /\ m[1] = Public /\ dir[m] = <<Old, m[2]>>
          /\ n[1] = Public /\ dir[n] = <<Old, n[2]>>
      BY <1>2
    <3>2. m = <<m[1], m[2]>> /\ n = <<n[1], n[2]>>
      BY DEF Name
    <3>3. <<Old, m[2]>> = <<Old, n[2]>>
      BY <3>1
    <3>4. m[1] = n[1] /\ m[2] = n[2]
      BY <3>1, <3>3
    <3>. QED  BY <3>2, <3>4
  <2>2. OwnFile(dir)
    BY <1>2 DEF OwnFile
  <2>3. ASSUME NEW p \in Procs, NEW f \in Files
        PROVE  /\ dir[<<p, f>>] = None /\ tx[p].orig[f] = None
               /\ tx[p].orig[f] # <<p, f>>
    <3>1. <<p, f>> \in Name /\ <<p, f>> # None /\ p # Public
      BY NamesApart DEF Name, Ident
    <3>2. tx[p].orig[f] = None
      BY <1>3
    <3>3. dir[<<p, f>>] = None \/ <<p, f>>[1] = Public
      BY <1>2, <3>1
    <3>. QED  BY <3>1, <3>2, <3>3
  <2>4. \A p \in Procs : OwnOriginals(p, tx[p])
    BY <2>3 DEF OwnOriginals
  <2>. QED  BY <2>1, <2>2, <2>3, <2>4 DEF Surrounds
<1>6. Strangers
  <2>. SUFFICES ASSUME NEW o \in Others, NEW f \in Files
                PROVE  /\ <<o, f>> \notin made /\ Vanished(dir, <<o, f>>)
                       /\ \A p \in Procs : tx[p].orig[f] # <<o, f>>
    BY DEF Strangers
  <2>1. o # Old /\ <<o, f>> # None
    BY NamesApart DEF Ident
  <2>. QED  BY <1>2, <1>3, <2>1 DEF Vanished
<1>7. Company
  BY <1>2, <1>4 DEF Company
<1>8. \A p \in Procs : Held(p) /\ Appears(p)
  BY <1>3, <1>4 DEF Held, Appears, AllHeld, LeftBehind, Unseen
<1>. QED  BY <1>1, <1>5, <1>6, <1>7, <1>8 DEF Settlement, World

LEMMA NextSettlement == Settlement /\ [Next]_vars => Settlement'
<1>. SUFFICES ASSUME Settlement, [Next]_vars PROVE Settlement'
  OBVIOUS
<1>1. World /\ InControl /\ FilesNoted /\ Surrounds /\ Strangers /\ Company
  BY DEF Settlement, World
<1>2. World'
  BY <1>1, NextControl, NextNoted, NextSurrounds, NextStrangers, NextCompany DEF World
<1>3. \A p \in Procs : Held(p)' /\ Appears(p)'
  BY <1>1, NextHeld DEF Settlement
<1>. QED  BY <1>2, <1>3 DEF Settlement

----------------------------------------------------------------------------
(* The files of other writers.                                             *)

(* The file x is where a reader looks for g, or under the temporary name,  *)
(* or where another writer moved it.                                       *)
Seen(p, g, d, x, others) ==
  \/ d[<<Public, g>>] = x
  \/ d[<<p, g>>] = x
  \/ d[<<Aside, g>>] = x /\ others

(* A transaction by itself leaves such a file there, unless it notes it.   *)
LEMMA CallFinds ==
  ASSUME NEW p, NEW f, NEW len, NEW t, NEW u, NEW d, NEW e, NEW g, NEW x, NEW others,
         Sound(p, f, t, d), Calls(p, f, len, t, u, d, e),
         t.pc \in {"seize", "take"} => t.target \in Name, g \in Files,
         x # None, x # <<p, f>>, x # t.orig[g], x # u.orig[g], Seen(p, g, d, x, others)
  PROVE  Seen(p, g, e, x, others)
<1>0. /\ <<p, f>> \in Name /\ <<Public, f>> \in Name /\ <<p, g>> \in Name
      /\ <<Public, g>> \in Name /\ <<Aside, g>> \in Name
      /\ p # Public /\ p # Aside /\ Public # Aside
      /\ d \in [Name -> Content] /\ t.orig \in [Files -> Content] /\ f \in Files
  BY NamesOf DEF Sound, Record
<1>1. CASE Writes(p, f, len, t, u, d, e)
  <2>1. /\ d[<<p, f>>] = None /\ \A n \in Name \ {<<p, f>>} : e[n] = d[n]
        /\ u.orig[f] = d[<<Public, f>>]
    BY <1>0, <1>1 DEF Writes
  <2>2. /\ e[<<Public, g>>] = d[<<Public, g>>] /\ e[<<Aside, g>>] = d[<<Aside, g>>]
        /\ g # f => e[<<p, g>>] = d[<<p, g>>]
    BY <1>0, <2>1
  <2>. QED  BY <2>1, <2>2 DEF Seen
<1>2. CASE Publishes(p, f, t, u, d, e) \/ Restores(p, f, t, u, d, e)
  <2>1. /\ e[<<p, f>>] = d[<<Public, f>>] /\ e[<<Public, f>>] = d[<<p, f>>]
        /\ \A n \in Name \ {<<p, f>>, <<Public, f>>} : e[n] = d[n]
    BY <1>2, ExchangeMoves DEF Sound, Publishes, Restores
  <2>2. /\ e[<<Aside, g>>] = d[<<Aside, g>>]
        /\ g # f => e[<<p, g>>] = d[<<p, g>>] /\ e[<<Public, g>>] = d[<<Public, g>>]
    BY <1>0, <2>1
  <2>. QED  BY <2>1, <2>2 DEF Seen
<1>3. CASE Takes(t, u, d, e)
  <2>1. t.target \in Name /\ \A n \in Name \ {t.target} : e[n] = d[n]
    BY <1>0, <1>3 DEF Takes
  <2>2. d[t.target] \in {<<p, f>>, t.orig[f]} /\ t.target[2] = f
    BY <1>3, <2>1, TakeTarget DEF Takes
  <2>3. ASSUME NEW n \in Name, n[2] = g, d[n] = x PROVE e[n] = x
    BY <2>1, <2>2, <2>3
  <2>. QED  BY <1>0, <2>3 DEF Seen
<1>4. CASE e = d
  BY <1>4
<1>. QED  BY <1>1, <1>2, <1>3, <1>4 DEF Calls

(* The files of other writers a transaction by itself has not noted.       *)
Found(p) ==
  Alone(p) =>
    \A o \in Others, f \in Files :
      <<o, f>> \in made \ destroyed /\ <<o, f>> # tx[p].orig[f] =>
        Seen(p, f, dir, <<o, f>>, acted # {o})

LEMMA OwnFound ==
  ASSUME Settlement, NEW p \in Procs, Step(p) \/ Fault(p), Found(p) PROVE Found(p)'
<1>. SUFFICES ASSUME Alone(p)', NEW o \in Others, NEW f \in Files,
                     <<o, f>> \in made' \ destroyed', <<o, f>> # tx'[p].orig[f]
              PROVE  Seen(p, f, dir', <<o, f>>, acted' # {o})
  BY DEF Found
<1>1. Acts(p) /\ World /\ Held(p) /\ InControl /\ FilesNoted
  BY Acting DEF Settlement, World
<1>2. /\ Calls(p, File(p), Len(Work(p)), tx[p], tx'[p], dir, dir')
      /\ tx[p].pc \in {"seize", "take"} => tx[p].target \in Name
      /\ File(p) \in Files /\ acted' = acted /\ Alone(p)
      /\ destroyed' = destroyed /\ made' \subseteq made \cup {<<p, File(p)>>}
  BY <1>1, ActsKnown, StepMakes DEF Acts, observed, Alone
<1>3. p \notin mixed
  BY <1>1, <1>2 DEF World, Company, Alone
<1>4. Sound(p, File(p), tx[p], dir)
  BY <1>1, <1>3, OwnHeld
<1>5. <<o, f>> # None /\ <<o, f>> # <<p, File(p)>>
  BY NamesApart DEF Ident
<1>6. <<o, f>> \in made \ destroyed
  BY <1>2, <1>5
<1>7. <<o, f>> # tx[p].orig[f]
  <2>1. CASE tx'[p].orig[f] = tx[p].orig[f]
    BY <2>1
  <2>2. CASE f = File(p) /\ tx[p].pc = "prepare"
    <3>1. \A n \in Name : dir[n] # <<p, f>>
      BY <1>1, <2>2, ActsKnown
    <3>2. /\ tx[p].stage = "prepare" /\ tx[p].n = tx[p].i - 1 /\ tx[p].i \in Nat
          /\ tx[p].n \in Nat /\ tx[p].i \in 1..Len(Work(p))
      BY <1>1, <2>2, ActsKnown DEF Controlled, Course, Indexed, Stages
    <3>3. f \notin Noted(p)
      <4>1. /\ \A i, j \in 1..Len(Work(p)) : Work(p)[i] = Work(p)[j] => i = j
            /\ tx[p].n <= Len(Work(p)) /\ Len(Work(p)) \in Nat
        BY <1>1, WorkFacts
      <4>2. f = Work(p)[tx[p].i]
        BY <2>2 DEF File
      <4>3. ASSUME NEW j \in 1..tx[p].n PROVE Work(p)[j] # f
        <5>1. j \in 1..Len(Work(p)) /\ j # tx[p].i
          BY <3>2, <4>1
        <5>. QED  BY <3>2, <4>1, <4>2, <5>1
      <4>. QED  BY <4>3 DEF Noted
    <3>. QED  BY <1>1, <1>5, <3>3 DEF World, Surrounds
  <2>. QED  BY <1>1, <2>1, <2>2, ActsOriginals DEF NotesOriginal
<1>8. Seen(p, f, dir, <<o, f>>, acted # {o})
  BY <1>2, <1>4, <1>6, <1>7 DEF Found
<1>. QED  BY <1>2, <1>4, <1>5, <1>7, <1>8, CallFinds

(* Another writer moves the file of a third aside, or has replaced it.     *)
LEMMA VisitFound ==
  ASSUME Settlement, NEW p \in Procs, NEW v \in Others, NEW h \in Files,
         Overwrite(v, h) \/ \E new \in {<<v, h>>, None} : MoveAside(v, h, new), Found(p)
  PROVE  Found(p)'
<1>. SUFFICES ASSUME Alone(p)', NEW o \in Others, NEW f \in Files,
                     <<o, f>> \in made' \ destroyed', <<o, f>> # tx'[p].orig[f]
              PROVE  Seen(p, f, dir', <<o, f>>, acted' # {o})
  BY DEF Found
<1>1. /\ Visits(v, h, dir, dir') /\ tx' = tx /\ v \notin acted /\ acted' = acted \cup {v}
      /\ made' \subseteq made \cup {<<v, h>>} /\ dir \in [Name -> Content]
      /\ OneName(dir) /\ OwnFile(dir) /\ Strangers
  BY Visiting DEF Settlement, World, InControl, Inv, DiskTyped, Surrounds
<1>2. /\ <<Public, f>> \in Name /\ <<Aside, f>> \in Name /\ Public # Aside
      /\ <<Public, h>> \in Name /\ <<Aside, h>> \in Name /\ <<p, f>> \in Name
      /\ p # Public /\ p # Aside
  BY NamesOf
<1>3. Vanished(dir, <<v, h>>)
  BY <1>1 DEF Strangers
<1>4. SameBut(dir, dir', {<<Public, h>>, <<Aside, h>>})
  <2>1. Leaves(v, h, dir, dir')
    BY <1>1, <1>3, VisitNames
  <2>. QED  BY <2>1 DEF Leaves
<1>5. \/ /\ dir' = [dir EXCEPT ![<<Public, h>>] = <<v, h>>]
         /\ destroyed' = destroyed \cup ({dir[<<Public, h>>]} \ {None})
      \/ \E new \in {<<v, h>>, None} :
           /\ dir[<<Aside, h>>] = None
           /\ dir' = [dir EXCEPT ![<<Aside, h>>] = dir[<<Public, h>>], ![<<Public, h>>] = new]
           /\ made' = made \cup ({new} \ {None}) /\ destroyed' = destroyed
  BY DEF Overwrite, MoveAside
<1>6. CASE o = v /\ f = h
  <2>1. <<v, h>> \notin made /\ <<v, h>> # None
    BY <1>1, NamesApart DEF Strangers, Ident
  <2>2. dir'[<<Public, h>>] = <<v, h>>
    BY <1>1, <1>2, <1>5, <1>6, <2>1
  <2>. QED  BY <1>6, <2>2 DEF Seen
<1>7. CASE o # v \/ f # h
  <2>1. <<o, f>> \in made \ destroyed /\ <<o, f>> # None
    BY <1>1, <1>5, <1>7, NamesApart DEF Ident
  <2>2. Seen(p, f, dir, <<o, f>>, acted # {o})
    BY <1>1, <2>1 DEF Found, Alone
  <2>3. o \in acted /\ o # v /\ acted' # {o}
    BY <1>1, <2>1 DEF Strangers
  <2>4. dir'[<<p, f>>] = dir[<<p, f>>]
    BY <1>2, <1>4 DEF SameBut
  <2>5. CASE f # h
    <3>1. dir'[<<Public, f>>] = dir[<<Public, f>>] /\ dir'[<<Aside, f>>] = dir[<<Aside, f>>]
      BY <1>2, <1>4, <2>5 DEF SameBut
    <3>. QED  BY <2>2, <2>3, <2>4, <3>1 DEF Seen
  <2>6. CASE f = h
    <3>1. dir[<<Public, h>>] = <<o, f>> => dir'[<<Aside, h>>] = <<o, f>>
      BY <1>1, <1>2, <1>5, <2>1
    <3>2. dir[<<Aside, h>>] = <<o, f>> => dir'[<<Aside, h>>] = <<o, f>>
      BY <1>1, <1>2, <1>5, <2>1
    <3>. QED  BY <2>2, <2>3, <2>4, <2>6, <3>1, <3>2 DEF Seen
  <2>. QED  BY <2>5, <2>6
<1>. QED  BY <1>6, <1>7

LEMMA NextFound ==
  ASSUME Settlement, NEW p \in Procs, Found(p), [Next]_vars PROVE Found(p)'
<1>0. InControl /\ World
  BY DEF Settlement, World
<1>1. ASSUME NEW q \in Procs, Start(q) \/ Kill(q) PROVE Found(p)'
  <2>1. /\ dir' = dir /\ made' = made /\ destroyed' = destroyed /\ acted' = acted
        /\ Stands(tx[q], tx'[q]) /\ tx'[q].pc # "idle"
        /\ \A r \in Procs \ {q} : tx'[r] = tx[r]
    BY <1>0, <1>1, StartsTo, KillsTo, OthersKept DEF Start, Kill, disk, observed
  <2>2. CASE q = p
    <3>1. Alone(p)' => Alone(p)
      BY <2>1, <2>2 DEF Alone
    <3>. QED  BY <2>1, <2>2, <3>1 DEF Found, Stands, Keeps, Marks
  <2>3. CASE q # p
    BY <2>1, <2>3 DEF Found, Alone
  <2>. QED  BY <2>2, <2>3
<1>2. ASSUME NEW q \in Procs, Step(q) \/ Fault(q) PROVE Found(p)'
  <2>1. CASE q = p
    BY <1>2, <2>1, OwnFound
  <2>2. CASE q # p
    <3>1. tx'[q].pc # "idle"
      BY <1>0, <1>2, Acting, ActsKnown, CallMarks DEF World
    <3>. QED  BY <2>2, <3>1 DEF Found, Alone
  <2>. QED  BY <2>1, <2>2
<1>3. CASE UNCHANGED vars
  BY <1>3 DEF vars, Found, Alone
<1>. QED  BY <1>1, <1>2, <1>3, VisitFound DEF Next

LEMMA InitFound == Init => \A p \in Procs : Found(p)
<1>. SUFFICES ASSUME Init, NEW p \in Procs, NEW o \in Others, NEW f \in Files,
                     <<o, f>> \in made
              PROVE  FALSE
  BY DEF Found
<1>1. o \notin acted
  BY DEF Init
<1>. QED  BY <1>1, InitSettlement DEF Settlement, World, Strangers

(* A transaction that ended leaves nothing under its temporary names but   *)
(* its own candidates and what it had noted, except for files whose        *)
(* rollback raised.                                                        *)
LEMMA EndedEmpty ==
  ASSUME Settlement, NEW p \in Procs, Ended(p), Alone(p), NEW f \in Files,
         f \notin tx[p].left
  PROVE  dir[<<p, f>>] \in {None, <<p, f>>, tx[p].orig[f]}
<1>1. World /\ InControl /\ Controlled(tx[p]) /\ Held(p)
  BY DEF Settlement, World, InControl
<1>2. p \notin mixed
  BY <1>1 DEF World, Company, Alone
<1>3. CASE f \notin Noted(p)
  BY <1>1, <1>3 DEF World, Surrounds
<1>4. CASE f \in Noted(p)
  <2>1. PICK j \in 1..tx[p].n : f = Work(p)[j]
    BY <1>4 DEF Noted
  <2>2. tx[p].n # 0 /\ tx[p].stage \in Stages
    BY <1>1, <2>1, WorkFacts DEF Record
  <2>3. tx[p].stage = "close"
    BY <1>1, <2>2 DEF Ended, Controlled, Course, Stages
  <2>4. Holds(p, tx[p], dir, j, f)
    BY <1>1, <1>2, <2>1 DEF Held, Undisturbed, AllHeld
  <2>. QED  BY <2>3, <2>4 DEF Holds, Tidied
<1>. QED  BY <1>3, <1>4

(* What another writer puts in place of a file that a transaction, the only*)
(* one there is, notes or replaces is there when the transaction has ended,*)
(* whatever raised and however often, or where yet another writer moved it;*)
(* a file whose own rollback raised (_rollback_record, the exchange back)  *)
(* may have gone to the temporary name, and is there then.                 *)
THEOREM ForeignFilesKept == Spec => []ForeignFileStays
<1>. DEFINE IInv == Settlement /\ \A p \in Procs : Found(p)
<1>1. Init => IInv
  BY InitSettlement, InitFound
<1>2. IInv /\ [Next]_vars => IInv'
  BY NextSettlement, NextFound
<1>3. IInv => ForeignFileStays
  <2>. SUFFICES ASSUME IInv, NEW p \in Procs, NEW o \in acted, NEW f \in Files,
                       Ended(p), Alone(p), <<o, f>> \in made \ destroyed,
                       <<o, f>> # tx[p].orig[f]
                PROVE  \/ dir[<<Public, f>>] = <<o, f>>
                       \/ dir[<<Aside, f>>] = <<o, f>> /\ acted # {o}
                       \/ f \in tx[p].left /\ dir[<<p, f>>] = <<o, f>>
    BY DEF ForeignFileStays
  <2>1. o \in Others
    BY DEF Settlement, World, InControl, Inv, Counted
  <2>2. Seen(p, f, dir, <<o, f>>, acted # {o})
    BY <2>1 DEF Found
  <2>3. f \notin tx[p].left => dir[<<p, f>>] # <<o, f>>
    BY <2>1, EndedEmpty, NamesApart DEF Ident
  <2>. QED  BY <2>2, <2>3 DEF Seen
<1>. QED  BY <1>1, <1>2, <1>3, PTL DEF Spec

----------------------------------------------------------------------------
(* The promise of a publication.                                           *)

LEMMA StatusOf ==
  ASSUME NEW p
  PROVE  /\ Status(p) \in {"void", "committed", "aborted", "open"}
         /\ Status(p) = "void" <=> Void(p)
         /\ Status(p) = "committed" <=> ~Void(p) /\ tx[p].passed
         /\ Status(p) = "aborted" <=> ~Void(p) /\ ~tx[p].passed /\ Ended(p)
BY DEF Status

LEMMA NextStatusOf ==
  ASSUME NEW p
  PROVE  /\ Status(p)' \in {"void", "committed", "aborted", "open"}
         /\ Status(p)' = "void" <=> Void(p)'
         /\ Status(p)' = "committed" <=> ~Void(p)' /\ tx'[p].passed
         /\ Status(p)' = "aborted" <=> ~Void(p)' /\ ~tx'[p].passed /\ Ended(p)'
BY DEF Status

(* What is seen of a file of an open transaction.                          *)
Sight(p, f, noted, t, d) ==
  IF f \notin noted \/ d[<<Public, f>>] = t.orig[f] THEN "old"
  ELSE IF d[<<Public, f>>] = <<p, f>> THEN "new" ELSE "gone"

LEMMA ViewOf ==
  ASSUME NEW p, Noted(p) \subseteq Planned(p)
  PROVE  View(p) = [f \in Files |->
                      IF Status(p) = "committed" /\ f \in Planned(p) THEN "new"
                      ELSE IF Status(p) = "open" THEN Sight(p, f, Noted(p), tx[p], dir)
                      ELSE "old"]
<1>1. Status(p) \in {"void", "committed", "aborted", "open"}
  BY StatusOf
<1>. QED  BY <1>1 DEF View, Sight

LEMMA NextViewOf ==
  ASSUME NEW p, Noted(p)' \subseteq Planned(p)'
  PROVE  View(p)' = [f \in Files |->
                      IF Status(p)' = "committed" /\ f \in Planned(p)' THEN "new"
                      ELSE IF Status(p)' = "open" THEN Sight(p, f, Noted(p)', tx'[p], dir')
                      ELSE "old"]
<1>1. Status(p)' \in {"void", "committed", "aborted", "open"}
  BY NextStatusOf
<1>. QED  BY <1>1 DEF View, Sight

NotedWithin == \A p \in Procs : Noted(p) \subseteq Planned(p)

LEMMA NotedPlanned == InControl => NotedWithin
<1>. SUFFICES ASSUME InControl, NEW p \in Procs PROVE Noted(p) \subseteq Planned(p)
  BY DEF NotedWithin
<1>1. /\ Work(p) \in Seq(Files) /\ Len(Work(p)) \in Nat
      /\ tx[p].n \in Nat /\ tx[p].n <= Len(Work(p))
  BY WorkFacts
<1>. QED  BY <1>1 DEF Noted, Planned

LEMMA NextNotedPlanned == InControl' => NotedWithin'
BY NotedPlanned, PTL

Beheld(p) == \A f \in Files : Sight(p, f, Noted(p)', tx'[p], dir') = Sight(p, f, Noted(p), tx[p], dir)

LEMMA ViewKept ==
  ASSUME InControl, InControl', NEW p \in Procs, plan' = plan, Status(p)' = Status(p),
         Status(p) = "open" => Beheld(p)
  PROVE  View(p)' = View(p)
<1>1. Planned(p)' = Planned(p)
  BY DEF Planned, Work
<1>. QED  BY <1>1, NotedPlanned, NextNotedPlanned, ViewOf, NextViewOf DEF Beheld, NotedWithin

(* What is promised of the process stays as it was.                        *)
Same(p) == Status(p)' = Status(p) /\ View(p)' = View(p) /\ Unrestored(p)' = Unrestored(p)

(* Nothing is promised of these transactions any more, and nothing changes *)
(* for the others.                                                         *)
LEMMA Voiding ==
  ASSUME InControl', NEW met \in SUBSET Procs, \A p \in met : Void(p)',
         \A p \in Procs \ met : Same(p)
  PROVE  Promise!Next
<1>1. ASSUME NEW p \in met
      PROVE  Status(p)' = "void" /\ View(p)' = [f \in Files |-> "old"] /\ Unrestored(p)' = {}
  <2>1. Status(p)' = "void"
    BY NextStatusOf
  <2>2. Unrestored(p)' = {}
    BY <2>1 DEF Unrestored
  <2>. QED  BY <2>1, <2>2, NextNotedPlanned, NextViewOf DEF NotedWithin
<1>2. Promise!Void(met)
  BY <1>1 DEF Promise!Void, Promise!Nothing, Same
<1>. QED  BY <1>2 DEF Promise!Next

(* A transaction that takes no step, and meets nobody.                     *)
LEMMA Bystands ==
  ASSUME World, InControl', NEW p \in Procs, tx'[p] = tx[p], plan' = plan,
         p \in mixed' <=> p \in mixed, p \in visited' <=> p \in visited,
         p \in Active => p \in mixed \cup visited \/ Beheld(p)
  PROVE  Same(p)
<1>1. InControl
  BY DEF World
<1>2. Status(p)' = Status(p)
  BY DEF Status, Void, Ended
<1>3. ASSUME Status(p) = "open" PROVE Beheld(p)
  <2>1. ~Void(p) /\ ~tx[p].passed /\ ~Ended(p)
    BY <1>3, StatusOf DEF Status
  <2>2. p \notin mixed \cup visited /\ tx[p].pc \notin {"done", "killed"}
    BY <2>1 DEF Void, Ended
  <2>3. CASE p \in Active
    BY <2>2, <2>3
  <2>4. CASE p \notin Active
    <3>1. tx[p].pc = "idle"
      BY <2>2, <2>4 DEF Active
    <3>2. tx[p].n = 0
      BY <1>1, <3>1 DEF InControl, Controlled, Inv, RecordsPlaced, Placed
    <3>3. Noted(p) = {} /\ Noted(p)' = {}
      BY <3>2 DEF Noted
    <3>. QED  BY <3>3 DEF Beheld, Sight
  <2>. QED  BY <2>3, <2>4
<1>4. Unrestored(p)' = Unrestored(p)
  BY <1>2 DEF Unrestored
<1>. QED  BY <1>1, <1>2, <1>3, <1>4, ViewKept DEF Same

(* Two processes at work have met.                                         *)
LEMMA TwoMet ==
  ASSUME World, NEW p \in Active, NEW q \in Active, p # q PROVE p \in mixed
BY DEF World, Company

LEMMA StartPromised ==
  ASSUME World, InControl', NEW q \in Procs, Start(q) PROVE Promise!Next
<1>. DEFINE met == mixed' \ mixed
<1>1. /\ Stands(tx[q], tx'[q]) /\ tx'[q].pc = "prepare" /\ tx[q].pc = "idle"
      /\ \A r \in Procs \ {q} : tx'[r] = tx[r]
      /\ mixed' = IF Active = {} THEN mixed ELSE mixed \cup Active \cup {q}
      /\ plan' = plan /\ visited' = visited /\ InControl
  BY StartsTo, OthersKept DEF World, Start, At
<1>2. met \in SUBSET Procs /\ \A p \in met : Void(p)'
  BY <1>1 DEF Active, Void
<1>3. ASSUME NEW p \in Procs \ met PROVE Same(p)
  <2>1. (p \in mixed' <=> p \in mixed) /\ (p \in visited' <=> p \in visited)
    BY <1>1, <1>3
  <2>2. CASE p # q
    <3>1. p \in Active => p \in mixed
      BY <1>1, <2>1
    <3>. QED  BY <1>1, <2>1, <2>2, <3>1, Bystands
  <2>3. CASE p = q
    <3>1. Status(p)' = Status(p)
      BY <1>1, <2>1, <2>3 DEF Status, Void, Ended, Stands, Marks
    <3>2. tx[p].n = 0 /\ tx'[p].n = 0
      BY <1>1, <2>3 DEF InControl, Controlled, Inv, RecordsPlaced, Placed, Stands, Keeps
    <3>3. Noted(p) = {} /\ Noted(p)' = {}
      BY <3>2 DEF Noted
    <3>4. Beheld(p)
      BY <3>3 DEF Beheld, Sight
    <3>5. Unrestored(p)' = Unrestored(p)
      BY <1>1, <2>3, <3>1 DEF Unrestored, Stands, Marks
    <3>. QED  BY <1>1, <3>1, <3>4, <3>5, ViewKept DEF Same
  <2>. QED  BY <2>2, <2>3
<1>. QED  BY <1>2, <1>3, Voiding

LEMMA KillPromised ==
  ASSUME World, InControl', NEW q \in Procs, Kill(q) PROVE Promise!Next
<1>. DEFINE met == IF tx[q].passed THEN {} ELSE {q}
<1>1. /\ Stands(tx[q], tx'[q]) /\ tx'[q].pc = "killed" /\ q \in Active
      /\ \A r \in Procs \ {q} : tx'[r] = tx[r]
      /\ mixed' = mixed /\ visited' = visited /\ plan' = plan /\ InControl
  BY KillsTo, OthersKept DEF World, Kill, observed
<1>2. met \in SUBSET Procs /\ \A p \in met : Void(p)'
  BY <1>1 DEF Void, Stands, Marks
<1>3. ASSUME NEW p \in Procs \ met PROVE Same(p)
  <2>1. CASE p # q
    BY <1>1, <2>1, TwoMet, Bystands
  <2>2. CASE p = q
    <3>1. tx[p].passed /\ tx'[p].passed
      BY <1>1, <1>3, <2>2 DEF Stands, Marks
    <3>2. Status(p)' = Status(p) /\ Status(p) # "open"
      BY <1>1, <3>1 DEF Status, Void
    <3>3. Unrestored(p)' = Unrestored(p)
      BY <3>2 DEF Unrestored
    <3>. QED  BY <1>1, <3>2, <3>3, ViewKept DEF Same
  <2>. QED  BY <2>1, <2>2
<1>. QED  BY <1>2, <1>3, Voiding

LEMMA VisitPromised ==
  ASSUME World, InControl', NEW o \in Others, NEW h \in Files,
         Overwrite(o, h) \/ \E new \in {<<o, h>>, None} : MoveAside(o, h, new)
  PROVE  Promise!Next
<1>. DEFINE met == visited' \ visited
<1>1. /\ Visits(o, h, dir, dir') /\ tx' = tx /\ plan' = plan /\ mixed' = mixed /\ o \notin acted
      /\ visited' = visited \cup {q \in Active : h \in Planned(q)} /\ InControl
      /\ dir \in [Name -> Content] /\ OneName(dir) /\ OwnFile(dir)
  BY Visiting DEF World, InControl, Inv, DiskTyped, Surrounds
<1>0. Vanished(dir, <<o, h>>)
  BY <1>1 DEF World, Strangers
<1>2. SameBut(dir, dir', {<<Public, h>>, <<Aside, h>>})
  <2>1. Leaves(o, h, dir, dir')
    BY <1>0, <1>1, VisitNames
  <2>. QED  BY <2>1 DEF Leaves
<1>3. met \in SUBSET Procs /\ \A p \in met : Void(p)'
  BY <1>1 DEF Active, Void
<1>4. ASSUME NEW p \in Procs \ met PROVE Same(p)
  <2>1. (p \in mixed' <=> p \in mixed) /\ (p \in visited' <=> p \in visited)
    BY <1>1, <1>4
  <2>2. ASSUME p \in Active \ visited PROVE Beheld(p)
    <3>1. h \notin Planned(p) /\ Noted(p) \subseteq Planned(p)
      BY <1>1, <1>4, <2>2, NotedPlanned DEF NotedWithin
    <3>2. Noted(p)' = Noted(p)
      BY <1>1, NotedKept
    <3>3. ASSUME NEW f \in Files, f # h PROVE dir'[<<Public, f>>] = dir[<<Public, f>>]
      <4>1. Untouched(p, f, h, dir, dir')
        BY <1>2, VisitAway
      <4>. QED  BY <3>3, <4>1 DEF Untouched
    <3>. QED  BY <1>1, <3>1, <3>2, <3>3 DEF Beheld, Sight
  <2>3. tx'[p] = tx[p]
    BY <1>1
  <2>. QED  BY <1>1, <2>1, <2>2, <2>3, Bystands
<1>. QED  BY <1>3, <1>4, Voiding

(* The name of one file changes, and shows a version the transaction knows.*)
LEMMA Revealing ==
  ASSUME NEW p \in Procs, NEW f \in Files, NEW v \in {"old", "new"}, Status(p) = "open",
         Status(p)' = "open", \A r \in Procs \ {p} : Same(r),
         Unrestored(p)' = Unrestored(p), View(p)' = [View(p) EXCEPT ![f] = v]
  PROVE  Promise!Next
<1>1. CASE v = "new"
  <2>1. Promise!Replace(p, f)
    BY <1>1 DEF Promise!Replace, Same
  <2>. QED  BY <2>1 DEF Promise!Next
<1>2. CASE v = "old"
  <2>1. Promise!Restore(p, f)
    BY <1>2 DEF Promise!Restore, Same
  <2>. QED  BY <2>1 DEF Promise!Next
<1>. QED  BY <1>1, <1>2

(* A file could not be restored, and stays as it is.                       *)
LEMMA Stranding ==
  ASSUME NEW p \in Procs, NEW f \in Files, Status(p) = "open", Status(p)' = "open",
         \A r \in Procs \ {p} : Same(r),
         Unrestored(p)' = Unrestored(p) \cup {f}, View(p)' = View(p)
  PROVE  Promise!Next
<1>1. Promise!Leave(p, f)
  BY DEF Promise!Leave, Same
<1>. QED  BY <1>1 DEF Promise!Next

(* A transaction commits with all of its files new.                        *)
LEMMA Committing ==
  ASSUME NEW p \in Procs, NEW wanted \in SUBSET Files, Status(p) = "open",
         {g \in Files : View(p)[g] = "new"} = wanted, wanted # {}, Unrestored(p) = {},
         \A r \in Procs \ {p} : Same(r),
         Status(p)' = "committed", View(p)' = View(p), Unrestored(p)' = {}
  PROVE  Promise!Next
<1>1. Promise!Commit(p, wanted)
  BY DEF Promise!Commit, Promise!Shows, Same
<1>. QED  BY <1>1 DEF Promise!Next

(* And fails with none of them new that it could restore.                  *)
LEMMA Aborting ==
  ASSUME NEW p \in Procs, Status(p) = "open",
         \A g \in Files \ Unrestored(p) : View(p)[g] = "old",
         \A r \in Procs \ {p} : Same(r), Status(p)' = "aborted",
         View(p)' = [g \in Files |-> "old"], Unrestored(p)' = {}
  PROVE  Promise!Next
<1>1. Promise!Abort(p)
  BY DEF Promise!Abort, Promise!Nothing, Same
<1>. QED  BY <1>1 DEF Promise!Next

(* Only the last file to be verified takes the way of no return.           *)
LEMMA CallPasses ==
  ASSUME NEW p, NEW f, NEW len, NEW t, NEW u, NEW d, NEW e, Calls(p, f, len, t, u, d, e),
         Controlled(t), t.pc \notin Stopped, ~t.passed, u.passed
  PROVE  /\ t.stage = "publish" /\ t.pc = "verify" /\ t.i >= t.n
         /\ Keeps(t, u) /\ u.hurt = t.hurt /\ e = d
<1>1. CASE FollowsTo(t, u)
  <2>1. Passes(t, u) /\ Keeps(t, u)
    BY <1>1 DEF FollowsTo, ClosesTo, WithinStage, Marks
  <2>2. t.pc \in {"check", "rename", "verify"}
    BY <2>1 DEF Passes, Controlled, Course, Stopped
  <2>3. t.pc = "verify" /\ e = d
    BY <2>1, <2>2 DEF Calls, Writes, Publishes, Exchanges, Restores, Takes, Looks, Checks, Misses,
          Verifies, Turns, Abandons, Withdraws, Discards, Tidies, Owns, Skips, Seizes, Hunts, Seals,
          Sweeps, Picks, Resumes, FailsTo, Reverts, Hurts, SeizesElsewhere, Passes
  <2>. QED  BY <2>1, <2>3 DEF Passes
<1>2. CASE FailsTo(f, t, u)
  BY <1>1, <1>2 DEF FailsTo, Reverts, Hurts, SeizesElsewhere, ClosesTo, Stands, Marks
<1>3. CASE ResumesTo(t, u)
  BY <1>1, <1>3 DEF ResumesTo, Stands, Marks
<1>4. CASE ClosesTo(t, u)
  BY <1>4 DEF ClosesTo, Marks
<1>5. CASE Stands(t, u)
  BY <1>5 DEF Stands, Marks
<1>6. CASE Writes(p, f, len, t, u, d, e) \/ Publishes(p, f, t, u, d, e) \/ Checks(f, t, u, d)
           \/ Misses(p, f, t, u, d)
  BY <1>6 DEF Writes, Publishes, Exchanges, Checks, Misses, Marks
<1>. QED  BY <1>1, <1>2, <1>3, <1>4, <1>5, <1>6
          DEF Calls, Restores, Takes, RetiresTo, TakesFrom, Looks, Verifies, Turns, Abandons,
              Withdraws, Discards, Tidies, Owns, Skips, Seizes, Hunts, Seals, Sweeps, Picks,
              Resumes

(* A transaction ends when its candidates are closed, or before it has any.*)
LEMMA CallEnds ==
  ASSUME NEW p, NEW f, NEW len, NEW t, NEW u, NEW d, NEW e, Calls(p, f, len, t, u, d, e),
         Controlled(t), t.then \in Continuations, u.pc = "done"
  PROVE  (t.stage = "close" \/ t.n = 0) /\ Keeps(t, u)
<1>1. CASE FollowsTo(t, u)
  BY <1>1 DEF FollowsTo, ClosesTo, WithinStage, Passes
<1>2. CASE ClosesTo(t, u)
  BY <1>2 DEF ClosesTo
<1>3. CASE FailsTo(f, t, u)
  BY <1>1, <1>2, <1>3 DEF FailsTo, Reverts, Hurts, SeizesElsewhere
<1>4. CASE ResumesTo(t, u)
  BY <1>1, <1>4 DEF ResumesTo, Continuations
<1>. QED  BY <1>1, <1>2, <1>3, <1>4
          DEF Calls, Writes, Publishes, Exchanges, Checks, Misses, Restores, Takes, RetiresTo,
              TakesFrom, Looks, Verifies, Turns, Abandons, Withdraws, Discards, Tidies, Owns, Skips,
              Seizes, Hunts, Seals, Sweeps, Picks, Resumes

(* Only a step that found the file in the way of its rollback leaves it.   *)
LEMMA CallStrands ==
  ASSUME NEW p, NEW f, NEW len, NEW t, NEW u, NEW d, NEW e, Calls(p, f, len, t, u, d, e),
         Controlled(t), t.pc \notin Stopped
  PROVE  u.left = t.left \/ (u.left = t.left \cup {f} /\ Keeps(t, u) /\ e = d)
<1>1. CASE Writes(p, f, len, t, u, d, e) \/ Publishes(p, f, t, u, d, e)
           \/ Restores(p, f, t, u, d, e) \/ Takes(t, u, d, e)
  BY <1>1 DEF Writes, Publishes, Exchanges, Restores, Takes, RetiresTo, Stands, Marks
<1>2. CASE Looks(p, f, t, u, d) /\ e = d
  BY <1>2 DEF Looks, Checks, Misses, Verifies, Turns, Abandons, Withdraws, Discards, Tidies,
              Owns, Skips, Seizes, Hunts, Seals, Sweeps, Picks, Resumes, ResumesTo, RetiresTo,
              TakesFrom, FailsTo, Reverts, Hurts, SeizesElsewhere, FollowsTo, ClosesTo,
              WithinStage, Passes, Stands, Keeps, Marks
<1>. QED  BY <1>1, <1>2 DEF Calls

(* The public names of other files are left alone.                         *)
LEMMA CallElsewhere ==
  ASSUME NEW p, NEW f, NEW len, NEW t, NEW u, NEW d, NEW e, NEW g,
         Sound(p, f, t, d), Calls(p, f, len, t, u, d, e),
         t.pc \in {"seize", "take"} => t.target \in Name, g \in Files, g # f
  PROVE  e[<<Public, g>>] = d[<<Public, g>>]
<1>1. /\ <<p, f>> \in Name /\ <<Public, f>> \in Name /\ <<Public, g>> \in Name
      /\ <<Public, g>> # <<p, f>> /\ <<Public, g>> # <<Public, f>> /\ d \in [Name -> Content]
  BY NamesOf DEF Sound
<1>2. CASE Writes(p, f, len, t, u, d, e)
  BY <1>1, <1>2 DEF Writes
<1>3. CASE Publishes(p, f, t, u, d, e) \/ Restores(p, f, t, u, d, e)
  BY <1>1, <1>3, ExchangeMoves DEF Sound, Publishes, Restores
<1>4. CASE Takes(t, u, d, e)
  <2>1. t.target[1] # Public /\ e = [d EXCEPT ![t.target] = None]
    BY <1>4, TakeTarget DEF Takes
  <2>. QED  BY <1>1, <2>1
<1>5. CASE e = d
  BY <1>5
<1>. QED  BY <1>2, <1>3, <1>4, <1>5 DEF Calls

(* What is seen of a record of a transaction by itself.                    *)
LEMMA SightOf ==
  ASSUME NEW p, NEW t, NEW d, NEW j, NEW g, NEW noted, Showing(p, t, d, j, g), OwnOriginals(p, t),
         g \in Files
  PROVE  /\ Sight(p, g, noted, t, d) \in {"old", "new"}
         /\ g \notin t.left =>
              (Sight(p, g, noted, t, d) = "new" <=> Swapped(t, j, g) /\ g \in noted)
BY DEF Sight, Showing, Shown, OwnOriginals

LEMMA OpenSight ==
  ASSUME World, NEW p \in Procs, AllShown(p, Work(p), tx[p], dir), NEW f \in Files
  PROVE  /\ Sight(p, f, Noted(p), tx[p], dir) \in {"old", "new"}
         /\ f \notin tx[p].left /\ Sight(p, f, Noted(p), tx[p], dir) = "new" =>
              \E j \in 1..tx[p].n : f = Work(p)[j] /\ Swapped(tx[p], j, f)
         /\ f \notin tx[p].left =>
              \A j \in 1..tx[p].n : f = Work(p)[j] /\ Swapped(tx[p], j, f) =>
                Sight(p, f, Noted(p), tx[p], dir) = "new"
<1>1. OwnOriginals(p, tx[p])
  BY DEF World, Surrounds
<1>2. CASE f \notin Noted(p)
  BY <1>2 DEF Sight, Noted
<1>3. ASSUME NEW j \in 1..tx[p].n, f = Work(p)[j]
      PROVE  /\ Sight(p, f, Noted(p), tx[p], dir) \in {"old", "new"}
             /\ f \notin tx[p].left =>
                  (Sight(p, f, Noted(p), tx[p], dir) = "new" <=> Swapped(tx[p], j, f))
  <2>1. Showing(p, tx[p], dir, j, f) /\ f \in Noted(p)
    BY <1>3 DEF AllShown, Noted
  <2>. QED  BY <1>1, <2>1, SightOf
<1>. QED  BY <1>2, <1>3 DEF Noted

LEMMA OthersSee ==
  ASSUME World, InControl', NEW p \in Procs, Acts(p), NEW q \in Procs \ {p}
  PROVE  Same(q)
<1>1. p \in Active
  BY DEF Acts, Active, Stopped
<1>2. /\ tx'[q] = tx[q] /\ plan' = plan /\ mixed' = mixed /\ visited' = visited
      /\ q \in Active => q \in mixed
  BY <1>1, TwoMet DEF Acts, observed
<1>. QED  BY <1>2, Bystands

(* A step of a transaction that is not open any more.                      *)
LEMMA SettledPromised ==
  ASSUME World, InControl', NEW p \in Procs, Acts(p), Status(p) # "open"
  PROVE  Promise!Next
<1>1. /\ Calls(p, File(p), Len(Work(p)), tx[p], tx'[p], dir, dir')
      /\ tx[p].then \in Continuations /\ Controlled(tx[p]) /\ tx[p].pc \notin Stopped
      /\ mixed' = mixed /\ visited' = visited /\ plan' = plan /\ InControl
  BY ActsKnown DEF World, Acts, observed
<1>2. ~Ended(p) /\ tx[p].pc # "killed"
  BY <1>1 DEF Ended, Stopped
<1>3. tx[p].passed => tx'[p].passed
  BY <1>1, CallMarks
<1>5. Status(p)' = Status(p)
  <2>1. CASE Void(p)
    <3>1. Void(p)'
      BY <1>1, <1>2, <2>1 DEF Void, Ended
    <3>. QED  BY <2>1, <3>1, StatusOf, NextStatusOf
  <2>2. CASE ~Void(p)
    <3>1. tx[p].passed
      BY <1>2, <2>2 DEF Status
    <3>2. ~Void(p)' /\ tx'[p].passed
      BY <1>1, <1>3, <2>2, <3>1 DEF Void
    <3>. QED  BY <2>2, <3>1, <3>2, StatusOf, NextStatusOf
  <2>. QED  BY <2>1, <2>2
<1>6. View(p)' = View(p)
  BY <1>1, <1>5, ViewKept
<1>7. Unrestored(p)' = Unrestored(p)
  BY <1>5 DEF Unrestored
<1>8. /\ {} \in SUBSET Procs /\ \A r \in {} : Void(r)'
      /\ \A r \in Procs \ {} : Same(r)
  BY <1>5, <1>6, <1>7, OthersSee DEF Same
<1>. QED  BY <1>8, Voiding

(* The point of no return: every file is new.                              *)
LEMMA PassPromised ==
  ASSUME World, InControl', NEW p \in Procs, Acts(p), Status(p) = "open",
         AllShown(p, Work(p), tx[p], dir), tx'[p].passed
  PROVE  Promise!Next
<1>1. /\ Calls(p, File(p), Len(Work(p)), tx[p], tx'[p], dir, dir')
      /\ Controlled(tx[p]) /\ tx[p].pc \notin Stopped
      /\ mixed' = mixed /\ visited' = visited /\ plan' = plan /\ InControl
      /\ tx[p].i \in 1..Len(Work(p))
  BY ActsKnown DEF World, Acts, observed
<1>2. ~Void(p) /\ ~tx[p].passed
  BY StatusOf DEF Status
<1>3. /\ tx[p].stage = "publish" /\ tx[p].pc = "verify" /\ tx[p].i >= tx[p].n
      /\ tx[p].left = {}
  BY <1>1, <1>2, CallPasses DEF Controlled
<1>4. /\ Work(p) \in Seq(Files) /\ Len(Work(p)) \in Nat /\ tx[p].n = Len(Work(p))
      /\ Planned(p) \subseteq Files
  <2>1. Work(p) \in Seq(Files) /\ Len(Work(p)) \in Nat
    BY <1>1, WorkFacts
  <2>2. tx[p].n = Len(Work(p))
    BY <1>1, <1>3 DEF InControl, Inv, RecordsPlaced, Placed, Sane
  <2>. QED  BY <2>1, <2>2 DEF Planned
<1>5. Status(p)' = "committed"
  <2>1. ~Void(p)'
    BY <1>1, <1>2 DEF Void
  <2>. QED  BY <2>1, NextStatusOf
<1>6. ASSUME NEW f \in Planned(p) PROVE Sight(p, f, Noted(p), tx[p], dir) = "new"
  <2>1. PICK j \in 1..tx[p].n : f = Work(p)[j]
    BY <1>4 DEF Planned
  <2>2. Swapped(tx[p], j, f)
    BY <1>1, <1>3, <1>4, <2>1 DEF Swapped
  <2>. QED  BY <1>3, <1>4, <2>1, <2>2, OpenSight
<1>7. ASSUME NEW f \in Files \ Planned(p) PROVE Sight(p, f, Noted(p), tx[p], dir) = "old"
  BY <1>1, NotedPlanned DEF NotedWithin, Sight
<1>8. View(p) = [f \in Files |-> IF f \in Planned(p) THEN "new" ELSE "old"]
  BY <1>1, <1>6, <1>7, NotedPlanned, ViewOf DEF NotedWithin
<1>9. View(p)' = View(p)
  <2>1. Planned(p)' = Planned(p)
    BY <1>1 DEF Planned, Work
  <2>. QED  BY <1>5, <1>8, <2>1, NextNotedPlanned, NextViewOf DEF NotedWithin
<1>10. Planned(p) # {} /\ {f \in Files : View(p)[f] = "new"} = Planned(p)
  BY <1>1, <1>4, <1>8 DEF Planned
<1>11. Unrestored(p) = {} /\ Unrestored(p)' = {}
  BY <1>3, <1>5 DEF Unrestored
<1>. QED  BY <1>4, <1>5, <1>9, <1>10, <1>11, OthersSee, Committing

(* The end of a rollback: every file that could be restored is as it was.  *)
LEMMA EndPromised ==
  ASSUME World, InControl', NEW p \in Procs, Acts(p), Status(p) = "open",
         AllShown(p, Work(p), tx[p], dir), ~tx'[p].passed, tx'[p].pc = "done"
  PROVE  Promise!Next
<1>1. /\ Calls(p, File(p), Len(Work(p)), tx[p], tx'[p], dir, dir')
      /\ Controlled(tx[p]) /\ tx[p].then \in Continuations
      /\ mixed' = mixed /\ visited' = visited /\ plan' = plan /\ InControl
  BY ActsKnown DEF World, Acts, observed
<1>2. ~Void(p)
  BY StatusOf
<1>3. tx[p].stage = "close" \/ tx[p].n = 0
  BY <1>1, CallEnds
<1>4. Status(p)' = "aborted"
  <2>1. ~Void(p)' /\ Ended(p)'
    BY <1>1, <1>2 DEF Void, Ended
  <2>. QED  BY <2>1, NextStatusOf
<1>5. ASSUME NEW f \in Files \ Unrestored(p) PROVE View(p)[f] = "old"
  <2>1. ~\E j \in 1..tx[p].n : Swapped(tx[p], j, f)
    BY <1>3 DEF Swapped
  <2>2. Sight(p, f, Noted(p), tx[p], dir) = "old"
    BY <1>5, <2>1, OpenSight DEF Unrestored
  <2>. QED  BY <1>1, <2>2, NotedPlanned, ViewOf DEF NotedWithin
<1>6. View(p)' = [f \in Files |-> "old"] /\ Unrestored(p)' = {}
  <2>1. Unrestored(p)' = {}
    BY <1>4 DEF Unrestored
  <2>. QED  BY <1>4, <2>1, NextNotedPlanned, NextViewOf DEF NotedWithin
<1>. QED  BY <1>4, <1>5, <1>6, OthersSee, Aborting

(* On the way, one file at a time: new or as it was.                       *)
LEMMA OpenPromised ==
  ASSUME World, World', NEW p \in Procs, Acts(p), Held(p), Status(p) = "open",
         AllShown(p, Work(p), tx[p], dir), ~tx'[p].passed, tx'[p].pc # "done"
  PROVE  Promise!Next
<1>1. /\ Calls(p, File(p), Len(Work(p)), tx[p], tx'[p], dir, dir') /\ File(p) \in Files
      /\ tx[p].pc \in {"seize", "take"} => tx[p].target \in Name
      /\ tx[p].then \in Continuations /\ File(p) = Work(p)[tx[p].i]
      /\ mixed' = mixed /\ visited' = visited /\ plan' = plan /\ InControl /\ InControl'
      /\ Work(p)' = Work(p) /\ FilesNoted
      /\ Controlled(tx[p]) /\ tx[p].pc \notin Stopped
  BY ActsKnown DEF World, Acts, observed, Work
<1>2. ~Void(p) /\ p \notin mixed
  BY StatusOf DEF Void
<1>3. Status(p)' = "open"
  <2>1. ~Void(p)' /\ ~Ended(p)'
    <3>1. tx'[p].pc # "killed"
      BY <1>1, CallMarks
    <3>. QED  BY <1>1, <1>2, <3>1 DEF Void, Ended
  <2>. QED  BY <2>1, NextStatusOf
<1>4. AllShown(p, Work(p), tx'[p], dir') /\ Sound(p, File(p), tx[p], dir)
  BY <1>2, OwnHeld
<1>5. ASSUME NEW g \in Files, g # File(p)
      PROVE  Sight(p, g, Noted(p)', tx'[p], dir') = Sight(p, g, Noted(p), tx[p], dir)
  <2>1. dir'[<<Public, g>>] = dir[<<Public, g>>]
    BY <1>1, <1>4, <1>5, CallElsewhere
  <2>2. tx'[p].orig[g] = tx[p].orig[g]
    BY <1>1, <1>5, ActsOriginals DEF NotesOriginal
  <2>3. g \in Noted(p)' <=> g \in Noted(p)
    <3>1. /\ tx[p].n \in Nat /\ tx[p].i \in Nat
          /\ \/ tx'[p].n = tx[p].n
             \/ tx'[p].n = tx[p].i /\ tx[p].n = tx[p].i - 1
      BY <1>1, StepNotes
    <3>2. \A j \in 1..tx'[p].n : j \in 1..tx[p].n \/ j = tx[p].i
      BY <3>1
    <3>3. \A j \in 1..tx[p].n : j \in 1..tx'[p].n
      BY <3>1
    <3>. QED  BY <1>1, <1>5, <3>2, <3>3 DEF Noted
  <2>. QED  BY <2>1, <2>2, <2>3 DEF Sight
<1>6. Sight(p, File(p), Noted(p)', tx'[p], dir') \in {"old", "new"}
  <2>1. CASE File(p) \notin Noted(p)'
    BY <2>1 DEF Sight
  <2>2. CASE File(p) \in Noted(p)'
    <3>1. PICK j \in 1..tx'[p].n : File(p) = Work(p)[j]
      BY <1>1, <2>2 DEF Noted
    <3>2. Showing(p, tx'[p], dir', j, File(p)) /\ OwnOriginals(p, tx'[p])
      BY <1>4, <3>1 DEF AllShown, World, Surrounds
    <3>. QED  BY <1>1, <3>2, SightOf
  <2>. QED  BY <2>1, <2>2
<1>7. /\ View(p) = [f \in Files |-> Sight(p, f, Noted(p), tx[p], dir)]
      /\ View(p)' = [f \in Files |-> Sight(p, f, Noted(p)', tx'[p], dir')]
  BY <1>1, <1>3, NotedPlanned, NextNotedPlanned, ViewOf, NextViewOf DEF NotedWithin
<1>8. View(p)' = [View(p) EXCEPT ![File(p)] = Sight(p, File(p), Noted(p)', tx'[p], dir')]
  BY <1>5, <1>7
<1>9. \A r \in Procs \ {p} : Same(r)
  BY <1>1, OthersSee
<1>10. Unrestored(p) = tx[p].left /\ Unrestored(p)' = tx'[p].left
  BY <1>3 DEF Unrestored
<1>11. CASE tx'[p].left = tx[p].left
  BY <1>1, <1>3, <1>6, <1>8, <1>9, <1>10, <1>11, Revealing
<1>12. CASE /\ tx'[p].left = tx[p].left \cup {File(p)}
            /\ Keeps(tx[p], tx'[p]) /\ dir' = dir
  <2>1. Noted(p)' = Noted(p)
    BY <1>1, <1>12 DEF Noted, Keeps
  <2>2. View(p)' = View(p)
    BY <1>7, <1>12, <2>1 DEF Sight, Keeps
  <2>. QED  BY <1>1, <1>3, <1>9, <1>10, <1>12, <2>2, Stranding
<1>. QED  BY <1>1, <1>11, <1>12, CallStrands

LEMMA ActPromised ==
  ASSUME Settlement, Settlement', NEW p \in Procs, Acts(p) PROVE Promise!Next
<1>1. World /\ World' /\ InControl' /\ Held(p) /\ Appears(p)
  BY DEF Settlement, World
<1>2. /\ Calls(p, File(p), Len(Work(p)), tx[p], tx'[p], dir, dir')
      /\ Controlled(tx[p]) /\ tx[p].pc \notin Stopped
      /\ mixed' = mixed /\ visited' = visited
  BY <1>1, ActsKnown DEF World, Acts, observed
<1>3. CASE Status(p) # "open"
  BY <1>1, <1>3, SettledPromised
<1>4. CASE Status(p) = "open"
  <2>1. ~Void(p) /\ ~tx[p].passed
    BY <1>4, StatusOf DEF Status
  <2>2. p \in Active /\ p \notin mixed \cup visited
    BY <1>2, <2>1 DEF Void, Active, Stopped
  <2>3. AllShown(p, Work(p), tx[p], dir)
    BY <1>1, <2>1, <2>2 DEF Appears, Unseen
  <2>4. CASE tx'[p].passed
    BY <1>1, <1>4, <2>3, <2>4, PassPromised
  <2>5. CASE ~tx'[p].passed /\ tx'[p].pc = "done"
    BY <1>1, <1>4, <2>3, <2>5, EndPromised
  <2>6. CASE ~tx'[p].passed /\ tx'[p].pc # "done"
    BY <1>1, <1>4, <2>3, <2>6, OpenPromised
  <2>. QED  BY <2>4, <2>5, <2>6
<1>. QED  BY <1>3, <1>4

(* A transaction replaces all of its files or none of them:                *)
(* publish_transaction and write_provenance_transaction commit only with   *)
(* every file new, and end a failure with every file as it was but those   *)
(* whose own rollback raised, which keep no other from being restored,     *)
(* unless they are killed or meet each other or another writer.            *)
THEOREM PublicationImplemented == Spec => ImplementsPublication
<1>1. Init => Promise!Init
  <2>. SUFFICES ASSUME Init PROVE Promise!Init
    OBVIOUS
  <2>1. Settlement /\ tx = [p \in Procs |-> Fresh] /\ mixed = {} /\ visited = {}
    BY InitSettlement DEF Init
  <2>2. ASSUME NEW p \in Procs
        PROVE  /\ Status(p) = "open" /\ View(p) = [f \in Files |-> "old"]
               /\ Unrestored(p) = {}
    <3>1. ~tx[p].passed /\ tx[p].left = {} /\ tx[p].pc = "idle" /\ tx[p].n = 0
      BY <2>1 DEF Fresh
    <3>2. Status(p) = "open"
      BY <2>1, <3>1, StatusOf DEF Void, Ended
    <3>3. Noted(p) = {}
      BY <3>1 DEF Noted
    <3>4. Unrestored(p) = {}
      BY <3>1 DEF Unrestored
    <3>. QED  BY <3>2, <3>3, <3>4, ViewOf DEF Sight
  <2>. QED  BY <2>2 DEF Promise!Init, Promise!Nothing
<1>2. ASSUME Settlement, Settlement', [Next]_vars
      PROVE  [Promise!Next]_(Promise!promises)
  <2>1. World /\ InControl /\ InControl'
    BY <1>2 DEF Settlement, World
  <2>2. ASSUME NEW p \in Procs, Step(p) \/ Fault(p) PROVE Promise!Next
    BY <1>2, <2>1, <2>2, Acting, ActPromised
  <2>3. CASE UNCHANGED vars
    <3>1. ASSUME NEW p \in Procs PROVE Same(p)
      BY <2>3 DEF vars, Same, Unrestored, Status, Void, Ended, View, Planned, Noted, Work
    <3>2. UNCHANGED Promise!promises
      BY <3>1 DEF Promise!promises, Same
    <3>. QED  BY <3>2
  <2>. QED  BY <1>2, <2>1, <2>2, <2>3, StartPromised, KillPromised, VisitPromised DEF Next
<1>. QED  BY <1>1, <1>2, InitSettlement, NextSettlement, PTL
          DEF Spec, ImplementsPublication, Promise!Spec
=============================================================================
