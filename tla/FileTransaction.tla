--------------------------- MODULE FileTransaction ---------------------------
(***************************************************************************)
(* How tools/legacy_parity replaces files: state.py's records (prepare,    *)
(* publish, roll back, finalize, close) and the transactions built on them,*)
(* one file (_atomic_bytes_at), provenance with its staged snapshot        *)
(* (write_provenance_transaction) and the three public artifacts           *)
(* (publish_transaction).                                                  *)
(*                                                                         *)
(* A directory is a function from names to file identities (inodes). Each  *)
(* system call on a name that somebody else may change is a step of its    *)
(* own. Other writers replace a file or move it aside, a step may raise,   *)
(* and a process may be killed.                                            *)
(***************************************************************************)
EXTENDS Integers, Sequences, FiniteSets

CONSTANTS
  Files,          \* the names that are replaced
  Procs,          \* the processes that run one transaction each
  Others,         \* writers outside the tools, each of which acts at most once
  Old, Public, Aside, \* the file before; its name; the name it is moved aside to
  None,           \* no file
  Plans           \* what the processes set out to do, and a bound on mishaps

(* A file is identified by who made it, a name by what it is for: the name *)
(* itself, the random temporary name of a process, or a name moved to.     *)
Ident == (Procs \cup Others \cup {Old}) \X Files
Name == (Procs \cup {Public, Aside}) \X Files
Content == Ident \cup {None}

Plan ==
  [work : [Procs -> [files : Seq(Files), finalizeAll : BOOLEAN]], mishaps : Nat]

ASSUME NamesApart ==
  /\ Procs \cap Others = {}
  /\ Old \notin Procs \cup Others
  /\ Public \notin Procs /\ Aside \notin Procs /\ Public # Aside
  /\ None \notin Ident
ASSUME PlansTyped ==
  /\ Plans \subseteq Plan
  /\ \A plan \in Plans, p \in Procs : \A i, j \in DOMAIN plan.work[p].files :
       plan.work[p].files[i] = plan.work[p].files[j] => i = j

VARIABLES
  dir,       \* what each name holds
  kept,      \* the files in the recoveries directory
  made,      \* every file there has been
  destroyed, \* the files another writer overwrote
  plan,      \* the plan of this run
  tx,        \* where each process is, and its records
  mixed,     \* the processes that met another transaction
  visited,   \* the processes that met another writer
  acted,     \* the other writers that have acted
  mishaps    \* how many steps raised, kills and visits there were

vars == <<dir, kept, made, destroyed, plan, tx, mixed, visited, acted, mishaps>>
disk == <<dir, kept, made, destroyed>>
observed == <<plan, mixed, visited, acted>>

Stages == {"prepare", "publish", "rollback", "finalize", "close"}
Steps == {"idle", "prepare", "check", "rename", "verify", "undo", "back", "undone",
          "original", "tidy", "owned", "finalize", "seize", "retire", "take", "seal",
          "close", "done", "killed"}

Record ==
  [stage : Stages, pc : Steps, then : Steps \cup {"next"},
   i : Nat,                             \* the record at work
   n : Nat,                             \* the records prepared
   orig : [Files -> Content],           \* what the name held when it was prepared
   mode : [Files -> {"none", "exchange", "noreplace"}],
   published : SUBSET Files,
   goal : Content, keep : SUBSET Name,  \* retire this file, except under these names
   spare : SUBSET Name, target : Name \cup {None},
   bad : BOOLEAN,                       \* something else was retired: raise at the end
   passed : BOOLEAN,                    \* every file was published: no way back
   err : BOOLEAN,                       \* an exception is on its way to the caller
   left : SUBSET Files,                 \* the files whose rollback raised
   hurt : BOOLEAN]                      \* the rollback or the closing raised

Work(p) == plan.work[p].files

Active == {p \in Procs : tx[p].pc \notin {"idle", "done", "killed"}}

WellFormed(p) ==
  LET t == tx[p]
  IN /\ t.n <= Len(Work(p))
     /\ t.stage \in {"publish", "rollback", "finalize"} => t.n = Len(Work(p))
     /\ p \in Active => t.i \in 1..Len(Work(p))
     /\ t.pc \in {"seize", "take"} => t.target \in Name

TypeOK ==
  /\ dir \in [Name -> Content]
  /\ kept \subseteq Ident /\ made \subseteq Ident /\ destroyed \subseteq Ident
  /\ plan \in Plans
  /\ tx \in [Procs -> Record]
  /\ \A p \in Procs : WellFormed(p)
  /\ mixed \subseteq Procs /\ visited \subseteq Procs /\ acted \subseteq Others
  /\ mishaps \in 0..plan.mishaps

Fresh ==
  [stage |-> "prepare", pc |-> "idle", then |-> "next", i |-> 1, n |-> 0,
   orig |-> [f \in Files |-> None], mode |-> [f \in Files |-> "none"], published |-> {},
   goal |-> None, keep |-> {}, spare |-> {}, target |-> None,
   bad |-> FALSE, passed |-> FALSE, err |-> FALSE, left |-> {}, hurt |-> FALSE]

Planned(p) == {Work(p)[j] : j \in DOMAIN Work(p)}

Init ==
  /\ plan \in Plans
  /\ \E there \in SUBSET UNION {Planned(p) : p \in Procs} :
       /\ dir = [n \in Name |-> IF n[1] = Public /\ n[2] \in there THEN <<Old, n[2]>> ELSE None]
       /\ made = {<<Old, f>> : f \in there}
  /\ kept = {} /\ destroyed = {}
  /\ tx = [p \in Procs |-> Fresh]
  /\ mixed = {} /\ visited = {} /\ acted = {}
  /\ mishaps = 0

----------------------------------------------------------------------------
(* Records.                                                                *)

File(p) == Work(p)[tx[p].i]
NameOf(p) == <<Public, File(p)>>
Temporary(p) == <<p, File(p)>>
Candidate(p) == <<p, File(p)>>
Original(p) == tx[p].orig[File(p)]
Exchanging(p) == tx[p].mode[File(p)] = "exchange"

(* _identity_names_at, less the names to preserve.                         *)
Aliases(id, keep) == {n \in Name : dir[n] = id /\ id # None} \ keep

(* The name is preserved while it holds the file itself.                   *)
Preserved(p, id) == IF dir[NameOf(p)] = id THEN {NameOf(p)} ELSE {}

Go(p, t) == tx' = [tx EXCEPT ![p] = t]

Closing(t) ==
  IF t.n = 0 THEN [t EXCEPT !.pc = "done"]
             ELSE [t EXCEPT !.stage = "close", !.i = 1, !.pc = "close"]

(* The step after the record at work, when nothing is being rolled back.   *)
Onward(t) ==
  CASE t.stage = "publish" /\ t.i < t.n  -> [t EXCEPT !.i = @ + 1, !.pc = "check"]
    [] t.stage = "publish" /\ t.i >= t.n ->
         [t EXCEPT !.stage = "finalize", !.passed = TRUE, !.i = 1, !.pc = "finalize"]
    [] t.stage = "finalize" /\ t.i < t.n -> [t EXCEPT !.i = @ + 1, !.pc = "finalize"]
    [] t.stage = "finalize" /\ t.i >= t.n -> [t EXCEPT !.pc = "seal"]
    [] t.stage = "close" /\ t.i < t.n    -> [t EXCEPT !.i = @ + 1, !.pc = "close"]
    [] OTHER -> [t EXCEPT !.pc = "done"]

(* Mutant: one record too many is rolled back.                             *)
FollowingPastFirst(t) ==
  IF t.stage = "rollback" THEN [t EXCEPT !.i = @ - 1, !.pc = "undo"] ELSE Onward(t)

Following(t) ==
  CASE t.stage = "rollback" /\ t.i > 1   -> [t EXCEPT !.i = @ - 1, !.pc = "undo"]
    [] t.stage = "rollback" /\ t.i <= 1  -> Closing(t)
    [] OTHER -> Onward(t)

(* What a retirement works with, forgotten when it is over.                *)
Settled(t) ==
  [t EXCEPT !.goal = None, !.keep = {}, !.target = None, !.then = "next"]

Raised(t) == [Settled(t) EXCEPT !.err = TRUE, !.bad = FALSE, !.spare = {}]

(* The rollback of a record raised: its file is left as it is.             *)
Left(p, t) == [Raised(t) EXCEPT !.hurt = TRUE, !.left = @ \cup {Work(p)[t.i]}]

(* An exception while finalizing, or while retiring what a finalization    *)
(* could not take.                                                         *)
FailedFinal(p, t) ==
  CASE t.pc = "seize" -> [t EXCEPT !.bad = TRUE, !.pc = "retire"]
    [] t.pc # "seize" -> IF plan.work[p].finalizeAll /\ t.pc # "seal"
                         THEN Following(Raised(t)) ELSE Closing(Raised(t))

(* Mutant: the rollback stops at the first record that raises.             *)
FailedLateStops(p, t) ==
  CASE t.stage \in {"prepare", "rollback"} ->
         Closing(IF t.stage = "rollback" THEN Left(p, t) ELSE Raised(t))
    [] t.stage = "finalize" -> FailedFinal(p, t)
    [] OTHER -> [Raised(t) EXCEPT !.pc = "done", !.hurt = TRUE]

(* Where an exception leads that is not raised while publishing. The       *)
(* rollback and write_provenance_transaction's finalizing go on with the   *)
(* other records; publish_transaction stops finalizing.                    *)
FailedLate(p, t) ==
  CASE t.stage = "prepare" -> Closing(Raised(t))
    [] t.stage = "rollback" -> Following(Left(p, t))
    [] t.stage = "finalize" -> FailedFinal(p, t)
    [] OTHER -> [Raised(t) EXCEPT !.pc = "done", !.hurt = TRUE]

(* Mutant: the record that raised is not rolled back.                      *)
FailedBefore(p, t) ==
  IF t.stage # "publish" THEN FailedLate(p, t)
  ELSE IF t.i = 1 THEN Closing([t EXCEPT !.err = TRUE])
  ELSE [t EXCEPT !.err = TRUE, !.stage = "rollback", !.i = @ - 1, !.pc = "undo"]

(* While publishing, every record is rolled back, from the last.           *)
Failed(p, t) ==
  IF t.stage # "publish" THEN FailedLate(p, t)
  ELSE [t EXCEPT !.err = TRUE, !.stage = "rollback", !.i = t.n, !.pc = "undo"]

Raise(p) == Go(p, Failed(p, tx[p])) /\ UNCHANGED disk

Retiring(t, id, keep, then) ==
  [t EXCEPT !.goal = id, !.keep = keep, !.then = then, !.pc = "retire"]

Resume(t) ==
  IF t.then = "next" THEN Following(Settled(t)) ELSE [Settled(t) EXCEPT !.pc = t.then]

(* Mutant: a plain rename, which replaces.                                 *)
SwapReplaces(a, b) == dir' = [dir EXCEPT ![b] = dir[a], ![a] = None]

Swap(a, b) == dir' = [dir EXCEPT ![a] = dir[b], ![b] = dir[a]]

----------------------------------------------------------------------------
(* A transaction.                                                          *)

At(p, pc) == p \in Procs /\ tx[p].pc = pc

Start(p) ==
  /\ At(p, "idle") /\ Work(p) # <<>>
  /\ Go(p, [tx[p] EXCEPT !.pc = "prepare"])
  /\ mixed' = IF Active = {} THEN mixed ELSE mixed \cup Active \cup {p}
  /\ UNCHANGED <<disk, plan, visited, acted, mishaps>>

(* The original is noted and the candidate written under a random name.    *)
Prepare(p) ==
  LET t == [tx[p] EXCEPT !.orig[File(p)] = dir[NameOf(p)], !.n = tx[p].i]
  IN /\ At(p, "prepare")
     /\ dir[Temporary(p)] = None
     /\ dir' = [dir EXCEPT ![Temporary(p)] = Candidate(p)]
     /\ made' = made \cup {Candidate(p)}
     /\ Go(p, IF t.i < Len(Work(p)) THEN [t EXCEPT !.i = @ + 1]
                  ELSE [t EXCEPT !.stage = "publish", !.i = 1, !.pc = "check"])
     /\ UNCHANGED <<kept, destroyed>>

(* _destination_unchanged                                                  *)
Check(p) ==
  /\ At(p, "check")
  /\ IF dir[NameOf(p)] # Original(p) THEN Raise(p)
     ELSE /\ Go(p, [tx[p] EXCEPT !.pc = "rename",
                     !.mode[File(p)] = IF Original(p) = None THEN "noreplace" ELSE "exchange"])
          /\ UNCHANGED disk

CanRename(p, from, to) ==
  dir[from] # None /\ (dir[to] # None) = Exchanging(p)

(* The rename raised: the record counts as published if its file is gone   *)
(* from the temporary name but not from the directory.                     *)
Missed(p) ==
  LET here == Aliases(Candidate(p), {})
      moved == NameOf(p) \in here \/ (here # {} /\ Temporary(p) \notin here)
  IN Failed(p, [tx[p] EXCEPT !.published = IF moved THEN @ \cup {File(p)} ELSE @])

Rename(p) ==
  /\ At(p, "rename")
  /\ IF CanRename(p, Temporary(p), NameOf(p))
     THEN /\ Swap(Temporary(p), NameOf(p))
          /\ Go(p, [tx[p] EXCEPT !.published = @ \cup {File(p)}, !.pc = "verify"])
          /\ UNCHANGED <<kept, made, destroyed>>
     ELSE Go(p, Missed(p)) /\ UNCHANGED disk

(* What was exchanged must be what was expected.                           *)
Displaced(p) == IF Exchanging(p) THEN Original(p) ELSE None

(* Mutant: what was exchanged is not looked at.                            *)
VerifyName(p) ==
  /\ At(p, "verify")
  /\ IF dir[NameOf(p)] = Candidate(p)
     THEN Go(p, Following(tx[p])) /\ UNCHANGED disk
     ELSE Raise(p)

Verify(p) ==
  /\ At(p, "verify")
  /\ IF dir[NameOf(p)] = Candidate(p) /\ dir[Temporary(p)] = Displaced(p)
     THEN Go(p, Following(tx[p])) /\ UNCHANGED disk
     ELSE Raise(p)

----------------------------------------------------------------------------
(* Rolling back.                                                           *)

InPlace(p) ==
  File(p) \in tx[p].published /\ dir[NameOf(p)] = Candidate(p)

(* _rollback_record: back by the way it came, or _cleanup_displaced_record.*)
Undo(p) ==
  LET there == dir[Temporary(p)] # None
  IN /\ At(p, "undo")
     /\ UNCHANGED disk
     /\ \/ /\ InPlace(p) /\ there = Exchanging(p)
           /\ Go(p, [tx[p] EXCEPT !.pc = "back"])
        \/ /\ InPlace(p) /\ ~Exchanging(p) /\ there
           /\ Go(p, Failed(p, tx[p]))
        \/ /\ ~InPlace(p) \/ (Exchanging(p) /\ ~there)
           /\ Go(p, Retiring([tx[p] EXCEPT !.spare = Preserved(p, Original(p))],
                              Candidate(p), {}, "tidy"))

Back(p) ==
  /\ At(p, "back")
  /\ IF CanRename(p, NameOf(p), Temporary(p))
     THEN /\ Swap(NameOf(p), Temporary(p))
          /\ Go(p, [tx[p] EXCEPT !.pc = "undone"])
          /\ UNCHANGED <<kept, made, destroyed>>
     ELSE Raise(p)

Undone(p) ==
  /\ At(p, "undone")
  /\ IF dir[Temporary(p)] = Candidate(p)
     THEN /\ Go(p, [Retiring(tx[p], Candidate(p), {},
                              IF Exchanging(p) THEN "original" ELSE "next")
                     EXCEPT !.target = Temporary(p), !.pc = "take"])
          /\ UNCHANGED disk
     ELSE Raise(p)

RetireOriginal(p) ==
  /\ At(p, "original")
  /\ Go(p, Retiring(tx[p], Original(p), Preserved(p, Original(p)), "next"))
  /\ UNCHANGED disk

Tidy(p) ==
  /\ At(p, "tidy")
  /\ Go(p, Retiring([tx[p] EXCEPT !.spare = {}], Original(p), tx[p].spare, "owned"))
  /\ UNCHANGED disk

Owned(p) ==
  /\ At(p, "owned")
  /\ IF dir[Temporary(p)] \in {Candidate(p), Original(p), None}
     THEN Go(p, Following(tx[p])) /\ UNCHANGED disk
     ELSE Raise(p)

----------------------------------------------------------------------------
(* Finalizing, closing and retiring files to the recoveries directory.     *)

Finalize(p) ==
  LET t == tx[p]
  IN /\ At(p, "finalize")
     /\ UNCHANGED disk
     /\ Go(p, CASE ~Exchanging(p) -> Following(t)
                 [] Exchanging(p) /\ dir[Temporary(p)] = Original(p) ->
                      [Retiring(t, Original(p), {}, "next")
                       EXCEPT !.target = Temporary(p), !.pc = "seize"]
                 [] OTHER ->
                      [Retiring(t, Original(p), Preserved(p, Original(p)), "next")
                       EXCEPT !.bad = TRUE])

Seal(p) ==
  /\ At(p, "seal")
  /\ Go(p, Closing(tx[p]))
  /\ UNCHANGED disk

Close(p) ==
  /\ At(p, "close")
  /\ Go(p, Retiring(tx[p], Candidate(p), Preserved(p, Candidate(p)), "next"))
  /\ UNCHANGED disk

(* Mutant: go on until the file has no name left, preserved ones included. *)
RetireUntilGone(p) ==
  LET t == tx[p]
  IN /\ At(p, "retire")
     /\ UNCHANGED disk
     /\ \/ \E alias \in Aliases(t.goal, t.keep) :
             Go(p, [t EXCEPT !.target = alias, !.pc = "take"])
        \/ Aliases(t.goal, {}) = {} /\ Go(p, IF t.bad THEN Failed(p, t) ELSE Resume(t))

(* _retire_identity_aliases                                                *)
Retire(p) ==
  LET t == tx[p]
      aliases == Aliases(t.goal, t.keep)
  IN /\ At(p, "retire")
     /\ UNCHANGED disk
     /\ \/ \E alias \in aliases : Go(p, [t EXCEPT !.target = alias, !.pc = "take"])
        \/ aliases = {} /\ Go(p, IF t.bad THEN Failed(p, t) ELSE Resume(t))

(* _retire_name: what is under the name now goes, be it the file or not.   *)
Take(p) ==
  LET t == tx[p]
      there == dir[t.target]
  IN /\ t.pc \in {"seize", "take"} /\ p \in Procs
     /\ IF there = None THEN Raise(p)
        ELSE /\ dir' = [dir EXCEPT ![t.target] = None]
             /\ kept' = kept \cup {there}
             /\ Go(p, [t EXCEPT !.bad = @ \/ there # t.goal, !.pc = "retire"])
             /\ UNCHANGED <<made, destroyed>>

----------------------------------------------------------------------------
(* Faults, kills and other writers.                                        *)

Mishap == mishaps < plan.mishaps /\ mishaps' = mishaps + 1

(* Any step may raise instead: a full disk, a directory that changed.      *)
Fault(p) ==
  /\ p \in Active
  /\ Raise(p)
  /\ Mishap
  /\ UNCHANGED observed

Kill(p) ==
  /\ p \in Active
  /\ Go(p, [tx[p] EXCEPT !.pc = "killed"])
  /\ Mishap
  /\ UNCHANGED <<disk, observed>>

Visit(o, f) ==
  /\ o \in Others \ acted
  /\ acted' = acted \cup {o}
  /\ visited' = visited \cup {p \in Active : f \in Planned(p)}
  /\ Mishap
  /\ UNCHANGED <<kept, plan, tx, mixed>>

(* Another writer replaces the file at a name, whatever it is.             *)
Overwrite(o, f) ==
  /\ Visit(o, f)
  /\ dir' = [dir EXCEPT ![<<Public, f>>] = <<o, f>>]
  /\ made' = made \cup {<<o, f>>}
  /\ destroyed' = destroyed \cup ({dir[<<Public, f>>]} \ {None})

(* Another writer moves the file aside and leaves the name empty, or not.  *)
MoveAside(o, f, new) ==
  /\ Visit(o, f)
  /\ dir[<<Public, f>>] # None /\ dir[<<Aside, f>>] = None
  /\ dir' = [dir EXCEPT ![<<Aside, f>>] = dir[<<Public, f>>], ![<<Public, f>>] = new]
  /\ made' = made \cup ({new} \ {None})
  /\ UNCHANGED destroyed

Step(p) ==
  /\ \/ Prepare(p) \/ Check(p) \/ Rename(p) \/ Verify(p)
     \/ Undo(p) \/ Back(p) \/ Undone(p) \/ RetireOriginal(p) \/ Tidy(p) \/ Owned(p)
     \/ Finalize(p) \/ Seal(p) \/ Close(p) \/ Retire(p) \/ Take(p)
  /\ UNCHANGED <<observed, mishaps>>

Next ==
  \/ \E p \in Procs : Start(p) \/ Step(p) \/ Fault(p) \/ Kill(p)
  \/ \E o \in Others, f \in Files :
       Overwrite(o, f) \/ \E new \in {<<o, f>>, None} : MoveAside(o, f, new)

Spec == Init /\ [][Next]_vars
FairSpec == Spec /\ WF_vars(\E p \in Procs : Step(p))

----------------------------------------------------------------------------
(* Properties.                                                             *)

Ended(p) == tx[p].pc = "done"

(* No step of the tools destroys a file, whatever others do: each file that*)
(* another writer did not overwrite is under some name or in the           *)
(* recoveries directory.                                                   *)
NothingLost ==
  \A x \in made \ destroyed : x \in kept \/ \E n \in Name : dir[n] = x

(* When a transaction has failed and its cleaning up did not, none of its  *)
(* candidates is left under any name, even if others moved them.           *)
NoCandidateAfterFailure ==
  \A p \in Procs : Ended(p) /\ ~tx[p].passed /\ ~tx[p].hurt =>
    \A n \in Name : dir[n] \notin {p} \X Files

(* A file that another writer puts in place of one that a transaction by   *)
(* itself replaces, before it has noted the original or after, is in place *)
(* when the transaction has ended, well or badly, unless it is what was    *)
(* noted, or yet another writer has moved it aside. Only where the         *)
(* rollback of that very file raised, which the command then reports, may  *)
(* it be left under the transaction's temporary name.                      *)
Alone(p) == \A q \in Procs \ {p} : tx[q].pc = "idle"

ForeignFileStays ==
  \A p \in Procs, o \in acted, f \in Files :
    LET x == <<o, f>>
    IN Ended(p) /\ Alone(p) /\ x \in made \ destroyed /\ x # tx[p].orig[f]
         => \/ dir[<<Public, f>>] = x
            \/ dir[<<Aside, f>>] = x /\ acted # {o}
            \/ f \in tx[p].left /\ dir[<<p, f>>] = x

(* Not so when it is put there between a check of the rollback and its     *)
(* exchange: "test_preserves_post_publish_destination_substitution" (tests/ *)
(* legacy_parity/test_publish.py:130) expects that a file put in place of a *)
(* published one is read there when the publication has failed.            *)
SubstitutionPreserved ==
  \A p \in Procs, o \in acted, f \in Files :
    LET x == <<o, f>>
    IN Ended(p) /\ Alone(p) /\ x \in made \ destroyed /\ x # tx[p].orig[f]
         => dir[<<Public, f>>] = x

(* The transactions under way end, or are killed: no retirement loops and  *)
(* no two transactions undo each other for ever.                           *)
TransactionsEnd == Active # {} ~> Active = {}

(* "Any failure leaves all existing public outputs unchanged" (2026-08-07- *)
(* legacy-plugin-parity-validation-design.md:402): a transaction that met  *)
(* nobody and raised leaves every name as it found it.                     *)
FailureChangesNothing ==
  \A p \in Procs \ (mixed \cup visited) : Ended(p) /\ tx[p].err =>
    \A f \in Files : tx[p].orig[f] # None => dir[<<Public, f>>] = tx[p].orig[f]

(* The three public artifacts, and provenance with its snapshot, change    *)
(* together or not at all, whatever step raises before they all have; a    *)
(* rollback that raises for one of them still restores the others.         *)
Void(p) == p \in mixed \cup visited \/ (~tx[p].passed /\ tx[p].pc = "killed")

Status(p) ==
  CASE Void(p) -> "void"
    [] ~Void(p) /\ tx[p].passed -> "committed"
    [] ~Void(p) /\ ~tx[p].passed /\ Ended(p) -> "aborted"
    [] OTHER -> "open"

Noted(p) == {Work(p)[j] : j \in 1..tx[p].n}

View(p) ==
  [f \in Files |->
     CASE Status(p) \in {"void", "aborted"} \/ f \notin Planned(p) -> "old"
       [] Status(p) = "committed" /\ f \in Planned(p) -> "new"
       [] Status(p) = "open" /\ f \in Planned(p) /\ f \notin Noted(p) -> "old"
       [] OTHER -> IF dir[<<Public, f>>] = tx[p].orig[f] THEN "old"
                   ELSE IF dir[<<Public, f>>] = <<p, f>> THEN "new" ELSE "gone"]

Unrestored(p) == IF Status(p) = "open" THEN tx[p].left ELSE {}

Promise == INSTANCE Publication WITH
  Transactions <- Procs,
  status <- [p \in Procs |-> Status(p)],
  view <- [p \in Procs |-> View(p)],
  left <- [p \in Procs |-> Unrestored(p)]

ImplementsPublication == Promise!Spec
=============================================================================
