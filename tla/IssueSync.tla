------------------------------ MODULE IssueSync ------------------------------
(***************************************************************************)
(* tools/legacy_parity sync-issues: for each blocker of the staged audit,  *)
(* find its GitHub issue by its marker or create it, and record the link   *)
(* in the staged bundle (issues.py, _sync_issues of cli.py).               *)
(*                                                                         *)
(* GitHub is external: a search reads an index that follows the issues     *)
(* later, open and closed issues are searched by two commands, a command   *)
(* may fail after it took effect, and people close and reopen issues.      *)
(* Commands may overlap, be killed and be given again.                     *)
(***************************************************************************)
EXTENDS Integers, Sequences, FiniteSets

CONSTANTS
  Blockers,   \* the capability keys of the bundle, in its order
  Syncs,      \* processes that run sync-issues
  Audits,     \* the rest of a bundle
  Attempts,   \* how often a created issue is searched for
  MaxIssues, MaxStarts, MaxMishaps \* bounds

Keys == {Blockers[i] : i \in DOMAIN Blockers}

ASSUME SyncAssumption ==
  /\ Blockers \in Seq(Keys) /\ Blockers # <<>>
  /\ \A i, j \in DOMAIN Blockers : Blockers[i] = Blockers[j] => i = j
  /\ Audits # {}
  /\ Attempts \in Nat \ {0}
  /\ MaxIssues \in Nat /\ MaxStarts \in Nat /\ MaxMishaps \in Nat

VARIABLES
  bundle,    \* staged/audit-bundle.json
  issues,    \* GitHub's issues; a URL is an index, 0 is no URL
  sync,      \* where each process is
  quiet,     \* no overlap, no late index, no torn search so far
  meddled,   \* the processes whose bundle another one wrote
  undisputed, \* no issue was ever closed
  starts, mishaps

vars == <<bundle, issues, sync, quiet, meddled, undisputed, starts, mishaps>>
world == <<bundle, issues, quiet, meddled>>
counts == <<undisputed, starts, mishaps>>

Urls == 1..MaxIssues
Bundle == [audit : Audits, link : [Keys -> Urls \cup {0}]]
Issue == [key : Keys, open : BOOLEAN, index : {"absent", "open", "closed"}]

TypeOK ==
  /\ bundle \in Bundle
  /\ issues \in Seq(Issue) /\ Len(issues) <= MaxIssues
  /\ sync \in [Syncs ->
       [pc : {"idle", "validate", "open", "closed", "create", "link", "check",
              "ok", "failed", "killed"},
        at : DOMAIN Blockers, mine : Bundle, dry : BOOLEAN,
        found : SUBSET Urls, url : Urls \cup {0}, tries : 0..(Attempts - 1),
        faulted : BOOLEAN]]
  /\ quiet \in BOOLEAN /\ undisputed \in BOOLEAN /\ meddled \subseteq Syncs
  /\ starts \in 0..MaxStarts /\ mishaps \in 0..MaxMishaps

Active == {p \in Syncs : sync[p].pc \notin {"idle", "ok", "failed", "killed"}}

Unlinked == [k \in Keys |-> 0]

Init ==
  /\ \E audit \in Audits : bundle = [audit |-> audit, link |-> Unlinked]
  /\ issues = <<>>
  /\ sync = [p \in Syncs |->
       [pc |-> "idle", at |-> 1, mine |-> bundle, dry |-> FALSE, found |-> {}, url |-> 0,
        tries |-> 0, faulted |-> FALSE]]
  /\ quiet = TRUE /\ meddled = {} /\ undisputed = TRUE
  /\ starts = 0 /\ mishaps = 0

----------------------------------------------------------------------------
Key(p) == Blockers[sync[p].at]

(* _search: the issues with the marker that the index has in a state.      *)
Search(key, state) == {n \in DOMAIN issues : issues[n].key = key /\ issues[n].index = state}

Go(p, s) == sync' = [sync EXCEPT ![p] = s]
To(p, pc) == Go(p, [sync[p] EXCEPT !.pc = pc])

(* A process that has ended keeps its bundle and nothing else.             *)
Over(s, pc) == [s EXCEPT !.pc = pc, !.at = 1, !.found = {}, !.url = 0, !.tries = 0]

Linked(b) == {k \in Keys : b.link[k] # 0}
Repeats(b) == \E j, k \in Linked(b) : j # k /\ b.link[j] = b.link[k]

(* The command loads the bundle and takes the first blocker.               *)
Start(p, dry) ==
  /\ p \in Syncs \ Active /\ starts < MaxStarts
  /\ Go(p, [sync[p] EXCEPT !.pc = "validate", !.at = 1, !.mine = bundle, !.dry = dry,
                           !.found = {}, !.url = 0, !.tries = 0, !.faulted = FALSE])
  /\ starts' = starts + 1
  /\ quiet' = (quiet /\ Active = {})
  /\ meddled' = meddled \ {p}
  /\ UNCHANGED <<bundle, issues, undisputed, mishaps>>

(* The bundle is loaded again and must be the same.                        *)
Validate(p) ==
  /\ sync[p].pc = "validate"
  /\ IF bundle = sync[p].mine /\ ~Repeats(bundle)
     THEN To(p, "open") ELSE Go(p, Over(sync[p], "failed"))
  /\ UNCHANGED world

(* A search that begins while the index does not know an issue is late.    *)
SearchOpen(p) ==
  /\ sync[p].pc = "open"
  /\ Go(p, [sync[p] EXCEPT !.pc = "closed", !.found = Search(Key(p), "open")])
  /\ quiet' = (quiet /\ (sync[p].url = 0 =>
                           \A n \in DOMAIN issues : issues[n].key = Key(p) =>
                                                    issues[n].index # "absent"))
  /\ UNCHANGED <<bundle, issues, meddled>>

(* Mutant: closed issues are not searched for.                             *)
SearchClosedNot(p) ==
  LET s == sync[p]
  IN /\ s.pc = "closed" /\ s.url = 0
     /\ Go(p, IF Cardinality(s.found) > 1 THEN Over(s, "failed")
              ELSE IF s.found # {}
              THEN [s EXCEPT !.pc = "link", !.url = CHOOSE n \in s.found : TRUE]
              ELSE [s EXCEPT !.pc = IF s.dry THEN "check" ELSE "create"])
     /\ UNCHANGED world

SearchClosed(p) ==
  LET s == sync[p]
      closed == Search(Key(p), "closed")
  IN /\ s.pc = "closed" /\ s.url = 0
     /\ Go(p, IF closed # {} \/ Cardinality(s.found) > 1 THEN Over(s, "failed")
              ELSE IF s.found # {}
              THEN [s EXCEPT !.pc = "link", !.url = CHOOSE n \in s.found : TRUE]
              ELSE [s EXCEPT !.pc = IF s.dry THEN "check" ELSE "create"])
     /\ UNCHANGED world

Opened(key) == Append(issues, [key |-> key, open |-> TRUE, index |-> "absent"])

Create(p) ==
  /\ sync[p].pc = "create" /\ Len(issues) < MaxIssues
  /\ issues' = Opened(Key(p))
  /\ Go(p, [sync[p] EXCEPT !.pc = "open", !.url = Len(issues) + 1])
  /\ UNCHANGED <<bundle, quiet, meddled>>

(* Mutant: one search is enough.                                           *)
RecheckOnce(p) ==
  LET s == sync[p]
  IN /\ s.pc = "closed" /\ s.url # 0
     /\ IF s.found = {s.url} THEN To(p, "link") ELSE Go(p, Over(s, "failed"))
     /\ UNCHANGED world

(* Mutant: one search too many.                                            *)
RecheckTooOften(p) ==
  LET s == sync[p]
  IN /\ s.pc = "closed" /\ s.url # 0
     /\ Go(p, IF s.found = {} /\ s.tries < Attempts
              THEN [s EXCEPT !.pc = "open", !.tries = @ + 1]
              ELSE IF s.found = {s.url} THEN [s EXCEPT !.pc = "link"] ELSE Over(s, "failed"))
     /\ UNCHANGED world

(* Mutant: the searches are not counted.                                   *)
RecheckForever(p) ==
  LET s == sync[p]
      closed == Search(Key(p), "closed")
  IN /\ s.pc = "closed" /\ s.url # 0
     /\ Go(p, IF closed # {} \/ s.found \notin {{}, {s.url}} THEN Over(s, "failed")
              ELSE [s EXCEPT !.pc = IF s.found = {} THEN "open" ELSE "link"])
     /\ UNCHANGED world

(* The created issue, and only it, must come to be found.                  *)
Recheck(p) ==
  LET s == sync[p]
      closed == Search(Key(p), "closed")
      again == closed = {} /\ s.found = {}
      last == s.tries = Attempts - 1
  IN /\ s.pc = "closed" /\ s.url # 0
     /\ \/ again /\ ~last /\ Go(p, [s EXCEPT !.pc = "open", !.tries = @ + 1])
        \/ ~again /\ closed = {} /\ s.found = {s.url} /\ To(p, "link")
        \/ (~again \/ last) /\ (closed # {} \/ s.found # {s.url}) /\ Go(p, Over(s, "failed"))
     /\ quiet' = (quiet /\ ~(again /\ last))
     /\ UNCHANGED <<bundle, issues, meddled>>

(* Mutant: a link that is there already is kept.                           *)
LinkIfNone(p) ==
  LET s == sync[p]
      url == IF s.mine.link[Key(p)] # 0 THEN s.mine.link[Key(p)] ELSE s.url
      updated == [s.mine EXCEPT !.link[Key(p)] = url]
  IN /\ s.pc = "link"
     /\ bundle' = IF s.dry THEN bundle ELSE updated
     /\ Go(p, [s EXCEPT !.pc = "check", !.mine = bundle'])
     /\ meddled' = meddled \cup (Active \ {p})
     /\ UNCHANGED <<issues, quiet>>

(* The link is written into the bundle that was loaded, whatever is there. *)
Link(p) ==
  LET s == sync[p]
      updated == [s.mine EXCEPT !.link[Key(p)] = s.url]
      taken == \E k \in Keys \ {Key(p)} : s.mine.link[k] = s.url
  IN /\ s.pc = "link"
     /\ IF taken \/ s.dry
        THEN /\ Go(p, IF taken THEN Over(s, "failed") ELSE [s EXCEPT !.pc = "check"])
             /\ UNCHANGED <<bundle, meddled>>
        ELSE /\ bundle' = updated
             /\ Go(p, [s EXCEPT !.pc = "check", !.mine = updated])
             /\ meddled' = meddled \cup (Active \ {p})
     /\ UNCHANGED <<issues, quiet>>

(* The bundle is loaded again and must be what was written.                *)
Check(p) ==
  LET s == sync[p]
  IN /\ s.pc = "check"
     /\ \/ bundle # s.mine /\ Go(p, Over(s, "failed"))
        \/ bundle = s.mine /\ s.at = Len(Blockers) /\ Go(p, Over(s, "ok"))
        \/ /\ bundle = s.mine /\ s.at < Len(Blockers)
           /\ Go(p, [s EXCEPT !.pc = "validate", !.at = @ + 1, !.found = {}, !.url = 0,
                              !.tries = 0])
     /\ UNCHANGED world

Step(p) ==
  /\ \/ Validate(p) \/ SearchOpen(p) \/ SearchClosed(p) \/ Create(p)
     \/ Recheck(p) \/ Link(p) \/ Check(p)
  /\ UNCHANGED counts

----------------------------------------------------------------------------
(* What else happens.                                                      *)

Mishap == mishaps < MaxMishaps /\ mishaps' = mishaps + 1 /\ UNCHANGED starts

(* A command fails; one that creates an issue may have created it.         *)
Fault(p) ==
  /\ p \in Active
  /\ Go(p, [Over(sync[p], "failed") EXCEPT !.faulted = TRUE])
  /\ \/ UNCHANGED issues
     \/ /\ sync[p].pc = "create" /\ Len(issues) < MaxIssues
        /\ issues' = Opened(Key(p))
  /\ Mishap
  /\ UNCHANGED <<bundle, quiet, meddled, undisputed>>

Kill(p) ==
  p \in Active /\ Go(p, Over(sync[p], "killed")) /\ Mishap /\ UNCHANGED <<world, undisputed>>

(* stage-audit writes another bundle, with whatever links its author gives.*)
StageAudit(b) ==
  /\ b # bundle
  /\ bundle' = b
  /\ meddled' = meddled \cup Active
  /\ Mishap
  /\ UNCHANGED <<issues, sync, quiet, undisputed>>

CloseOrReopen(n) ==
  /\ issues' = [issues EXCEPT ![n].open = ~@]
  /\ undisputed' = FALSE
  /\ Mishap
  /\ UNCHANGED <<bundle, sync, quiet, meddled>>

(* The index catches up; between the two searches of a command, an issue   *)
(* that was closed may come to be open.                                    *)
Index(n) ==
  LET now == IF issues[n].open THEN "open" ELSE "closed"
  IN /\ issues[n].index # now
     /\ issues' = [issues EXCEPT ![n].index = now]
     /\ quiet' = (quiet /\ ~(issues[n].index = "closed"
                             /\ \E p \in Syncs : sync[p].pc = "closed"))
     /\ UNCHANGED <<bundle, sync, meddled, counts>>

Written == [audit : Audits, link : [Keys -> 0..Len(issues)]]

Next ==
  \/ \E p \in Syncs : \/ \E dry \in BOOLEAN : Start(p, dry)
                      \/ Step(p) \/ Fault(p) \/ Kill(p)
  \/ \E b \in Written : StageAudit(b)
  \/ \E n \in DOMAIN issues : CloseOrReopen(n) \/ Index(n)

Spec == Init /\ [][Next]_vars
FairSpec == Spec /\ WF_vars(\E p \in Syncs : Step(p))

----------------------------------------------------------------------------
(* Properties.                                                             *)

Of(key) == {n \in DOMAIN issues : issues[n].key = key}

(* The design document: one issue per capability. issues.py cannot keep it *)
(* when the index lags behind.                                             *)
OneIssuePerCapability == \A k \in Keys : Cardinality(Of(k)) <= 1

(* It keeps it, through kills, failed commands, closed issues and bundles  *)
(* staged again, as long as commands do not overlap, a search begins when  *)
(* the index knows every issue, and no reopening falls between the two     *)
(* searches.                                                               *)
OneIssueWhenQuiet == quiet => OneIssuePerCapability

(* A command that ends well has linked each blocker to an issue of its own *)
(* whatever links the bundle came with, and lost none on the way.          *)
SuccessLinksOwnIssues ==
  \A p \in Syncs : sync[p].pc = "ok" /\ ~sync[p].dry =>
    \A k \in Keys : sync[p].mine.link[k] \in Of(k)

(* A command does not fail without cause: it reuses what an interrupted one*)
(* left behind.                                                            *)
FailsForCause ==
  \A p \in Syncs : sync[p].pc = "failed" =>
    \/ sync[p].faulted \/ p \in meddled \/ ~quiet \/ ~undisputed
    \/ \E k \in Keys : sync[p].mine.link[k] \notin Of(k) \cup {0}

(* A command ends, however late the index is (short of the model's bound   *)
(* on issues).                                                             *)
Stuck(p) == sync[p].pc = "create" /\ Len(issues) = MaxIssues

SyncsEnd == Active # {} ~> \A p \in Active : Stuck(p)
=============================================================================
