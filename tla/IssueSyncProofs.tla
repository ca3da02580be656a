---------------------------- MODULE IssueSyncProofs ----------------------------
(***************************************************************************)
(* Proofs about IssueSync, for any blockers, processes and audits, any     *)
(* number of searches, issues, starts and mishaps.                         *)
(***************************************************************************)
EXTENDS IssueSync, FiniteSetTheorems, TLAPS

Stopped == {"idle", "ok", "failed", "killed"}

Record ==
  [pc : {"idle", "validate", "open", "closed", "create", "link", "check",
         "ok", "failed", "killed"},
   at : DOMAIN Blockers, mine : Bundle, dry : BOOLEAN,
   found : SUBSET Urls, url : Urls \cup {0}, tries : 0..(Attempts - 1),
   faulted : BOOLEAN]

(* The issues of a capability, and that no capability has two.             *)
OfIn(is, key) == {n \in DOMAIN is : is[n].key = key}
Single(is) == \A m, n \in DOMAIN is : is[m].key = is[n].key => m = n

(* What a process has found or created is its blocker's; and the blockers  *)
(* it is done with are linked to issues of their own.                      *)
Rightful(s, is) ==
  /\ s.pc = "closed" => s.found \subseteq OfIn(is, Blockers[s.at])
  /\ s.pc \in {"validate", "open", "closed"} /\ s.url # 0 => s.url \in OfIn(is, Blockers[s.at])
  /\ s.pc = "link" => s.url \in OfIn(is, Blockers[s.at])
  /\ ~s.dry /\ s.pc \notin Stopped =>
       \A i \in DOMAIN Blockers : i < s.at => s.mine.link[Blockers[i]] \in OfIn(is, Blockers[i])
  /\ ~s.dry /\ s.pc = "check" => s.mine.link[Blockers[s.at]] \in OfIn(is, Blockers[s.at])
  /\ ~s.dry /\ s.pc = "ok" => \A k \in Keys : s.mine.link[k] \in OfIn(is, k)

(* Between its two searches a process knows every issue of its blocker that*)
(* is not closed in the index, and it creates one only when there is none. *)
Sought(s, is) ==
  /\ s.pc = "closed" /\ s.url = 0 =>
       \A n \in OfIn(is, Blockers[s.at]) :
         is[n].index # "absent" /\ (is[n].index = "open" => n \in s.found)
  /\ s.pc = "create" => OfIn(is, Blockers[s.at]) = {}

Cause(p, s, is, calm, met, clean) ==
  s.faulted \/ p \in met \/ ~calm \/ ~clean \/ \E k \in Keys : s.mine.link[k] \notin OfIn(is, k) \cup {0}

(* A process beside the issues, the bundle and what has happened.          *)
Fit(p, s, is, b, calm, met, clean) ==
  /\ s \in Record
  /\ Rightful(s, is)
  /\ \A k \in Keys : s.mine.link[k] <= Len(is)
  /\ calm => Sought(s, is)
  /\ s.pc \notin Stopped /\ p \notin met => b = s.mine
  /\ s.pc = "failed" => Cause(p, s, is, calm, met, clean)

SyncsFit ==
  /\ sync \in [Syncs -> Record]
  /\ \A p \in Syncs : Fit(p, sync[p], issues, bundle, quiet, meddled, undisputed)

Stored ==
  /\ bundle \in Bundle
  /\ issues \in Seq(Issue) /\ Len(issues) <= MaxIssues
  /\ \A k \in Keys : bundle.link[k] <= Len(issues)

History ==
  /\ quiet \in BOOLEAN /\ undisputed \in BOOLEAN /\ meddled \subseteq Syncs
  /\ starts \in 0..MaxStarts /\ mishaps \in 0..MaxMishaps

(* While nothing overlaps, one process at a time is active.                *)
Calm ==
  /\ quiet => Single(issues) /\ \A p, q \in Active : p = q
  /\ undisputed => \A n \in DOMAIN issues : issues[n].open /\ issues[n].index # "closed"

(* The inductive invariant.                                                *)
Inv == SyncsFit /\ Stored /\ History /\ Calm

----------------------------------------------------------------------------
LEMMA BlockerFacts ==
  /\ DOMAIN Blockers = 1..Len(Blockers) /\ Len(Blockers) \in Nat \ {0}
  /\ \A i \in DOMAIN Blockers : Blockers[i] \in Keys
  /\ \A i, j \in DOMAIN Blockers : Blockers[i] = Blockers[j] => i = j
  /\ 1 \in DOMAIN Blockers
<1>1. DOMAIN Blockers = 1..Len(Blockers) /\ Len(Blockers) \in Nat /\ Blockers # <<>>
  BY SyncAssumption
<1>2. Len(Blockers) # 0
  BY SyncAssumption
<1>3. /\ \A i \in DOMAIN Blockers : Blockers[i] \in Keys
      /\ \A i, j \in DOMAIN Blockers : Blockers[i] = Blockers[j] => i = j
  BY SyncAssumption DEF Keys
<1>. QED  BY <1>1, <1>2, <1>3

(* Issues keep their capability, and none goes away.                       *)
Grows(is, then) ==
  /\ Len(is) <= Len(then)
  /\ \A n \in DOMAIN is : n \in DOMAIN then /\ then[n].key = is[n].key

LEMMA GrowsKeeps ==
  ASSUME NEW is \in Seq(Issue), NEW then \in Seq(Issue), Grows(is, then), NEW k
  PROVE  /\ OfIn(is, k) \subseteq OfIn(then, k)
         /\ \A n \in 1..Len(is) : n \in OfIn(then, k) => n \in OfIn(is, k)
<1>1. DOMAIN is = 1..Len(is)
  OBVIOUS
<1>. QED  BY <1>1 DEF Grows, OfIn

LEMMA OpenedFacts ==
  ASSUME issues \in Seq(Issue), NEW key \in Keys
  PROVE  /\ Opened(key) \in Seq(Issue) /\ Len(Opened(key)) = Len(issues) + 1
         /\ DOMAIN Opened(key) = 1..(Len(issues) + 1)
         /\ \A n \in DOMAIN issues : Opened(key)[n] = issues[n]
         /\ Opened(key)[Len(issues) + 1] = [key |-> key, open |-> TRUE, index |-> "absent"]
         /\ Grows(issues, Opened(key))
<1>. DEFINE e == [key |-> key, open |-> TRUE, index |-> "absent"]
<1>1. e \in Issue
  BY DEF Issue
<1>2. Opened(key) = Append(issues, e)
  BY DEF Opened
<1>. HIDE DEF e
<1>3. /\ Opened(key) \in Seq(Issue) /\ Len(Opened(key)) = Len(issues) + 1
      /\ \A n \in 1..Len(issues) : Opened(key)[n] = issues[n]
      /\ Opened(key)[Len(issues) + 1] = e
  BY <1>1, <1>2
<1>4. DOMAIN issues = 1..Len(issues) /\ Len(issues) \in Nat
      /\ DOMAIN Opened(key) = 1..(Len(issues) + 1)
  BY <1>3
<1>5. Grows(issues, Opened(key))
  BY <1>3, <1>4 DEF Grows
<1>. QED  BY <1>3, <1>4, <1>5 DEF e

(* A process that does nothing stays fit, when nothing is taken back.      *)
LEMMA FitStays ==
  ASSUME NEW p, NEW s, NEW is \in Seq(Issue), NEW b, NEW calm, NEW met, NEW clean,
         Fit(p, s, is, b, calm, met, clean),
         NEW is2 \in Seq(Issue), NEW b2, NEW calm2, NEW met2, NEW clean2,
         Grows(is, is2), calm2 => calm, clean2 => clean, p \in met => p \in met2,
         s.pc \notin Stopped /\ p \notin met2 => b2 = b,
         calm2 => Sought(s, is2)
  PROVE  Fit(p, s, is2, b2, calm2, met2, clean2)
<1>1. s \in Record /\ \A k \in Keys : s.mine.link[k] \in Nat
  BY DEF Fit, Record, Bundle, Urls
<1>2. Rightful(s, is2)
  BY GrowsKeeps DEF Fit, Rightful
<1>3. \A k \in Keys : s.mine.link[k] <= Len(is2)
  BY <1>1 DEF Fit, Grows
<1>4. s.pc = "failed" => Cause(p, s, is2, calm2, met2, clean2)
  <2>1. ASSUME NEW k \in Keys, s.mine.link[k] \notin OfIn(is, k) \cup {0}
        PROVE  s.mine.link[k] \notin OfIn(is2, k) \cup {0}
    <3>1. s.mine.link[k] \in 1..Len(is)
      BY <1>1, <2>1 DEF Fit
    <3>. QED  BY <2>1, <3>1, GrowsKeeps
  <2>. QED  BY <2>1 DEF Fit, Cause
<1>. QED  BY <1>1, <1>2, <1>3, <1>4 DEF Fit

LEMMA GrowsNot == ASSUME issues \in Seq(Issue) PROVE Grows(issues, issues)
BY DEF Grows

(* One process moves, and the others stay fit.                             *)
LEMMA OneFits ==
  ASSUME Inv, NEW p \in Syncs, NEW d, Go(p, d),
         Fit(p, d, issues', bundle', quiet', meddled', undisputed'),
         issues' \in Seq(Issue), Grows(issues, issues'),
         quiet' => quiet, undisputed' => undisputed, meddled \subseteq meddled' \cup {p},
         \A q \in Active \ {p} : q \notin meddled' => bundle' = bundle,
         quiet' => issues' = issues \/ Active \subseteq {p}
  PROVE  SyncsFit'
<1>1. d \in Record
  BY DEF Fit
<1>2. sync' \in [Syncs -> Record]
  BY <1>1 DEF Go, Inv, SyncsFit
<1>3. ASSUME NEW q \in Syncs
      PROVE  Fit(q, sync'[q], issues', bundle', quiet', meddled', undisputed')
  <2>1. CASE q = p
    BY <2>1 DEF Go, Inv, SyncsFit
  <2>2. CASE q # p
    <3>1. sync'[q] = sync[q]
      BY <2>2 DEF Go, Inv, SyncsFit
    <3>2. Fit(q, sync[q], issues, bundle, quiet, meddled, undisputed)
      BY DEF Inv, SyncsFit
    <3>3. sync[q].pc \notin Stopped => q \in Active \ {p}
      BY <2>2 DEF Active, Stopped
    <3>4. quiet' => Sought(sync[q], issues')
      <4>1. CASE sync[q].pc \in Stopped
        BY <4>1 DEF Sought, Stopped
      <4>2. CASE sync[q].pc \notin Stopped
        BY <3>2, <3>3, <4>2 DEF Fit
      <4>. QED  BY <4>1, <4>2
    <3>5. issues \in Seq(Issue)
      BY DEF Inv, Stored
    <3>6. q \in meddled => q \in meddled'
      BY <2>2
    <3>7. sync[q].pc \notin Stopped /\ q \notin meddled' => bundle' = bundle
      BY <3>3
    <3>8. Fit(q, sync[q], issues', bundle', quiet', meddled', undisputed')
      BY <3>2, <3>4, <3>5, <3>6, <3>7, FitStays
    <3>. QED  BY <3>1, <3>8
  <2>. QED  BY <2>1, <2>2
<1>. QED  BY <1>2, <1>3 DEF SyncsFit

(* What is known of a process that is active.                              *)
LEMMA Working ==
  ASSUME Inv, NEW p \in Syncs, sync[p].pc \notin Stopped
  PROVE  /\ p \in Active /\ sync[p] \in Record /\ sync[p].at \in DOMAIN Blockers
         /\ Key(p) = Blockers[sync[p].at] /\ Key(p) \in Keys
         /\ issues \in Seq(Issue) /\ DOMAIN issues = 1..Len(issues) /\ Len(issues) \in Nat
         /\ Len(issues) <= MaxIssues /\ MaxIssues \in Nat
         /\ Fit(p, sync[p], issues, bundle, quiet, meddled, undisputed)
         /\ Rightful(sync[p], issues)
         /\ \A k \in Keys : sync[p].mine.link[k] <= Len(issues)
         /\ quiet => Active \subseteq {p}
         /\ Grows(issues, issues)
<1>1. sync[p] \in Record /\ Fit(p, sync[p], issues, bundle, quiet, meddled, undisputed)
  BY DEF Inv, SyncsFit
<1>2. p \in Active
  BY DEF Active, Stopped
<1>3. issues \in Seq(Issue) /\ DOMAIN issues = 1..Len(issues) /\ Len(issues) \in Nat
      /\ Len(issues) <= MaxIssues /\ MaxIssues \in Nat
  BY SyncAssumption DEF Inv, Stored
<1>4. sync[p].at \in DOMAIN Blockers
  BY <1>1 DEF Record
<1>5. quiet => Active \subseteq {p}
  BY <1>2 DEF Inv, Calm
<1>. QED  BY <1>1, <1>2, <1>3, <1>4, <1>5, BlockerFacts, GrowsNot DEF Key, Fit

(* The record of a process at work, alone.                                 *)
LEMMA InRecord ==
  ASSUME Inv, NEW p \in Syncs, sync[p].pc \notin Stopped PROVE sync[p] \in Record
BY Working

(* A record that goes on to its next call with a number found or none.     *)
LEMMA NextCall ==
  ASSUME NEW s \in Record, NEW pc \in {"open", "closed", "create", "link", "check"},
         NEW url \in Urls \cup {0}
  PROVE  [s EXCEPT !.pc = pc, !.url = url] \in Record
BY DEF Record

LEMMA OverIsRecord ==
  ASSUME NEW s \in Record, NEW pc \in Stopped
  PROVE  /\ Over(s, pc) \in Record /\ Over(s, pc).pc = pc /\ Over(s, pc).mine = s.mine
         /\ Over(s, pc).dry = s.dry /\ Over(s, pc).faulted = s.faulted
<1>1. 1 \in DOMAIN Blockers /\ 0 \in 0..(Attempts - 1)
  BY BlockerFacts, SyncAssumption
<1>. QED  BY <1>1 DEF Over, Record, Stopped

(* Ending, or being killed.                                                *)
LEMMA OverFit ==
  ASSUME NEW p, NEW s \in Record, NEW is \in Seq(Issue), NEW pc \in {"failed", "killed"},
         NEW b, NEW calm, NEW met, NEW clean,
         \A k \in Keys : s.mine.link[k] <= Len(is),
         pc = "failed" => Cause(p, s, is, calm, met, clean)
  PROVE  Fit(p, Over(s, pc), is, b, calm, met, clean)
<1>. DEFINE d == Over(s, pc)
<1>1. /\ d \in Record /\ d.pc = pc /\ d.mine = s.mine /\ d.faulted = s.faulted
  BY OverIsRecord DEF Stopped
<1>. HIDE DEF d
<1>2. Fit(p, d, is, b, calm, met, clean)
  BY <1>1 DEF Fit, Rightful, Sought, Cause, Stopped
<1>. QED  BY <1>2 DEF d

(* At most one issue of a capability is found.                             *)
LEMMA SingleFound ==
  ASSUME NEW is, Single(is), NEW k, NEW found \in SUBSET OfIn(is, k)
  PROVE  Cardinality(found) <= 1 /\ \A m, n \in found : m = n
<1>1. \A m, n \in found : m = n
  BY DEF Single, OfIn
<1>2. CASE found = {}
  BY <1>1, <1>2, FS_EmptySet
<1>3. CASE found # {}
  <2>1. PICK m : m \in found
    BY <1>3
  <2>2. found = {m}
    BY <1>1, <2>1
  <2>. QED  BY <1>1, <2>2, FS_Singleton
<1>. QED  BY <1>2, <1>3

----------------------------------------------------------------------------
(* A failure of the command itself: the process is over, for a cause.      *)
LEMMA FailsFit ==
  ASSUME Inv, NEW p \in Syncs, sync[p].pc \notin Stopped, Go(p, Over(sync[p], "failed")),
         UNCHANGED <<bundle, issues, meddled, undisputed>>, quiet' => quiet,
         Cause(p, sync[p], issues, quiet', meddled, undisputed)
  PROVE  SyncsFit'
<1>1. Fit(p, Over(sync[p], "failed"), issues, bundle, quiet', meddled, undisputed)
  BY Working, OverFit
<1>. QED  BY <1>1, Working, OneFits


LEMMA ValidateFits ==
  ASSUME Inv, NEW p \in Syncs, Validate(p), UNCHANGED counts PROVE SyncsFit'
<1>. DEFINE s == sync[p]
            d == [s EXCEPT !.pc = "open"]
<1>0. /\ s.pc = "validate" /\ s.pc \notin Stopped
      /\ UNCHANGED <<bundle, issues, quiet, meddled, undisputed>>
  BY DEF Validate, Stopped, world, counts
<1>1. CASE bundle = s.mine /\ ~Repeats(bundle)
  <2>1. Go(p, d)
    BY <1>1 DEF Validate, To
  <2>2. /\ d \in Record /\ d.pc = "open" /\ d.at = s.at /\ d.mine = s.mine /\ d.dry = s.dry
        /\ d.url = s.url
    BY <1>0, InRecord DEF Record
  <2>. HIDE DEF d
  <2>3. Fit(p, d, issues, bundle, quiet, meddled, undisputed)
    BY <1>0, <2>2, Working DEF Fit, Rightful, Sought, Stopped
  <2>. QED  BY <1>0, <2>1, <2>3, Working, OneFits
<1>2. CASE ~(bundle = s.mine /\ ~Repeats(bundle))
  <2>1. Go(p, Over(s, "failed"))
    BY <1>2 DEF Validate
  <2>2. CASE bundle # s.mine
    <3>1. p \in meddled
      BY <1>0, <2>2, Working DEF Fit
    <3>. QED  BY <1>0, <2>1, <3>1, FailsFit DEF Cause
  <2>3. CASE bundle = s.mine
    <3>1. PICK j \in Keys, k \in Keys : j # k /\ s.mine.link[j] # 0
                                        /\ s.mine.link[j] = s.mine.link[k]
      BY <1>2, <2>3 DEF Repeats, Linked
    <3>2. s.mine.link[j] \notin OfIn(issues, j) \/ s.mine.link[k] \notin OfIn(issues, k)
      BY <3>1 DEF OfIn
    <3>3. Cause(p, s, issues, quiet, meddled, undisputed)
      BY <3>1, <3>2 DEF Cause
    <3>. QED  BY <1>0, <2>1, <3>3, FailsFit
  <2>. QED  BY <2>2, <2>3
<1>. QED  BY <1>1, <1>2

LEMMA SearchOpenFits ==
  ASSUME Inv, NEW p \in Syncs, SearchOpen(p), UNCHANGED counts PROVE SyncsFit'
<1>. DEFINE s == sync[p]
            found == Search(Key(p), "open")
            d == [s EXCEPT !.pc = "closed", !.found = found]
<1>0. /\ s.pc = "open" /\ s.pc \notin Stopped /\ Go(p, d)
      /\ UNCHANGED <<bundle, issues, meddled, undisputed>>
  BY DEF SearchOpen, Stopped, counts
<1>1. found \subseteq OfIn(issues, Blockers[s.at]) /\ found \subseteq Urls
  BY <1>0, Working DEF Search, OfIn, Urls
<1>2. /\ d \in Record /\ d.pc = "closed" /\ d.at = s.at /\ d.mine = s.mine /\ d.dry = s.dry
      /\ d.url = s.url /\ d.found = found
  BY <1>0, <1>1, InRecord DEF Record
<1>3. quiet' => quiet
  BY DEF SearchOpen
<1>4. quiet' => Sought(d, issues)
  <2>1. ASSUME quiet', s.url = 0, NEW n \in OfIn(issues, Blockers[s.at])
        PROVE  issues[n].index # "absent" /\ (issues[n].index = "open" => n \in found)
    BY <1>0, <2>1, Working DEF SearchOpen, Search, OfIn
  <2>. HIDE DEF d, found
  <2>. QED  BY <1>2, <2>1 DEF Sought
<1>. HIDE DEF d, found
<1>5. Fit(p, d, issues, bundle, quiet', meddled, undisputed)
  BY <1>0, <1>1, <1>2, <1>4, Working DEF Fit, Rightful, Stopped
<1>. QED  BY <1>0, <1>3, <1>5, Working, OneFits

LEMMA SearchClosedFits ==
  ASSUME Inv, NEW p \in Syncs, SearchClosed(p), UNCHANGED counts PROVE SyncsFit'
<1>. DEFINE s == sync[p]
            closed == Search(Key(p), "closed")
            url == CHOOSE n \in s.found : TRUE
            l == [s EXCEPT !.pc = "link", !.url = url]
            to(pc) == [s EXCEPT !.pc = pc]
<1>0. /\ s.pc = "closed" /\ s.pc \notin Stopped /\ s.url = 0
      /\ UNCHANGED <<bundle, issues, quiet, meddled, undisputed>>
      /\ s.found \subseteq OfIn(issues, Blockers[s.at]) /\ s.found \subseteq Urls
  <2>1. s.pc = "closed" /\ s.pc \notin Stopped
    BY DEF SearchClosed, Stopped
  <2>. QED  BY <2>1, Working DEF SearchClosed, world, counts, Rightful, Record
<1>1. CASE (closed # {} \/ Cardinality(s.found) > 1) /\ Go(p, Over(s, "failed"))
  <2>1. closed # {} => ~undisputed
    BY DEF Search, Inv, Calm
  <2>2. Cardinality(s.found) > 1 => ~quiet
    <3>1. quiet => Single(issues)
      BY DEF Inv, Calm
    <3>2. quiet => Cardinality(s.found) <= 1
      BY <1>0, <3>1, SingleFound
    <3>3. SUFFICES ASSUME quiet PROVE ~(Cardinality(s.found) > 1)
      OBVIOUS
    <3>4. IsFiniteSet(s.found)
      <4>1. IsFiniteSet(Urls)
        BY FS_Interval, SyncAssumption DEF Urls
      <4>. QED  BY <1>0, <4>1, FS_Subset
    <3>5. Cardinality(s.found) \in Nat
      BY <3>4, FS_CardinalityType
    <3>. QED  BY <3>2, <3>3, <3>5
  <2>. QED  BY <1>0, <1>1, <2>1, <2>2, FailsFit DEF Cause
<1>2. CASE s.found # {} /\ Go(p, l)
  <2>1. url \in s.found
    BY <1>2
  <2>. HIDE DEF url
  <2>2. /\ l \in Record /\ l.pc = "link" /\ l.at = s.at /\ l.mine = s.mine /\ l.dry = s.dry
        /\ l.url = url
    <3>1. s \in Record /\ s.found \subseteq Urls
      BY <1>0, InRecord DEF Record
    <3>2. url \in Urls \cup {0}
      BY <2>1, <3>1
    <3>3. l \in Record
      BY <3>1, <3>2, NextCall
    <3>. QED  BY <3>1, <3>3 DEF Record
  <2>. HIDE DEF l
  <2>3. Fit(p, l, issues, bundle, quiet, meddled, undisputed)
    BY <1>0, <2>1, <2>2, Working DEF Fit, Rightful, Sought, Stopped
  <2>. QED  BY <1>0, <1>2, <2>3, Working, OneFits
<1>3. ASSUME closed = {}, s.found = {}, NEW pc \in {"check", "create"},
             pc = "check" => s.dry, Go(p, to(pc))
      PROVE  SyncsFit'
  <2>. DEFINE d == to(pc)
  <2>1. /\ d \in Record /\ d.pc = pc /\ d.at = s.at /\ d.mine = s.mine /\ d.dry = s.dry
        /\ d.url = s.url
    BY <1>0, InRecord DEF Record
  <2>2. quiet => OfIn(issues, Blockers[s.at]) = {}
    <3>1. ASSUME quiet, NEW n \in OfIn(issues, Blockers[s.at]) PROVE FALSE
      <4>1. issues[n].index # "absent" /\ issues[n].index # "open"
        BY <1>0, <1>3, <3>1, Working DEF Fit, Sought
      <4>2. issues[n] \in Issue
        BY <1>0, Working DEF OfIn
      <4>3. issues[n].index = "closed"
        BY <4>1, <4>2 DEF Issue
      <4>. QED  BY <1>0, <1>3, <4>3, Working DEF Search, OfIn
    <3>. QED  BY <3>1
  <2>3. Go(p, d)
    BY <1>3
  <2>. HIDE DEF d
  <2>4. Fit(p, d, issues, bundle, quiet, meddled, undisputed)
    BY <1>0, <1>3, <2>1, <2>2, Working DEF Fit, Rightful, Sought, Stopped
  <2>. QED  BY <1>0, <2>3, <2>4, Working, OneFits
<1>4. CASE closed = {} /\ s.found = {} /\ Go(p, [s EXCEPT !.pc = IF s.dry THEN "check" ELSE "create"])
  <2>1. CASE s.dry
    BY <1>3, <1>4, <2>1
  <2>2. CASE ~s.dry
    BY <1>3, <1>4, <2>2
  <2>. QED  BY <2>1, <2>2
<1>. QED  BY <1>1, <1>2, <1>4 DEF SearchClosed

LEMMA RecheckFits ==
  ASSUME Inv, NEW p \in Syncs, Recheck(p), UNCHANGED counts PROVE SyncsFit'
<1>. DEFINE s == sync[p]
            closed == Search(Key(p), "closed")
            again == closed = {} /\ s.found = {}
            last == s.tries = Attempts - 1
            a == [s EXCEPT !.pc = "open", !.tries = @ + 1]
            l == [s EXCEPT !.pc = "link"]
<1>0. /\ s.pc = "closed" /\ s.pc \notin Stopped /\ s.url # 0
      /\ UNCHANGED <<bundle, issues, meddled, undisputed>> /\ (quiet' => quiet)
      /\ s.found \subseteq OfIn(issues, Blockers[s.at]) /\ s.url \in OfIn(issues, Blockers[s.at])
  <2>1. s.pc = "closed" /\ s.pc \notin Stopped
    BY DEF Recheck, Stopped
  <2>. QED  BY <2>1, Working DEF Recheck, counts, Rightful
<1>1. CASE again /\ ~last /\ Go(p, a)
  <2>1. s.tries + 1 \in 0..(Attempts - 1)
    BY <1>0, <1>1, InRecord, SyncAssumption DEF Record
  <2>2. /\ a \in Record /\ a.pc = "open" /\ a.at = s.at /\ a.mine = s.mine /\ a.dry = s.dry
        /\ a.url = s.url
    BY <1>0, <2>1, InRecord DEF Record
  <2>. HIDE DEF a
  <2>3. Fit(p, a, issues, bundle, quiet', meddled, undisputed)
    BY <1>0, <2>2, Working DEF Fit, Rightful, Sought, Stopped
  <2>. QED  BY <1>0, <1>1, <2>3, Working, OneFits
<1>2. CASE Go(p, l)
  <2>2. /\ l \in Record /\ l.pc = "link" /\ l.at = s.at /\ l.mine = s.mine /\ l.dry = s.dry
        /\ l.url = s.url
    BY <1>0, InRecord DEF Record
  <2>. HIDE DEF l
  <2>3. Fit(p, l, issues, bundle, quiet', meddled, undisputed)
    BY <1>0, <2>2, Working DEF Fit, Rightful, Sought, Stopped
  <2>. QED  BY <1>0, <1>2, <2>3, Working, OneFits
<1>3. CASE /\ (~again \/ last) /\ (closed # {} \/ s.found # {s.url})
           /\ Go(p, Over(s, "failed"))
  <2>1. closed # {} => ~undisputed
    BY DEF Search, Inv, Calm
  <2>2. closed = {} => ~quiet'
    <3>1. CASE s.found = {}
      BY <1>3, <3>1 DEF Recheck
    <3>2. CASE s.found # {}
      <4>1. ASSUME quiet PROVE s.found = {s.url}
        <5>1. Single(issues)
          BY <4>1 DEF Inv, Calm
        <5>. QED  BY <1>0, <3>2, <5>1 DEF Single, OfIn
      <4>. QED  BY <1>0, <1>3, <4>1
    <3>. QED  BY <3>1, <3>2
  <2>. QED  BY <1>0, <1>3, <2>1, <2>2, FailsFit DEF Cause
<1>. QED  BY <1>1, <1>2, <1>3 DEF Recheck, To

LEMMA CreateFits ==
  ASSUME Inv, NEW p \in Syncs, Create(p), UNCHANGED counts PROVE SyncsFit'
<1>. DEFINE s == sync[p]
            d == [s EXCEPT !.pc = "open", !.url = Len(issues) + 1]
<1>0. /\ s.pc = "create" /\ s.pc \notin Stopped /\ Go(p, d) /\ Len(issues) < MaxIssues
      /\ issues' = Opened(Key(p)) /\ UNCHANGED <<bundle, quiet, meddled, undisputed>>
  BY DEF Create, Stopped, counts
<1>1. /\ issues' \in Seq(Issue) /\ Len(issues') = Len(issues) + 1
      /\ DOMAIN issues' = 1..(Len(issues) + 1) /\ Grows(issues, issues')
      /\ issues'[Len(issues) + 1].key = Blockers[s.at]
  <2>1. Key(p) \in Keys /\ issues \in Seq(Issue) /\ Key(p) = Blockers[s.at]
    BY <1>0, Working
  <2>2. /\ Opened(Key(p)) \in Seq(Issue) /\ Len(Opened(Key(p))) = Len(issues) + 1
        /\ DOMAIN Opened(Key(p)) = 1..(Len(issues) + 1) /\ Grows(issues, Opened(Key(p)))
        /\ Opened(Key(p))[Len(issues) + 1] = [key |-> Key(p), open |-> TRUE, index |-> "absent"]
    BY <2>1, OpenedFacts
  <2>. QED  BY <1>0, <2>1, <2>2
<1>2. Len(issues) + 1 \in Urls /\ Len(issues) + 1 \in OfIn(issues', Blockers[s.at])
  BY <1>0, <1>1, Working DEF Urls, OfIn
<1>3. /\ d \in Record /\ d.pc = "open" /\ d.at = s.at /\ d.mine = s.mine /\ d.dry = s.dry
      /\ d.url = Len(issues) + 1
  BY <1>0, <1>2, InRecord DEF Record
<1>. HIDE DEF d
<1>4. \A k \in Keys : OfIn(issues, k) \subseteq OfIn(issues', k)
  BY <1>0, <1>1, Working, GrowsKeeps
<1>5. \A k \in Keys : s.mine.link[k] <= Len(issues')
  <2>1. \A k \in Keys : s.mine.link[k] <= Len(issues) /\ s.mine.link[k] \in Nat
    BY <1>0, Working, InRecord DEF Record, Bundle, Urls
  <2>2. Len(issues') = Len(issues) + 1 /\ Len(issues) \in Nat
    BY <1>0, <1>1, Working
  <2>. HIDE DEF s
  <2>. QED  BY <2>1, <2>2
<1>6. Rightful(d, issues')
  BY <1>0, <1>2, <1>3, <1>4, Working, BlockerFacts DEF Rightful, Stopped
<1>7. Fit(p, d, issues', bundle, quiet, meddled, undisputed)
  BY <1>0, <1>3, <1>5, <1>6, Working DEF Fit, Sought, Stopped
<1>. QED  BY <1>0, <1>1, <1>7, Working, OneFits

LEMMA LinkFits ==
  ASSUME Inv, NEW p \in Syncs, Link(p), UNCHANGED counts PROVE SyncsFit'
<1>. DEFINE s == sync[p]
            updated == [s.mine EXCEPT !.link[Key(p)] = s.url]
            taken == \E k \in Keys \ {Key(p)} : s.mine.link[k] = s.url
            c == [s EXCEPT !.pc = "check"]
            d == [s EXCEPT !.pc = "check", !.mine = updated]
<1>0. /\ s.pc = "link" /\ s.pc \notin Stopped /\ UNCHANGED <<issues, quiet, undisputed>>
      /\ s.url \in OfIn(issues, Blockers[s.at]) /\ s.url \in Urls /\ s.url <= Len(issues)
  <2>1. s.pc = "link" /\ s.pc \notin Stopped
    BY DEF Link, Stopped
  <2>2. s.url \in OfIn(issues, Blockers[s.at])
    BY <2>1, Working DEF Rightful
  <2>3. issues \in Seq(Issue) /\ Len(issues) <= MaxIssues /\ MaxIssues \in Nat
    BY <2>1, Working
  <2>4. s.url \in Urls /\ s.url <= Len(issues)
    BY <2>2, <2>3 DEF OfIn, Urls
  <2>. QED  BY <2>1, <2>2, <2>4 DEF Link, counts
<1>1. CASE taken /\ Go(p, Over(s, "failed")) /\ UNCHANGED <<bundle, meddled>>
  <2>1. PICK k \in Keys : k # Key(p) /\ s.mine.link[k] = s.url
    BY <1>1
  <2>2. s.url \notin OfIn(issues, k) \cup {0}
    BY <1>0, <2>1, Working DEF OfIn, Urls
  <2>3. Cause(p, s, issues, quiet, meddled, undisputed)
    BY <2>1, <2>2 DEF Cause
  <2>. QED  BY <1>0, <1>1, <2>3, FailsFit
<1>2. CASE s.dry /\ Go(p, c) /\ UNCHANGED <<bundle, meddled>>
  <2>1. /\ c \in Record /\ c.pc = "check" /\ c.at = s.at /\ c.mine = s.mine /\ c.dry = s.dry
        /\ c.url = s.url
    BY <1>0, InRecord DEF Record
  <2>. HIDE DEF c
  <2>2. Fit(p, c, issues, bundle, quiet, meddled, undisputed)
    BY <1>0, <1>2, <2>1, Working DEF Fit, Rightful, Sought, Stopped
  <2>. QED  BY <1>0, <1>2, <2>2, Working, OneFits
<1>3. CASE bundle' = updated /\ Go(p, d) /\ meddled' = meddled \cup (Active \ {p})
  <2>1. /\ updated \in Bundle /\ updated.link[Key(p)] = s.url
        /\ \A k \in Keys \ {Key(p)} : updated.link[k] = s.mine.link[k]
    BY <1>0, Working, InRecord DEF Bundle, Record
  <2>. HIDE DEF updated
  <2>2. /\ d \in Record /\ d.pc = "check" /\ d.at = s.at /\ d.mine = updated /\ d.dry = s.dry
        /\ d.url = s.url
    BY <1>0, <2>1, InRecord DEF Record
  <2>. HIDE DEF d
  <2>3. \A i \in DOMAIN Blockers : i < s.at => Blockers[i] \in Keys \ {Key(p)}
    BY <1>0, Working, BlockerFacts
  <2>4. Rightful(d, issues)
    BY <1>0, <2>1, <2>2, <2>3, Working DEF Rightful, Stopped
  <2>5. Fit(p, d, issues, updated, quiet, meddled', undisputed)
    BY <1>0, <2>1, <2>2, <2>4, Working DEF Fit, Sought, Stopped
  <2>. QED  BY <1>0, <1>3, <2>5, Working, OneFits
<1>. QED  BY <1>1, <1>2, <1>3 DEF Link

LEMMA CheckFits ==
  ASSUME Inv, NEW p \in Syncs, Check(p), UNCHANGED counts PROVE SyncsFit'
<1>. DEFINE s == sync[p]
            o == Over(s, "ok")
            d == [s EXCEPT !.pc = "validate", !.at = @ + 1, !.found = {}, !.url = 0, !.tries = 0]
<1>0. /\ s.pc = "check" /\ s.pc \notin Stopped
      /\ UNCHANGED <<bundle, issues, quiet, meddled, undisputed>>
  BY DEF Check, Stopped, world, counts
<1>1. CASE bundle # s.mine /\ Go(p, Over(s, "failed"))
  <2>1. p \in meddled
    BY <1>0, <1>1, Working DEF Fit
  <2>. QED  BY <1>0, <1>1, <2>1, FailsFit DEF Cause
<1>2. ~s.dry => \A i \in DOMAIN Blockers :
                  i <= s.at => s.mine.link[Blockers[i]] \in OfIn(issues, Blockers[i])
  BY <1>0, Working, BlockerFacts DEF Rightful
<1>3. CASE s.at = Len(Blockers) /\ Go(p, o)
  <2>1. /\ o \in Record /\ o.pc = "ok" /\ o.mine = s.mine /\ o.dry = s.dry
    BY <1>0, Working, OverIsRecord DEF Stopped
  <2>. HIDE DEF o
  <2>2. ~s.dry => \A k \in Keys : s.mine.link[k] \in OfIn(issues, k)
    BY <1>2, <1>3, BlockerFacts DEF Keys
  <2>3. Fit(p, o, issues, bundle, quiet, meddled, undisputed)
    BY <1>0, <2>1, <2>2, Working DEF Fit, Rightful, Sought, Stopped
  <2>. QED  BY <1>0, <1>3, <2>3, Working, OneFits
<1>4. CASE bundle = s.mine /\ s.at < Len(Blockers) /\ Go(p, d)
  <2>0. s.at + 1 \in DOMAIN Blockers /\ 0 \in 0..(Attempts - 1)
    BY <1>0, <1>4, Working, BlockerFacts, SyncAssumption
  <2>1. /\ d \in Record /\ d.pc = "validate" /\ d.at = s.at + 1 /\ d.mine = s.mine
        /\ d.dry = s.dry /\ d.url = 0
    BY <1>0, <2>0, InRecord DEF Record
  <2>. HIDE DEF d
  <2>2. \A i \in DOMAIN Blockers : i < s.at + 1 => i <= s.at
    BY <1>0, Working, BlockerFacts
  <2>3. Rightful(d, issues)
    BY <1>0, <1>2, <2>1, <2>2, Working DEF Rightful, Stopped
  <2>4. Fit(p, d, issues, bundle, quiet, meddled, undisputed)
    BY <1>0, <1>4, <2>1, <2>3, Working DEF Fit, Sought, Stopped
  <2>. QED  BY <1>0, <1>4, <2>4, Working, OneFits
<1>. QED  BY <1>1, <1>3, <1>4 DEF Check

LEMMA FaultFits ==
  ASSUME Inv, NEW p \in Syncs, Fault(p) PROVE SyncsFit'
<1>. DEFINE s == sync[p]
            o == Over(s, "failed")
            d == [o EXCEPT !.faulted = TRUE]
<1>0. /\ s.pc \notin Stopped /\ Go(p, d)
      /\ UNCHANGED <<bundle, quiet, meddled, undisputed>>
  BY DEF Fault, Active, Stopped
<1>1. /\ issues' \in Seq(Issue) /\ Grows(issues, issues') /\ Len(issues) <= Len(issues')
      /\ Len(issues') \in Nat
  <2>1. CASE issues' = issues
    BY <1>0, <2>1, Working
  <2>2. CASE issues' = Opened(Key(p))
    <3>1. Key(p) \in Keys /\ issues \in Seq(Issue) /\ Len(issues) \in Nat
      BY <1>0, Working
    <3>2. /\ Opened(Key(p)) \in Seq(Issue) /\ Len(Opened(Key(p))) = Len(issues) + 1
          /\ Grows(issues, Opened(Key(p)))
      BY <3>1, OpenedFacts
    <3>. QED  BY <2>2, <3>1, <3>2
  <2>. QED  BY <2>1, <2>2 DEF Fault
<1>2. /\ o \in Record /\ o.pc = "failed" /\ o.mine = s.mine
  BY <1>0, Working, OverIsRecord DEF Stopped
<1>. HIDE DEF o
<1>3. /\ d \in Record /\ d.pc = "failed" /\ d.mine = s.mine /\ d.faulted = TRUE
  BY <1>2 DEF Record
<1>. HIDE DEF d
<1>4. \A k \in Keys : s.mine.link[k] <= Len(issues')
  <2>1. \A k \in Keys : s.mine.link[k] <= Len(issues) /\ s.mine.link[k] \in Nat
    BY <1>0, Working, InRecord DEF Record, Bundle, Urls
  <2>2. Len(issues) <= Len(issues') /\ Len(issues) \in Nat /\ Len(issues') \in Nat
    BY <1>0, <1>1, Working
  <2>. HIDE DEF s
  <2>. QED  BY <2>1, <2>2
<1>5. Fit(p, d, issues', bundle, quiet, meddled, undisputed)
  BY <1>3, <1>4 DEF Fit, Rightful, Sought, Cause, Stopped
<1>. QED  BY <1>0, <1>1, <1>5, Working, OneFits

LEMMA KillFits ==
  ASSUME Inv, NEW p \in Syncs, Kill(p) PROVE SyncsFit'
<1>0. /\ sync[p].pc \notin Stopped /\ Go(p, Over(sync[p], "killed"))
      /\ UNCHANGED <<bundle, issues, quiet, meddled, undisputed>>
  BY DEF Kill, Active, Stopped, world
<1>1. Fit(p, Over(sync[p], "killed"), issues, bundle, quiet, meddled, undisputed)
  BY <1>0, Working, OverFit
<1>. QED  BY <1>0, <1>1, Working, OneFits

LEMMA StartFits ==
  ASSUME Inv, NEW p \in Syncs, NEW dry \in BOOLEAN, Start(p, dry) PROVE SyncsFit'
<1>. DEFINE d == [sync[p] EXCEPT !.pc = "validate", !.at = 1, !.mine = bundle, !.dry = dry,
                    !.found = {}, !.url = 0, !.tries = 0, !.faulted = FALSE]
<1>0. Go(p, d) /\ UNCHANGED <<bundle, issues, undisputed>>
      /\ (quiet' => quiet /\ Active = {}) /\ meddled' = meddled \ {p}
  BY DEF Start
<1>1. /\ sync[p] \in Record /\ bundle \in Bundle /\ issues \in Seq(Issue)
      /\ \A k \in Keys : bundle.link[k] <= Len(issues)
      /\ Grows(issues, issues)
  BY GrowsNot DEF Inv, SyncsFit, Stored
<1>2. /\ d \in Record /\ d.pc = "validate" /\ d.at = 1 /\ d.mine = bundle /\ d.url = 0
  <2>1. 1 \in DOMAIN Blockers /\ 0 \in 0..(Attempts - 1)
    BY BlockerFacts, SyncAssumption
  <2>. QED  BY <1>1, <2>1 DEF Record
<1>. HIDE DEF d
<1>3. \A i \in DOMAIN Blockers : ~(i < 1)
  BY BlockerFacts
<1>4. Fit(p, d, issues, bundle, quiet', meddled', undisputed)
  BY <1>1, <1>2, <1>3 DEF Fit, Rightful, Sought, Stopped
<1>. QED  BY <1>0, <1>1, <1>4, OneFits

(* Nobody moves: what others do is not held against a process.             *)
LEMMA OthersFit ==
  ASSUME Inv, sync' = sync, issues' \in Seq(Issue), Grows(issues, issues'),
         quiet' => quiet, undisputed' => undisputed, meddled \subseteq meddled',
         \A p \in Active : p \notin meddled' => bundle' = bundle,
         \A p \in Syncs : quiet' /\ Sought(sync[p], issues) => Sought(sync[p], issues')
  PROVE  SyncsFit'
<1>1. ASSUME NEW p \in Syncs
      PROVE  Fit(p, sync[p], issues', bundle', quiet', meddled', undisputed')
  <2>1. Fit(p, sync[p], issues, bundle, quiet, meddled, undisputed)
    BY DEF Inv, SyncsFit
  <2>2. sync[p].pc \notin Stopped => p \in Active
    BY DEF Active, Stopped
  <2>3. quiet' => Sought(sync[p], issues')
    BY <2>1 DEF Fit
  <2>4. issues \in Seq(Issue)
    BY DEF Inv, Stored
  <2>5. p \in meddled => p \in meddled'
    OBVIOUS
  <2>6. sync[p].pc \notin Stopped /\ p \notin meddled' => bundle' = bundle
    BY <2>2
  <2>. QED  BY <2>1, <2>3, <2>4, <2>5, <2>6, FitStays
<1>. QED  BY <1>1 DEF SyncsFit, Inv

LEMMA StageFits ==
  ASSUME Inv, NEW b, StageAudit(b) PROVE SyncsFit'
<1>1. /\ sync' = sync /\ issues' = issues /\ quiet' = quiet /\ undisputed' = undisputed
      /\ meddled' = meddled \cup Active
  BY DEF StageAudit
<1>2. issues \in Seq(Issue)
  BY DEF Inv, Stored
<1>. QED  BY <1>1, <1>2, GrowsNot, OthersFit

LEMMA CloseFits ==
  ASSUME Inv, NEW n \in DOMAIN issues, CloseOrReopen(n) PROVE SyncsFit' /\ Stored'
<1>1. /\ sync' = sync /\ issues' = [issues EXCEPT ![n].open = ~@]
      /\ UNCHANGED <<bundle, quiet, meddled>> /\ undisputed' = FALSE
  BY DEF CloseOrReopen
<1>2. issues \in Seq(Issue) /\ DOMAIN issues = 1..Len(issues) /\ issues[n] \in Issue
  BY DEF Inv, Stored
<1>3. [issues[n] EXCEPT !.open = ~@] \in Issue
  BY <1>2 DEF Issue
<1>4. issues' \in Seq(Issue) /\ DOMAIN issues' = DOMAIN issues /\ Len(issues') = Len(issues)
  BY <1>1, <1>2, <1>3
<1>5. \A m \in DOMAIN issues : issues'[m].key = issues[m].key /\ issues'[m].index = issues[m].index
  BY <1>1, <1>2 DEF Issue
<1>6. Grows(issues, issues')
  BY <1>4, <1>5 DEF Grows
<1>7. \A s : Sought(s, issues) => Sought(s, issues')
  BY <1>4, <1>5 DEF Sought, OfIn
<1>8. SyncsFit'
  BY <1>1, <1>4, <1>6, <1>7, OthersFit
<1>. QED  BY <1>1, <1>4, <1>8 DEF Inv, Stored

LEMMA IndexFits ==
  ASSUME Inv, NEW n \in DOMAIN issues, Index(n) PROVE SyncsFit' /\ Stored' /\ Calm'
<1>. DEFINE now == IF issues[n].open THEN "open" ELSE "closed"
<1>1. /\ sync' = sync /\ issues' = [issues EXCEPT ![n].index = now] /\ issues[n].index # now
      /\ UNCHANGED <<bundle, meddled, undisputed>> /\ (quiet' => quiet)
  BY DEF Index, counts
<1>2. issues \in Seq(Issue) /\ DOMAIN issues = 1..Len(issues) /\ issues[n] \in Issue
  BY DEF Inv, Stored
<1>3. [issues[n] EXCEPT !.index = now] \in Issue
  BY <1>2 DEF Issue
<1>4. issues' \in Seq(Issue) /\ DOMAIN issues' = DOMAIN issues /\ Len(issues') = Len(issues)
  BY <1>1, <1>2, <1>3
<1>5. /\ \A m \in DOMAIN issues : issues'[m].key = issues[m].key /\ issues'[m].open = issues[m].open
      /\ \A m \in DOMAIN issues : m # n => issues'[m].index = issues[m].index
      /\ issues'[n].index = now
  BY <1>1, <1>2 DEF Issue
<1>6. Grows(issues, issues')
  BY <1>4, <1>5 DEF Grows
<1>7. ASSUME NEW p \in Syncs, quiet', Sought(sync[p], issues) PROVE Sought(sync[p], issues')
  <2>1. \A k : OfIn(issues', k) = OfIn(issues, k)
    BY <1>4, <1>5 DEF OfIn
  <2>2. ASSUME sync[p].pc = "closed", sync[p].url = 0,
               NEW m \in OfIn(issues, Blockers[sync[p].at])
        PROVE  issues'[m].index # "absent" /\ (issues'[m].index = "open" => m \in sync[p].found)
    <3>1. issues[m].index # "absent" /\ (issues[m].index = "open" => m \in sync[p].found)
      BY <1>7, <2>2 DEF Sought
    <3>2. CASE m # n
      BY <1>5, <2>2, <3>1, <3>2 DEF OfIn
    <3>3. CASE m = n
      <4>1. issues[n].index # "closed"
        BY <1>7, <2>2 DEF Index
      <4>2. issues[n].index = "open"
        BY <1>2, <3>1, <3>3, <4>1 DEF Issue
      <4>. QED  BY <1>1, <1>5, <3>3, <4>2
    <3>. QED  BY <3>2, <3>3
  <2>. QED  BY <1>7, <2>1, <2>2 DEF Sought
<1>8. SyncsFit'
  BY <1>1, <1>4, <1>6, <1>7, OthersFit
<1>9. Calm'
  <2>1. quiet' => Single(issues')
    BY <1>1, <1>4, <1>5 DEF Inv, Calm, Single
  <2>2. quiet' => \A p, q \in Active' : p = q
    BY <1>1 DEF Inv, Calm, Active
  <2>3. undisputed' => \A m \in DOMAIN issues' : issues'[m].open /\ issues'[m].index # "closed"
    BY <1>1, <1>4, <1>5 DEF Inv, Calm
  <2>. QED  BY <2>1, <2>2, <2>3 DEF Calm
<1>. QED  BY <1>1, <1>4, <1>8, <1>9 DEF Inv, Stored

(* An issue that is created while all is quiet is the first of its blocker.*)
LEMMA OpenedCalm ==
  ASSUME Inv, NEW p \in Syncs, sync[p].pc = "create"
  PROVE  LET is == Opened(Key(p))
         IN /\ quiet => Single(is)
            /\ undisputed => \A n \in DOMAIN is : is[n].open /\ is[n].index # "closed"
<1>. DEFINE is == Opened(Key(p))
            e == [key |-> Key(p), open |-> TRUE, index |-> "absent"]
<1>1. sync[p].pc \notin Stopped
  BY DEF Stopped
<1>2. issues \in Seq(Issue) /\ Key(p) \in Keys /\ DOMAIN issues = 1..Len(issues)
      /\ Len(issues) \in Nat
  BY <1>1, Working
<1>3. /\ DOMAIN is = 1..(Len(issues) + 1) /\ \A n \in DOMAIN issues : is[n] = issues[n]
      /\ is[Len(issues) + 1] = e
  BY <1>2, OpenedFacts
<1>. HIDE DEF is
<1>4. ASSUME quiet PROVE Single(is)
  <2>1. Single(issues) /\ OfIn(issues, Key(p)) = {}
    BY <1>1, <1>4, Working DEF Inv, Calm, Fit, Sought
  <2>2. \A n \in DOMAIN issues : is[n].key # Key(p)
    BY <1>3, <2>1 DEF OfIn
  <2>. QED  BY <1>2, <1>3, <2>1, <2>2 DEF Single
<1>5. ASSUME undisputed, NEW n \in DOMAIN is PROVE is[n].open /\ is[n].index # "closed"
  BY <1>2, <1>3, <1>5 DEF Inv, Calm
<1>. QED  BY <1>4, <1>5 DEF is

LEMMA StillCalm ==
  ASSUME Inv, Active' \subseteq Active, quiet' => quiet, undisputed' => undisputed,
         issues' = issues
  PROVE  Calm'
BY DEF Inv, Calm

LEMMA ActiveShrinks ==
  ASSUME Inv, NEW p \in Active, NEW d, Go(p, d) PROVE Active' \subseteq Active
BY DEF Go, Inv, SyncsFit, Active

LEMMA StepInv ==
  ASSUME Inv, NEW p \in Syncs, Step(p) PROVE SyncsFit' /\ Stored' /\ Calm'
<1>0. /\ UNCHANGED counts /\ undisputed' = undisputed
      /\ sync[p].pc \notin Stopped /\ (quiet' => quiet)
  <2>1. UNCHANGED counts /\ undisputed' = undisputed
    BY DEF Step, counts
  <2>2. CASE Validate(p) \/ Check(p) \/ SearchClosed(p)
    BY <2>1, <2>2 DEF Validate, Check, SearchClosed, Stopped, world
  <2>3. CASE SearchOpen(p)
    BY <2>1, <2>3 DEF SearchOpen, Stopped
  <2>4. CASE Create(p) \/ Link(p)
    BY <2>1, <2>4 DEF Create, Link, Stopped
  <2>5. CASE Recheck(p)
    BY <2>1, <2>5 DEF Recheck, Stopped
  <2>. QED  BY <2>2, <2>3, <2>4, <2>5 DEF Step
<1>1. SyncsFit'
  BY <1>0, ValidateFits, SearchOpenFits, SearchClosedFits, CreateFits, RecheckFits,
     LinkFits, CheckFits DEF Step
<1>2. Active' \subseteq Active
  <2>1. \E d : Go(p, d)
    BY DEF Step, Validate, SearchOpen, SearchClosed, Create, Recheck, Link, Check, To
  <2>. QED  BY <1>0, <2>1, Working, ActiveShrinks
<1>3. CASE Create(p)
  <2>1. issues' = Opened(Key(p)) /\ Len(issues) < MaxIssues /\ bundle' = bundle
        /\ sync[p].pc = "create"
    BY <1>3 DEF Create
  <2>2. /\ issues \in Seq(Issue) /\ Key(p) \in Keys /\ Len(issues) \in Nat /\ MaxIssues \in Nat
    BY <1>0, Working
  <2>3. Opened(Key(p)) \in Seq(Issue) /\ Len(Opened(Key(p))) = Len(issues) + 1
    BY <2>2, OpenedFacts
  <2>4. Stored'
    BY <2>1, <2>2, <2>3 DEF Inv, Stored, Bundle, Urls
  <2>5. Calm'
    BY <1>0, <1>2, <2>1, OpenedCalm DEF Inv, Calm
  <2>. QED  BY <1>1, <2>4, <2>5
<1>4. CASE ~Create(p)
  <2>1. issues' = issues
    BY <1>4 DEF Step, Validate, SearchOpen, SearchClosed, Recheck, Link, Check, world
  <2>2. bundle' \in Bundle /\ \A k \in Keys : bundle'[ "link" ][k] <= Len(issues)
    <3>1. CASE bundle' = bundle
      BY <3>1 DEF Inv, Stored
    <3>2. CASE bundle' # bundle
      <4>1. Link(p) /\ bundle' = [sync[p].mine EXCEPT !.link[Key(p)] = sync[p].url]
        BY <1>4, <3>2 DEF Step, Validate, SearchOpen, SearchClosed, Recheck, Link, Check, world
      <4>2. sync[p].url \in Urls /\ sync[p].url <= Len(issues)
        <5>1. sync[p].url \in OfIn(issues, Blockers[sync[p].at])
          BY <1>0, <4>1, Working DEF Link, Rightful
        <5>2. issues \in Seq(Issue) /\ Len(issues) <= MaxIssues /\ MaxIssues \in Nat
          BY <1>0, Working
        <5>. QED  BY <5>1, <5>2 DEF OfIn, Urls
      <4>3. sync[p].mine \in Bundle /\ \A k \in Keys : sync[p].mine.link[k] <= Len(issues)
        <5>1. sync[p].mine \in Bundle
          BY <1>0, InRecord DEF Record
        <5>. QED  BY <1>0, <5>1, Working
      <4>4. bundle' = [sync[p].mine EXCEPT !.link = [@ EXCEPT ![Key(p)] = sync[p].url]]
        BY <4>1
      <4>5. Key(p) \in Keys
        BY <1>0, Working
      <4>. QED  BY <4>2, <4>3, <4>4, <4>5 DEF Bundle
    <3>. QED  BY <3>1, <3>2
  <2>3. Stored'
    BY <2>1, <2>2 DEF Inv, Stored
  <2>. QED  BY <1>0, <1>1, <1>2, <2>1, <2>3, StillCalm
<1>. QED  BY <1>3, <1>4

LEMMA FaultInv ==
  ASSUME Inv, NEW p \in Syncs, Fault(p) PROVE SyncsFit' /\ Stored' /\ Calm'
<1>0. /\ sync[p].pc \notin Stopped /\ UNCHANGED <<bundle, quiet, undisputed>>
      /\ Active' \subseteq Active
  BY ActiveShrinks DEF Fault, Active, Stopped
<1>1. CASE issues' = issues
  BY <1>0, <1>1, FaultFits, StillCalm DEF Inv, Stored
<1>2. CASE sync[p].pc = "create" /\ Len(issues) < MaxIssues /\ issues' = Opened(Key(p))
  <2>2. /\ issues \in Seq(Issue) /\ Key(p) \in Keys /\ Len(issues) \in Nat /\ MaxIssues \in Nat
    BY <1>0, Working
  <2>3. Opened(Key(p)) \in Seq(Issue) /\ Len(Opened(Key(p))) = Len(issues) + 1
    BY <2>2, OpenedFacts
  <2>4. Stored'
    BY <1>0, <1>2, <2>2, <2>3 DEF Inv, Stored, Bundle, Urls
  <2>5. Calm'
    BY <1>0, <1>2, OpenedCalm DEF Inv, Calm
  <2>. QED  BY <2>4, <2>5, FaultFits
<1>. QED  BY <1>1, <1>2 DEF Fault

LEMMA StartCalm ==
  ASSUME Inv, NEW p \in Syncs, NEW dry \in BOOLEAN, Start(p, dry) PROVE Calm'
<1>1. quiet' => quiet /\ Active' \subseteq {p}
  BY DEF Start, Go, Inv, SyncsFit, Active
<1>. QED  BY <1>1 DEF Start, Inv, Calm

----------------------------------------------------------------------------
LEMMA InitInv == Init => Inv
<1>. SUFFICES ASSUME Init PROVE Inv
  OBVIOUS
<1>0. PICK audit \in Audits : bundle = [audit |-> audit, link |-> Unlinked]
  BY DEF Init
<1>1. Unlinked \in [Keys -> Urls \cup {0}] /\ \A k \in Keys : Unlinked[k] = 0
  BY DEF Unlinked
<1>2. bundle \in Bundle /\ \A k \in Keys : bundle.link[k] = 0
  BY <1>0, <1>1 DEF Bundle
<1>3. issues = <<>> /\ issues \in Seq(Issue) /\ Len(issues) = 0 /\ DOMAIN issues = {}
  BY DEF Init
<1>4. MaxIssues \in Nat /\ MaxStarts \in Nat /\ MaxMishaps \in Nat
  BY SyncAssumption
<1>5. Stored
  BY <1>2, <1>3, <1>4 DEF Stored
<1>6. SyncsFit
  <2>. DEFINE d == [pc |-> "idle", at |-> 1, mine |-> bundle, dry |-> FALSE, found |-> {},
                    url |-> 0, tries |-> 0, faulted |-> FALSE]
  <2>0. 1 \in DOMAIN Blockers /\ 0 \in 0..(Attempts - 1)
    BY BlockerFacts, SyncAssumption
  <2>1. d \in Record /\ d.pc = "idle" /\ d.mine = bundle
    BY <1>2, <2>0 DEF Record
  <2>2. sync = [p \in Syncs |-> d]
    BY DEF Init
  <2>. HIDE DEF d
  <2>3. ASSUME NEW p \in Syncs PROVE Fit(p, d, issues, bundle, quiet, meddled, undisputed)
    BY <1>2, <1>3, <2>1 DEF Fit, Rightful, Sought, Stopped
  <2>. QED  BY <2>1, <2>2, <2>3 DEF SyncsFit
<1>7. History /\ Calm
  BY <1>3, <1>4 DEF Init, History, Calm, Single, Active
<1>. QED  BY <1>5, <1>6, <1>7 DEF Inv

LEMMA HistoryKept == ASSUME Inv, [Next]_vars PROVE History'
<1>0. MaxStarts \in Nat /\ MaxMishaps \in Nat /\ History
  BY SyncAssumption DEF Inv
<1>1. ASSUME NEW p \in Syncs, NEW dry \in BOOLEAN, Start(p, dry) PROVE History'
  BY <1>0, <1>1 DEF Start, History
<1>2. ASSUME NEW p \in Syncs, Step(p) PROVE History'
  BY <1>0, <1>2 DEF Step, Validate, SearchOpen, SearchClosed, Create, Recheck, Link, Check,
                    world, counts, History, Active
<1>3. ASSUME Mishap, quiet' = quiet, meddled' \subseteq Syncs, undisputed' \in BOOLEAN
      PROVE  History'
  BY <1>0, <1>3 DEF Mishap, History
<1>4. ASSUME NEW p \in Syncs, Fault(p) \/ Kill(p) PROVE History'
  BY <1>0, <1>3, <1>4 DEF Fault, Kill, world, History
<1>5. ASSUME NEW b, StageAudit(b) PROVE History'
  BY <1>0, <1>3, <1>5 DEF StageAudit, History, Active
<1>6. ASSUME NEW n, CloseOrReopen(n) PROVE History'
  BY <1>0, <1>3, <1>6 DEF CloseOrReopen, History
<1>7. ASSUME NEW n, Index(n) PROVE History'
  BY <1>0, <1>7 DEF Index, History, counts
<1>8. CASE UNCHANGED vars
  BY <1>0, <1>8 DEF vars, History
<1>. QED  BY <1>1, <1>2, <1>4, <1>5, <1>6, <1>7, <1>8 DEF Next

LEMMA NextInv == Inv /\ [Next]_vars => Inv'
<1>. SUFFICES ASSUME Inv, [Next]_vars PROVE SyncsFit' /\ Stored' /\ Calm'
  BY HistoryKept DEF Inv
<1>1. ASSUME NEW p \in Syncs, NEW dry \in BOOLEAN, Start(p, dry)
      PROVE  SyncsFit' /\ Stored' /\ Calm'
  BY <1>1, StartFits, StartCalm DEF Start, Inv, Stored
<1>2. ASSUME NEW p \in Syncs, Step(p) \/ Fault(p) PROVE SyncsFit' /\ Stored' /\ Calm'
  BY <1>2, StepInv, FaultInv
<1>3. ASSUME NEW p \in Syncs, Kill(p) PROVE SyncsFit' /\ Stored' /\ Calm'
  <2>1. Active' \subseteq Active /\ UNCHANGED <<bundle, issues, quiet, undisputed>>
    BY <1>3, ActiveShrinks DEF Kill, world
  <2>. QED  BY <1>3, <2>1, KillFits, StillCalm DEF Inv, Stored
<1>4. ASSUME NEW b \in Written, StageAudit(b) PROVE SyncsFit' /\ Stored' /\ Calm'
  <2>1. bundle' = b /\ UNCHANGED <<issues, sync, quiet, undisputed>>
    BY <1>4 DEF StageAudit
  <2>2. b \in Bundle /\ \A k \in Keys : b.link[k] <= Len(issues)
    BY SyncAssumption DEF Written, Bundle, Urls, Inv, Stored
  <2>3. Active' = Active
    BY <2>1 DEF Active
  <2>. QED  BY <1>4, <2>1, <2>2, <2>3, StageFits, StillCalm DEF Inv, Stored
<1>5. ASSUME NEW n \in DOMAIN issues, CloseOrReopen(n) PROVE SyncsFit' /\ Stored' /\ Calm'
  <2>1. /\ sync' = sync /\ quiet' = quiet /\ undisputed' = FALSE
        /\ issues' = [issues EXCEPT ![n].open = ~@]
    BY <1>5 DEF CloseOrReopen
  <2>2. issues \in Seq(Issue) /\ issues[n] \in Issue
    BY DEF Inv, Stored
  <2>3. DOMAIN issues' = DOMAIN issues /\ \A m \in DOMAIN issues : issues'[m].key = issues[m].key
    BY <2>1, <2>2 DEF Issue
  <2>4. Active' = Active
    BY <2>1 DEF Active
  <2>5. Calm'
    BY <2>1, <2>3, <2>4 DEF Inv, Calm, Single
  <2>. QED  BY <1>5, <2>5, CloseFits
<1>6. ASSUME NEW n \in DOMAIN issues, Index(n) PROVE SyncsFit' /\ Stored' /\ Calm'
  BY <1>6, IndexFits
<1>7. CASE UNCHANGED vars
  BY <1>7 DEF vars, Inv, SyncsFit, Stored, Calm, Active
<1>. QED  BY <1>1, <1>2, <1>3, <1>4, <1>5, <1>6, <1>7 DEF Next

LEMMA Invariance == Spec => []Inv
BY InitInv, NextInv, PTL DEF Spec

(* The bundle, the issues and the commands are well formed, however the    *)
(* commands fail, overlap and are given again.                             *)
THEOREM SyncTypes == Spec => []TypeOK
<1>1. Inv => TypeOK
  BY DEF Inv, SyncsFit, Stored, History, TypeOK, Record
<1>. QED  BY <1>1, Invariance, PTL

(* sync_capability_issue keeps one issue per capability as long as commands*)
(* do not overlap, the index knows every issue when a search begins, and no*)
(* reopening falls between the two searches.                               *)
THEOREM OneIssue == Spec => []OneIssueWhenQuiet
<1>1. ASSUME Inv PROVE OneIssueWhenQuiet
  <2>1. ASSUME quiet, NEW k \in Keys PROVE Cardinality(Of(k)) <= 1
    <3>1. Of(k) = OfIn(issues, k) /\ Single(issues)
      BY <1>1, <2>1 DEF Of, OfIn, Inv, Calm
    <3>2. Of(k) \in SUBSET OfIn(issues, k)
      BY <3>1
    <3>. QED  BY <3>1, <3>2, SingleFound
  <2>. QED  BY <2>1 DEF OneIssueWhenQuiet, OneIssuePerCapability
<1>. QED  BY <1>1, Invariance, PTL

(* A sync-issues that ends well has linked each blocker to an issue of its *)
(* own, whatever links the bundle came with and whatever others do.        *)
THEOREM OwnIssues == Spec => []SuccessLinksOwnIssues
<1>1. ASSUME Inv PROVE SuccessLinksOwnIssues
  <2>1. ASSUME NEW p \in Syncs, sync[p].pc = "ok", ~sync[p].dry, NEW k \in Keys
        PROVE  sync[p].mine.link[k] \in Of(k)
    <3>1. Rightful(sync[p], issues)
      BY <1>1 DEF Inv, SyncsFit, Fit
    <3>. QED  BY <2>1, <3>1 DEF Rightful, Of, OfIn
  <2>. QED  BY <2>1 DEF SuccessLinksOwnIssues
<1>. QED  BY <1>1, Invariance, PTL

(* A sync-issues that fails has a cause outside itself: what an interrupted*)
(* one left behind is found and used again.                                *)
THEOREM FailuresHaveCauses == Spec => []FailsForCause
<1>1. ASSUME Inv PROVE FailsForCause
  <2>1. ASSUME NEW p \in Syncs, sync[p].pc = "failed"
        PROVE  \/ sync[p].faulted \/ p \in meddled \/ ~quiet \/ ~undisputed
               \/ \E k \in Keys : sync[p].mine.link[k] \notin Of(k) \cup {0}
    <3>1. Cause(p, sync[p], issues, quiet, meddled, undisputed)
      BY <1>1, <2>1 DEF Inv, SyncsFit, Fit
    <3>. QED  BY <3>1 DEF Cause, Of, OfIn
  <2>. QED  BY <2>1 DEF FailsForCause
<1>. QED  BY <1>1, Invariance, PTL
=============================================================================
