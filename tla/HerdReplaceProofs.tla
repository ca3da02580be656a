--------------------------- MODULE HerdReplaceProofs ---------------------------
(***************************************************************************)
(* What holds of the herd replacement for every pen, price, allowance,     *)
(* calendar and number of mishaps.                                         *)
(***************************************************************************)
EXTENDS HerdReplace, TLAPS, WellFoundedInduction

Receipts == [Keys -> {"stale", "held", "newer"}]

(* The part of the type invariant the other proofs rest on.  How many      *)
(* animals there are in the game is left open until the last theorem.      *)
Animals == [head : Int, stats : Grades]
Records == [herds : [head : Int, stats : Grades \cup {0}, pending : BOOLEAN],
            pending : Seq(Counts), bqueue : QueueStates, market : BOOLEAN]

Types == /\ opts \in Options /\ disk \in Options
         /\ job \in Jobs \cup {NoJob}
         /\ seen \in Records /\ receipt \in Receipts
         /\ today \in Days
         /\ wire \in Seq(Commands)
         /\ pen \in Animals /\ pending \in Seq(Counts)
         /\ queue \in QueueStates /\ market \in BOOLEAN
         /\ unsettled \in Kinds \cup {"none"}
         /\ charged \in [Days -> Nat]
         /\ slain \in BOOLEAN

(* A job at work is marked on the disk and knows its last command.         *)
StageOf(j) == IF j.phase = "await_cull" THEN "slaughter" ELSE "buy"

Remembered == /\ unsettled # "none" => Busy(disk)
              /\ unsettled # "none" /\ job = NoJob => Busy(opts)
              /\ job # NoJob => Busy(disk) /\ unsettled = StageOf(job)

(* A day's record covers what was charged: that day and no later one.      *)
Covers(daily, charges) == \A d \in Days :
  /\ d > daily.date => charges[d] = 0
  /\ d = daily.date => charges[d] <= daily.spent

Covered == /\ Covers(disk.daily, charged)
           /\ job = NoJob => Covers(opts.daily, charged)
           /\ job # NoJob => Covers(job.budget, charged)
           /\ ExposureWithinAllowance

(* Meat in a slot that was seen empty since the queue's receipt, or since  *)
(* the plan, comes from a slaughter the observation knows of.              *)
Evident ==
  /\ Fresh("bqueue") =>
       \A s \in Slots : queue[s] = "ours" /\ seen.bqueue[s] = "empty" => slain
  /\ job # NoJob /\ job.phase = "await_cull" =>
       \A s \in Slots \ job.slots : queue[s] = "ours" \/ seen.bqueue[s] = "ours" => slain

Core == Remembered /\ Covered
Inv == Types /\ Core /\ Evident

Orders == {Nothing} \cup {<<c>> : c \in Commands}
Stages == Kinds \cup {"none"}
ClientTypes == /\ opts \in Options /\ disk \in Options
               /\ job \in Jobs \cup {NoJob}
               /\ wire \in Seq(Commands)
               /\ unsettled \in Stages
               /\ charged \in [Days -> Nat]

(* There is no job without a phase.                                        *)
LEMMA JobsAreJobs == NoJob \notin Jobs
BY DEF NoJob, Jobs, Phases

LEMMA CostIsNat == \A n \in Counts : Cost(n) \in Nat
BY HerdAssumption DEF Cost, Counts

(* cancel, recover, reset and the halt of a failed save keep the options   *)
(* well formed and the day's record as it is, and leave a marker where     *)
(* they should.                                                            *)
LEMMA OptionsFacts ==
  ASSUME NEW o \in Options
  PROVE  /\ Cancel(o) \in Options /\ Cancel(o).daily = o.daily /\ (Busy(o) => Busy(Cancel(o)))
         /\ Halted(o) \in Options /\ Halted(o).daily = o.daily /\ Busy(Halted(o))
         /\ \A j : Recover(o, j) \in Options /\ Recover(o, j).daily = o.daily
                  /\ (Busy(o) => Busy(Recover(o, j)))
         /\ Reset(o) \in Options /\ Reset(o).daily = o.daily
         /\ \A p \in Phases \cup {"none"} : /\ Marked(o, p) \in Options
                                           /\ Marked(o, p).daily = o.daily
                                           /\ Marked(o, p).in_flight = p
<1>1. Cancel(o) \in Options /\ Cancel(o).daily = o.daily /\ (Busy(o) => Busy(Cancel(o)))
  BY DEF Cancel, Options, Busy
<1>2. Halted(o) \in Options /\ Halted(o).daily = o.daily /\ Busy(Halted(o))
  BY DEF Halted, Cancel, Options, Busy
<1>3. \A j : Recover(o, j) \in Options /\ Recover(o, j).daily = o.daily
            /\ (Busy(o) => Busy(Recover(o, j)))
  BY <1>1 DEF Recover
<1>4. Reset(o) \in Options /\ Reset(o).daily = o.daily
  BY DEF Reset, Options
<1>5. \A p \in Phases \cup {"none"} : /\ Marked(o, p) \in Options
                                   /\ Marked(o, p).daily = o.daily
                                   /\ Marked(o, p).in_flight = p
  BY DEF Marked, Options
<1>. QED  BY <1>1, <1>2, <1>3, <1>4, <1>5

LEMMA DailyFacts ==
  /\ DailyCost \in Nat /\ \A d \in Days : d \in Nat
  /\ \A r \in Daily : /\ r.date \in Days /\ r.date \in Nat
                     /\ r.spent \in Nat /\ r.spent <= DailyCost
<1>1. DailyCost \in Nat /\ \A d \in Days : d \in Nat
  BY HerdAssumption
<1>2. ASSUME NEW r \in Daily
      PROVE  r.date \in Days /\ r.spent \in 0 .. DailyCost
  BY DEF Daily
<1>. QED  BY <1>1, <1>2

(* A record that moves to a later day or grows still covers the charge,    *)
(* and one that grows by what is charged covers it afterwards.             *)
LEMMA CoversGrows ==
  ASSUME NEW a \in Daily, NEW b \in Daily, NEW ch \in [Days -> Nat], Covers(a, ch),
         (b.date = a.date /\ b.spent >= a.spent) \/ b.date > a.date
  PROVE  Covers(b, ch)
<1>. SUFFICES ASSUME NEW d \in Days
              PROVE  (d > b.date => ch[d] = 0) /\ (d = b.date => ch[d] <= b.spent)
  BY DEF Covers
<1>. d \in Nat /\ ch[d] \in Nat
  BY DailyFacts
<1>. QED  BY DailyFacts DEF Covers

LEMMA CoversCharge ==
  ASSUME NEW a \in Daily, NEW b \in Daily, NEW c \in Nat, NEW ch \in [Days -> Nat],
         Covers(a, ch), b.date = a.date, b.spent = a.spent + c,
         \A d \in Days : ch[d] <= DailyCost
  PROVE  /\ Covers(b, [ch EXCEPT ![b.date] = @ + c])
         /\ \A d \in Days : [ch EXCEPT ![b.date] = @ + c][d] <= DailyCost
<1>. DEFINE new == [ch EXCEPT ![b.date] = @ + c]
<1>1. ASSUME NEW d \in Days
      PROVE  /\ d > b.date => new[d] = 0
             /\ d = b.date => new[d] <= b.spent
             /\ new[d] <= DailyCost
  <2>1. new[d] = IF d = b.date THEN ch[d] + c ELSE ch[d]
    OBVIOUS
  <2>2. d \in Nat /\ ch[d] \in Nat /\ ch[d] <= DailyCost
    BY DailyFacts
  <2>3. /\ d > a.date => ch[d] = 0
        /\ d = a.date => ch[d] <= a.spent
    BY DEF Covers
  <2>. QED  BY <2>1, <2>2, <2>3, DailyFacts
<1>. QED  BY <1>1 DEF Covers

(* What is charged to a day's record when a command goes out.              *)
LEMMA ChargeTypes ==
  ASSUME Types, NEW o \in Options, NEW cmd \in Orders, NEW outcome \in Stages
  PROVE  Charge(o, cmd, outcome) \in [Days -> Nat]
<1>1. CASE cmd = Nothing
  BY <1>1 DEF Charge, Types
<1>2. CASE cmd # Nothing
  <2>1. PICK c \in Commands : cmd = <<c>>
    BY <1>2 DEF Orders
  <2>2. cmd[1].count \in Counts
    BY <2>1 DEF Commands
  <2>3. Cost(cmd[1].count) \in Nat
    BY <2>2, CostIsNat
  <2>. QED  BY <2>3 DEF Charge, Types, Options, Daily
<1>. QED  BY <1>1, <1>2

(* The caller's step keeps the types, whatever fails in it.                *)
LEMMA CommitTypes ==
  ASSUME Types,
         NEW o \in Options, NEW j \in Jobs \cup {NoJob},
         NEW cmd \in Orders, NEW outcome \in Stages,
         Commit(o, j, cmd, outcome)
  PROVE  ClientTypes'
<1>1. wire \o cmd \in Seq(Commands)
  <2>1. \A S : <<>> \in Seq(S) /\ \A c \in S : <<c>> \in Seq(S)
    OBVIOUS
  <2>2. \A S : \A p, q \in Seq(S) : p \o q \in Seq(S)
    OBVIOUS
  <2>3. cmd \in Seq(Commands)
    BY <2>1 DEF Orders, Nothing
  <2>. QED  BY <2>2, <2>3 DEF Types
<1>2. Charge(o, cmd, outcome) \in [Days -> Nat]
  BY ChargeTypes
<1>. QED
  BY <1>1, <1>2, OptionsFacts DEF Commit, Obliges, observed, Types, ClientTypes, Stages

(* What the caller must be given for the invariant to survive every way in *)
(* which it may fail: options whose record covers the charge, and a marker *)
(* for whatever is not settled.                                            *)
Sound(o, j, cmd, outcome) ==
  /\ o \in Options /\ j \in Jobs \cup {NoJob}
  /\ cmd \in Orders /\ outcome \in Stages
  /\ Covers(o.daily, charged)
  /\ Covers(o.daily, Charge(o, cmd, outcome))
  /\ \A d \in Days : Charge(o, cmd, outcome)[d] <= DailyCost
  /\ outcome # "none" => Busy(o)
  /\ j # NoJob => Busy(o) /\ outcome = StageOf(j) /\ j.budget = o.daily

LEMMA CommitCore ==
  ASSUME Types, Core,
         NEW o, NEW j, NEW cmd, NEW outcome,
         Sound(o, j, cmd, outcome), Commit(o, j, cmd, outcome)
  PROVE  ClientTypes' /\ Core'
<1>. o \in Options /\ j \in Jobs \cup {NoJob} /\ cmd \in Orders /\ outcome \in Stages
  BY DEF Sound
<1>1. ClientTypes'
  BY CommitTypes
<1>2. Core'
  <2>. DEFINE ch == Charge(o, cmd, outcome)
  <2>1. CASE opts' = o /\ disk' = o /\ job' = j /\ Obliges(o, cmd, outcome)
    BY <2>1 DEF Core, Remembered, Covered, ExposureWithinAllowance, Sound, Obliges
  <2>2. CASE opts' = Halted(o) /\ disk' \in {disk, Halted(o)} /\ job' = NoJob
             /\ UNCHANGED observed
    <3>1. Busy(opts') /\ opts'.daily = o.daily
      BY <2>2, OptionsFacts
    <3>2. Busy(disk) => Busy(disk')
      BY <2>2, OptionsFacts
    <3>3. disk'.daily \in {disk.daily, o.daily}
      BY <2>2, OptionsFacts
    <3>. QED
      BY <2>2, <3>1, <3>2, <3>3
      DEF Core, Remembered, Covered, ExposureWithinAllowance, Sound, observed
  <2>3. CASE opts' = Cancel(o) /\ disk' \in {o, Cancel(o)} /\ job' = NoJob
             /\ Obliges(o, cmd, outcome)
    <3>1. Cancel(o).daily = o.daily /\ (Busy(o) => Busy(Cancel(o)))
      BY OptionsFacts
    <3>2. opts'.daily = o.daily /\ disk'.daily = o.daily
      BY <2>3, <3>1
    <3>3. Busy(o) => Busy(opts') /\ Busy(disk')
      BY <2>3, <3>1
    <3>. QED
      BY <2>3, <3>2, <3>3
      DEF Core, Remembered, Covered, ExposureWithinAllowance, Sound, Obliges
  <2>. QED  BY <2>1, <2>2, <2>3 DEF Commit
<1>. QED  BY <1>1, <1>2

(* Between two callbacks with untouched options, memory agrees with the    *)
(* job and covers the charge.                                              *)
LEMMA MemoryAgrees ==
  ASSUME Types, Core, ~BookkeepingChanged
  PROVE  /\ Covers(opts.daily, charged)
         /\ unsettled # "none" => Busy(opts)
         /\ job # NoJob => /\ job \in Jobs
                           /\ opts.in_flight = job.phase /\ opts.daily = job.budget
                           /\ Busy(opts) /\ unsettled = StageOf(job)
<1>1. job # NoJob => job \in Jobs
  BY DEF Types
<1>2. job # NoJob => Busy(opts)
  BY <1>1 DEF BookkeepingChanged, Busy, Jobs, Phases
<1>. QED  BY <1>1, <1>2 DEF BookkeepingChanged, Core, Remembered, Covered

(* A step that charges nothing.                                            *)
LEMMA QuietIsSound ==
  ASSUME Types, Core,
         NEW o \in Options, NEW j \in Jobs \cup {NoJob},
         NEW cmd \in Orders, NEW outcome \in Stages,
         cmd = Nothing \/ outcome # "slaughter",
         Covers(o.daily, charged),
         outcome # "none" => Busy(o),
         j # NoJob => Busy(o) /\ outcome = StageOf(j) /\ j.budget = o.daily
  PROVE  Sound(o, j, cmd, outcome)
<1>1. Charge(o, cmd, outcome) = charged
  BY DEF Charge
<1>. QED  BY <1>1 DEF Sound, Core, Covered, ExposureWithinAllowance

(* The same for a step that ends the job, if there is one, and sends       *)
(* nothing: the record kept, and whatever is not settled still marked.     *)
LEMMA EndIsSound ==
  ASSUME Types, Core, NEW o \in Options, NEW outcome \in {unsettled, "none"},
         Covers(o.daily, charged),
         outcome # "none" => Busy(o)
  PROVE  Sound(o, NoJob, Nothing, outcome)
<1>1. outcome \in Stages /\ Nothing \in Orders
  BY DEF Types, Stages, Orders
<1>. QED  BY <1>1, QuietIsSound

(***************************************************************************)
(* The steps of the timer and the player's commands, which the caller      *)
(* commits.                                                                *)
(***************************************************************************)
LEMMA RestoreCore == ASSUME Inv, TickRestores PROVE ClientTypes' /\ Core'
<1>. DEFINE kept == [job.budget EXCEPT !.spent = Larger(@, opts.daily.spent)]
            marked == [opts EXCEPT !.in_flight = job.phase, !.daily = kept]
<1>1. job \in Jobs /\ opts \in Options
  BY DEF Inv, Types, TickRestores, BookkeepingChanged
<1>2. kept \in Daily /\ kept.date = job.budget.date /\ kept.spent >= job.budget.spent
  BY <1>1, HerdAssumption DEF Larger, Jobs, Options, Daily
<1>3. marked \in Options /\ marked.daily = kept /\ Busy(marked)
  BY <1>1, <1>2 DEF Options, Jobs, Phases, Busy
<1>4. Cancel(marked) \in Options /\ Cancel(marked).daily = kept /\ Busy(Cancel(marked))
  BY <1>3, OptionsFacts
<1>5. Covers(job.budget, charged)
  BY <1>1, JobsAreJobs DEF Inv, Core, Covered
<1>6. Covers(kept, charged)
  <2>1. job.budget \in Daily /\ charged \in [Days -> Nat]
    BY <1>1 DEF Jobs, Inv, Types
  <2>. QED  BY <1>2, <1>5, <2>1, CoversGrows
<1>7. Sound(Cancel(marked), NoJob, Nothing, unsettled)
  BY <1>4, <1>6, EndIsSound DEF Inv
<1>. QED  BY <1>7, CommitCore DEF Inv, TickRestores

LEMMA HaltCore == ASSUME Inv, TickHalts PROVE ClientTypes' /\ Core'
<1>1. Covers(opts.daily, charged) /\ Busy(opts)
  BY MemoryAgrees DEF Inv, TickHalts
<1>2. Sound(Cancel(opts), NoJob, Nothing, unsettled)
  BY <1>1, OptionsFacts, EndIsSound DEF Inv, Types
<1>. QED  BY <1>2, CommitCore DEF Inv, TickHalts

(* The one step that charges: the reservation covers it before the command *)
(* is sent, on the day the record is of.                                   *)
LEMMA BeginCore ==
  ASSUME Inv, NEW n \in Counts, TickBegins(n)
  PROVE  ClientTypes' /\ Core'
<1>. DEFINE b == Budget(opts)
            reserved == [b EXCEPT !.spent = @ + Cost(n)]
            o == Marked([opts EXCEPT !.daily = reserved], "await_cull")
            j == [phase |-> "await_cull", count |-> n, stats |-> seen.herds.stats, post |-> 0,
                  slots |-> {s \in Slots : seen.bqueue[s] # "empty"}, market |-> seen.market,
                  budget |-> reserved, same_epoch |-> TRUE, overdue |-> FALSE, behind |-> FALSE]
            cmd == <<[kind |-> "slaughter", count |-> n, market |-> seen.market]>>
<1>1. job = NoJob /\ ~Busy(opts) /\ Commit(o, j, cmd, "slaughter")
  BY DEF TickBegins
<1>2. b \in Daily /\ b.date >= opts.daily.date /\ Covers(b, charged)
  <2>1. Covers(opts.daily, charged) /\ opts.daily \in Daily /\ today \in Days
    BY <1>1 DEF Inv, Core, Covered, Types, Options
  <2>2. CASE today > opts.daily.date
    <3>1. b = [date |-> today, spent |-> 0]
      BY <1>1, <2>2 DEF Budget
    <3>2. b \in Daily /\ b.date > opts.daily.date
      BY <2>1, <2>2, <3>1, DailyFacts DEF Daily
    <3>3. charged \in [Days -> Nat] /\ opts.daily.date \in Nat /\ b.date \in Nat
      BY <2>1, <3>2, DailyFacts DEF Inv, Types
    <3>. QED  BY <2>1, <3>2, <3>3, CoversGrows
  <2>3. CASE ~(today > opts.daily.date)
    <3>1. b = opts.daily
      BY <2>3 DEF Budget
    <3>. QED  BY <2>1, <3>1, DailyFacts
  <2>. QED  BY <2>2, <2>3
<1>3. Cost(n) \in Nat /\ Cost(n) + b.spent <= DailyCost
  BY CostIsNat DEF TickBegins, MayPropose, WithinAllowance
<1>4. reserved \in Daily /\ reserved.date = b.date /\ reserved.spent = b.spent + Cost(n)
  BY <1>2, <1>3, HerdAssumption DEF Daily
<1>5. /\ o \in Options /\ o.daily = reserved /\ o.in_flight = "await_cull"
  <2>1. [opts EXCEPT !.daily = reserved] \in Options
    BY <1>4 DEF Inv, Types, Options
  <2>2. [opts EXCEPT !.daily = reserved].daily = reserved
    BY DEF Inv, Types, Options
  <2>. QED  BY <2>1, <2>2, OptionsFacts DEF Phases
<1>6. j \in Jobs
  BY <1>4 DEF Jobs, Phases, Inv, Types, Records, Counts
<1>7. cmd \in Orders
  BY DEF Orders, Commands, Kinds, Inv, Types, Records
<1>8. Charge(o, cmd, "slaughter") = [charged EXCEPT ![reserved.date] = @ + Cost(n)]
  <2>1. cmd # Nothing /\ cmd[1].count = n
    BY DEF Nothing
  <2>. QED  BY <1>5, <2>1 DEF Charge
<1>9. /\ Covers(reserved, charged)
      /\ Covers(reserved, Charge(o, cmd, "slaughter"))
      /\ \A d \in Days : Charge(o, cmd, "slaughter")[d] <= DailyCost
  <2>1. charged \in [Days -> Nat] /\ \A d \in Days : charged[d] <= DailyCost
    BY DEF Inv, Types, Core, Covered, ExposureWithinAllowance
  <2>2. b.spent \in Nat /\ reserved.spent >= b.spent
    BY <1>2, <1>3, <1>4, DailyFacts
  <2>3. Covers(reserved, charged)
    BY <1>2, <1>4, <2>1, <2>2, CoversGrows
  <2>. DEFINE after == [charged EXCEPT ![reserved.date] = @ + Cost(n)]
  <2>4. Covers(reserved, after) /\ \A d \in Days : after[d] <= DailyCost
    <3>. HIDE DEF reserved, b
    <3>. QED  BY <1>2, <1>3, <1>4, <2>1, CoversCharge
  <2>. HIDE DEF reserved, o, cmd
  <2>. QED  BY <1>8, <2>3, <2>4
<1>10. Sound(o, j, cmd, "slaughter")
  <2>1. Busy(o) /\ "slaughter" = StageOf(j)
    BY <1>5 DEF Busy, StageOf
  <2>. QED  BY <1>5, <1>6, <1>7, <1>9, <2>1 DEF Sound, Stages, Kinds
<1>. QED  BY <1>1, <1>10, CommitCore DEF Inv

(* A job that moves on under its own record.                               *)
LEMMA MovesOnSound ==
  ASSUME Inv, job # NoJob, ~BookkeepingChanged,
         NEW j \in Jobs, j.budget = job.budget,
         NEW cmd \in Orders, cmd = Nothing \/ StageOf(j) # "slaughter"
  PROVE  Sound(Marked(opts, j.phase), j, cmd, StageOf(j))
<1>1. Covers(opts.daily, charged) /\ opts.daily = job.budget
  BY MemoryAgrees DEF Inv
<1>2. j.phase \in Phases /\ StageOf(j) \in Stages
  BY DEF Jobs, StageOf, Stages, Kinds
<1>3. /\ Marked(opts, j.phase) \in Options
      /\ Marked(opts, j.phase).daily = opts.daily
      /\ Busy(Marked(opts, j.phase))
  BY <1>2, OptionsFacts DEF Inv, Types, Busy, Phases
<1>. QED  BY <1>1, <1>2, <1>3, QuietIsSound DEF Inv

LEMMA EnteringFacts ==
  ASSUME NEW j \in Jobs, NEW p \in Phases
  PROVE  Entering(j, p) \in Jobs /\ Entering(j, p).phase = p /\ Entering(j, p).budget = j.budget
BY DEF Entering, Jobs

LEMMA BuyCore == ASSUME Inv, TickBuys PROVE ClientTypes' /\ Core'
<1>. DEFINE j == Entering(CullForgotten, "await_pending")
            cmd == <<[kind |-> "buy", count |-> job.count, market |-> job.market]>>
<1>1. job # NoJob /\ ~BookkeepingChanged /\ Commit(Marked(opts, "await_pending"), j, cmd, "buy")
  BY DEF TickBuys, Working, NoJob
<1>2. job \in Jobs
  BY <1>1 DEF Inv, Types
<1>3. CullForgotten \in Jobs /\ CullForgotten.budget = job.budget
  BY <1>2 DEF CullForgotten, Jobs
<1>4. j \in Jobs /\ j.phase = "await_pending" /\ j.budget = job.budget
  BY <1>3, EnteringFacts DEF Phases
<1>5. cmd \in Orders
  BY <1>2 DEF Orders, Commands, Kinds, Jobs
<1>6. StageOf(j) = "buy"
  BY <1>4 DEF StageOf
<1>. HIDE DEF j, cmd
<1>7. Sound(Marked(opts, "await_pending"), j, cmd, "buy")
  BY <1>1, <1>4, <1>5, <1>6, MovesOnSound
<1>. QED  BY <1>1, <1>7, CommitCore DEF Inv

LEMMA AwaitDeliveryCore == ASSUME Inv, TickAwaitsDelivery PROVE ClientTypes' /\ Core'
<1>. DEFINE j == Entering(job, "await_delivery")
<1>1. /\ job # NoJob /\ ~BookkeepingChanged /\ job.phase = "await_pending"
      /\ Commit(Marked(opts, "await_delivery"), j, Nothing, unsettled)
  BY DEF TickAwaitsDelivery, Working, NoJob
<1>2. job \in Jobs /\ unsettled = "buy"
  BY <1>1, MemoryAgrees DEF Inv, StageOf
<1>3. j \in Jobs /\ j.phase = "await_delivery" /\ j.budget = job.budget /\ StageOf(j) = "buy"
  BY <1>2, EnteringFacts DEF Phases, StageOf
<1>. HIDE DEF j
<1>4. Sound(Marked(opts, "await_delivery"), j, Nothing, unsettled)
  BY <1>1, <1>2, <1>3, MovesOnSound DEF Orders
<1>. QED  BY <1>1, <1>4, CommitCore DEF Inv

LEMMA RestCore == ASSUME Inv, TickRests PROVE ClientTypes' /\ Core'
<1>. DEFINE j == Entering(job, "cooldown")
<1>1. /\ job # NoJob /\ ~BookkeepingChanged /\ job.phase = "await_delivery"
      /\ Commit(Marked(opts, "cooldown"), j, Nothing, unsettled)
  BY DEF TickRests, Working, NoJob
<1>2. job \in Jobs /\ unsettled = "buy"
  BY <1>1, MemoryAgrees DEF Inv, StageOf
<1>3. j \in Jobs /\ j.phase = "cooldown" /\ j.budget = job.budget /\ StageOf(j) = "buy"
  BY <1>2, EnteringFacts DEF Phases, StageOf
<1>. HIDE DEF j
<1>4. Sound(Marked(opts, "cooldown"), j, Nothing, unsettled)
  BY <1>1, <1>2, <1>3, MovesOnSound DEF Orders
<1>. QED  BY <1>1, <1>4, CommitCore DEF Inv

LEMMA CompleteCore == ASSUME Inv, TickCompletes PROVE ClientTypes' /\ Core'
<1>1. ~BookkeepingChanged /\ Commit(Marked(opts, "none"), NoJob, Nothing, "none")
  BY DEF TickCompletes, Working
<1>2. Marked(opts, "none") \in Options /\ Covers(Marked(opts, "none").daily, charged)
  BY <1>1, MemoryAgrees, OptionsFacts DEF Inv, Types
<1>3. Sound(Marked(opts, "none"), NoJob, Nothing, "none")
  BY <1>2, EndIsSound DEF Inv
<1>. QED  BY <1>1, <1>3, CommitCore DEF Inv

LEMMA WaitCore == ASSUME Inv, TickWaits PROVE ClientTypes' /\ Core'
<1>. DEFINE j == [job EXCEPT !.post = IF job.phase = "await_cull" THEN PostStats ELSE @]
<1>1. job # NoJob /\ ~BookkeepingChanged /\ Commit(opts, j, Nothing, unsettled)
  BY DEF TickWaits, Working, NoJob
<1>2. /\ job \in Jobs /\ unsettled = StageOf(job) /\ Busy(opts)
      /\ opts.daily = job.budget /\ Covers(opts.daily, charged)
  BY <1>1, MemoryAgrees DEF Inv
<1>3. PostStats \in Grades \cup {0}
  BY <1>2 DEF PostStats, Inv, Types, Records, Jobs
<1>4. j \in Jobs /\ j.phase = job.phase /\ j.budget = job.budget
  BY <1>2, <1>3 DEF Jobs
<1>5. StageOf(j) = unsettled
  BY <1>2, <1>4 DEF StageOf
<1>. HIDE DEF j
<1>6. Sound(opts, j, Nothing, unsettled)
  BY <1>2, <1>4, <1>5, QuietIsSound DEF Inv, Types, Orders, Stages
<1>. QED  BY <1>1, <1>6, CommitCore DEF Inv

LEMMA IdleCore == ASSUME Inv, TickIdles PROVE ClientTypes' /\ Core'
<1>1. ~BookkeepingChanged /\ Commit(Recover(opts, job), NoJob, Nothing, unsettled)
  BY DEF TickIdles, BookkeepingChanged
<1>2. /\ Recover(opts, job) \in Options /\ Covers(Recover(opts, job).daily, charged)
      /\ unsettled # "none" => Busy(Recover(opts, job))
  BY <1>1, MemoryAgrees, OptionsFacts DEF Inv, Types
<1>3. Sound(Recover(opts, job), NoJob, Nothing, unsettled)
  BY <1>2, EndIsSound DEF Inv
<1>. QED  BY <1>1, <1>3, CommitCore DEF Inv

LEMMA PlayerSetsCore ==
  ASSUME Inv, NEW enabled \in BOOLEAN, PlayerSets(enabled)
  PROVE  ClientTypes' /\ Core'
<1>. DEFINE o == [opts EXCEPT !.enabled = enabled]
<1>1. ~BookkeepingChanged /\ Commit(o, job, Nothing, unsettled)
  BY DEF PlayerSets
<1>2. o \in Options /\ o.daily = opts.daily /\ (Busy(opts) => Busy(o))
  BY DEF Inv, Types, Options, Busy
<1>. HIDE DEF o
<1>3. Sound(o, job, Nothing, unsettled)
  BY <1>1, <1>2, MemoryAgrees, QuietIsSound DEF Inv, Types, Orders, Stages
<1>. QED  BY <1>1, <1>3, CommitCore DEF Inv

LEMMA PlayerResetsCore == ASSUME Inv, PlayerResets PROVE ClientTypes' /\ Core'
<1>1. ~BookkeepingChanged /\ Commit(Reset(opts), NoJob, Nothing, "none")
  BY DEF PlayerResets
<1>2. Reset(opts) \in Options /\ Covers(Reset(opts).daily, charged)
  BY <1>1, MemoryAgrees, OptionsFacts DEF Inv, Types
<1>3. Sound(Reset(opts), NoJob, Nothing, "none")
  BY <1>2, EndIsSound DEF Inv
<1>. QED  BY <1>1, <1>3, CommitCore DEF Inv

LEMMA TickCore == ASSUME Inv, Tick PROVE ClientTypes' /\ Core'
BY RestoreCore, HaltCore, BeginCore, BuyCore, AwaitDeliveryCore, RestCore, CompleteCore,
   WaitCore, IdleCore DEF Tick

(***************************************************************************)
(* The rest of the world leaves options, marker and charges alone, except  *)
(* for an edit of the options and a restart.                               *)
(***************************************************************************)
LEMMA SameJobCore ==
  ASSUME Inv, UNCHANGED <<opts, disk, observed>>, wire' \in Seq(Commands),
         \/ UNCHANGED job
         \/ job # NoJob /\ job' \in Jobs /\ job'.phase = job.phase /\ job'.budget = job.budget
  PROVE  ClientTypes' /\ Core'
<1>1. ClientTypes'
  BY DEF ClientTypes, Inv, Types, observed, Stages
<1>2. (job' # NoJob) = (job # NoJob)
  BY JobsAreJobs
<1>3. job # NoJob => StageOf(job') = StageOf(job) /\ job'.budget = job.budget
  BY DEF StageOf
<1>. QED
  BY <1>1, <1>2, <1>3
  DEF Inv, Core, Remembered, Covered, ExposureWithinAllowance, observed, Busy

LEMMA EditCore == ASSUME Inv, OptionsEdited PROVE ClientTypes' /\ Core'
<1>1. job # NoJob /\ UNCHANGED <<disk, job, wire, observed>>
  BY DEF OptionsEdited
<1>2. opts' \in Options
  <2>1. opts \in Options /\ 0 \in 0 .. DailyCost
    BY DailyFacts DEF Inv, Types
  <2>2. opts' = [opts EXCEPT !.in_flight = "none"] \/ opts' = [opts EXCEPT !.daily.spent = 0]
    BY DEF OptionsEdited
  <2>. QED  BY <2>1, <2>2 DEF Options, Daily
<1>. QED
  BY <1>1, <1>2
  DEF Inv, Types, ClientTypes, Stages, Core, Remembered, Covered, ExposureWithinAllowance,
      observed, Busy

LEMMA RestartCore == ASSUME Inv, Restarts PROVE ClientTypes' /\ Core'
<1>1. /\ opts' = Recover(disk, NoJob) /\ job' = NoJob
      /\ UNCHANGED <<disk, wire, observed>>
  BY DEF Restarts
<1>2. /\ Recover(disk, NoJob) \in Options /\ Recover(disk, NoJob).daily = disk.daily
      /\ Busy(disk) => Busy(Recover(disk, NoJob))
  BY OptionsFacts DEF Inv, Types
<1>. QED
  BY <1>1, <1>2
  DEF Inv, Types, ClientTypes, Stages, Core, Remembered, Covered, ExposureWithinAllowance,
      observed

LEMMA DisconnectCore == ASSUME Inv, Disconnects PROVE ClientTypes' /\ Core'
<1>1. wire' \in Seq(Commands)
  <2>1. \A S : <<>> \in Seq(S)
    OBVIOUS
  <2>. QED  BY <2>1 DEF Disconnects, Inv, Types
<1>2. UNCHANGED <<opts, disk, observed>>
  BY DEF Disconnects
<1>3. \/ UNCHANGED job
      \/ job # NoJob /\ job' \in Jobs /\ job'.phase = job.phase /\ job'.budget = job.budget
  BY DEF Disconnects, JobLearns, Inv, Types, Jobs
<1>. QED  BY <1>1, <1>2, <1>3, SameJobCore

LEMMA ClockCore ==
  ASSUME Inv, ClockTurnsBack \/ ClockCatchesUp \/ DeadlinePasses
  PROVE  ClientTypes' /\ Core'
<1>1. wire' \in Seq(Commands) /\ UNCHANGED <<opts, disk, observed>>
  BY DEF ClockTurnsBack, ClockCatchesUp, DeadlinePasses, Inv, Types
<1>2. \/ UNCHANGED job
      \/ job # NoJob /\ job' \in Jobs /\ job'.phase = job.phase /\ job'.budget = job.budget
  BY DEF ClockTurnsBack, ClockCatchesUp, DeadlinePasses, JobLearns, Inv, Types, Jobs
<1>. QED  BY <1>1, <1>2, SameJobCore

LEMMA WorldCore ==
  ASSUME Inv, \/ Reconnects \/ MidnightPasses \/ ReceiptsAge
              \/ \E k \in Keys : Reports(k)
              \/ ServerTakes \/ Delivers \/ QueueFinishes \/ Interferes
              \/ UNCHANGED vars
  PROVE  ClientTypes' /\ Core'
<1>1. UNCHANGED <<opts, disk, job, observed>>
  BY DEF Reconnects, MidnightPasses, ReceiptsAge, Reports, ServerTakes, Delivers, QueueFinishes,
         Interferes, vars, client, observed
<1>2. wire' \in Seq(Commands)
  <2>1. wire' = wire \/ (wire # <<>> /\ wire' = Tail(wire))
    BY DEF Reconnects, MidnightPasses, ReceiptsAge, Reports, ServerTakes, Delivers,
           QueueFinishes, Interferes, vars
  <2>2. \A S : \A q \in Seq(S) : q # <<>> => Tail(q) \in Seq(S)
    OBVIOUS
  <2>. QED  BY <2>1, <2>2 DEF Inv, Types
<1>. QED  BY <1>1, <1>2, SameJobCore

LEMMA NextCore == ASSUME Inv, [Next]_vars PROVE ClientTypes' /\ Core'
BY TickCore, PlayerSetsCore, PlayerResetsCore, EditCore, RestartCore, DisconnectCore, ClockCore,
   WorldCore DEF Next

(***************************************************************************)
(* The types of what the client sees and of the game.                      *)
(***************************************************************************)
WorldTypes == /\ seen \in Records /\ receipt \in Receipts
              /\ today \in Days
              /\ pen \in Animals /\ pending \in Seq(Counts)
              /\ queue \in QueueStates /\ market \in BOOLEAN
              /\ slain \in BOOLEAN

LEMMA UnseenTypes == /\ Unseen \in Records
                     /\ [k \in Keys |-> "stale"] \in Receipts
                     /\ Baseline \in Receipts
<1>1. \A S : <<>> \in Seq(S)
  OBVIOUS
<1>. QED
  BY <1>1 DEF Unseen, Records, QueueStates, Receipts, Baseline

LEMMA CommitsKeepWorld ==
  ASSUME Inv, \/ Tick \/ PlayerResets \/ \E enabled \in BOOLEAN : PlayerSets(enabled)
  PROVE  WorldTypes' /\ UNCHANGED <<seen, queue, slain>> /\ receipt' \in {receipt, Baseline}
<1>1. UNCHANGED <<seen, today, server, slain>> /\ receipt' \in {receipt, Baseline}
  BY DEF Tick, TickRestores, TickHalts, TickBegins, TickBuys, TickAwaitsDelivery, TickRests,
         TickCompletes, TickWaits, TickIdles, PlayerResets, PlayerSets, receipts
<1>. QED  BY <1>1, UnseenTypes DEF server, WorldTypes, Inv, Types

LEMMA ReportTypes == ASSUME Inv, NEW k \in Keys, Reports(k) PROVE WorldTypes'
<1>1. UNCHANGED <<today, server>> /\ slain' \in BOOLEAN
  BY DEF Reports
<1>2. receipt' \in Receipts
  BY DEF Reports, Receipts, Inv, Types
<1>3. seen' \in Records
  <2>1. CASE k = "herds"
    <3>1. seen' = [seen EXCEPT !.herds = [head |-> pen.head, stats |-> pen.stats,
                                          pending |-> pending # <<>>]]
      BY <2>1 DEF Reports
    <3>. QED  BY <3>1 DEF Records, Animals, Inv, Types
  <2>2. CASE k = "pending"
    <3>1. seen' = [seen EXCEPT !.pending = pending]
      BY <2>2 DEF Reports
    <3>. QED  BY <3>1 DEF Records, Inv, Types
  <2>3. CASE k = "bqueue"
    <3>1. seen' = [seen EXCEPT !.bqueue = queue]
      BY <2>3 DEF Reports
    <3>. QED  BY <3>1 DEF Records, Inv, Types
  <2>4. CASE k = "market"
    <3>1. seen' = [seen EXCEPT !.market = market]
      BY <2>4 DEF Reports
    <3>. QED  BY <3>1 DEF Records, Inv, Types
  <2>. QED  BY <2>1, <2>2, <2>3, <2>4 DEF Keys
<1>. QED  BY <1>1, <1>2, <1>3 DEF server, WorldTypes, Inv, Types

(* What happens in the game.                                               *)
GameTypes == /\ pen \in Animals /\ pending \in Seq(Counts)
             /\ queue \in QueueStates /\ market \in BOOLEAN
             /\ slain \in BOOLEAN

LEMMA SlaughterTypes ==
  ASSUME Inv, NEW n \in Counts, Slaughtered(n)
  PROVE  GameTypes' /\ slain'
BY DEF Slaughtered, Queues, QueueStates, Animals, GameTypes, Inv, Types, Counts

LEMMA SaleTypes ==
  ASSUME Inv, NEW n \in Counts, Sold(n)
  PROVE  GameTypes' /\ UNCHANGED <<queue, slain>>
<1>1. Append(pending, n) \in Seq(Counts)
  BY DEF Inv, Types
<1>. QED  BY <1>1 DEF Sold, GameTypes, Inv, Types

LEMMA ServerTypes == ASSUME Inv, ServerTakes PROVE GameTypes' /\ (UNCHANGED <<queue, slain>> \/ slain')
<1>1. Head(wire).count \in Counts
  <2>1. wire \in Seq(Commands) /\ wire # <<>>
    BY DEF ServerTakes, Inv, Types
  <2>2. Head(wire) \in Commands
    BY <2>1
  <2>. QED  BY <2>2 DEF Commands
<1>2. CASE Slaughtered(Head(wire).count)
  BY <1>1, <1>2, SlaughterTypes
<1>3. CASE Sold(Head(wire).count)
  BY <1>1, <1>3, SaleTypes
<1>4. CASE UNCHANGED <<server, slain>>
  BY <1>4 DEF server, GameTypes, Inv, Types
<1>. QED  BY <1>2, <1>3, <1>4 DEF ServerTakes

(* Meat of this species appears in no slot, unless the observation knows.  *)
NoUnknownMeat == slain' \/ (slain' = slain /\ \A s \in Slots : queue'[s] = "ours" => queue[s] = "ours")

LEMMA InterferenceTypes == ASSUME Inv, Interferes PROVE GameTypes' /\ NoUnknownMeat
<1>. 1 \in Counts
  BY HerdAssumption DEF Counts
<1>1. CASE Slaughtered(1)
  BY <1>1, SlaughterTypes DEF NoUnknownMeat
<1>2. CASE Sold(1)
  BY <1>2, SaleTypes DEF NoUnknownMeat
<1>3. CASE market' = ~market /\ UNCHANGED <<pen, pending, queue, slain>>
  BY <1>3 DEF GameTypes, Inv, Types, NoUnknownMeat
<1>4. CASE Queues("other") /\ UNCHANGED <<pen, pending, market, slain>>
  <2>1. PICK s \in Slots : queue' = [queue EXCEPT ![s] = "other"]
    BY <1>4 DEF Queues
  <2>. QED  BY <1>4, <2>1 DEF GameTypes, Inv, Types, QueueStates, NoUnknownMeat
<1>5. CASE \E g \in Grades : \E h \in {pen.head - 1, pen.head + 1} :
             pen' = [head |-> h, stats |-> g] /\ UNCHANGED <<pending, queue, market, slain>>
  BY <1>5 DEF GameTypes, Inv, Types, Animals, NoUnknownMeat
<1>. QED  BY <1>1, <1>2, <1>3, <1>4, <1>5 DEF Interferes

LEMMA WorkTypes == ASSUME Inv, Delivers \/ QueueFinishes PROVE GameTypes' /\ NoUnknownMeat
<1>1. CASE Delivers
  <2>1. Head(pending) \in Counts /\ Tail(pending) \in Seq(Counts)
    BY <1>1 DEF Delivers, Inv, Types
  <2>2. pen' \in Animals
    <3>1. \A n \in Counts : [pen EXCEPT !.head = @ + n] \in Animals
      BY DEF Counts, Inv, Types, Animals
    <3>. QED  BY <1>1, <2>1, <3>1 DEF Delivers
  <2>. QED  BY <1>1, <2>1, <2>2 DEF Delivers, GameTypes, Inv, Types, NoUnknownMeat
<1>2. CASE QueueFinishes
  <2>1. PICK s \in Slots : queue' = [queue EXCEPT ![s] = "empty"]
    BY <1>2 DEF QueueFinishes
  <2>. QED  BY <1>2, <2>1 DEF QueueFinishes, GameTypes, Inv, Types, QueueStates, NoUnknownMeat
<1>. QED  BY <1>1, <1>2

(***************************************************************************)
(* What the queue's receipts prove.                                        *)
(***************************************************************************)
(* The job's slots matter only while it waits for the cull.                *)
Culling == job # NoJob /\ job.phase = "await_cull"
SlotsKept == Culling' => Culling /\ job'.slots = job.slots

LEMMA CommitEvident ==
  ASSUME Inv, Tick \/ PlayerResets \/ \E enabled \in BOOLEAN : PlayerSets(enabled)
  PROVE  Evident'
<1>1. UNCHANGED <<seen, queue, slain>> /\ receipt' \in {receipt, Baseline}
  BY CommitsKeepWorld
<1>2. Fresh("bqueue")' => Fresh("bqueue")
  BY <1>1 DEF Fresh, Baseline, Keys
<1>3. Fresh("bqueue")' =>
        \A s \in Slots : queue'[s] = "ours" /\ seen'.bqueue[s] = "empty" => slain'
  BY <1>1, <1>2 DEF Inv, Evident
<1>4. ASSUME Culling'
      PROVE  \A s \in Slots \ job'.slots : queue'[s] = "ours" \/ seen'.bqueue[s] = "ours" => slain'
  <2>1. CASE SlotsKept
    BY <1>1, <1>4, <2>1 DEF SlotsKept, Culling, Inv, Evident
  <2>2. CASE \E n \in Counts : TickBegins(n)
    <3>1. job' # NoJob
      BY <1>4 DEF Culling
    <3>2. job'.slots = {s \in Slots : seen.bqueue[s] # "empty"}
      BY <2>2, <3>1 DEF TickBegins, Commit
    <3>3. Fresh("bqueue")
      BY <2>2 DEF TickBegins, MayPropose, Keys
    <3>. QED  BY <1>1, <3>2, <3>3 DEF Inv, Evident
  <2>3. CASE TickBuys \/ TickAwaitsDelivery \/ TickRests
    <3>1. CASE job' = NoJob
      BY <1>4, <3>1 DEF Culling
    <3>2. CASE job' # NoJob
      <4>1. job'.phase # "await_cull"
        <5>1. job \in Jobs
          BY <2>3, JobsAreJobs DEF TickBuys, TickAwaitsDelivery, TickRests, Working, NoJob, Inv, Types
        <5>2. CullForgotten \in Jobs
          BY <5>1 DEF CullForgotten, Jobs
        <5>3. \A p \in Phases : /\ Entering(CullForgotten, p).phase = p
                              /\ Entering(job, p).phase = p
          BY <5>1, <5>2, EnteringFacts
        <5>. QED
          BY <2>3, <3>2, <5>3
          DEF TickBuys, TickAwaitsDelivery, TickRests, Commit, Phases
      <4>. QED  BY <1>4, <4>1 DEF Culling
    <3>. QED  BY <3>1, <3>2
  <2>4. CASE TickWaits
    <3>1. job \in Jobs
      BY <2>4, JobsAreJobs DEF TickWaits, Working, NoJob, Inv, Types
    <3>2. job' = NoJob \/ job' = [job EXCEPT !.post = IF job.phase = "await_cull" THEN PostStats ELSE @]
      BY <2>4 DEF TickWaits, Commit
    <3>3. SlotsKept
      BY <3>1, <3>2, JobsAreJobs DEF SlotsKept, Culling, Jobs
    <3>. QED  BY <2>1, <3>3
  <2>5. CASE \/ TickRestores \/ TickHalts \/ TickCompletes \/ TickIdles \/ PlayerResets
             \/ \E enabled \in BOOLEAN : PlayerSets(enabled)
    <3>1. job' \in {NoJob, job}
      BY <2>5
      DEF TickRestores, TickHalts, TickCompletes, TickIdles, PlayerResets, PlayerSets, Commit
    <3>. QED  BY <1>4, <2>1, <3>1 DEF SlotsKept, Culling
  <2>. QED  BY <2>2, <2>3, <2>4, <2>5 DEF Tick
<1>. QED  BY <1>3, <1>4 DEF Evident, Culling

(* When the records are dropped, only the queue itself can show meat.      *)
LEMMA UnprovenEvident ==
  ASSUME Inv, Unproven, UNCHANGED <<queue, slain>>, SlotsKept
  PROVE  Evident'
<1>1. ~Fresh("bqueue")'
  BY DEF Unproven, Fresh, Keys
<1>2. \A s \in Slots : seen'.bqueue[s] = "empty"
  BY DEF Unproven, Unseen
<1>. QED  BY <1>1, <1>2 DEF Inv, Evident, SlotsKept, Culling

LEMMA GameEvident ==
  ASSUME Inv, NoUnknownMeat, UNCHANGED <<seen, receipt>>, SlotsKept
  PROVE  Evident'
BY DEF Inv, Evident, NoUnknownMeat, SlotsKept, Culling, Fresh

LEMMA ReportEvident == ASSUME Inv, NEW k \in Keys, Reports(k) PROVE Evident'
<1>1. UNCHANGED <<job, queue>>
  BY DEF Reports, client, server
<1>2. CASE k = "bqueue"
  <2>1. seen'.bqueue = queue
    BY <1>2 DEF Reports, Inv, Types, Records
  <2>2. slain' = (slain /\ job # NoJob)
    BY <1>2 DEF Reports
  <2>. QED  BY <1>1, <2>1, <2>2 DEF Inv, Evident
<1>3. CASE k # "bqueue"
  <2>1. seen'.bqueue = seen.bqueue
    BY <1>3 DEF Reports, Inv, Types, Records, Keys
  <2>2. slain' = slain
    BY <1>3 DEF Reports, Inv, Types
  <2>3. Fresh("bqueue")' => Fresh("bqueue")
    BY <1>3 DEF Reports, Fresh, Inv, Types, Receipts, Keys
  <2>. QED  BY <1>1, <2>1, <2>2, <2>3 DEF Inv, Evident
<1>. QED  BY <1>2, <1>3

LEMMA NextWorld == ASSUME Inv, [Next]_vars PROVE WorldTypes' /\ Evident'
<1>1. CASE Tick \/ PlayerResets \/ \E enabled \in BOOLEAN : PlayerSets(enabled)
  BY <1>1, CommitsKeepWorld, CommitEvident
<1>2. CASE OptionsEdited \/ Reconnects \/ MidnightPasses \/ ClockCatchesUp \/ UNCHANGED vars
  <2>1. UNCHANGED <<receipts, server, slain>> /\ today' \in Days
    BY <1>2 DEF OptionsEdited, Reconnects, MidnightPasses, ClockCatchesUp, vars, receipts, server,
                Inv, Types
  <2>2. SlotsKept
    BY <1>2 DEF OptionsEdited, Reconnects, MidnightPasses, ClockCatchesUp, vars, client,
                SlotsKept, Culling, Inv, Types, Jobs
  <2>. QED
    BY <2>1, <2>2, GameEvident
    DEF receipts, server, WorldTypes, Inv, Types, NoUnknownMeat
<1>3. CASE Restarts \/ Disconnects \/ ClockTurnsBack \/ ReceiptsAge
  <2>1. Unproven /\ UNCHANGED <<server, slain>> /\ today' \in Days
    BY <1>3 DEF Restarts, Disconnects, ClockTurnsBack, ReceiptsAge, Inv, Types
  <2>2. SlotsKept
    BY <1>3, JobsAreJobs
    DEF Restarts, Disconnects, ClockTurnsBack, ReceiptsAge, client, JobLearns,
        SlotsKept, Culling, Inv, Types, Jobs
  <2>. QED
    BY <2>1, <2>2, UnprovenEvident, UnseenTypes DEF Unproven, server, WorldTypes, Inv, Types
<1>4. CASE DeadlinePasses
  <2>1. UNCHANGED <<receipts, server, slain, today>>
    BY <1>4 DEF DeadlinePasses
  <2>2. SlotsKept
    BY <1>4, JobsAreJobs DEF DeadlinePasses, SlotsKept, Culling, Inv, Types, Jobs
  <2>. QED
    BY <2>1, <2>2, GameEvident
    DEF receipts, server, WorldTypes, Inv, Types, NoUnknownMeat
<1>5. CASE \E k \in Keys : Reports(k)
  BY <1>5, ReportTypes, ReportEvident
<1>6. CASE ServerTakes \/ Delivers \/ QueueFinishes \/ Interferes
  <2>1. GameTypes' /\ NoUnknownMeat
    BY <1>6, ServerTypes, WorkTypes, InterferenceTypes DEF NoUnknownMeat
  <2>2. UNCHANGED <<client, receipts, today>>
    BY <1>6 DEF ServerTakes, Delivers, QueueFinishes, Interferes
  <2>3. SlotsKept
    BY <2>2 DEF client, SlotsKept, Culling
  <2>. QED
    BY <2>1, <2>2, <2>3, GameEvident DEF receipts, GameTypes, WorldTypes, Inv, Types
<1>. QED  BY <1>1, <1>2, <1>3, <1>4, <1>5, <1>6 DEF Next

(***************************************************************************)
(* The theorems.                                                           *)
(***************************************************************************)
LEMMA InvInit == Init => Inv
<1>. SUFFICES ASSUME Init PROVE Inv
  OBVIOUS
<1>1. opts \in Options /\ opts.daily = [date |-> today, spent |-> 0] /\ today \in Days
  BY DailyFacts DEF Init, Options, Daily
<1>2. Types
  <2>1. \A S : <<>> \in Seq(S)
    OBVIOUS
  <2>2. pen \in Animals
    BY HerdAssumption DEF Init, Animals
  <2>. QED
    BY <1>1, <2>1, <2>2, UnseenTypes DEF Init, Types, QueueStates
<1>3. Core
  BY <1>1, DailyFacts DEF Init, Core, Remembered, Covered, Covers, ExposureWithinAllowance
<1>4. Evident
  BY DEF Init, Evident, Fresh, Keys
<1>. QED  BY <1>2, <1>3, <1>4 DEF Inv

LEMMA InvNext == Inv /\ [Next]_vars => Inv'
<1>. SUFFICES ASSUME Inv, [Next]_vars PROVE Inv'
  OBVIOUS
<1>. QED  BY NextCore, NextWorld DEF Inv, Types, ClientTypes, WorldTypes, Stages

(* The inductive invariant: what the disk, the memory and the job know of  *)
(* the last command and of the money at risk.                              *)
THEOREM HerdInvariant == Spec => []Inv
BY InvInit, InvNext, PTL DEF Spec

(* No command that may have been obeyed is ever forgotten, on the disk or  *)
(* in memory, whatever saves and sends fail and whenever the client stops. *)
THEOREM NothingForgotten == Spec => []NeverForgotten
<1>1. Inv => NeverForgotten
  BY DEF Inv, Core, Remembered, NeverForgotten
<1>. QED  BY <1>1, HerdInvariant, PTL

(* The money put at risk stays within each day's allowance.                *)
THEOREM ExposureBounded == Spec => []ExposureWithinAllowance
<1>1. Inv => ExposureWithinAllowance
  BY DEF Inv, Core, Covered
<1>. QED  BY <1>1, HerdInvariant, PTL

(* Only the two commands and the settling of a job change what is          *)
(* observed, in whatever way their save or send fails.                     *)
LEMMA ObservedSteps ==
  ASSUME Inv, [Next]_vars
  PROVE  \/ UNCHANGED observed
         \/ unsettled' = "none" /\ UNCHANGED charged
         \/ \E n \in Counts : /\ TickBegins(n) /\ unsettled' = "slaughter"
                             /\ charged' = [charged EXCEPT ![Budget(opts).date] = @ + Cost(n)]
         \/ TickBuys /\ unsettled' = "buy" /\ UNCHANGED charged
<1>1. ASSUME NEW o, NEW j, NEW outcome \in {unsettled, "none"}, Commit(o, j, Nothing, outcome)
      PROVE  UNCHANGED observed \/ (unsettled' = "none" /\ UNCHANGED charged)
  BY <1>1 DEF Commit, Obliges, Charge, observed
<1>2. ASSUME NEW n \in Counts, TickBegins(n)
      PROVE  \/ UNCHANGED observed
             \/ /\ unsettled' = "slaughter"
                /\ charged' = [charged EXCEPT ![Budget(opts).date] = @ + Cost(n)]
  <2>. DEFINE b == Budget(opts)
              reserved == [b EXCEPT !.spent = @ + Cost(n)]
              o == Marked([opts EXCEPT !.daily = reserved], "await_cull")
              j == [phase |-> "await_cull", count |-> n, stats |-> seen.herds.stats, post |-> 0,
                    slots |-> {s \in Slots : seen.bqueue[s] # "empty"}, market |-> seen.market,
                    budget |-> reserved, same_epoch |-> TRUE, overdue |-> FALSE, behind |-> FALSE]
              cmd == <<[kind |-> "slaughter", count |-> n, market |-> seen.market]>>
  <2>1. Commit(o, j, cmd, "slaughter")
    BY <1>2 DEF TickBegins
  <2>2. o.daily.date = b.date
    <3>1. b \in [date : Days, spent : 0 .. DailyCost]
      BY DailyFacts DEF Budget, Inv, Types, Options, Daily
    <3>2. reserved.date = b.date
      BY <3>1
    <3>3. o.daily = reserved
      BY DEF Marked, Inv, Types, Options
    <3>. HIDE DEF reserved, o, b
    <3>. QED  BY <3>2, <3>3
  <2>3. cmd # Nothing /\ cmd[1].count = n
    BY DEF Nothing
  <2>4. Charge(o, cmd, "slaughter") = [charged EXCEPT ![b.date] = @ + Cost(n)]
    BY <2>2, <2>3 DEF Charge
  <2>. HIDE DEF o, j, cmd
  <2>. QED  BY <2>1, <2>4 DEF Commit, Obliges, observed
<1>3. ASSUME TickBuys
      PROVE  UNCHANGED observed \/ (unsettled' = "buy" /\ UNCHANGED charged)
  BY <1>3 DEF TickBuys, Commit, Obliges, Charge, observed
<1>4. CASE \/ TickRestores \/ TickHalts \/ TickAwaitsDelivery \/ TickRests \/ TickCompletes
           \/ TickWaits \/ TickIdles \/ PlayerResets
           \/ \E enabled \in BOOLEAN : PlayerSets(enabled)
  <2>1. \E o, j : \E outcome \in {unsettled, "none"} : Commit(o, j, Nothing, outcome)
    BY <1>4
    DEF TickRestores, TickHalts, TickAwaitsDelivery, TickRests, TickCompletes, TickWaits,
        TickIdles, PlayerResets, PlayerSets
  <2>. QED  BY <1>1, <2>1
<1>5. CASE \/ OptionsEdited \/ Restarts \/ Disconnects \/ Reconnects \/ MidnightPasses
           \/ ClockTurnsBack \/ ClockCatchesUp \/ DeadlinePasses \/ ReceiptsAge
           \/ \E k \in Keys : Reports(k)
           \/ ServerTakes \/ Delivers \/ QueueFinishes \/ Interferes \/ UNCHANGED vars
  BY <1>5
  DEF OptionsEdited, Restarts, Disconnects, Reconnects, MidnightPasses, ClockTurnsBack,
      ClockCatchesUp, DeadlinePasses, ReceiptsAge, Reports, ServerTakes, Delivers, QueueFinishes,
      Interferes, vars, observed
<1>. QED  BY <1>2, <1>3, <1>4, <1>5 DEF Next, Tick

(* One slaughter, at most one purchase, each charged before it is sent:    *)
(* every step is one of the saga's, or none.                               *)
THEOREM ImplementsSaga == Spec => SagaImplemented
<1>1. Init => Promise!Init
  BY DEF Init, Promise!Init
<1>2. ASSUME Inv, Inv', [Next]_vars
      PROVE  [Promise!Next]_(Promise!vars)
  <2>1. CASE UNCHANGED observed
    BY <2>1 DEF observed, Promise!vars
  <2>2. CASE unsettled' = "none" /\ UNCHANGED charged
    BY <2>2 DEF Promise!Next, Promise!Settle
  <2>3. ASSUME NEW n \in Counts, TickBegins(n), unsettled' = "slaughter",
               charged' = [charged EXCEPT ![Budget(opts).date] = @ + Cost(n)]
        PROVE  Promise!Slaughter
    <3>. DEFINE d == Budget(opts).date
                total == charged[d] + Cost(n)
    <3>1. unsettled = "none"
      BY <1>2, <2>3 DEF TickBegins, Inv, Core, Remembered
    <3>2. d \in Days
      BY <1>2 DEF Budget, Inv, Types, Options, Daily
    <3>3. charged \in [Days -> Nat] /\ Cost(n) \in Nat
      BY <1>2, CostIsNat DEF Inv, Types
    <3>4. charged' = [charged EXCEPT ![d] = total] /\ charged'[d] = total
      BY <2>3, <3>2, <3>3
    <3>5. total \in 0 .. DailyCost /\ total >= charged[d]
      <4>1. charged'[d] <= DailyCost
        BY <1>2, <3>2 DEF Inv, Core, Covered, ExposureWithinAllowance
      <4>. HIDE DEF d
      <4>. QED  BY <3>2, <3>3, <3>4, <4>1, DailyFacts
    <3>. HIDE DEF d, total
    <3>. QED  BY <2>3, <3>1, <3>2, <3>4, <3>5 DEF Promise!Slaughter, Promise!Allowance
  <2>4. CASE TickBuys /\ unsettled' = "buy" /\ UNCHANGED charged
    <3>1. unsettled = "slaughter"
      BY <1>2, <2>4, MemoryAgrees DEF TickBuys, Working, NoJob, Inv, StageOf
    <3>. QED  BY <2>4, <3>1 DEF Promise!Next, Promise!Buy
  <2>. QED  BY <1>2, <2>1, <2>2, <2>3, <2>4, ObservedSteps DEF Promise!Next
<1>. QED  BY <1>1, <1>2, HerdInvariant, PTL DEF Spec, SagaImplemented, Promise!Spec

(* A purchase is only ever sent after this pen was slaughtered from, later *)
(* than the receipt its plan was made on.                                  *)
THEOREM PurchasesFollowSlaughters == Spec => BuysFollowSlaughter
<1>1. ASSUME Inv, [Next]_vars
      PROVE  [unsettled' = "buy" /\ unsettled # "buy" => slain]_vars
  <2>. SUFFICES ASSUME unsettled' = "buy", unsettled # "buy" PROVE slain
    OBVIOUS
  <2>1. TickBuys
    BY <1>1, ObservedSteps DEF observed
  <2>2. job # NoJob /\ job.phase = "await_cull" /\ CullConfirmed
    BY <2>1 DEF TickBuys, Working, NoJob
  <2>3. PICK s \in NewSlots : seen.bqueue[s] = "ours"
    BY <2>2 DEF CullConfirmed
  <2>. QED  BY <1>1, <2>2, <2>3 DEF NewSlots, Inv, Evident
<1>. QED  BY <1>1, HerdInvariant, PTL DEF Spec, BuysFollowSlaughter

(* Once a command is lost with its job, nothing is sent before the player  *)
(* has acknowledged it.                                                    *)
THEOREM SilenceInDoubt == Spec => NothingSentInDoubt
<1>1. ASSUME Inv, [Next]_vars
      PROVE  [Len(wire') > Len(wire) => job # NoJob \/ unsettled = "none"]_vars
  <2>. SUFFICES ASSUME Len(wire') > Len(wire), job = NoJob PROVE unsettled = "none"
    OBVIOUS
  <2>1. wire \in Seq(Commands) /\ wire \o Nothing = wire
    BY <1>1 DEF Inv, Types, Nothing
  <2>2. ~(wire' \in {wire, wire \o Nothing, <<>>})
    <3>1. Len(<<>>) = 0 /\ Len(wire) \in Nat
      BY <2>1
    <3>. QED  BY <2>1, <3>1
  <2>3. ~ServerTakes
    BY <2>1 DEF ServerTakes
  <2>4. ASSUME NEW o, NEW j, NEW outcome, Commit(o, j, Nothing, outcome) PROVE FALSE
    BY <2>2, <2>4 DEF Commit
  <2>5. ~(\/ TickRestores \/ TickHalts \/ TickAwaitsDelivery \/ TickRests \/ TickCompletes
          \/ TickWaits \/ TickIdles \/ PlayerResets
          \/ \E enabled \in BOOLEAN : PlayerSets(enabled))
    BY <2>4
    DEF TickRestores, TickHalts, TickAwaitsDelivery, TickRests, TickCompletes, TickWaits,
        TickIdles, PlayerResets, PlayerSets
  <2>6. ~(\/ OptionsEdited \/ Restarts \/ Disconnects \/ Reconnects \/ MidnightPasses
          \/ ClockTurnsBack \/ ClockCatchesUp \/ DeadlinePasses \/ ReceiptsAge
          \/ \E k \in Keys : Reports(k)
          \/ Delivers \/ QueueFinishes \/ Interferes \/ UNCHANGED vars)
    BY <2>2
    DEF OptionsEdited, Restarts, Disconnects, Reconnects, MidnightPasses, ClockTurnsBack,
        ClockCatchesUp, DeadlinePasses, ReceiptsAge, Reports, Delivers, QueueFinishes,
        Interferes, vars
  <2>7. ~TickBuys
    BY DEF TickBuys, Working, NoJob
  <2>8. \E n \in Counts : TickBegins(n)
    BY <1>1, <2>3, <2>5, <2>6, <2>7 DEF Next, Tick
  <2>. QED  BY <1>1, <2>8 DEF TickBegins, Inv, Core, Remembered
<1>. QED  BY <1>1, HerdInvariant, PTL DEF Spec, NothingSentInDoubt

(***************************************************************************)
(* The animals of the pen.  The library's induction rules take an operator *)
(* as a parameter; that a well-founded relation has minimal elements does  *)
(* not, and gives induction on sets of numbers.                            *)
(***************************************************************************)
Below == {ss \in Nat \X Nat : ss[1] < ss[2]}

LEMMA BelowIsWellFounded == IsWellFoundedOn(Below, Nat)
BY NatLessThanWellFounded DEF OpToRel, Below

(* A set of numbers has a least one.                                       *)
LEMMA LeastOf ==
  ASSUME NEW T \in SUBSET Nat, T # {}
  PROVE  \E x \in T : \A y \in T : x <= y
<1>1. PICK x \in T : \A y \in T : <<y, x>> \notin Below
  BY BelowIsWellFounded, WFMin
<1>2. ASSUME NEW y \in T PROVE x <= y
  <2>1. x \in Nat /\ y \in Nat
    OBVIOUS
  <2>2. <<y, x>> \notin Below
    BY <1>1
  <2>3. ~(y < x)
    BY <2>1, <2>2 DEF Below
  <2>. QED  BY <2>1, <2>3
<1>. QED  BY <1>2

(* A set that holds 0, and with each number below m the next, holds m.     *)
LEMMA CountsUp ==
  ASSUME NEW m \in Nat, NEW T, 0 \in T, \A n \in 0 .. m - 1 : n \in T => n + 1 \in T
  PROVE  \A n \in 0 .. m : n \in T
<1>. DEFINE Out == {n \in 0 .. m : n \notin T}
<1>. SUFFICES ASSUME Out # {} PROVE FALSE
  OBVIOUS
<1>0. Out \in SUBSET Nat
  OBVIOUS
<1>1. PICK x \in Out : \A y \in Out : x <= y
  BY <1>0, LeastOf
<1>2. x \in 0 .. m /\ x \notin T /\ x # 0
  OBVIOUS
<1>3. x - 1 \in 0 .. m - 1 /\ x - 1 \notin Out
  BY <1>1, <1>2
<1>4. x - 1 \in T
  BY <1>3, <1>2
<1>5. (x - 1) + 1 \in T
  BY <1>3, <1>4
<1>. QED  BY <1>5, <1>2

(* The partial sums of the first m entries.                                *)
IsSum(f, e, m) ==
  /\ f \in [0 .. m -> Nat] /\ f[0] = 0
  /\ \A n \in 1 .. m : f[n] = f[n - 1] + e[n]

(* There are such sums, so Sums is defined by its recursion.               *)
LEMMA SumExists ==
  ASSUME NEW e \in Seq(Nat)
  PROVE  \E f : IsSum(f, e, Len(e))
<1>. DEFINE T == {m \in 0 .. Len(e) : \E f : IsSum(f, e, m)}
<1>1. 0 \in T
  <2>1. IsSum([i \in 0 .. 0 |-> 0], e, 0)
    BY DEF IsSum
  <2>. QED  BY <2>1
<1>2. ASSUME NEW m \in 0 .. Len(e) - 1, m \in T PROVE m + 1 \in T
  <2>1. PICK f : IsSum(f, e, m)
    BY <1>2
  <2>2. e[m + 1] \in Nat /\ m \in Nat /\ m + 1 \in 0 .. Len(e)
    OBVIOUS
  <2>. DEFINE g == [i \in 0 .. m + 1 |-> IF i = m + 1 THEN f[m] + e[m + 1] ELSE f[i]]
  <2>3. g \in [0 .. m + 1 -> Nat] /\ g[0] = 0
    BY <2>1, <2>2 DEF IsSum
  <2>4. ASSUME NEW n \in 1 .. m + 1 PROVE g[n] = g[n - 1] + e[n]
    BY <2>1, <2>2 DEF IsSum
  <2>5. IsSum(g, e, m + 1)
    BY <2>3, <2>4 DEF IsSum
  <2>. QED  BY <2>5, <2>2
<1>3. Len(e) \in Nat
  OBVIOUS
<1>4. \A n \in 0 .. Len(e) : n \in T
  <2>. HIDE DEF T
  <2>. QED  BY <1>1, <1>2, <1>3, CountsUp
<1>. QED  BY <1>3, <1>4

LEMMA SumsSum ==
  ASSUME NEW e \in Seq(Nat)
  PROVE  IsSum(Sums(e), e, Len(e))
<1>. DEFINE Step(g) == [n \in 0 .. Len(e) |-> IF n = 0 THEN 0 ELSE g[n - 1] + e[n]]
            S == Sums(e)
<1>1. S = CHOOSE g : g = Step(g)
  BY DEF Sums
<1>2. PICK f : IsSum(f, e, Len(e))
  BY SumExists
<1>3. f = Step(f)
  BY <1>2 DEF IsSum
<1>4. S = Step(S)
  BY <1>1, <1>3
<1>5. Len(e) \in Nat
  OBVIOUS
<1>. HIDE DEF S
<1>6. S[0] = 0 /\ \A n \in 1 .. Len(e) : S[n] = S[n - 1] + e[n]
  BY <1>4, <1>5
<1>7. \A n \in 0 .. Len(e) : S[n] \in Nat
  <2>. DEFINE T == {n \in 0 .. Len(e) : S[n] \in Nat}
  <2>1. 0 \in T
    BY <1>5, <1>6
  <2>2. ASSUME NEW n \in 0 .. Len(e) - 1, n \in T PROVE n + 1 \in T
    <3>1. n + 1 \in 1 .. Len(e) /\ (n + 1) - 1 = n /\ e[n + 1] \in Nat
      BY <1>5
    <3>2. S[n + 1] = S[n] + e[n + 1]
      BY <1>6, <3>1
    <3>. QED  BY <1>5, <2>2, <3>1, <3>2
  <2>3. \A n \in 0 .. Len(e) : n \in T
    <3>. HIDE DEF T
    <3>. QED  BY <2>1, <2>2, <1>5, CountsUp
  <2>. QED  BY <2>3
<1>8. S \in [0 .. Len(e) -> Nat]
  BY <1>4, <1>7
<1>. QED  BY <1>6, <1>8 DEF IsSum, S

(* Entries that agree have the same sum.                                   *)
LEMMA SumsAgree ==
  ASSUME NEW d, NEW e, NEW m \in Nat, NEW f, NEW g, IsSum(f, d, m), IsSum(g, e, m),
         \A n \in 1 .. m : d[n] = e[n]
  PROVE  f[m] = g[m]
<1>. DEFINE T == {n \in 0 .. m : f[n] = g[n]}
<1>1. 0 \in T
  BY DEF IsSum
<1>2. ASSUME NEW n \in 0 .. m - 1, n \in T PROVE n + 1 \in T
  BY <1>2 DEF IsSum
<1>3. \A n \in 0 .. m : n \in T
  <2>. HIDE DEF T
  <2>. QED  BY <1>1, <1>2, CountsUp
<1>. QED  BY <1>3

(* What a sale and a delivery do to the total of what is pending.          *)
LEMMA TotalType == ASSUME NEW e \in Seq(Nat) PROVE Total(e) \in Nat
BY SumsSum DEF Total, IsSum

LEMMA TotalEmpty == Total(<<>>) = 0
<1>1. <<>> \in Seq(Nat) /\ Len(<<>>) = 0
  OBVIOUS
<1>2. IsSum(Sums(<<>>), <<>>, 0)
  BY <1>1, SumsSum
<1>. QED  BY <1>1, <1>2 DEF Total, IsSum

LEMMA TotalAppend ==
  ASSUME NEW e \in Seq(Nat), NEW n \in Nat
  PROVE  Total(Append(e, n)) = Total(e) + n
<1>. DEFINE a == Append(e, n)
            k == Len(e)
            f == Sums(e)
            g == Sums(a)
<1>1. a \in Seq(Nat) /\ Len(a) = k + 1 /\ a[k + 1] = n /\ k \in Nat
      /\ \A i \in 1 .. k : a[i] = e[i]
  OBVIOUS
<1>2. IsSum(f, e, k) /\ IsSum(g, a, k + 1)
  BY <1>1, SumsSum
<1>. HIDE DEF a, k, f, g
<1>. DEFINE h == [i \in 0 .. k |-> g[i]]
<1>3. IsSum(h, a, k)
  BY <1>1, <1>2 DEF IsSum
<1>4. h[k] = f[k]
  <2>. HIDE DEF h
  <2>. QED  BY <1>1, <1>2, <1>3, SumsAgree
<1>5. g[k + 1] = f[k] + n
  BY <1>1, <1>2, <1>4 DEF IsSum
<1>. QED  BY <1>1, <1>5 DEF Total, a, k, f, g

LEMMA TotalTail ==
  ASSUME NEW e \in Seq(Nat), e # <<>>
  PROVE  Total(e) = Head(e) + Total(Tail(e))
<1>. DEFINE a == Tail(e)
            k == Len(a)
            f == Sums(e)
            g == Sums(a)
<1>1. a \in Seq(Nat) /\ Len(e) = k + 1 /\ e[1] = Head(e) /\ k \in Nat /\ Head(e) \in Nat
      /\ \A i \in 1 .. k : a[i] = e[i + 1]
  OBVIOUS
<1>2. IsSum(f, e, k + 1) /\ IsSum(g, a, k)
  BY <1>1, SumsSum
<1>. HIDE DEF a, k, f, g
<1>. DEFINE h == [i \in 0 .. k |-> f[i + 1] - f[1]]
<1>3. f[1] = Head(e)
  BY <1>1, <1>2 DEF IsSum
<1>4. \A i \in 0 .. k : h[i] = g[i]
  <2>. DEFINE T == {i \in 0 .. k : h[i] = g[i]}
  <2>1. 0 \in T
    BY <1>1, <1>2 DEF IsSum
  <2>2. ASSUME NEW n \in 0 .. k - 1, n \in T PROVE n + 1 \in T
    <3>0. /\ n \in 0 .. k /\ n + 1 \in 1 .. k /\ (n + 1) - 1 = n
          /\ n + 2 \in 1 .. k + 1 /\ (n + 2) - 1 = n + 1 /\ (n + 1) + 1 = n + 2
          /\ n + 1 \in 0 .. k + 1 /\ 1 \in 0 .. k + 1
      BY <1>1
    <3>1. f[n + 1] \in Nat /\ f[n + 2] = f[n + 1] + e[n + 2] /\ f[1] \in Nat
      BY <1>1, <1>2, <3>0 DEF IsSum
    <3>2. g[n] \in Nat /\ g[n + 1] = g[n] + a[n + 1] /\ a[n + 1] = e[n + 2]
      BY <1>1, <1>2, <3>0 DEF IsSum
    <3>3. e[n + 2] \in Nat
      BY <1>1, <3>0
    <3>4. f[n + 1] - f[1] = g[n]
      BY <2>2, <3>0
    <3>5. f[n + 2] - f[1] = g[n + 1]
      BY <3>1, <3>2, <3>3, <3>4
    <3>. QED  BY <3>0, <3>5
  <2>3. \A n \in 0 .. k : n \in T
    <3>. HIDE DEF T
    <3>. QED  BY <2>1, <2>2, <1>1, CountsUp
  <2>. QED  BY <2>3
<1>5. f[k + 1] = Head(e) + g[k]
  BY <1>1, <1>2, <1>3, <1>4 DEF IsSum
<1>. QED  BY <1>1, <1>5 DEF Total, a, k, f, g

(* The connection and the mishaps.                                         *)
Counters == up \in BOOLEAN /\ mishaps \in 0 .. MaxMishaps

LEMMA CountersNext == ASSUME Counters, [Next]_vars PROVE Counters'
<1>1. CASE UNCHANGED <<up, mishaps>> \/ (up' \in BOOLEAN /\ NoMishap) \/ (up' \in BOOLEAN /\ Mishap)
  BY <1>1, HerdAssumption DEF Counters, NoMishap, Mishap
<1>2. CASE Tick \/ PlayerResets \/ \E enabled \in BOOLEAN : PlayerSets(enabled)
  <2>1. \A o, j, cmd, outcome : Commit(o, j, cmd, outcome) => NoMishap \/ Mishap
    BY DEF Commit
  <2>2. up' = up /\ \E o, j, cmd, outcome : Commit(o, j, cmd, outcome)
    BY <1>2 DEF Tick, TickRestores, TickHalts, TickBegins, TickBuys, TickAwaitsDelivery,
                TickRests, TickCompletes, TickWaits, TickIdles, PlayerResets, PlayerSets
  <2>. QED  BY <1>1, <2>1, <2>2 DEF Counters
<1>3. CASE \/ OptionsEdited \/ Restarts \/ Disconnects \/ Reconnects \/ MidnightPasses
           \/ ClockTurnsBack \/ ClockCatchesUp \/ DeadlinePasses \/ ReceiptsAge
           \/ \E k \in Keys : Reports(k)
  BY <1>1, <1>3
  DEF OptionsEdited, Restarts, Disconnects, Reconnects, MidnightPasses, ClockTurnsBack,
      ClockCatchesUp, DeadlinePasses, ReceiptsAge, Reports, Counters
<1>4. CASE ServerTakes \/ Delivers \/ QueueFinishes \/ Interferes
  BY <1>1, <1>4 DEF ServerTakes, Delivers, QueueFinishes, Interferes, Counters
<1>5. CASE UNCHANGED vars
  BY <1>1, <1>5 DEF vars
<1>. QED  BY <1>2, <1>3, <1>4, <1>5 DEF Next

(* The pen and what is on its way to it fit in the pen, and no receipt     *)
(* shows more animals than that.                                           *)
Fits == pen.head \in 0 .. Cap /\ pen.head + Total(pending) <= Cap
Seen == seen.herds.head \in 0 .. Cap

LEMMA Deliveries == ASSUME Inv PROVE pending \in Seq(Nat) /\ Total(pending) \in Nat
<1>1. Counts \subseteq Nat
  BY HerdAssumption DEF Counts
<1>2. \A S, T : S \subseteq T => Seq(S) \subseteq Seq(T)
  OBVIOUS
<1>. QED  BY <1>1, <1>2, TotalType DEF Inv, Types

LEMMA SlaughterFits ==
  ASSUME Inv, Fits, NEW n \in Counts, Slaughtered(n)
  PROVE  Fits'
<1>1. n \in Nat /\ n <= pen.head /\ pen'.head = pen.head - n /\ pending' = pending
  BY DEF Slaughtered, Inv, Types, Animals, Counts
<1>. QED  BY <1>1, Deliveries, HerdAssumption DEF Fits

LEMMA SaleFits ==
  ASSUME Inv, Fits, NEW n \in Counts, Sold(n)
  PROVE  Fits'
<1>1. n \in Nat /\ pen' = pen /\ pending' = Append(pending, n)
  BY DEF Sold, Counts
<1>2. n <= Cap - pen.head - Total(pending)
  BY DEF Sold, Room
<1>3. Total(pending') = Total(pending) + n
  BY <1>1, Deliveries, TotalAppend
<1>. QED  BY <1>1, <1>2, <1>3, Deliveries, HerdAssumption DEF Fits

LEMMA DeliveryFits == ASSUME Inv, Fits, Delivers PROVE Fits'
<1>1. pending # <<>> /\ pending \in Seq(Counts) /\ pending' = Tail(pending)
  BY DEF Delivers, Inv, Types
<1>2. Head(pending) \in Nat /\ Tail(pending) \in Seq(Nat)
  BY <1>1, Deliveries
<1>3. pen'.head = pen.head + Head(pending)
  BY DEF Delivers, Inv, Types, Animals
<1>4. Total(pending) = Head(pending) + Total(pending') /\ Total(pending') \in Nat
  BY <1>1, <1>2, Deliveries, TotalTail, TotalType
<1>. QED  BY <1>2, <1>3, <1>4, HerdAssumption DEF Fits

LEMMA InterferenceFits == ASSUME Inv, Fits, Interferes PROVE Fits'
<1>. 1 \in Counts
  BY HerdAssumption DEF Counts
<1>1. CASE Slaughtered(1) \/ Sold(1)
  BY <1>1, SlaughterFits, SaleFits
<1>2. CASE UNCHANGED <<pen, pending>>
  BY <1>2 DEF Fits
<1>3. CASE pen.head > 0 /\ pen'.head = pen.head - 1 /\ pending' = pending
  BY <1>3, Deliveries, HerdAssumption DEF Fits
<1>4. CASE Room > 0 /\ pen'.head = pen.head + 1 /\ pending' = pending
  BY <1>4, Deliveries, HerdAssumption DEF Fits, Room
<1>. QED  BY <1>1, <1>2, <1>3, <1>4 DEF Interferes

LEMMA NextFits == ASSUME Inv, Fits, [Next]_vars PROVE Fits'
<1>1. CASE UNCHANGED <<pen, pending>>
  BY <1>1 DEF Fits
<1>2. CASE Tick \/ PlayerResets \/ \E enabled \in BOOLEAN : PlayerSets(enabled)
  <2>1. UNCHANGED server
    BY <1>2 DEF Tick, TickRestores, TickHalts, TickBegins, TickBuys, TickAwaitsDelivery,
                TickRests, TickCompletes, TickWaits, TickIdles, PlayerResets, PlayerSets
  <2>. QED  BY <1>1, <2>1 DEF server
<1>3. CASE \/ OptionsEdited \/ Restarts \/ Disconnects \/ Reconnects \/ MidnightPasses
           \/ ClockTurnsBack \/ ClockCatchesUp \/ DeadlinePasses \/ ReceiptsAge
           \/ \E k \in Keys : Reports(k)
  BY <1>1, <1>3
  DEF OptionsEdited, Restarts, Disconnects, Reconnects, MidnightPasses, ClockTurnsBack,
      ClockCatchesUp, DeadlinePasses, ReceiptsAge, Reports, server
<1>4. CASE ServerTakes
  <2>1. wire \in Seq(Commands) /\ wire # <<>>
    BY <1>4 DEF ServerTakes, Inv, Types
  <2>2. Head(wire) \in Commands
    BY <2>1
  <2>3. Head(wire).count \in Counts
    BY <2>2 DEF Commands
  <2>. QED
    BY <1>1, <1>4, <2>3, SlaughterFits, SaleFits DEF ServerTakes, server
<1>5. CASE Delivers
  BY <1>5, DeliveryFits
<1>6. CASE Interferes
  BY <1>6, InterferenceFits
<1>7. CASE QueueFinishes \/ UNCHANGED vars
  BY <1>1, <1>7 DEF QueueFinishes, vars
<1>. QED  BY <1>2, <1>3, <1>4, <1>5, <1>6, <1>7 DEF Next

LEMMA NextSeen == ASSUME Inv, Fits, Seen, [Next]_vars PROVE Seen'
<1>1. CASE seen' = seen
  BY <1>1 DEF Seen
<1>2. CASE Unproven
  BY <1>2, HerdAssumption DEF Unproven, Unseen, Seen
<1>3. CASE \E k \in Keys : Reports(k)
  <2>1. PICK k \in Keys : Reports(k)
    BY <1>3
  <2>2. seen'.herds \in {seen.herds, [head |-> pen.head, stats |-> pen.stats,
                                      pending |-> pending # <<>>]}
    BY <2>1 DEF Reports, Keys, Inv, Types, Records
  <2>. QED  BY <2>2 DEF Seen, Fits
<1>4. CASE \/ Tick \/ PlayerResets \/ \E enabled \in BOOLEAN : PlayerSets(enabled)
  BY <1>1, <1>4, CommitsKeepWorld
<1>5. CASE \/ OptionsEdited \/ Restarts \/ Disconnects \/ Reconnects \/ MidnightPasses
           \/ ClockTurnsBack \/ ClockCatchesUp \/ DeadlinePasses \/ ReceiptsAge
  BY <1>1, <1>2, <1>5
  DEF OptionsEdited, Restarts, Disconnects, Reconnects, MidnightPasses, ClockTurnsBack,
      ClockCatchesUp, DeadlinePasses, ReceiptsAge, receipts
<1>6. CASE ServerTakes \/ Delivers \/ QueueFinishes \/ Interferes \/ UNCHANGED vars
  BY <1>1, <1>6 DEF ServerTakes, Delivers, QueueFinishes, Interferes, receipts, vars
<1>. QED  BY <1>3, <1>4, <1>5, <1>6 DEF Next

(* Whatever is bought, born, culled or lost in whatever order, the pen is  *)
(* never fuller than it can be and no record shows it so: deliveries still *)
(* to come count against the room there is.                                *)
THEOREM HerdTypes == Spec => []TypeOK
<1>. DEFINE IInv == Inv /\ Counters /\ Fits /\ Seen
<1>1. Init => IInv
  <2>. SUFFICES ASSUME Init PROVE IInv
    OBVIOUS
  <2>1. Fits
    BY TotalEmpty, HerdAssumption DEF Init, Fits
  <2>2. Counters /\ Seen
    BY HerdAssumption DEF Init, Counters, Seen, Unseen
  <2>. QED  BY InvInit, <2>1, <2>2
<1>2. IInv /\ [Next]_vars => IInv'
  BY InvNext, CountersNext, NextFits, NextSeen
<1>3. IInv => TypeOK
  <2>. SUFFICES ASSUME IInv PROVE TypeOK
    OBVIOUS
  <2>1. pen \in Pens
    BY DEF Inv, Types, Animals, Fits, Pens
  <2>2. seen \in Views
    <3>1. seen.herds \in Herds
      BY DEF Inv, Types, Records, Seen, Herds
    <3>. QED  BY <3>1 DEF Inv, Types, Records, Views
  <2>. QED  BY <2>1, <2>2 DEF Inv, Types, Receipts, Counters, TypeOK
<1>. QED  BY <1>1, <1>2, <1>3, PTL DEF Spec
===============================================================================
