------------------------------ MODULE HerdReplace ------------------------------
(***************************************************************************)
(* The herd replacement of 3scapes/guild_viking/herd_replace.lua: from a   *)
(* full pen it slaughters a few of the worst animals, waits until the      *)
(* server's herd and queue both show it, buys better ones, waits for the   *)
(* delivery, and rests.  Both commands are irreversible, so a marker and   *)
(* the money at risk are saved before each, and whatever goes wrong halts  *)
(* until the player acknowledges it with a reset.                          *)
(*                                                                         *)
(* step() never saves or sends.  Its caller does, as the head of           *)
(* herd_replace.lua and README.md:302-320 require: `Commit' below.  One    *)
(* pen is modelled, and of its receipts whether they are fresh and newer   *)
(* than the last command.                                                  *)
(***************************************************************************)
EXTENDS Integers, Sequences, FiniteSets

CONSTANTS Cap,          \* animals the pen holds; a replacement starts from a full pen
          Keep,         \* animals never culled
          MaxCull, Price, DailyCost,
          Grades, FirstGrade,  \* how good the animals are, as numbers
          Slots,        \* slots of the slaughter queue
          Days,         \* the dates the clock may show, as numbers
          MaxMishaps    \* bound on failures and interference

ASSUME HerdAssumption ==
  /\ Cap \in Nat \ {0} /\ Keep \in 0 .. Cap /\ MaxCull \in Nat
  /\ Price \in Nat \ {0} /\ DailyCost \in Nat
  /\ Grades \subseteq Nat \ {0} /\ FirstGrade \in Grades
  /\ Slots # {} /\ Slots \subseteq Nat /\ IsFiniteSet(Slots)
  /\ Days # {} /\ Days \subseteq Nat
  /\ MaxMishaps \in Nat

VARIABLES opts,      \* replace options in memory: enabled, in_flight, daily
          disk,      \* the options as last saved
          job,       \* jobs[opts], NoJob when there is none
          seen,      \* the parsed livestock records
          receipt,   \* for each of them, whether it is stale, held or newer
          up, today, \* the connection, and the date of the client's clock
          wire,      \* commands sent and not yet processed
          pen, pending, queue, market,  \* the server
          unsettled, \* observation: the last command sent, until settled
          charged,   \* observation: the cost put at risk, by budget date
          slain,     \* observation: the pen was slaughtered from since its queue was
                     \* last seen without a job
          mishaps

client == <<opts, disk, job>>
receipts == <<seen, receipt>>
server == <<pen, pending, queue, market>>
observed == <<unsettled, charged>>
vars == <<opts, disk, job, seen, receipt, up, today, wire,
          pen, pending, queue, market, unsettled, charged, slain, mishaps>>

(***************************************************************************)
(* Data.                                                                   *)
(***************************************************************************)
Keys == {"herds", "pending", "bqueue", "market"}
Phases == {"await_cull", "await_pending", "await_delivery", "cooldown"}
Counts == 1 .. Cap
Kinds == {"slaughter", "buy"}

Daily == [date : Days, spent : 0 .. DailyCost]
Options == [enabled : BOOLEAN, in_flight : Phases \cup {"none", "halted"}, daily : Daily]

(* A slot of the queue: empty, meat of this species, or of another.        *)
QueueStates == [Slots -> {"empty", "ours", "other"}]
Pens == [head : 0 .. Cap, stats : Grades]
Herds == [head : 0 .. Cap, stats : Grades \cup {0}, pending : BOOLEAN]
Views == [herds : Herds, pending : Seq(Counts), bqueue : QueueStates, market : BOOLEAN]

NoJob == [phase |-> "none"]
Jobs == [phase : Phases, count : Counts, stats : Grades \cup {0}, post : Grades \cup {0},
         slots : SUBSET Slots, market : BOOLEAN, budget : Daily,
         same_epoch : BOOLEAN, overdue : BOOLEAN, behind : BOOLEAN]

Commands == [kind : Kinds, count : Counts, market : BOOLEAN]
Nothing == <<>>

TypeOK == /\ opts \in Options /\ disk \in Options
          /\ job \in Jobs \cup {NoJob}
          /\ seen \in Views
          /\ receipt \in [Keys -> {"stale", "held", "newer"}]
          /\ up \in BOOLEAN /\ today \in Days
          /\ wire \in Seq(Commands)
          /\ pen \in Pens /\ pending \in Seq(Counts) /\ queue \in QueueStates /\ market \in BOOLEAN
          /\ unsettled \in Kinds \cup {"none"}
          /\ charged \in [Days -> Nat]
          /\ slain \in BOOLEAN /\ mishaps \in 0 .. MaxMishaps

(* A stale record is never read again: what it said is dropped.            *)
Unseen == [herds |-> [head |-> 0, stats |-> 0, pending |-> FALSE], pending |-> <<>>,
           bqueue |-> [s \in Slots |-> "empty"], market |-> TRUE]

Init == /\ up = TRUE /\ today \in Days
        /\ opts = [enabled |-> FALSE, in_flight |-> "none",
                   daily |-> [date |-> today, spent |-> 0]]
        /\ disk = opts /\ job = NoJob
        /\ pen = [head |-> Cap, stats |-> FirstGrade]
        /\ pending = <<>> /\ queue = [s \in Slots |-> "empty"] /\ market = TRUE
        /\ seen = Unseen /\ receipt = [k \in Keys |-> "stale"]
        /\ wire = <<>>
        /\ unsettled = "none" /\ charged = [d \in Days |-> 0]
        /\ slain = FALSE /\ mishaps = 0

Mishap == mishaps < MaxMishaps /\ mishaps' = mishaps + 1
NoMishap == UNCHANGED mishaps

(***************************************************************************)
(* Options and receipts.                                                   *)
(***************************************************************************)
Busy(o) == o.in_flight # "none"

(* Mutant: a cancelled job leaves no marker.                               *)
CancelClears(o) == [o EXCEPT !.enabled = FALSE, !.in_flight = "none"]

Cancel(o) == [o EXCEPT !.enabled = FALSE, !.in_flight = IF Busy(o) THEN "halted" ELSE @]

(* Mutant: a marker without its job is cleared by a restart.               *)
RecoverForgets(o, j) == IF o.in_flight # "none" /\ j = NoJob
                        THEN [o EXCEPT !.enabled = FALSE, !.in_flight = "none"] ELSE o

(* A marker without its job: some command may or may not have been obeyed. *)
Recover(o, j) == IF Busy(o) /\ j = NoJob THEN Cancel(o) ELSE o

Reset(o) == [o EXCEPT !.enabled = FALSE, !.in_flight = "none"]

(* Mutant: any other date gives a new allowance.                           *)
BudgetOfToday(o) == IF today # o.daily.date /\ ~Busy(o)
                    THEN [date |-> today, spent |-> 0] ELSE o.daily

(* The day's record rolls forward only between jobs, and never backwards.  *)
Budget(o) == IF today > o.daily.date /\ ~Busy(o)
             THEN [date |-> today, spent |-> 0] ELSE o.daily

Fresh(k) == receipt[k] # "stale"
Later(k) == receipt[k] = "newer"

(* New baseline: what has been seen so far proves nothing any more.        *)
Baseline == [k \in Keys |-> IF Fresh(k) THEN "held" ELSE "stale"]

Unproven == receipt' = [k \in Keys |-> "stale"] /\ seen' = Unseen

PenKnown == Fresh("herds") /\ seen.herds.head >= 1

NothingPending == ~seen.herds.pending /\ seen.pending = <<>>

(***************************************************************************)
(* The caller: it saves what step() left in the options, and only then     *)
(* sends.  A save that fails halts, and the halt may or may not reach the  *)
(* disk; so does a send that fails, whether or not the command went out.   *)
(***************************************************************************)
Cost(n) == n * Price

Charge(o, cmd, outcome) ==
  IF cmd # Nothing /\ outcome = "slaughter"
  THEN [charged EXCEPT ![o.daily.date] = @ + Cost(cmd[1].count)] ELSE charged

Obliges(o, cmd, outcome) == unsettled' = outcome /\ charged' = Charge(o, cmd, outcome)

Halted(o) == [Cancel(o) EXCEPT !.in_flight = "halted"]

(* Mutant: the command is sent before the options are saved.               *)
SendThenSave(o, j, cmd, outcome) ==
  /\ wire' = wire \o cmd
  /\ Obliges(o, cmd, outcome)
  /\ \/ opts' = o /\ disk' = o /\ job' = j /\ NoMishap
     \/ opts' = Halted(o) /\ disk' \in {disk, Halted(o)} /\ job' = NoJob /\ Mishap

Commit(o, j, cmd, outcome) ==
  \/ /\ opts' = o /\ disk' = o /\ job' = j
     /\ wire' = wire \o cmd
     /\ Obliges(o, cmd, outcome)
     /\ NoMishap
  \/ /\ opts' = Halted(o) /\ disk' \in {disk, Halted(o)} /\ job' = NoJob
     /\ UNCHANGED <<wire, observed>>
     /\ Mishap
  \/ /\ cmd # Nothing
     /\ opts' = Cancel(o) /\ disk' \in {o, Cancel(o)} /\ job' = NoJob
     /\ wire' \in {wire, wire \o cmd}
     /\ Obliges(o, cmd, outcome)
     /\ Mishap

(***************************************************************************)
(* step().                                                                 *)
(***************************************************************************)
Passive == job.phase \in {"await_delivery", "cooldown"}

BookkeepingChanged ==
  job # NoJob /\ (opts.in_flight # job.phase \/ opts.daily # job.budget)

Larger(a, b) == IF a >= b THEN a ELSE b

(* Memory no longer says what the job knows: keep the larger exposure.     *)
TickRestores ==
  /\ BookkeepingChanged
  /\ Commit(Cancel([opts EXCEPT !.in_flight = job.phase,
                                !.daily = [job.budget EXCEPT
                                             !.spent = Larger(@, opts.daily.spent)]]),
            NoJob, Nothing, unsettled)
  /\ receipt' = Baseline
  /\ UNCHANGED <<seen, up, today, server, slain>>

(* Mutant: only the delivery has a deadline.                               *)
DeliveryTimedOut == job.overdue /\ job.phase = "await_delivery"

TimedOut == job.overdue /\ job.phase # "cooldown"

Troubled ==
  \/ ~up \/ ~opts.enabled \/ ~job.same_epoch \/ job.behind
  \/ ~Passive /\ (~PenKnown \/ \E k \in Keys : ~Fresh(k))
  \/ TimedOut

(* The herd after the cull, once a later receipt has shown it.             *)
CullSeen == Later("herds") /\ seen.herds.head = Cap - job.count
PostStats == IF CullSeen THEN seen.herds.stats ELSE job.post

NewSlots == {s \in Slots : seen.bqueue[s] # "empty"} \ job.slots

CullRefuted ==
  \/ Later("herds") /\ seen.herds.head \notin {Cap, Cap - job.count}
  \/ CullSeen /\ (job.post \notin {0, seen.herds.stats} \/ seen.herds.stats < job.stats)
  \/ Later("bqueue") /\ Cardinality(NewSlots) > 1

(* Mutant: the herd alone confirms the cull.                               *)
HerdConfirms == PostStats # 0

CullConfirmed ==
  /\ PostStats # 0
  /\ Later("bqueue") /\ \E s \in NewSlots : seen.bqueue[s] = "ours"

BuySafe == /\ seen.herds.head = Cap - job.count /\ NothingPending
           /\ seen.herds.stats = PostStats
           /\ seen.market = job.market

DeliveryShown == Later("pending") /\ seen.pending # <<>>

Refuted ==
  \/ job.phase = "await_cull" /\ (CullRefuted \/ (CullConfirmed /\ ~BuySafe))
  \/ job.phase = "await_pending" /\ DeliveryShown /\ seen.pending # <<job.count>>

Halts == Troubled \/ Refuted

Working(phase) == job.phase = phase /\ ~BookkeepingChanged /\ ~Halts

TickHalts ==
  /\ job # NoJob /\ ~BookkeepingChanged /\ Halts
  /\ Commit(Cancel(opts), NoJob, Nothing, unsettled)
  /\ receipt' = Baseline
  /\ UNCHANGED <<seen, up, today, server, slain>>

Marked(o, phase) == [o EXCEPT !.in_flight = phase]
Entering(j, phase) == [j EXCEPT !.phase = phase, !.overdue = FALSE]

(* Mutant: the cost alone is held against the allowance.                   *)
CostAllowed(n) == Cost(n) <= DailyCost

WithinAllowance(n) == Cost(n) + Budget(opts).spent <= DailyCost

(* A plan for n animals; whether the offers and the forecast justify one   *)
(* is left open.                                                           *)
MayPropose(n) ==
  /\ up /\ opts.enabled
  /\ \A k \in Keys : Fresh(k)
  /\ PenKnown /\ seen.herds.head = Cap /\ NothingPending
  /\ \E s \in Slots : seen.bqueue[s] = "empty"
  /\ n <= MaxCull /\ n <= Cap - Keep
  /\ WithinAllowance(n)

TickBegins(n) ==
  /\ job = NoJob /\ ~Busy(opts) /\ MayPropose(n)
  /\ LET reserved == [Budget(opts) EXCEPT !.spent = @ + Cost(n)]
     IN Commit(Marked([opts EXCEPT !.daily = reserved], "await_cull"),
               [phase |-> "await_cull", count |-> n, stats |-> seen.herds.stats, post |-> 0,
                slots |-> {s \in Slots : seen.bqueue[s] # "empty"}, market |-> seen.market,
                budget |-> reserved, same_epoch |-> TRUE, overdue |-> FALSE, behind |-> FALSE],
               <<[kind |-> "slaughter", count |-> n, market |-> seen.market]>>, "slaughter")
  /\ receipt' = Baseline
  /\ UNCHANGED <<seen, up, today, server, slain>>

(* What the plan and the cull were is not read again after the purchase.   *)
CullForgotten == [job EXCEPT !.stats = 0, !.post = 0, !.slots = {}, !.market = TRUE]

TickBuys ==
  /\ Working("await_cull") /\ CullConfirmed
  /\ Commit(Marked(opts, "await_pending"),
            Entering(CullForgotten, "await_pending"),
            <<[kind |-> "buy", count |-> job.count, market |-> job.market]>>, "buy")
  /\ receipt' = Baseline
  /\ UNCHANGED <<seen, up, today, server, slain>>

TickAwaitsDelivery ==
  /\ Working("await_pending") /\ DeliveryShown
  /\ Commit(Marked(opts, "await_delivery"), Entering(job, "await_delivery"), Nothing, unsettled)
  /\ receipt' = Baseline
  /\ UNCHANGED <<seen, up, today, server, slain>>

Delivered == /\ Later("pending") /\ Later("herds")
             /\ seen.herds.head = Cap /\ NothingPending

TickRests ==
  /\ Working("await_delivery") /\ Delivered
  /\ Commit(Marked(opts, "cooldown"), Entering(job, "cooldown"), Nothing, unsettled)
  /\ UNCHANGED <<seen, receipt, up, today, server, slain>>

TickCompletes ==
  /\ Working("cooldown") /\ job.overdue
  /\ Commit(Marked(opts, "none"), NoJob, Nothing, "none")
  /\ receipt' = Baseline
  /\ UNCHANGED <<seen, up, today, server, slain>>

(* No receipt moves the job on; what the herd showed is remembered.        *)
TickWaits ==
  /\ \/ Working("await_cull") /\ ~CullConfirmed
     \/ Working("await_pending") /\ ~DeliveryShown
     \/ Working("await_delivery") /\ ~Delivered
     \/ Working("cooldown") /\ ~job.overdue
  /\ Commit(opts, [job EXCEPT !.post = IF job.phase = "await_cull" THEN PostStats ELSE @],
            Nothing, unsettled)
  /\ UNCHANGED <<seen, receipt, up, today, server, slain>>

(* No job and no plan, or a marker whose job is gone.                      *)
TickIdles ==
  /\ job = NoJob
  /\ Commit(Recover(opts, job), NoJob, Nothing, unsettled)
  /\ UNCHANGED <<seen, receipt, up, today, server, slain>>

Tick == \/ TickRestores \/ TickHalts
        \/ \E n \in Counts : TickBegins(n)
        \/ TickBuys \/ TickAwaitsDelivery \/ TickRests \/ TickCompletes
        \/ TickWaits \/ TickIdles

(***************************************************************************)
(* The player: options on and off, a reset, which acknowledges whatever    *)
(* the server did, and options edited in memory while a job runs.          *)
(***************************************************************************)
PlayerSets(enabled) ==
  /\ opts.enabled # enabled /\ ~BookkeepingChanged
  /\ Commit([opts EXCEPT !.enabled = enabled], job, Nothing, unsettled)
  /\ UNCHANGED <<receipts, up, today, server, slain>>

PlayerResets ==
  /\ Busy(opts) /\ ~BookkeepingChanged
  /\ Commit(Reset(opts), NoJob, Nothing, "none")
  /\ receipt' = Baseline
  /\ UNCHANGED <<seen, up, today, server, slain>>

OptionsEdited ==
  /\ job # NoJob /\ Mishap
  /\ opts' \in {[opts EXCEPT !.in_flight = "none"], [opts EXCEPT !.daily.spent = 0]}
  /\ UNCHANGED <<disk, job, receipts, up, today, wire, server, observed, slain>>

(***************************************************************************)
(* The client: it may stop at any moment between two callbacks and start   *)
(* again from the disk, lose the connection, and have its clock set.       *)
(***************************************************************************)
Restarts ==
  /\ opts' = Recover(disk, NoJob) /\ job' = NoJob
  /\ Unproven
  /\ UNCHANGED <<disk, up, today, wire, server, observed, slain, mishaps>>

JobLearns(j) == job' = IF job = NoJob THEN NoJob ELSE j

Disconnects ==
  /\ up /\ Mishap
  /\ up' = FALSE
  /\ JobLearns([job EXCEPT !.same_epoch = FALSE])
  /\ Unproven
  /\ wire' \in {wire, <<>>}
  /\ UNCHANGED <<opts, disk, today, server, observed, slain>>

Reconnects ==
  /\ ~up /\ up' = TRUE
  /\ UNCHANGED <<client, receipts, today, wire, server, observed, slain, mishaps>>

MidnightPasses ==
  /\ today + 1 \in Days /\ today' = today + 1
  /\ UNCHANGED <<client, receipts, up, wire, server, observed, slain, mishaps>>

(* Receipts from the future are as good as none.                           *)
ClockTurnsBack ==
  /\ Mishap
  /\ today' \in Days \cap {today - 1, today}
  /\ JobLearns([job EXCEPT !.behind = TRUE])
  /\ Unproven
  /\ UNCHANGED <<opts, disk, up, wire, server, observed, slain>>

ClockCatchesUp ==
  /\ job # NoJob /\ job.behind
  /\ job' = [job EXCEPT !.behind = FALSE]
  /\ UNCHANGED <<opts, disk, receipts, up, today, wire, server, observed, slain, mishaps>>

(* The timeout of the phase passes; receipts may be too old by then.       *)
DeadlinePasses ==
  /\ job # NoJob /\ ~job.overdue
  /\ job' = [job EXCEPT !.overdue = TRUE]
  /\ UNCHANGED <<opts, disk, receipts, up, today, wire, server, observed, slain, mishaps>>

ReceiptsAge ==
  /\ \E k \in Keys : Fresh(k)
  /\ Mishap /\ Unproven
  /\ UNCHANGED <<client, up, today, wire, server, observed, slain>>

(* What the job's phase waits to see, in a receipt after its last command. *)
Awaited == CASE job.phase = "await_cull"     -> {"herds", "bqueue"}
             [] job.phase = "await_pending"  -> {"pending"}
             [] job.phase = "await_delivery" -> {"pending", "herds"}
             [] OTHER -> {}

(* A frame of GMCP.  It is later than the command by the clock too.        *)
Reports(k) ==
  /\ up /\ opts.enabled
  /\ receipt' = [receipt EXCEPT ![k] =
       IF job # NoJob /\ ~job.behind /\ k \in Awaited THEN "newer" ELSE "held"]
  /\ seen' = [seen EXCEPT ![k] =
       CASE k = "herds"   -> [head |-> pen.head, stats |-> pen.stats, pending |-> pending # <<>>]
         [] k = "pending" -> pending
         [] k = "bqueue"  -> queue
         [] k = "market"  -> market]
  /\ slain' = (slain /\ (k = "bqueue" => job # NoJob))
  /\ UNCHANGED <<client, up, today, wire, server, observed, mishaps>>

(***************************************************************************)
(* The game.                                                               *)
(***************************************************************************)
(* The first empty slot of the slaughter queue takes the meat.             *)
Queues(kin) == \E s \in Slots :
  /\ queue[s] = "empty" /\ \A r \in Slots : queue[r] = "empty" => s <= r
  /\ queue' = [queue EXCEPT ![s] = kin]

Slaughtered(n) ==
  /\ n <= pen.head /\ Queues("ours")
  /\ pen' = [pen EXCEPT !.head = @ - n]
  /\ slain' = TRUE
  /\ UNCHANGED <<pending, market>>

Sums(entries) ==
  LET sum[n \in 0 .. Len(entries)] == IF n = 0 THEN 0 ELSE sum[n - 1] + entries[n]
  IN  sum

Total(entries) == Sums(entries)[Len(entries)]

Room == Cap - pen.head - Total(pending)

Sold(n) == /\ n <= Room
           /\ pending' = Append(pending, n)
           /\ UNCHANGED <<pen, queue, market, slain>>

(* The server obeys a command or refuses it; a purchase names its offer.   *)
ServerTakes ==
  /\ wire # <<>>
  /\ wire' = Tail(wire)
  /\ \/ /\ Head(wire).kind = "slaughter" /\ Slaughtered(Head(wire).count)
        /\ NoMishap
     \/ /\ Head(wire).kind = "buy" /\ Head(wire).market = market /\ Sold(Head(wire).count)
        /\ NoMishap
     \/ Mishap /\ UNCHANGED <<server, slain>>
  /\ UNCHANGED <<client, receipts, up, today, observed>>

Delivers ==
  /\ pending # <<>> /\ pending' = Tail(pending)
  /\ pen' = [pen EXCEPT !.head = @ + Head(pending)]
  /\ UNCHANGED <<client, receipts, up, today, wire, queue, market, observed, slain, mishaps>>

QueueFinishes ==
  /\ \E s \in Slots : queue[s] # "empty" /\ queue' = [queue EXCEPT ![s] = "empty"]
  /\ UNCHANGED <<client, receipts, up, today, wire, pen, pending, market, observed, slain, mishaps>>

(* What the player and nature do to the same pen, queue and market.        *)
Interferes ==
  /\ Mishap
  /\ \/ Slaughtered(1)
     \/ Sold(1)
     \/ /\ market' = ~market
        /\ UNCHANGED <<pen, pending, queue, slain>>
     \/ /\ Queues("other")
        /\ UNCHANGED <<pen, pending, market, slain>>
     \/ /\ pen.head > 0 /\ \E g \in Grades : pen' = [head |-> pen.head - 1, stats |-> g]
        /\ UNCHANGED <<pending, queue, market, slain>>
     \/ /\ Room > 0 /\ \E g \in Grades : pen' = [head |-> pen.head + 1, stats |-> g]
        /\ UNCHANGED <<pending, queue, market, slain>>
  /\ UNCHANGED <<client, receipts, up, today, wire, observed>>

Next == \/ Tick
        \/ \E enabled \in BOOLEAN : PlayerSets(enabled)
        \/ PlayerResets \/ OptionsEdited
        \/ Restarts \/ Disconnects \/ Reconnects
        \/ MidnightPasses \/ ClockTurnsBack \/ ClockCatchesUp
        \/ DeadlinePasses \/ ReceiptsAge
        \/ \E k \in Keys : Reports(k)
        \/ ServerTakes \/ Delivers \/ QueueFinishes \/ Interferes

Spec == Init /\ [][Next]_vars

(* The caller's interval timer keeps firing, and time passes.              *)
FairSpec == Spec /\ WF_vars(Tick) /\ WF_vars(DeadlinePasses)

(***************************************************************************)
(* Properties.                                                             *)
(***************************************************************************)
(* While a command may have been obeyed and nobody has acknowledged it,    *)
(* the disk says so, whatever save failed since, and memory too: a restart *)
(* halts, and ordinary herding stays blocked (M.recover, M.busy, mark).    *)
NeverForgotten ==
  unsettled # "none" => /\ Busy(disk)
                        /\ Busy(opts) \/ job # NoJob

(* What was put at risk under one date stays within the day's allowance    *)
(* over restarts, failed saves and sends, midnights and clocks turned back *)
(* (budget, and its reservation before the first command).                 *)
ExposureWithinAllowance == \A d \in Days : charged[d] <= DailyCost

(* A purchase goes out only when animals of this pen were slaughtered      *)
(* since the queue receipt that the plan was made on: no receipt from      *)
(* before, no death and no other cull passes for it (await_cull in step).  *)
BuysFollowSlaughter == [][unsettled' = "buy" /\ unsettled # "buy" => slain]_vars

(* One slaughter, at most one purchase, and then neither until settled.    *)
Promise == INSTANCE Saga WITH stage <- unsettled
SagaImplemented == Promise!Spec

(* No command follows one that was lost with its job: only the player's    *)
(* reset clears the way (M.recover, M.cancel, M.reset).                    *)
NothingSentInDoubt ==
  [][Len(wire') > Len(wire) => job # NoJob \/ unsettled = "none"]_vars

(* Every job ends, completed or halted, whatever receipts arrive.          *)
JobEnds == job # NoJob ~> job = NoJob
===============================================================================
