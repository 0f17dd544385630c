# HashDen in TLA+

HashDen lets people run their own small Bitcoin mining pools ("dens"): a
stratum server splits the coinbase of every block among the members of a den,
and a payouts worker later pays what was too small for an output ("dust") over
Lightning from the operator's wallet. This directory holds specifications of
the parts of that system where order, failure and concurrency decide whether
miners get work and people get paid, their TLC runs, and proofs checked by
TLAPS: the payouts worker (section 3), the distribution of templates and jobs
in a stratum process (4), a miner's connection (5), the lock between stratum
processes (6), the parts around a connection (7), and the den API with the web
pages before it (8).

* `PROJECT.json` lists the components, runs, mutants, the map from definitions
  to source lines, findings, hazards and theorems.
* Run one configuration with `tlc -config MCPayoutWorker_single.cfg MCPayoutWorker`;
  check proofs with `tlapm PayoutWorkerProofs.tla`, and the same for
  `SoleWorkerProofs`, `StratumJobsProofs`, `StratumConnectionProofs`,
  `TemplateLockProofs`, `PoolProofs`, `SplitProofs` and `WebProofs`.

## 1. Inventory

| Component (source) | State it keeps | Operations | Talks to |
|---|---|---|---|
| **Payouts worker** (`apps/payouts/src/index.ts`, `maturity-watcher.ts`, `dust-fanout.ts`, `reconcile-inflight.ts`) | rows `Block.status`, `PayoutAttempt.{status, lnPaymentHash, zapEventId}`; in memory the matured list of the tick and its payment loops | startup reconciliation, maturity tick, recording of on-chain payouts, dust fan-out | Postgres, Bitcoin node, operator's wallet, relays |
| **Lightning clients** (`lnbits-client.ts`, `nwc-client.ts`, `lnurl-pay.ts`) | none | pay an address, look up a payment, each with a timeout | LNURL hosts, LNbits, NWC relay |
| **Zap receipts** (`zap-publisher.ts`) | none | sign and publish a kind-9735 event | relays |
| **Stratum connection** (`apps/stratum/src/models/StratumV1Client.ts`, `StratumV1ClientStatistics.ts`) | handshake flags, session difficulty, den context, submitted-share cache | subscribe, configure, authorize, suggest_difficulty, submit, new job, difficulty check | jobs service, den service, database, node |
| **Jobs and templates** (`stratum-v1-jobs.service.ts`, `MiningJob.ts`) | `jobs`, `blocks` (templates), `currentBlockTemplateId`, last block height | new template (with or without new block), add job, expire | node client, connections |
| **Den service** (`hashden/hashden.service.ts`) | cached effective template per den, breaker states | choose the template, compute payouts, record a share | template sources, Postgres |
| **Template sources** (`packages/templates`) | consecutive failures, time of last failure | fetch, record success, record failure | operator's node |
| **Node client, template lock** (`bitcoin-rpc.service.ts`, `ORM/rpc-block`) | one `rpc_block` row per height: lock holder and data | poll height, take the lock, save, wait | node, Postgres, other instances |
| **Client registry** (`ORM/client`, `app.service.ts`) | client rows, insert queue | insert, heartbeat, delete, kill dead, prune | Postgres |
| **Den API** (`hashden/api/groups.controller.ts`, `members.controller.ts`) | dens (active, tombstoned), members and their preferences | create, delete, join, leave, update preferences, signed events | Postgres |
| **Coinbase split** (`packages/coinbase`, `packages/groups`) | none (pure) | fees, PPLNS weights and window, dust bucket, solo showcase | den service, verifier |
| **Verifier** (`apps/verifier`) | extranonce, jobs seen by the proxy | forward lines, check every `mining.notify` | miner, pool, den API |
| **Web API** (`apps/web/src/app/api`, `SupportForm.tsx`, `ZapForm.tsx`) | rate-limit times per address, donation invoices, the form's phase | donate, zap, poll | BTCPay, LNURL servers, wallets |
| **Member's pages** (`g/[slug]/join/page.tsx`, `me/page.tsx`, `useNostrAuth.ts`, `DenMembershipStatus.tsx`, `lib/api.ts`) | signer's account (per component), membership cache, form | connect, look up, join, edit, toggle visibility, delete | den API, browser extension |
| **Operator's pages** (`new/page.tsx`, `g/[slug]/settings/page.tsx`) | phase, form, node test | create, save, test the node, delete | den API, browser extension |

How they interact. A share accepted by a connection is recorded through the den
service; a block found is submitted by the connection and, once a `Block` row
exists for it, picked up by the payouts worker 100 confirmations later. (In
this repository only the regtest driver creates that row,
`infrastructure/regtest/run-e2e.ts:122`; the worker is modelled from its
existence on.) Stratum processes share the `rpc_block` table as a lock; payouts
workers share `PayoutAttempt` rows. Everything else is a call.

What is hard, and what correctness means:

* **Payouts worker** - crashes between any two writes, wallets that settle after
  the client gave up, several loops and several workers at once. No entry is
  paid twice; a row says PAID only if it was; nothing happens before maturity;
  a closed block is fully paid; everything that started ends.
* **Stratum connection** - messages in any order, callbacks between awaits.
  Initialisation happens once and is undone, the difficulty is told before any
  work, a share is credited at most once and never above what it proves.
* **Jobs and templates** - templates replaced while jobs refer to them. A job a
  miner may still submit for has its template; after a new block no old job is
  accepted.
* **Den service, template sources** - a breaker that opens, half-opens and
  closes as its documentation says; a den never mines without a template.
* **Node client** - the lock: one process fetches per height, nobody waits for
  a dead one.
* **Client registry** - queue and delete in either order leave no ghost.
* **Den API** - a den stays its creator's, a deleted one deleted; an older
  signed event undoes a newer one at most while it is fresh.
* **Coinbase split** - sats are conserved, every member is in exactly one place.
* **Verifier** - a line reaches the miner unaltered and in order, and in strict
  mode none does once a job failed.
* **Web pages** - answers that come late or to another question, accounts that
  change between lookup and signature. A key is published only by its owner's
  choice; credentials survive saving; thanks are for a paid invoice.

`PROJECT.json` lists each hazard at the line where it bites, with the
properties that watch it.

## 2. Plan

| # | Modules | Composes / implements | Runs | Proofs |
|---|---|---|---|---|
| 1 | `PayoutLedger`, `PayoutWorker`, `PayoutWorkerProofs`, `SoleWorkerProofs` | worker implements ledger | `payouts_*` | types, refinement, every safety property (three of them for one worker) |
| 2 | `StratumJobs`, `StratumJobsProofs` | stream, tables, den template cache, waiting calls | `jobs_*` | types, three safety properties |
| 3 | `StratumConnection`, `StratumConnectionProofs` | handlers between their waits, over the jobs' interface | `connection_*` | all seven properties |
| 4 | `TemplateLock`, `TemplateLockProofs` | several processes over one table | `template_lock` | types, current templates |
| 5 | `ClientRegistry`, `ShareBook`, `TemplateHealth`, `VerifierProxy`, `WalletClient`, `ZapPublisher`, `Pool`, `PoolProofs` | what a connection or a payout calls, composed by `Pool` | `pool` | all six invariants |
| 6 | `DenRows`, `DenRegistry`, `MemberPages`, `OperatorPages`, `CoinbaseSplit`, `Donations`, `Web`, `SplitProofs`, `WebProofs` | the API's steps, the pages over the same rows, and what a den pays, composed by `Web` | `web` | all six properties |

All of it is done. Proofs are in the modules `...Proofs`. Every safety property
of a run that is expected to pass is a theorem; what is only model-checked is
liveness, which TLAPS cannot prove: `SettledUnlessStranded`, `InFlightResolves`,
`BuriedIsNoticed`, `GetsWork`, `EveryoneGetsTheTip` and `GoneIsForgotten`.
What could follow: several dens at a time in `DenRegistry`, and lemmas that bring
the liveness properties down to one step (what decreases, what stays enabled).

`Pool` and `Web` instantiate several modules and let a behaviour run one of
them, its *part*; the other parts stay in their initial state. The parts share
no variables (each module says what it takes from the others as a choice), so
this explores each exactly as a run of its own would, and the type invariants
and coverage are those of each part. `Pool` extends `ClientRegistry` and
instantiates the others; `MCPool` and `MCWeb` give the small constants. Setting `Parts`
in the cfg to one name checks that part alone.

## 3. The payouts worker

### State

| Variable | Code |
|---|---|
| `blk` | `Block.status` |
| `directRow` | `PayoutAttempt` rows of kind `ON_CHAIN_COINBASE` (created PAID, never updated) |
| `row`, `hash`, `zapped` | status of the `LN_DUST` rows, non-empty `lnPaymentHash`, `zapEventId` |
| `pc` | position in `main()` of each process: startup reconciliation, `checkMaturity`, `recordOnChainPayouts`, `fanoutDust`, sleeping |
| `cand`, `matured`, `block`, `verdict` | rows not yet probed, `m.matured`, the block at hand, the status about to be written |
| `known`, `todo`, `item` | IN_FLIGHT rows read with a hash; rows the current `for` loop has left; the row whose receipt is being published |
| `lane` | one item of `runWithConcurrency` in one process |
| `chain`, `buried` | what `getblock` answers: fewer than `maturityConfs` confirmations, enough, or orphaned/unknown; the blocks it ever reported buried |
| `stranded`, `left` | histories no step reads: MATURED blocks a process lost with its memory, IN_FLIGHT rows no loop and no recovery of this run will end |
| `asked`, `adrift`, `moved`, `receipts` | the wallet's and relays' side: requests received, requests nobody waits for any more, settlements, accepted receipts |

A dust entry is a pair of a block and a member. Amounts, addresses, event
contents and the answer formats of LNbits and NWC are left out: no property
here depends on them.

### Actions

Each await that changes something another actor can see is an action, together
with the read that decides it. `Start`, `ReconcileRow`, `ReconcileDone` are
`reconcileInFlight`; `FindCandidates`, `ProbeTooYoung`, `ProbeVerdict`,
`MarkBlock` are `checkMaturity` (the query, the node's answer and the update
are three steps, so the chain and other workers move in between);
`PickBlock`/`EndTick` are the loop over `m.matured`; `RecordDirect`,
`StampDirect`, `RecordDust` are `recordOnChainPayouts`; `PassGate`,
`GateRefuses`, `NoClient`, `ListPending`, `AllDrained`, `CloseBlock`,
`FanoutRejects` are `fanoutDust`; the rest of `LaneStep` is the callback it
runs for each attempt, one step per await. A lane that threw keeps its loop
dead (`LoopFree`), and lanes of a rejected fan-out carry on in the background
(`FanoutRejects`, then any `LaneStep`), as `Promise.all` leaves them.

Faults: `Crash` at any point (requests in progress become `adrift`), database
calls that throw before or after they took effect (`TickFails`, `MarkFails`,
`LaneThrows` outside the `try`, `LaneCatches` inside it), a node that does not
answer (`ProbeFails`), wallets that settle late (`DecideAdrift`). `MarkEscapes`
is the update to ORPHANED in the `catch` of `checkMaturity`
(`maturity-watcher.ts:63-68`): its error is caught by the tick only, which loses
the blocks already marked. For the tick loop, "took effect and threw" needs no
action of its own: it is the successful step followed by an error at the next
call. A receipt that is published may be reported as rejected (section 7), so
`RecordDirect` and `PublishDust` may add one to `receipts` and stamp nothing.

The node and the wallet are external. The wallet answers the caller, refuses,
or does neither in time; a request that was given up is decided later, either
way. One request moves the money at most once. The clients' own requests to
wallets and relays are `WalletClient` and `ZapPublisher` (section 7), whose
outcomes are the three that a payment has here.

### Properties

* `AtMostOnePayment`, `KeepsLedger` - each entry is sent to the wallet at most
  once, and only after it left the pool of unpaid rows for good.
  `PayoutLedger` is the abstract promise: `pool` maps to the rows that do not
  exist or are PENDING, `sends` to `asked`, `moves` to `moved`.
* `PaidIsBacked` - PAID is never written on hope.
* `NothingBeforeMaturity` - relates rows and requests to what the node has ever
  reported. It says no more: a block that leaves the chain after the answer, at
  any depth, is marked and paid all the same.
* `OneReceiptPerRow`, `FannedOutMeansPaid`, `StatusMovesForward` - hold with one
  worker, and are checked and proved for one. With two, the first two are
  refuted by the schedules below, and a stale `MarkBlock` can put a
  block back to MATURED.
* `InFlightResolves`, `BuriedIsNoticed`, `SettledUnlessStranded` - what must
  eventually happen, and hold from then on. The first and the last name the
  exceptions the code makes: a row stays IN_FLIGHT until the next restart when
  the claim, the member lookup or the write of FAILED threw, or the recovery
  itself (`left`); a MATURED block is lost when its process crashes, or abandons
  the tick, before or while it is the block's turn (`stranded`). They say that
  nothing else does: no error of one payment, of another tick, of the node or
  of a receipt, and no reorganisation.

### Runs

| Run | Instance | Shows |
|---|---|---|
| `payouts_single` | 1 worker, 2 blocks in a tick, 1 direct entry in one, 2 dust entries in the other, 2 loops, 1 crash, 1 error, 1 reorg (666,713 states) | types, the safety and the liveness properties of one worker |
| `payouts_parallel` | 2 workers, 1 block, 2 dust entries, 1 loop, 1 crash | no double payment; the refinement |

Bounds. Two entries are what two loops, a loop that is dead and one that runs,
or a stale list need; two blocks are what it takes for a tick to lose one that
waits for its turn; two workers are what a race needs. A crash, an error and a
reorganisation may each come first, and the error may be in the recovery from
the crash. The proofs below hold without these bounds.

Two runs find a disagreement with what the repository says (each quotes its
lines in `PROJECT.json`). In `payouts_stranded`, MATURED is written, the process
dies, and no later tick lists the block. In `payouts_recovery`, a payment
settles while the process that asked for it is down: the restart finds no
hash and writes FAILED, though `reconcile-inflight.ts:8` says "mark PAID (we
have the hash already)". The hash is stored in the update that writes PAID
(`dust-fanout.ts:261-268`), so no IN_FLIGHT row has one, and the lookup is
never made; `ReconcileOutcomes` models it all the same.

Two more properties are stated in `PayoutWorker` and refuted by the code; no
run is kept, and each is seen by naming it in a cfg:

| Definition | cfg | Schedule TLC finds |
|---|---|---|
| `PaidIsFinal` (PROPERTY) | one worker, `MaxErrors = 1` | payment settled and PAID written; an error while recording the receipt writes FAILED, though `dust-fanout.ts:37` calls such failures non-fatal |
| `NoPaymentAfterClose` (INVARIANT) | two workers | the second worker skips the claimed row, counts no failure, closes the block, though `dust-fanout.ts:317` does so only "if everything succeeded" |

The same model has four further schedules of this kind: a second worker that
starts lists the first one's IN_FLIGHT row and writes FAILED over its PAID
(`reconcile-inflight.ts:53`); two workers read an empty `zapEventId` and both
publish (`dust-fanout.ts:114`); a payment that timed out is open at the wallet
while its loop sends the next, beyond the concurrency cap
(`lnbits-client.ts:188`); and with `Concurrency = 0` the block is closed with
nobody paid (`dust-fanout.ts:353`).

In none of them does money move twice; they concern records, receipts and
payments that do not happen.

### Fairness

`FairSpec` asks for weak fairness of each worker's tick loop and of each lane.
The loop is `while (!stopping)` with a sleep, and the container is restarted
after a crash (`infrastructure/coolify/docker-compose.prod.yml`,
`restart: unless-stopped`), so a worker that is down starts again. A lane never
waits for ever: LNbits requests abort after 15 s, NWC requests after
30 s, and Node's own limits end a stalled body. Nothing is assumed about the
wallet's decisions, the node's progress (`Bury` is not fair), `NoClient`, or
faults. The liveness properties have the form `<>[]P`: crashes, errors and
reorganisations are finitely many in every behaviour, whatever the bounds, and
what is claimed is the state the worker comes to after the last of them. A
service that fails for ever is not claimed to finish anything.

### Proofs

`PayoutWorkerProofs` proves, for every value of the constants (any number of
workers, blocks and entries; any bound on crashes, errors and reorgs), from
`SnapshotAssumption` (an entry is direct or dust, not both) and
`BoundsAssumption`:

1. `TypeCorrect`: `Spec => []TypeOK`.
2. The lemma `HashMeansDecided`: only PAID and FAILED rows have a hash, which
   with "the reconciliation has read no hash" is inductive: listed rows are
   IN_FLIGHT, so they have none, so every outcome is FAILED. The proofs below
   rest on it; for a reader it is the finding of `payouts_recovery`.
3. `NeverPaidTwice` and `PaidRowsAreBacked` from the invariant `PaymentInv`.
   `AtMostOnePayment` alone is not inductive: one must know that an entry in
   the pool was never sent and that nobody works on it (`PoolUntouched`), that
   one process at most works on an entry (`OneHolder`), what each lane knows
   (`LaneKnows`: a claimed entry was not sent, an asking one was sent once and
   is neither settled nor adrift), and that requests open or settled never
   exceed those sent (`WalletAccount`). A claim needs `PoolUntouched`, a crash
   needs `OneHolder`, a late settlement needs `WalletAccount`.
4. `MaturityComesFirst`: `Spec => []NothingBeforeMaturity`, from "whatever the
   loops hold and whatever the database says concerns blocks that were reported
   buried", which is inductive because that is never taken back.
5. `FanoutKeepsLedger`: `Spec => KeepsLedger`; sending and settling map to the
   ledger's steps, everything else to a withdrawal or a stutter.

`SoleWorkerProofs` proves what needs the worker to be alone: `SoleWorker`, that
`Workers` has one element, is a hypothesis of its theorems. The repository
deploys it so: one `payouts` container, without replicas
(`infrastructure/coolify/docker-compose.yml`). TLC refutes each of the three
with two workers. Blocks, entries, crashes, errors and reorgs stay unbounded.

6. `StatusOnlyForward`: `SoleWorker /\ Spec => StatusMovesForward`. The update
   of a status names no status it expects (`maturity-watcher.ts`,
   `dust-fanout.ts:353`), so the proof must show that what the loop holds in
   memory is still what the database says: `Hands` - candidates and the block
   about to be marked are FOUND, matured blocks and the one at hand MATURED.
7. `ClosedIsPaid`: `SoleWorker /\ Concurrency > 0 /\ Spec =>
   []FannedOutMeansPaid` (the second hypothesis because of the last schedule
   above; the default is 5). `EntryInv` follows each entry through the tick:
   no row before its turn (`Unpaid`), PENDING until the fan-out, then what its
   lane says (`RowByLane`), all lanes done when the block is closed. A lane that
   failed says nothing, and keeps its loop, and so the block, from being closed.
8. `ReceiptOnce`: `SoleWorker /\ Spec => []OneReceiptPerRow`. A row of a direct
   output is published for while it is created, which happens once because
   blocks leave FOUND once; a row of dust between claim and stamp, and the
   claim is by `NeverPaidTwice` unique with any number of workers.

Model-checked only: the liveness properties, which are out of the prover's reach.

### Not modelled

The 200-row page is a parameter (`PageSize`), but the runs keep it as large as
the number of blocks: with more young blocks than a page, listing without an
order may leave a mature one out for ever, and the database's order decides.
The `SIGTERM` path ends the process between two ticks, which is one of the points
where `Crash` strikes. Parsing of environment, addresses, invoices and events,
and the encryption of operator credentials, are left out.

## 4. Jobs and templates

One stratum process. `newMiningJob$` (`stratum-v1-jobs.service.ts:42-95`)
combines the announcements of new blocks with a 60 s interval, fetches a
template for each emission, decides whether it is for a new block, keeps the
tables of templates and jobs, and hands the template to every connection, which
makes a job of it (`StratumV1Client.ts:437-548`). A connection of a den first
asks for the den's own template (`hashden.service.ts:359-411`) and for the den's
payouts.

### State

| Variable | Code |
|---|---|
| `tip`, `now` | the node's block count; time in periods of the interval |
| `seen` | `_newBlock$`: the last height announced |
| `interval`, `lastInterval`, `skipNext` | the interval's last value, `lastIntervalCount`, `skipNext` |
| `fetch` | the request `switchMap` waits for, with what caused it |
| `latest` | the template `shareReplay` holds |
| `blocks`, `jobs`, `built` | the two tables, `latestJobTemplateId` |
| `cache` | `jobTemplateCache` of each den |
| `phase`, `sends`, `told` | of each connection: subscribed or not; calls of `sendNewMiningJob` that wait; the template of its last `mining.notify` |
| `waits` | connections whose `checkDifficulty` waits for a template |

Templates carry a number, a height, the time they were built and `clearJobs`;
transactions, the coinbase and extranonces are left out. A job is a connection,
a template and a time.

### Actions

`Poll`, `Period` and the first `Subscribe` are the emissions; each replaces the
request in `fetch`, as `switchMap` does. `Answer` and `AnswerSkipped` are the
answer of `getblocktemplate` with the `map`, `filter` and `tap` that follow and,
in the same turn of the event loop, the jobs of connections outside dens.
`Restart` is a failing `getblocktemplate`: no subscriber has an error handler,
so RxJS rethrows, the process exits, and the container starts again with
nobody connected. `Subscribe`, `Unsubscribe` are `initStratum` and `destroy`;
`shareReplay` with `refCount` drops template and source with its last
subscriber, while `lastInterval` and `skipNext` live on in the service.
`CheckDifficulty` sends the latest template again with `clearJobs`; while there
is none its `firstValueFrom` (`StratumV1Client.ts:792`) is a subscriber of its
own, which keeps the stream up after the connection is gone and is served, after
the connections, by the next `Answer`.
`UsePlatform`, `UseOperator`, `SendJob`, `NoPayouts` are the two waits of a
connection in a den and their outcomes; they go on after the socket is gone.

Simplifications. `checkDifficulty` up to its first wait for I/O is one step, as
only microtasks lie between. The end of a socket and `destroy` are one step. An
operator's node follows the same chain as the platform's. Reorganisations at the
same height are not noticed by the code, nor here. `NODE_APP_INSTANCE` is unset,
so the lock between processes plays no part (section 6). Why a den uses the
platform's template (no operator node, breaker, failed call) is not told apart
(section 7).

### Properties

* `NewestWorkIsAccepted` - whoever is connected outside a den was sent a job
  for the newest template and a share on it finds both job and template. It is
  about the order inside the `tap`, the replay and the purge.
* `JobOutlivesTemplateOnlyByAge` - outside dens nothing but age parts a job from
  its template.
* `WorkIsTakenOnlyByBlock` - comparing interval counts is how the code
  recognises a block. It may miss one (below), but never takes a refresh or a
  new first subscriber for a block while somebody has work to lose.
* `GetsWork` - a connected miner is sent work, even when `skipNext` is left over
  from earlier subscribers and eats the first template.

### Runs

| Run | Instance | Shows |
|---|---|---|
| `jobs_mixed` | 1 plain connection, 1 of a den with its own node, 2 heights, 2 periods, 3 templates, 1 adjustment, slow node | types and the three safety properties |
| `jobs_work` | the same connections, no adjustment, node answers before the next emission | `GetsWork` |

Two heights make one block that is new to a running process. The 5 minutes of
`Lifetime` are one period here: what matters is that a job can be a period
younger than its template and that both can expire within the run. Three
templates are one before, one at and one after a block, or the platform's and
the operator's. `SlowNode` lets a block or an interval arrive while a request is
open. The proofs hold without these bounds.

The run `jobs_missed_block` finds a disagreement: after a new block the next
refresh is skipped without storing its count, so a block in the following
period looks like a refresh, and jobs for the old block stay.

Four more schedules of this model have no run. `JobHasTemplate`, stated in the
module, fails with one plain connection: a job made from the replayed template
is found for a period longer than its template, and the submission throws
(`StratumV1Client.ts:597` has it answered with "Job not found"). A block that arrives while a
refresh is being fetched replaces the request whose count was never stored, and
is missed as well. A den's job added after a block emptied the tables refers to
a template that is gone. And for up to 4 s after a block, a den is sent its
cached template of the old block, with that template's `clearJobs`
(`HASHDEN.md:46` says it inherits the platform's).

### Fairness

`FairSpec` assumes that polling and the interval go on, that
`getblocktemplate` answers or throws, that the container is restarted, and that
the database and an operator's node answer or throw for each connection.
`GetsWork` asks for one more period within the bound on time. The run is without
`SlowNode`, because a node that is always slower than the interval is never
heard, and allows four templates: the fourth is left after a block, its skipped
refresh and a change of subscribers.
Nothing is assumed about miners, blocks, or expiry of the cache.

### Proofs

`StratumJobsProofs` proves for every value of the constants, from
`DensAssumption` and `JobBoundsAssumption`, that `IInv` is an invariant
(`JobsInvariant`), and from it `JobsTypeCorrect`, `NewestWorkAlwaysAccepted`,
`JobsKeepTemplates` and `WorkTakenOnlyByBlock`. The strengthening:

* `StreamInv` - the interval's count stays below the time, a request carries
  the current count, nothing is replayed without connections subscribed nor while
  somebody waits for a template, and while a
  template is replayed the stored count is older than any request that is not
  for a block. The last part is why a refresh is never mistaken for a block.
* `WorkInv` - a connected miner has jobs or waiting calls only while a template
  is replayed. It brings the last part of `StreamInv` to bear: with work to lose
  there is a template, so an equal count means a block.
* `PlainInv` - the replayed template is in the table, and jobs outside dens have
  theirs unless it is too old.
* `HasNewest` - `NewestWorkIsAccepted`, connection by connection.

Model-checked only: `GetsWork`.

## 5. A miner's connection

`StratumConnection` is one `StratumV1Client` with the listeners of
`stratum-v1.service.ts`. Every line the miner sends is a call of
`handleMessage`; the calls interleave wherever one waits.

### State and actions

| Variable | Code |
|---|---|
| `socket`, `leaving` | the socket: open, half closed (`end`), destroyed, closed; a `destroy` that waits for its delete |
| `session`, `agent`, `authorized`, `suggested`, `used` | `extraNonceAndSessionId`, the user agent, `clientAuthorization`, `clientSuggestedDifficulty`, `usedSuggestedDifficulty` |
| `initialized`, `listening`, `timer` | `stratumInitialized`, `stratumSubscription`, the interval of `checkDifficulty` |
| `context` | the den of `hashdenContext` |
| `live`, `since` | the session's difficulty and the age of its last change, -1 before the first |
| `regimes` | the older entries of `recentDifficulties`, with ages instead of times |
| `lately` | history: how long ago each level was last the target |
| `jobs`, `hashes` | the jobs of this connection a share may name, `miningSubmissionHashes` |
| `calls` | handlers that wait, with what they wait for |
| `told`, `accepted`, `recorded`, `asked`, `begun` | what the miner was told; histories of credits, dens and runs of `initStratum` |

`Subscribe`, `Configure`, `Authorize`, `SuggestDifficulty`, `Submit` are the
cases of `handleMessage` up to their first wait; `Continue` lists what follows
a wait: `Replied`, `SuggestionTaken` and `Announced` a reply that was written,
`Routed`, `NotRouted` and `RouteThrows` a name looked up, `TemplateKnown`,
`PayoutsKnown`, `NoPayouts` and `Resend` the waits of `sendNewMiningJob` for a
connection in a den, `BlockHandled`, `BlockThrows` and `Credit` those of a
submission, `WriteFails` a reply that was not. `initStratum` runs at the end of
a message; its subscription may replay a template in the same turn. `Template`,
`CheckDifficulty` and `Tick` are the stream and the interval; `Close` is the
socket's end at any point, and `Release` the rest of `destroy` after its delete.

Contents are abstracted to what decides: the den a name routes to, whether it
passes validation, the difficulty a nonce proves. The interval's arithmetic
(`StratumV1ClientStatistics.ts:122-171`) is a choice among levels.

A submission is a *text*, and what it is parsed to (`Parsed`). The set of
submissions seen holds hashes of the fields as they were written
(`MiningSubmitMessage.ts:68-71`), while the share is built from the parsed
fields (`StratumV1Client.ts:612-619`): a text is refused the second time, the
same nonce in another text is judged again. Texts whose fields differ but join
to the same string have one hash in the code; the model takes them for one text.

### Properties

* `DifficultyIsKnown` - a miner with work was told the difficulty its shares
  are held against, before the work and after every change.
* `CreditedOnce` - no text is credited twice for a job. It relates the set of
  submissions seen, which templates empty, to the jobs, which templates also
  remove, in another object. It says nothing of two texts for one nonce, which
  the code credits both.
* `CreditIsHonest`, `LiveTargetCounts` - the two sides of the grace window: no
  share is credited above its proof or at a target of too long ago, and none
  that proves the live target is refused for its difficulty.
* `WorksForItsDen` - the den context is set between two awaits of `authorize`
  and read again after the waits of other calls.
* `SubscribedOnceAndReleased` - initialisation can be started by the end of any
  message and by several calls at once, and can race the end of the socket.

### Runs

`connection_session` has every order of four messages, one waiting call when a
message arrives, two jobs, two levels of difficulty, two nonces, one of them
written in two ways, and three names (a den's, one that does not resolve, a
plain address). Subscribe, authorize, submit and one more are what
initialisation, crediting and a repetition need; two jobs and two nonces a
duplicate and a template between. The two ways to write a nonce are alike in
every definition, so the run uses them as a symmetry (`Spellings`); it checks
invariants and steps only, for which that is sound.

`connection_grace` finds a disagreement: with an interval longer than the grace
window, as by default (60 s against 30 s), `InFlightSurvives` fails.
`setSessionDifficulty` prunes a regime by the time it *began*, and the one it
replaces began at the last change at the latest, so it is pruned on the spot:
shares in flight at the old target are refused, which `vardiff.utils.ts:25`
says the window is there to prevent. (A `suggest_difficulty` sooner after a
change does keep the regime before it.)

No fairness is assumed; these are safety properties.

### Proofs

`StratumConnectionProofs` proves all seven properties of `connection_session`
from `ConnectionAssumption` alone, for any names, levels, intervals and bounds.

`CreditedOnce` and `SubscribedOnceAndReleased` are not inductive: a credit is
safe only while the job it names is gone or its submission is remembered.
`IInv` adds what that rests on:

* `Remembered` - job numbers are not used again, every credit is for a number
  used, and a job still there has its credited submissions in `hashes` (a
  template that empties `hashes` removes the jobs in the same step);
* `BegunOnce`, `NoWorkYet` - only one call announces the difficulty, and until
  it has, there is no subscription, so no template adds a job;
* `HeldUntilReleased` - a closed socket has no reply to wait for, so it cannot
  initialise, and what it still holds awaits the end of `destroy`.

The others add to `TypeOK` (`ConnectionTypeCorrect`) and `IInv`:

* `DifficultyAlwaysKnown` - `ToldInv`: the miner also knows a difficulty it
  suggested before initialisation, which `initStratum` does not tell again.
* `WorksForItsDenAlways` - `AskedFirst` (authorized before initialised, and no
  credit before that) and `OneDen`: whoever is authorized for one den is in it,
  and so is what waits for its payouts. It uses `NoWorkYet`, for a call that
  waits for a template or payouts must not be older than the den.
* `CreditIsAlwaysHonest` - `LatelyInv`: each regime kept was live as lately as
  its age says, although ages are cut off and old regimes pruned.
* `LiveTargetAlwaysCounts` - a step property that follows from `IInv` and
  `LatelyInv`: the live target is always among those a share may meet, however
  old its own regime is.

## 6. The template lock

`TemplateLock` is `bitcoin-rpc.service.ts` on several processes with
`NODE_APP_INSTANCE` set, over the table `rpc_block`. A call of
`getBlockTemplate` reads the row (`Get`), locks the height (`LockLookup`,
`LockInsert`: TypeORM's `save` looks a row up and then inserts or updates),
waits for another's data (`waitForBlock`), asks the node (`Load`) and stores
the answer (`Save`). `switchMap` drops the results of calls before the newest
(`Call`), which still come to their end. Old rows are deleted by a timer, and a
process may die between any two steps.

* `TemplatesAreCurrent` - no template older than its height is stored, and no
  process emits one older than the height it knows.
* `EveryoneGetsTheTip` - every process at last works on the tip, although a
  holder may die before it saves. This holds because of what the comment at
  `bitcoin-rpc.service.ts:132` denies: "There is a unique constraint on the
  block height so if another process tries to lock, it'll throw". `save` of an
  existing row is an update, so the lock is taken over; only two inserts at once
  collide. With the behaviour the comment describes (the mutant `TakeNever`) a
  process that finds the row of a dead holder waits for ever.

The run `template_lock` has two processes, two blocks and one crash: a holder
that dies, one that waits, and a block that overtakes both. `FairSpec` is fair
to polls, refreshes and the steps of live calls (timers fire, the node and the
database answer or the process dies); not to `Mine`, crashes, deletions or
abandoned calls. Time between two refreshes suffices for a call unless that
waits for another process.

`TemplateLockProofs` proves `TypeOK` (with it, that a height never has two rows)
and `TemplatesAreCurrent` for any number of processes, blocks and crashes, from
`LockAssumption` (bounds are numbers, the chain has a block). The invariant adds
`HeightsAreKnown`: nobody is ahead of the chain, so what the node answers is no
older than the height asked for, and a call that is still listened to is for the
height its process knows. `EveryoneGetsTheTip` is liveness and stays with TLC.

## 7. Around a connection and a payout

The run `pool` checks the six modules that `Pool` composes, one at a time.
`PoolProofs` proves its six invariants for any
constants that satisfy the assumptions of `Pool`, as theorems of `PoolSpec`
(`ActiveIsListed` of `ClientRegistry`'s own `Spec`); a step of one part leaves
the variables of the others, so each invariant is proved against its own part.
`GoneIsForgotten` is liveness and only model-checked.

**`ClientRegistry`** - the table of connected clients: `insertQueue` and its
batches (`client.service.ts:26-57`), heartbeats at most once a minute, the
soft delete of `destroy`, `killDeadClients`, `deleteOldClients`, `deleteAll` at
the start of the first instance. `ActiveIsListed`: a row is not killed while
the share that last confirmed it is recent. `GoneIsForgotten`: an insert still
queued, or a share still being handled, can bring the row back after `destroy`
deleted it, but not for ever. A batch whose insert fails leaves its clients
without a row and unlisted (`LoseBatch`); `ActiveIsListed` speaks of rows that
are there. Two clients share a batch; ages are minutes, cut
off above `Dead`. Fair are the timers, the answers of the database and the
delete and shares that wait; not the arrival of shares or the end of sockets.
`ActiveStaysListed` proves `ActiveIsListed` for any clients and any two
intervals in `Nat`: a row is idle no longer than its entity is without a
heartbeat, and that no longer than `Beat` after the last share
(`AgesAreOrdered`), whatever is late, lost, deleted or revived in between.

**`ShareBook`** - the statistics row of each 10-minute slot and the best
difficulties, while no database call has thrown. `BookIsExact` has three parts.
`SlotsAreComplete`: the row of a slot that is over counts every share of it, if
it is the only one. `OneRowPerSlot`: there is one, as long as no two shares of
the connection were handled at a time (`crowded`); two that both find the slot
changed make two. `BestIsKept`: the best difficulty is that of some share, and no
worse than that of any share that was handled alone, whatever overlapped before
or after it; nor has the address a worse one than such a share that was a record.
Of two shares that overlap the later write wins, and may be the worse
(`StratumV1Client.ts:684-690`). A block found does not touch this:
`resetBestDifficultyAndShares` is called if the result of `SUBMIT_BLOCK` is null
(`StratumV1Client.ts:647`), which it never is
(`bitcoin-rpc.service.ts:181-198` returns `SUCCESS!`, the refusal or the error).
Three slots, three shares, two at a
time: a slot before, at and after a change, with two shares in one of them.
`BookStaysExact` proves it for any number of each. A row is written before the
share that changes the slot is counted, so the invariant speaks of the shares
that are not waiting (`Counted`): memory counts those of its slot, the row is
that count when the slot changes, and the row of an older slot is theirs
(`RowsComplete`); where rows can be, and which calls are still about the old
slot, is `RowsInPlace`. For the best difficulty (`BestsInv`), a share that is
not crowded is the last one while it is handled (`AloneIsLast`), and whatever a
later call is about to write is better than any share that was alone
(`AloneIsCounted`). TLC checked this invariant before it was proved.

**`TemplateHealth`** - the breaker (`health.ts`), the choice of source and the
fetch with its fallback, and the cached effective template. `TemplateSourceIsTrue`:
a den that left its node is given none of its templates once the requests made
before have ended and a cached template has had its time, and the breaker is open
only after as many failures in a row as its threshold, over all calls. A request
may take any time: its timer is cleared with the headers
(`rpc-client.ts:106-108`), and nothing bounds the reading of the body (119). So the
time since a den left (`left`) begins when its row has changed *and* its last
request has ended. The model uses small numbers for 4 s, 60 s and 3;
`SourceStaysTrue` is proved for all: a den with a request under way has not left
(`AskedWhileThere`), and a template of the node is in the cache for at least as
long as the den is gone (`KeptSinceThere`). Two definitions are stated and refuted, without a
run: `StaysOpen` - `hashden.service.ts:129` records a success for the
operator's key although the fallback answered, so an open breaker closes at the
next call, while `README.md:44`, `HASHDEN.md:45` and `hashden.service.ts:79-80`
say it re-attempts after `retryAfterMs`; `ClearsTogether` - a cache hit
(`hashden.service.ts:365-368`) returns a template built for an earlier tick, while the
comment at 394 has all groups invalidate jobs together.

**`VerifierProxy`** - forwarding and checking. `PassesWhatItMay`: the rig is
given its den's lines in order, all of them in monitor mode, and in strict mode
none from a failing job on, however lines are cut into chunks of one or two.
`ProxyPassesWhatItMay` proves it for any lines: what was passed follows what was
sent, line by line, and a connection still open has passed all of it (`InStep`,
kept by each line of a chunk). A job that comes before the answer to subscribe,
or cannot be parsed, passes unchecked. The client's help says strict mode exits
on the first failing job; sessions of other rigs go on until they end.

**`WalletClient`** - `payLightningAddress` for both kinds of wallet: metadata and
invoice by LNURL, then one HTTP request (LNbits), or a connection to the relay
with a timer, a subscription and a promise of its own (NWC). `ReportsAreTrue`, first part: a
payment is reported for a call only if the wallet paid that call's invoice,
whatever answers to other calls are at the relay, however late, often or
garbled. That rests on the filter of the subscription (`nwc-client.ts:243-249`),
as the calls of a den share its keys. The time limits differ, as in the code: `lnbits-client.ts`
stops its timer with the headers, `lnurl-pay.ts` with the body. Stated and
refuted, without a run: `RejectionsAreHeard` - nothing listens to
`responsePromise` while `publish` is awaited (`nwc-client.ts:289`), nor ever
when `publish` threw, while its timer runs on; if it rejects then, Node ends the
process instead of telling the caller. For the worker that is a `Crash`, which
section 3 covers; the row is recovered as FAILED although the wallet may
have paid. Two calls are enough for an answer to the other one. The proof
(`ReportsStayTrue`) has it that whatever says a call is paid (headers, an event at
the relay, a settled promise) is right, and that no wallet has paid before it was
asked.

**`ZapPublisher`** - one receipt sent to every relay at once.
`ReportsAreTrue`, second part: what is reported as published is at some relay.
Stated and refuted: `RejectedIsAbsent` - a relay that did not confirm in time may
have the event, and the caller is told "all relays rejected"
(`zap-publisher.ts:114`), so a retry can publish a second receipt.

## 8. The den API and the pages

The run `web` checks the five modules that `Web` composes, one at a time. The
first three use the rows of `DenRows`, which also says what create and update
write. `WebProofs` proves all six of its properties as theorems of `Web`'s
`Spec`, from the assumptions `Web` names: keys of miners and the operator are
keys, signed events are events, windows and bounds are natural numbers, fees come to at
most 100 % (`validateFees` refuses others), the reward is positive and members
are finitely many. Each part has an inductive invariant that contains its types
(`ApiInv`, `MemberInv`, `OperatorInv`, `SplitInv`, `GiveInv`); a step of another
part leaves its variables (`PartSteps`), and `WebTypeCorrect` follows from all
five.

**`DenRegistry`** - the API's handlers, one step per await: create (read,
insert or update, the operator's own member row), delete, join, preferences, the
router's lookups and `recordShare`. Signed events may be sent again by anybody
while they are fresh. `RowsStayTheirOwners`: a den stays its creator's whatever
others send at the same time, shares are recorded for members only, and an
address is rolled back by replayed events by at most two windows
(`members.controller.ts:86` explains the freshness check). Two requests at a
time make every race of two handlers; events are signed before, within and
after the window. Stated and refuted: `TombstoneStays` - an update that read
the den before a delete writes a visible one after it
(`groups.controller.ts:438-440` calls deleted dens tombstones). Two more
observations: shares are recorded for a den after its deletion, which
`groups.controller.ts:526-527` says cannot be, and the retry of a create whose
member row failed becomes an update that ignores the member's addresses.
The proof (`RowsStayTheirs`) needs that a request under way is still fresh, as
time waits for it (`SignedLately`), so that no registration is from further
ahead than the window, and that whoever is routed or has mined is a member;
every write keeps the row's operator (`DenStays`).

**`MemberPages`** - the signer hook, what the pages believe she is in a den, the
join page and the account page. Accounts in the extension change at any time,
lookups and calls end late, pages are left and opened again.
`MembershipIsRight`: a key is published only by its owner's choice, and whom the
join page takes for a member is one. Stated and refuted: `EditKeepsPreference` - the join
page has two independent states of `useNostrAuth` (`join/page.tsx:31` and the
one inside `useDenRole`, 45-47), so before the role is known the page submits an
explicit `show_pubkey: false` and un-publishes a member, while 37-39 say her
preference is left untouched. `MembershipStaysRight` is proved by what calls and
caches hold: a call publishes only what was asked for under its key (`Asked`), and
an answer, however old, that names a membership was given by a row, none of which
is removed (`Believed`).

**`OperatorPages`** - opening, saving and deleting a den, and the test of its
node. `CredentialsAreKept`: a den that names its node has URL and credential
through every order of saves, and a stored one is not lost. It is kept by a
check that contradicts the page: `groups.controller.ts:329-336` refuses a save with a
blank credential, while `settings/page.tsx:245` and `groups.controller.ts:458-460`
say that blank keeps it. Also seen: a test whose call throws shows "testing" for
good; a save is possible while a delete is in flight. `CredentialsStayKept` is
proved for any keys and tabs, each with a page of its own over the one row: the
invariant is that the row is complete and that what is sent has been signed, and
an update keeps a credential whatever page it comes from.

**`CoinbaseSplit`** - from the shares of the window to the outputs: weights,
fees, PPLNS with its dust bucket, the solo showcase, the way through percentages
into the coinbase, and the preview. `SplitIsExact`: the outputs are the whole
reward, and each member has what her weight is worth on chain or in the dust
bucket, up to the satoshi a percentage may lose. Every sequence of three shares
of three members with two difficulties is checked against a reward, fees and
thresholds chosen to round, and to be met exactly; shares and terms change
between the reads of a computation. Shares of the same time, members without a
row and difficulties that round to weight zero are left out. Outputs are a function from who is paid to
satoshis; their order matters for the first one only (`First`), which gets what
rounding lost. `SplitStaysExact` proves the property for any members, window,
legal terms, reward and fees (`SplitProofs`): the fees leave a part of the reward
(`FeesAreParts`), parts by weight fit in it (`PartsFit`), what is left is in the
bucket or the operator's fee (`PplnsExact`, `SoloExact`), and whatever set of
outputs is rounded down, topping up the first restores the sum (`ToppedUp`). The sums
are folds over sets: that a fold adds up whatever order it takes (`TotalIs`) and
the induction over subsets the lemmas need (`SetInduction`) are proved from
the least element of a well-founded order, since the library's induction theorems take an
operator as a parameter.

**`Donations`** - the support page and its two routes. `SupportIsSound`: the
thanks are for the invoice on the screen although polls overlap, answers come
late and requests outlive their forms (`PostAdrift`: the form is left while it
is CREATING, and the route goes on), and no window has more requests let through
than the quota. Two things the page does not know. BTCPay sends a donor back to
`/support?thanks=1`, and a page opened so, by anybody, thanks without an invoice
whenever its donation form is mounted (`Mounted`; `SupportForm.tsx:22-24`,
`SupportOptions.tsx:21-23,46`); `ThanksAreEarned` allows that and nothing else
without an invoice. And a zap is thanked for when any event of kind 9735 names
its invoice, whoever signed it (`ZapForm.tsx:88-98`, `Receipt`). Two
invoices make a late answer about another. Stated and refuted: `ExpiredIsUnpaid`
- an invoice that is invalid (seen and not confirmed) ends in the page that says
"No payment was detected" (`SupportForm.tsx:215`). The limiter's list of times is
a set of numbered requests. `SupportStaysSound` is proved from two invariants:
the limiter still has every request it let through less than a window ago, so a
full window is seen as full (`QuotaInv`), and an answer that tells of a payment
stays true, however late it comes (`ThanksInv`).

Bounds of this run are moves: three of the member, four of the operator; two
polls on their way, two times kept by the limiters of both routes together, in
three units of time, and one request of a route adrift. They are enough for a
page to be
used, left with a call under way and used again, or an account to be changed
between a lookup and a signature; larger ones find no new kind of step. The two
invoices are alike and used as a symmetry (`InvoicesAlike`); the run has
invariants and step properties only. No fairness is assumed.

## 9. Not modelled

* The configuration of the payouts worker but for `PAYMENT_CONCURRENCY`; the
  lookup of a payment (`getPaymentStatus`) is one step of `PayoutWorker`, by its
  answer; addresses, invoices and wallet URIs are not parsed.
* Rendering: the pages that only show something (home, den, docs, charts,
  payout history), and everything about layout in those that are modelled.
* Read-only controllers, notification services (they only send), the Nostr
  event formats, cryptography, parsing of names, addresses, transactions and
  configuration, and the deployment files.
* The arithmetic of the difficulty the statistics suggest, with its 32-bit
  `nearestPowerOfTwo`; the bytes of coinbase and merkle branches.
* Nothing under `src/` outside the regtest driver creates a `Block` row; the
  payouts worker is modelled from its existence on.
