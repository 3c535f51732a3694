# platform-core in TLA+

TLA+ modules of the parts of platform-core that move money or decide which
machine serves a tenant, the TLC runs that check them on small instances, and
TLAPS proofs of the properties that matter most. Paths are relative to the
repository (`src/src/credits/ledger.ts` is `credits/ledger.ts` below).
`PROJECT.json` maps every definition to the lines it models, lists the runs, the
mutants that show each property can fail, the hazards and the theorems.

    tlc -config MCLedger.cfg MCLedger      # one run
    tlapm LedgerProofs.tla                 # one proof module

## 1. The system

platform-core is a Node.js backend on Postgres. Tenants buy credits, their bots
run in containers on a fleet of nodes and call AI and telephony providers
through a metering gateway.

    client -> gateway: budget check, credit check -> provider
                |            \
                | emit        \ debit (not awaited)
                v              v
        meter emitter       credit ledger <--- Stripe and crypto webhooks,
        WAL -> DB / DLQ         |   ^          runtime and phone crons,
                |               |   |          expiry, dividends, promotions
                v               v   |
        aggregator          usage and scheduled auto top-up -> Stripe
        (usage summaries)

    node agent -> registrar, heartbeats -> node status <- watchdog, cleaner,
                                               |          drain, recovery,
                                               v          provisioner
                              bots: placement, migration, updates, hot pool

### Inventory

| component | state | operations | what is hard | what makes it correct |
|---|---|---|---|---|
| Credit ledger | journal, materialised balances, row locks | credit, debit, debitCapped | concurrent transactions, repeated calls, lock order | serialisable and balanced, one entry per reference, no checked overdraft, no deadlock |
| Meter emitter | buffer, WAL, DLQ, event table, retry counts | emit, flush, replay, close | overlapping flushes, lost commit answers, crashes | a logged event is never lost, forgotten or duplicated |
| Meter aggregator | summaries, last window end | aggregate | late events, overlapping runs, crash between windows | an event is counted once |
| Usage top-up | settings row, in-flight flag, failure count | maybeTriggerUsageTopup, chargeAutoTopup, webhook fallback | lost Stripe answers, webhook race, crash while charging | one charge at a time, a paid intent is granted once |
| Scheduled top-up | next_at, failure count | runScheduledTopups | throws and crashes around charge and advance | a period is charged once and not skipped |
| Gateway | requests in flight, balance, unawaited promises, phone numbers | 20 handlers, credit gate, Twilio webhooks | check and debit are not atomic, nothing is awaited | bounded overdraft, meter and ledger agree, owned numbers are billed |
| Node lifecycle | status, last heartbeat, nine callers in flight | transition and its callers | read, validate and write race; stale watchdog list; crash while cleaning | the graph, cleaning before service, dead nodes leave and come back |
| Stripe events, affiliate, promotions | seen events, ledger references, referral and redemption rows, holds | the webhook's handlers, bonus, match, codes | redelivery, a handler cut off between two writes, order of events | what is marked is posted, rewards are paid as recorded, every event is answered |
| Crypto charges | charges, derivation indices, transfers | checkouts, three settlers, key server webhook | index races, several transfers, reordered progress | a charge is credited once, who paid is credited |
| Billing crons (runtime, expiry, dividend, usage reports) | references per day, balances, bot states | daily runs, suspend, reactivate, destroy | stale balances, crash before suspension, overlapping runs | a tenant out of credit is suspended, a dividend reaches all, a summary is reported once |
| Gateway admission | windowed counters, trips, cached spend, penalties | service key, caps, limits, breaker, budget | read and upsert race, stale caches | a trip holds for its pause, limits and caps hold up to the age of their figures |
| Arbitrage router and adapters | provider rows, health overrides | list, rank, fail over, bill, meter | a provider fails or is disabled meanwhile | an answer is metered once at its price, giving up means all were tried |
| Bot placement (recovery, migration, restore, command bus, agent) | bot rows, waiting list, containers, backup files | recover, retry, migrate, restore, clean orphans | timeouts with late effects, compensation, agent restarts | a bot runs where its row says, a completed recovery left nobody waiting |
| Nodes bought and given up | droplets, node and GPU rows | provision, destroy, scale, reboot | provider calls that fail or whose answer is lost | no droplet is forgotten, no answering node is given up |
| Fleet manager, updates, rollouts | profiles, rows, containers, routes, volumes | create, update, remove, start; poll, waves, rollback | partial failure, two kinds of lock, restore of a live volume | profile, container, row and route agree; data fits the image that runs |
| Hot pool | pool rows, containers | claim, replenish, clean up | claim races cleanup and other claims | an instance belongs to one tenant and is kept |
| Notifications | queue rows, attempts, templates | enqueue, process, alert, summarise | overlapping batches, updates nobody awaits | what is marked sent was sent, nothing is printed blank, alerts go out once |
| Backups | tarballs, remote copies, rows, home directory | snapshot, verify, expire, restore, thin out | expiry during a restore, failing steps | the home is whole, retention keeps what it must |
| Organizations and accounts | tenants, members, invites, deletion requests | create, invite, promote, transfer, remove, delete | several unguarded writes per call | the owner is a member |
| Vault | ciphertexts, platform secret | store, resolve, rotate, migrate | a pass dies, a write behind its back | what was written last is what is read |
| Access | users, roles, memberships, tokens | sign-up, verify, roles, tenant checks | check and use at different times | one bootstrap, an administrator remains, nobody acts elsewhere |
| Onboarding, setup, daemon | sessions, spend, process, setup rows | message, hand-off, graduate, roll back | overlapping messages, late exits | budget up to the calls under way, graduated once, ready means alive |
| Provisioning and self-registration | instances, routes, Caddy, tokens | provision, destroy, proxy, register | a failed step, a restart, a token used twice | what is routed is kept, routing survives a restart, one node per token |
| Everything else | see `components` in PROJECT.json | | | configuration rows, clients, text, wiring: no protocol of their own |

Components talk through the ledger (shared by the gateway, the top-ups, the crons
and the webhooks), through the meter (gateway to emitter to event table to
aggregator), and through node status (agents, watchdog, drain, recovery).
The modules meet at these points: `Gateway` takes a ledger debit as one step
because `Ledger` shows that debits are serialisable; `UsageTopup`, `Purchases`,
`CryptoCharges` and `Billing` see the ledger as a set of references that each post
once because `LedgerProofs` proves that it is one; `MeterAggregator` accepts events
late because `MeterEmitter` delivers them late; `Rollouts` extends `Fleet`, so that a
rollout is one more caller of the same operations; `Placement` leaves the statuses of
nodes to `NodeLifecycle`.

## 2. Modules and the code

### Ledger, LedgerBooks (`credits/ledger.ts`)

Each caller has one database transaction. `Call` is the argument check;
`InsertHeader` and `DuplicateReference` are the journal header under the unique
index on `reference_id`; `LockNext` the row locks in account order; `CheckBalance`,
`InsufficientBalance` phase 2 of `post()`; `ReadBalance`, `NothingToDebit` the
capped amount; `Commit` the lines, the balances and COMMIT; `ConnectionLost` any
failure. Uncommitted writes are invisible and locked, so they are one action with
the commit. `post()` takes the reference before the accounts, `debitCapped()`
after them: reference ids of the two are disjoint in the code (`expiry:` prefix),
which `PostRefs \cap CappedRefs = {}` states; without it the two orders can wait
for each other. `LedgerBooks` is the abstract ledger: one entry at a time, each
against the balances the earlier ones left.

### MeterEmitter (`metering/emitter.ts`, `wal.ts`, `dlq.ts`, `meter-event-repository.ts`)

An action is what the event loop runs between two awaits. A flush takes the whole
buffer (`BeginFlush`), inserts it in a transaction (`InsertOk`, `InsertConflict`,
`InsertFails` before or after the commit), and rewrites the log (`RemoveFlushed`)
or counts retries and dead-letters (`HandleFailure`, `RemoveDead`). `Restart`,
`ReplayLookup`, `ReplayFlush`, `ReplayCleanup` are the replay.
`CrashInRewrite` is a death between the truncation and the write of the log file.

### MeterAggregator (`metering/aggregator.ts`, `drizzle-usage-summary-repository.ts`)

A run reads the last window end, anchors a first run at the earliest event, and
reads and writes one window at a time. `StoreEvent` lets an event reach the table
any time after its timestamp. A summary is the set of events it counts.

### UsageTopup, ScheduleTopup (`credits/auto-topup-*.ts`, `monetization/stripe/webhook.ts`)

`UsageTopup` follows `maybeTriggerUsageTopup` statement by statement, through
`chargeAutoTopup`, its catch and finally blocks (`AfterThrow` says where a throw
goes), beside the `payment_intent.succeeded` handler. `ScheduleTopup` follows
`runScheduledTopups` over two tenants; the charge is one step with its results.

### Gateway (`gateway/proxy.ts`, `credit-gate.ts`, `streaming.ts`, `protocol/*.ts`, `drizzle-phone-number-repository.ts`)

A request slot is a record: where its handler waits, what its gate estimated,
whether a balance check admitted it, what it will be debited. Every handler is an
action composed of a few shapes (`Proxied`, `Bill`, `Return`, `Webhook`), so a
handler that forgets to meter or to debit shows. Unawaited promises (the debit and
its second read, the tracking and removal of a phone number) are steps of their
own that settle in any order, fail, or die with the process.

### NodeLifecycle (`fleet/node-state-machine.ts`, `drizzle-node-repository.ts`, `heartbeat-watchdog.ts`, `node-connection-manager.ts`, `node-registrar.ts`, `node-drainer.ts`, `node-provisioner.ts`, `services.ts`, `api/routes/admin-recovery.ts`)

`transition()` is two steps, the read with the validation and the conditional
update, for each of nine actors; the table `Calls` gives the target status of each
call and where its caller goes on when it returns or throws. What recovery, drain
and cleaning do to the bots is one step. A behaviour has a `team`: the actors that take
part in it (operation; draining, with heartbeats that are handled late; draining taken back while
the node is still being created; recovery).

### Purchases, CryptoCharges (`monetization/stripe/webhook.ts`, `monetization/affiliate/`, `monetization/promotions/`, `billing/crypto/`), composed in MCPayments

A delivery of an event is a slot at one await of its handler; `MaxThrows` cuts a
handler off anywhere, after which Stripe delivers the event again. The event is
marked as seen by the last statement. `CryptoCharges` has a slot per call of a
checkout, a settler or the key server's webhook. The watcher that finds transfers is external.

### Admission, Routing, Backups (`gateway/`, `monetization/{arbitrage,adapters,socket,budget}/`, `backup/`), composed in MCTraffic

`Admission` is the chain of middleware in the order of its mount, each read and
each upsert a step. `Routing` gives every adapter the function from a provider's reply
to an answer or an error, then lists, ranks and fails over as the router does.
`Backups` has the makers, the expiry and the restores of snapshots beside each other; the week
numbers of the retention rule are computed as the code does, strings compared.

### Fleet, Rollouts, HotPool, Billing, Notifications, MailTemplates (`fleet/`, `proxy/`, `network/`, `server/services/`, `monetization/credits/`, `email/`), composed in MCFleet

`Fleet`: one step per Docker call, profile save, row update and route, under the lock of
`FleetManager` or the separate one of `Instance`. `Rollouts` drives `FleetManager.update` as
one more caller. `HotPool` is the timer's ticks and the claims. `Billing` is the daily run with
its references in the order of its debits, suspension, reactivation, expiry, dividends, usage
reports and reconciliation. `Notifications` keeps the updates the worker does not await as
messages; `MailTemplates` reduces a template to the fields it prints and a sender to
the fields it supplies, so that a field nobody supplies shows.

### Placement, Capacity (`fleet/`, `node-agent/`, `backup/restore-service.ts`), composed in MCPlacement

An orchestrator waits for the answer to one command; the command may time out and
still run, the answer may be lost with the connection, the agent may restart. Files
are what `backup.ts` makes of a path: its base name. `Capacity` is what is ordered
from the cloud provider, whose API is external, beside the rows that name it.

### Orgs, Vault, Access, Onboarding, Provisioning (`tenancy/`, `account/`, `security/`, `auth/`, `trpc/`, `onboarding/`, `setup/`, `server/routes/`, `api/routes/internal-nodes.ts`), composed in MCAccounts with ScheduleTopup

Each call reads, checks and writes one statement at a time and overlaps with another.
A ciphertext in `Vault` is the pair of a value and the key it was encrypted under, so that
decrypting with another key fails. Ghost variables (marked as such) remember the race that
a property excepts: it then states that nothing else breaks it.

## 3. The runs

A run composes components that share no rows, or only rows they see through
references: `Init` chooses which of them a behaviour is about (a part, a workload, a
world, a scene), and each has its own faults. A component's invariants are named
conjuncts of one property per component (`EmitterSafe`, `BillingSafe`, ...); the parts have
the comments that say what they are about.

| run | instance | shows |
|---|---|---|
| ledger | 2 transactions, 1 tenant, 2 system accounts on both sides of it in lock order, amounts 1 and 2, 2 entries | refinement of `LedgerBooks`, balances reconstructible from the journal, overdraft only with allowNegative, no wait cycle, every call ends |
| metering | 3 events, 2 flushes, 2 failures, 2 deaths; 2 events in windows of 2, 2 aborts; 2 top-up calls, 2 intents, 3 debits, 1 throw, 1 crash | nothing logged is lost except in a torn rewrite, forgotten or held twice; an event is counted once and in the end; one charger, granted once and in the end |
| gateway | 2 requests, 1 number, buffer 1, charges up to 2, 1 webhook, 1 fault, 1 crash | overdraft within buffer + one charge per request; meter = ledger up to debits on their way; a missed zero-crossing needs a race; owned numbers are tracked |
| nodes | 1 node, four teams of actors (operation, draining, hasty, recovery), 1 crash | the graph, cleaning before service (but for cancel-drain and late heartbeats), no offline for a node that was heard, return and removal |
| payments | 8 workloads of up to 3 events, 2 deliveries, 1 cut; 2 charges or 2 transfers or a hosted charge, 1 retry, 1 death | `SeenIsPosted`, rewards as recorded and capped, a charge credited once and shown as such, everybody who paid is credited |
| traffic | 2 requests of 3 arrivals over 3 ticks; 13 sets of providers, 2 executions; 3 snapshots, 2 makers, 2 restores, days up to 24 | a cap holds once its figure is fresh; a trip holds unless overwritten by a request that had read before; answers are metered once; restores and retention destroy nothing that is to be kept |
| fleet | 2 calls on 1 or 2 bots, a rollout of up to 3 images in 4 plans; 2 ticks and 2 claims on a pool of up to 2; 2 runs over 2 days; 2 mails, 2 workers | `FleetConsistent`, data fits the image, a claim is kept, the exhausted are suspended, dividends and reports, mails |
| placement | 3 nodes, 2 bots, recovery, migration, restore and re-configuration, 1 fault; 2 machines and a GPU node, 3 buyers, 2 checks, 1 slip | a bot is where its row says, a completed recovery leaves nobody waiting, droplets are tracked, what is given up was down |
| accounts | 3 users, 2 calls at a time and 3 in all, 1 fault (each part); the schedule over 2 tenants, interval 2, 2 throws, 1 crash | owners are members, keys readable after rotation, one bootstrap and no foreign tenant, budgets and graduation, one node per token, a period charged once and none skipped |
| ledger_negative_line | violation | `db/schema/ledger.ts` says a line's amount is always positive; `debitCapped()` on a negative balance writes a negative one |
| nodes_recovery | violation | the watchdog promises a recovery after 5 minutes; `triggerRecovery` starts with a transition to `offline`, which the watchdog has already made, so it always rejects |
| placement_restore | violation | the restore promises to recover from its safety copy; the copy is stored under another name, so the bot stays gone |

**Bounds.** Races are between two actors, so two of each suffice to show them: two
transactions, flushes, calls, requests, claims, runs. A third actor of a kind adds no new
order of two conflicting statements; where there is a proof (section 4) it removes the
bound. Failures are bounded by name (`MaxFaults`, `MaxCrashes`, `MaxThrows`, `MaxMishaps`, ...);
each bound is at least one, so that each failure meets every other step, and two where a
failure has to hit a recovery in progress. Counters and clocks are capped where the
interesting cases have happened: two entries that compete for one balance or one reference,
three windows, two top-ups, a second billing day, the year's last week. Deadlock is not checked
where the bounds make the system stop; it is checked for the gateway. `gateway` and `traffic`
use symmetry and have no temporal property; no other passing run uses it.

**Fairness.** Weak fairness of every continuation: the event loop runs what is
ready and an awaited query or HTTP call settles. Timers and crons fire again
(`Flush`, `StartRun`, `WatchdogList`). Strong fairness in `Ledger`: Postgres queues the
waiters of a lock, so a step that is enabled again and again is granted; and for the
settlement of a transfer, which the chain watcher asks for in every round until it
succeeds, whatever other calls are under way. A process
that has been closed or has died is restarted (metering). Stripe, the chain watcher and
the key server deliver until they are answered (metering, payments). Calls by users,
agents that die, faults and crashes are never fair. Where a composition chooses a part in
`Init`, the fairness of a part is conditional on the part.

**Mutants.** For every property of a passing run `PROJECT.json` names a mutated
definition (comments `Mutation:` in the modules) under which TLC finds the property
violated: locks taken in the order written, a replay that does not look up, an anchor at the
wrong window, a credit without its reference, an update without its condition, the event
marked first, a cache without an age, a lock left out, a claim of any row, a bot reassigned
before its import, a rotation under the wrong key, and so on.

## 4. The proofs

Each proof module is about the specification of its component. Where a run composes
components that do not interact, its behaviours choose a part, and a part is a
behaviour of `UsageSpec`, `EmitterSpec`, `AggregatorSpec`, `PurchasesSpec`, `CryptoSpec`,
`AdmissionSpec`, `RoutingSpec`, `OnboardingSpec`, `ProvisioningSpec`, `OrgSpec`, `ScheduleSpec`, `PoolSpec`, `NotifySpec`,
`CapacitySpec`, `BillingSpec`, `AccessSpec`, `VaultSpec`, `BackupSpec`, `FleetSpec`, `RolloutsSpec` or `PlacementSpec`,
defined beside their `Next`. The theorems hold for every value of the constants that meets the module's
assumption: any number of callers, events, nodes, requests and so on, and any bound on
faults, deaths and clocks. The assumptions say that bounds are numbers, that the sets whose
members are counted or listed are finite (callers, hosts, desks, calls of charges, tenants and
their bots, rows of mail, GPU nodes, persons, secrets, rows of provider costs),
that kinds of identifier are disjoint, and of the starting states of `Orgs`, `Onboarding`, `Access`,
`Fleet` and `Placement` what a row of the database is (and, in `Placement`, that the node which registers is
not the one that died, and that what is restored is on a node).

**LedgerProofs** (`LedgerAssumption`: system and tenant accounts are disjoint,
account order is total, the two kinds of reference are disjoint).
`UniqueReferences` and `OnlyUncheckedOverdraws` are not inductive: a commit is
safe because of what was decided earlier in the transaction. The inductive invariant is
`TypeOK /\ TransactionInv`: `LockInv` (the locks a transaction counts are its own,
and its two accounts are all it touches), `RefInv` (an inserted header reserves its
reference and nobody has posted it) and `DecisionInv` (the balance that was checked,
or the amount that was capped, is still right when it is written). Each has one
lemma `NextLock`, `NextRefs`, `NextDecision` with a step per action. From it:

- `LedgerSafe`, `ReferencesPostedOnce`: the invariant and its consequence for references;
- `OverdraftOnlyIfAllowed`: the action property;
- `LedgerImplementsBooks`: every step is a step of `LedgerBooks` or leaves journal
  and balances alone (`CommitPosts`);
- `BooksAreSound`: the balance of an account is the sum of its lines in the journal, and no
  set of transactions waits in a circle. The sum is a recursive function; that an entry at the
  end adds to the sum is proved by the least length at which it would not, from the
  well-foundedness of the natural numbers (`LeastNumber`), which serves as induction.
  The circle is excluded by the order of the locks: of the transactions in it none waits for a
  reference, and the one that waits for the last account waits for one that wants a later account.

**TrafficProofs, the gateway** (`GatewayAssumption`). Lemma `Shapes` reduces the
handlers to a few shapes of step. `OverdraftBounded` is not inductive: it says nothing
about the debits still to come. The strengthening is `OverdraftCovered`: the overdraft
beyond the buffer so far, unchecked debits apart, is at most one charge for every
slot that is *not* admitted now. Admitting a request needs a balance above the stop,
which makes the claim hold again with one slot less; a debit frees its slot
(`CoveredKept`, `CoveredAboveStop`, `CoveredDebit`). With `FreeSlots`,
`MeterMatchesLedger`, `RemovedIsReleased`, `OwnedIsTracked` and `CrossingSeen` this is `IInv`,
proved by `InitIInv` and `NextIInv`. Theorems: `OverdraftTheorem`, `MeterTheorem`,
`CrossingTheorem`, `TrackedTheorem`.

**NodeLifecycleProofs.** `TypeInv` says of every actor which steps are its own. `NodesInv`
relates the status of a node to where its nine actors are and what they read
(`StepsFit`, `PlaceholderKept`, `CleanPath`, `HeardInv`): who serves is clean and only the cleaner ends
`returning`, unless cancel-drain or a late heartbeat takes part. One lemma per action. `NodesAreSafe` is the
invariant; `MovesAreRespected` the graph as an action property: the target of a call is reachable
from the status it read (`CallsTracked`), and the conditional update writes only on that status.

**NodeLifecycleProofs, the bots on the nodes.** `PlacementIsSafe`, by `PlacementInv`, which TLC also checked over the
states of the run. A command that somebody still waits for is the one its sender sent last (`WireRight`), so that
an answer, whenever it comes, moves its sender along the table of its commands and nobody else
(`AnswerInv`); a late command finds nobody. Nobody's row is moved unless an inspection answered that its container is
there, and until the row is moved the container is there or was taken away (`HomesRight`). The rescue under
way has every waiting item of a bot still on the dead node before it, in hand or in its count of the
waiting (`RescueRight`), so a verdict without waiting leaves none; a retry that drops an entry does so
because the bot is elsewhere, since it knew every bot that was left when it began (`EntriesRight`). Two rescues that
overlap are excepted (`mixed`).

**MeteringProofs.**

- `LogIsSafe`, by `EmitterInv`: what a call is about to take out of the log is in the table or
  among the dead letters (`RemovedIsSafe`), an event that is still to be handed over is in the log
  at most (`HandedOver`), a dead process holds nothing (`DeadIsEmpty`), and without a failure nothing
  that is still to be written is in the table (`UnwrittenIsNew`).
- `OnTimeIsCounted`, by `TimelyInv`, for any number of overlapping runs: the frontier of stored
  summaries leads every cursor, and a window before it was read after its events were there.
- `EventsAreCountedOnce`, by `OnceInv`, under `OneRun`. The code starts a run by a plain
  `setInterval` (`aggregator.ts:128`) without a guard: that a run ends within the interval is a
  condition of the claim, not of the code (see 5).
- `TopupIsSafe`, by `UsageInv`: the in-flight flag has one holder or was left behind, a reference is
  posted only for an intent that was paid (`PaidFirst`), and once; the failures that add up before
  the top-up is off are bounded by whole rounds of the calls (`StreakPaced`).

**PaymentProofs.** `AnsweredIsPosted` and `GrantsAreSound`, by `PurchasesInv`: a delivery that is past
the ledger entry has it (`PastIsPosted`), and bonus, match and code are each found
in the order in which their handler writes, unless one was cut off between the two writes
(`BonusFirst`, `MatchesCounted`, `CodeMarked`). The numbers of matches and redemptions are
cardinalities of sets of postings. `ChargesAreSafe`, by `CryptoInv`: indices
issued once, rows well formed, and each charge credited once by the reference
(`CreditedOnce`). `PurchasesAssumption` takes from Stripe that an object of an event
is not named like one of the ledger's own references (`GrantPrefixes`).

**TrafficProofs, the rest of the traffic.** `SpendStops`: a cached figure below the cap was read no later than the cap was reached
(`FiguresDated`), so that it has expired when the check happens later than its age.
`LimitsAreKept`: the count of a window is at least the requests passed in it (`PassedCounted`), and a
trip stands while whoever could overwrite it is behind it (`TripStands`).
`BackupsAreSafe`, by `BackupInv`: while restores do not overlap, the home directory or the directory it was
moved aside to is whole at every place of a restore (`HomeKept`). What the retention keeps is a fact about
`selectRetained`: the numbers of two nights' weeks, compared as the strings the code makes of them, are in
the order of their Mondays, over the end of the year too, for all nights up to day 374.
`RoutingIsSafe`, by `RoutingInv`: a provider a request has read, and the router has an adapter for, has failed it or
is still on its chain (`NobodyForgotten`), which rests on the chain holding all the candidates (`ChainIsWhole`).
Each adapter, taken with whatever reply, answers with a charge that covers its cost or with none
(`MethodOutcome`), and the socket's margin covers the latter (`ChargeCovers`). `RoutingAssumption` asks for unit
costs that are not negative and for finitely many rows. How a sort orders providers of equal price and
priority is left open (the code lists them by name, `rate-store.ts:327`), which allows more than the code does.

**AccountProofs.**

- `NewcomersAreSafe`, `GraduationIsOnce`, by `OnboardingInv`: `RoomLeft` bounds the spend of a talk by what
  is left for the replies under way, each of which was admitted below the cap; `HeldRuns` and
  `DaemonShaped` relate the daemon that is held to the processes alive.
- `ProvisioningIsSafe`, by `NodesInv` for the nodes (a token that was used is of the node it made) and
  `InstancesInv` for the instances: an identifier is given out once and whoever works with it works
  alone (`IdsOnce`), profile, container and route of one identifier have one name (`NamesAgree`,
  `RoutesFollow`), and each desk between count and save leaves the limit its place (`LimitLeft`).
- `OwnersAreMembers`, by `OrgInv`: every call has a list of writes left and relies on certain rows while
  it has them (`Fits`); an organization is `Sheltered` while a call that moves its
  ownership is alone there. One lemma per kind of call (`PersonalSteps`, `CreateSteps`, `TransferSteps`,
  `DeleteSteps`, `TameSteps`, `FailedSteps`).
- `ScheduleIsSafe`, by `ScheduleInv`, under `OneRun` (an hourly cron whose runs take less than an hour;
  nothing in the code excludes an overlap): the tenants behind the one in process stand at the
  periods they were listed with (`RunRight`), a charged period has been passed or is about
  to be (`ChargesRight`), and the schedule stands at a multiple of the interval with all earlier
  ones processed while nothing has thrown (`PeriodsRight`).
- `AccessIsSafe`, by `AccessInv`: the hook that is about to promote is alone and there is nobody to
  promote it beside (`HookAlone`), the one removal under way leaves somebody else (`OneRemains`), and a
  request that will act was let in by a door that checked its tenant (`RequestsChecked`). Administrators are
  counted by the code, so the proof goes through cardinalities (`AdminsCounted`).
- `KeysAreReadable`, by `VaultInv`: a row nobody wrote behind the back of a pass holds what was written last,
  under a key of its own (`RowRight`); nothing is under the new secret before a rotation has begun
  (`SecretFits`); what a pass has still to do was listed once and holds what the row holds (`TodoFits`); and
  what it has behind it is under the right key or among the failed (`PassDone`).

**FleetProofs.**

- `ClaimsStay`, by `PoolInv`: a claim that has begun has a slot of its own that is not
  warm any more (`SlotsApart`), and no cleanup has it on its list, unless it was listed before it was
  claimed (`OutOfReach`); a container that runs is there (`UpIsThere`).
- `MailIsSafe`, by `MailInv`: what a worker will write of a row is what happened to its mail
  (`SentIsMailed`), a sender that comes to send the alert is alone and has recorded it first
  (`AlertHeld`), and the events of a summary under way are in its counts (`CountsRest`). That no template
  prints a field nobody supplies is a fact about the constants of `MailTemplates`, template by template.
- `CapacityIsSafe`, by `CapInv`: who works on a node has its row and is alone there, unless the node was
  excused (`BuyersRight`), a droplet is in its row or in an order that goes on (`DropletsHeld`), and, while
  checks do not overlap, a node that was rebooted has not been seen since, unless the check at work
  is about to say so (`ChecksRight`). A check lists the nodes by `SetToSeq`, of which `Enumerated` says
  that it lists every member.
- `BillingIsSafe`, by `BillInv`: whoever owes has nothing left, and a run that is past the debit or is
  suspending has its active bots still on its list (`OwedRight`); each payer of a date that has begun still has
  every active tenant without a dividend on its list (`DividendRight`); what Stripe counted has its row or a
  writer about to write it while Stripe remembers it (`ReportsRight`). The share of a tenant is a number
  because the sum over a finite set is (`AddingExists`, by the least size at which it would not be).

**RolloutProofs.**

- `FleetIsRight`, by `FleetInv`: a call that waits for the lock of its bot is in the queue and the one past
  it is its head (`QueueRight`), so that one locked call at a time is in the middle of its steps. `Placed` says
  what that call has done so far, place by place (the profile is saved and there is no container; the
  container is of the image it was asked for; no route is left); without one, the container is
  of the profile's image (`Settled`). Bots that a refusal or a call without the lock has unsettled are excepted in both.
- `RolloutsAreSafe`, by `RollInv`, which contains `FleetInv` because a rollout is one more caller of the same
  operations. `CleanRight`: the volume is not newer than the container or than what the profile
  resolves to (`Fits`), the snapshot is of the data in hand (`Snapped`), and from the update to the end of
  the rollback what runs is the image before or a newer one (`Returns`), so that the volume is put back under
  an image that takes it (`Restoring`). `VerdictRight` relates a verdict to the digest that was pulled for it.

Statements that turned out too strong when their proofs were attempted, at larger bounds than
the runs had or in states the runs did not reach; TLC gave the counterexample once it was
shown the state. They now carry the exception that the code makes, and the run has the situation that
shows it where it is small enough (`GraphRespected`, `BreakerHolds`, `ChargedOncePerPeriod`, `BootstrapOnce`,
`AdminRemains`, `DataFitsImage`; see 5). One definition was wrong: in `doUpdateBot` the pull of an image
whose name is malformed fails by itself, and not only when a fault is spent. Three left open which of two
true cases of a CASE holds (`updateItem`, `ReadCharge`, `lookupKey`); their cases now exclude each other, in the
order in which the code tests them.

**Only model-checked.** Every liveness property: the prover has neither fairness nor ENABLED.
Every safety property of a passing run has a theorem (`ImplementsBooks` as `LedgerImplementsBooks`).

## 5. What the models showed about the code

Runs with a finding are in the table above. The rest was met while modelling; where a
property is concerned, it is stated with that condition.

Money:

- Meter: a death between the truncation and the write of the log file loses the log
  (`wal.ts:106`); a batch that is committed while removing it from the log keeps failing conflicts
  with itself and ends in the dead-letter queue although it is stored.
- Aggregator: an event stored after its window was summarised is never counted; two
  overlapping runs count a window twice (`Runs` is one in the run for that reason).
  Reconciliation leaves out a day's last window (`reconciliation-repository.ts:34`).
- Usage top-up: a crash while charging leaves the in-flight flag up for ever
  (`auto-topup-usage.ts:66`); the balance is read before the guard, so a call that waited behind a
  top-up charges again on a balance that is no longer low.
- Scheduled top-up: a run that dies between charge and advance, or throws in its catch block
  there, charges the period again (`ChargedOncePerPeriod` excepts the periods `cut` that way);
  a throw after the advance makes the catch block advance once more.
- Gateway: two debits around one zero-crossing can both miss or both announce it
  (`credit-gate.ts:142`); the soft check refuses at 0 and admits at -1 (`:86`); the protocol handlers
  pass an estimate of 0 where their comment says one cent (`openai.ts:167`); Twilio callbacks
  are not deduplicated; an aborted stream is not billed (`streaming.ts:107`); a release can overtake
  the tracking of its own number (`proxy.ts:1757`).
- Purchases: a handler cut off between `markFirstPurchase` and the bonus never pays it; a signup
  credit is lost if the process dies after the token was cleared (`email/verification.ts:60`).
- Billing: a run that dies between the emptying debit and `onSuspend` leaves the bots running,
  since later runs list only tenants with a balance; `server/lifecycle.ts:90` passes no `onSuspend`; a
  surcharge that empties the balance exactly does not suspend (`runtime-cron.ts:224`, `:254`); a
  dividend run that dies leaves the rest unpaid (`dividend-cron.ts:42`); `destroyExpiredBots` does not
  re-check (`bot-billing.ts:126`).
- Admission: a late first request clears a trip (`drizzle-circuit-breaker-repository.ts:49`); the
  category of a capability is compared without the `/v1` it is mounted under
  (`capability-rate-limit.ts:48`); a failing read leaves a request uncapped.
- Routing: no built-in adapter throws an error with a 5xx `httpStatus`, so the router's failover
  (`router.ts:65`, `:107`) is only reached by adapters of a product.

Machines:

- Nodes: cancel-drain on a returning node, and a heartbeat handler that outlives the status it
  read, put a node into service without cleaning (`admin-recovery.ts:348`,
  `node-connection-manager.ts:269`); a provisioned node whose agent registers stays `provisioning`
  (`drizzle-node-repository.ts:131`); `markFailed` writes a status without `transition()` (`:268`), and
  so fails a node that cancel-drain has put into service meanwhile (`MovesRespected` excepts it).
- Placement: `retryWaiting` adds a waiting item again for each try (`recovery-orchestrator.ts:331`); a
  recovery downloads the base name of a path nobody writes; an import whose file is missing
  ends the agent; images `:restored` and `:pre-restore` are never tagged.
- Capacity: usage counts only running containers, so scaling down may destroy the node of
  suspended bots (`capacity-policy.ts:149`); deleting a `provisioning` node and a failed GPU order
  leave droplets; `drained` is never written.
- Rollouts: the updater reads a bot's profile before it waits for the lock of the update
  (`updater.ts:69`). A bot that is removed and created anew meanwhile gets the image
  that was read of the old one, which may be older than the data the new one has written
  (`DataFitsImage` excepts bots for which another caller chose an image).
- Fleet: an update that fails after the removal leaves no container (`fleet-manager.ts:398`); a
  rollback pins the profile to a digest (`updater.ts:231`); the network's cleanup counts only
  running containers (`network-policy.ts:41`); `totalFailures` is never reset
  (`rollout-strategy.ts:51`) and `skipped` can be negative (`rollout-orchestrator.ts:149`).
- Hot pool: the cleanup removes by id what it listed as warm earlier (`hot-pool.ts:138`);
  overlapping replenishments overfill; claimed containers carry no `wopr.bot-id` label (`:73`).
- Provisioning: a throw of `addRoute` leaves a running instance behind an error
  (`provision-webhook.ts:126`); a container prefix other than `wopr` makes an instance unreachable after
  a restart (`tenant-proxy.ts:106`); later routes are not pushed to Caddy (`lifecycle.ts:40`).
- Backups: tarballs of softly deleted snapshots are never reclaimed (`snapshot-repository.ts:67`); the
  quota is checked before it is used (`on-demand-snapshot-service.ts:71`); the verifier fails encrypted
  archives (`backup-verifier.ts:122`).

People:

- Organizations: a transfer is three unguarded writes and a transfer to oneself leaves the owner
  an admin (`org-service.ts:247`); two users can accept one invite; the journal tables are not part of
  an account's deletion, and a deletion may be cancelled while it is carried out
  (`deletion-repository.ts:79`).
- Vault: a rotation takes back a key written meanwhile (`key-rotation.ts:49`) and never re-encrypts
  seed files.
- Access: the hook of the first sign-up counts the administrators once per process and promotes later, so that
  an administrator whom an operator appoints in between is not seen, and there are two (`BootstrapOnce` excepts
  it); a dismissal that was checked before there was any administrator removes the first one (`AdminRemains`
  excepts it). The last administrator is counted before the removal (`admin-roles.ts:182`), and the tenant
  routes accept `*` (`:84`, `:114`); a failing lookup lets an unverified user pass.
- Onboarding: a second rollback of a chat throws on `unique(session_id, status)` after the
  configuration was deleted, though `setup-service.ts:24` calls it idempotent, and stops every later
  cleanup there; a hand-off can overwrite `graduated`; a daemon whose first wait timed out is
  never marked ready (`daemon-manager.ts:27`).
- Notifications: preferences are compared without being awaited (`notification-worker.ts:97`); the
  templates of disputes are missing although `default-templates.ts:2` claims all; seeded
  templates print fields nobody supplies; alerts are per day where the doc says per billing period.

## 6. Abstractions and what is left out

Money is a small integer: the code's nanodollars are integers below 2^53 and no modelled
operation multiplies them except margins, which the models take as already applied. Ids are
model values. Texts, logs, formatting and HTTP detail are left out, templates reduced to their
fields and ciphertexts to a value and its key. The reads of one call are taken together where
nothing depends on their order. Audit rows are not modelled. A tenant's services are modelled for
one tenant with one bot where tenants do not meet.

Not modelled: the copies of credits and metering under `monetization/`; quotas, feature gates and
incident tools (functions of one request); marketplace, product configuration and administration
(rows with a read-through cache); observability, audit and compliance (append-only records); peer
network, discovery and inference client (thin clients); schema, configuration and wiring; the
remaining routes (validation and dispatch). PROJECT.json gives the reason per component, and
for the partly modelled ones what is missing.

## 7. Plan

Modelled: the money path, the fleet, and the accounts. Proved: the ledger, the gateway, metering and
both top-ups, payments, admission, backups, the lifecycle of nodes, organizations, onboarding, provisioning,
access, the vault, the hot pool, mail, capacity, the billing crons, the fleet and its rollouts, the bots on
the nodes, and the choice of providers. What remains to be proved is liveness, once a prover here has fairness.

The modules are written for it: no RECURSIVE operator in them, constants with named
assumptions, one action per step, invariants as named conjuncts.
