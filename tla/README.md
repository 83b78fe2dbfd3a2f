# TLA+ models of the bitmine mining gateway

bitmine is one NestJS process (`apps/server`) between miners and public
Bitcoin and Monero pools. It proxies Stratum connections, journals shares,
allocates confirmed pool deposits to customers in a double-entry ledger and pays
the customers out of its own Bitcoin Core and Monero wallets. PostgreSQL holds
the financial state; Redis holds sessions, counters, leases and the payout lock.

This directory models the parts in which money, the right to it, or the way to the
pools depends on the order in which things happen. TLC checks the models on small instances,
TLAPS proves some of the results for instances of any size. `PROJECT.json` lists
components, runs, hazards and theorems, and says for every definition which lines
of the source it models.

## The system's parts

| part | state | operations | what is hard about it |
| --- | --- | --- | --- |
| payouts (`payouts/`) | `PayoutBatch` and `PayoutItem` rows, the Redis key `payout:execute:wallets` | plan, approve, execute, reconcile, scheduled | every call awaits the database, Redis or a wallet between reading a row and writing it; crashes; relays whose answer is lost |
| ledger (`ledger/`) | journal transactions and entries, account balances | post, allocateDeposit, postPayout, postOperatorPayout | allocate once, exact splits, balances shared by reservations and payouts |
| deposits (`wallets/deposits.service.ts`) | `Deposit` rows | scanAll, scanAsset, allocation by an administrator | stale rows, chain reorganisations, retries of failed allocations |
| wallets (`wallets/`) | outside the process; the RPC client's queue | scanReceipts, preparePayout, broadcast, transactionKnown, call | fee convergence, several transactions per Monero payout, calls that time out and still take effect, one digest challenge shared by all calls |
| gateway sessions (`gateway/*-gateway.session.ts`) | pending requests, lease, pool socket; `ShareEvent` and `ConnectionSession` rows | authorize/login, submit, pool answers, heartbeat, close | callbacks interleave with a session that is closing |
| gateway access (`gateway.service.ts`, `gateway-auth.service.ts`) | socket counters, leases and rate counters in Redis, worker credentials | accept, authenticate, autoProvision, finalize, renew, release | a socket closes while its login is checked; several miners claim one new name |
| share maintenance (`share-maintenance.service.ts`) | aggregates, raw shares | aggregate, reconcilePending, pruneRawShares | periodic jobs meet shares in any state |
| destinations and settings (`customers/`, `settings/`, `public-portal/`) | payout policy and slots, destinations and operator addresses with a 24 h cooldown | create, request, activate due, update, claim a slot | activation from rows that were read earlier; compare-and-set of slots |
| customers' secrets (`customers/`, `public-portal/`) | tokens of workers, access code of the portal, rate counter | rotate, revoke, authenticate | a grace period that rotations overlap; a code that is replaced during a call |
| upstream pools (`upstreams/`, `upstream-runtime.service.ts`, `alerts/`) | health and cooldown of pools, open alerts; accounts that endpoints share | candidates, success, failure, test; create, update | sessions share the cooldown and the alert of a pool; peers that were read before an update |
| egress proxy (`network/`, `scripts/netproxy-agent.sh`) | setting, state file, consecutive failures; the tunnel | update, tick, resolveGatewayProxy; the agent's loop | three processes (timer, update, agent) that meet in one file, and a probe that the tunnel changes |
| administrators (`auth/`, `apps/admin/src/auth.tsx`) | account row, backup codes, sessions in Redis, cookie and tabs | login, beginTotp, enableTotp, getSession, logout | reads before a slow password check; a session that is written back after it was read |
| audit (`audit/`) | rows of a hash chain | record, verify | concurrent appends, transactions that time out |
| statistics, health, metrics, events, pages of the admin UI | views | queries | they change no state the properties are about |

How the parts interact: a session journals shares, a deposit allocates the
accepted ones to customers and credits the ledger, a plan reserves balances for a
batch of destinations, an execution signs, relays and journals the batch, and the
scheduler starts plans and executions. The models follow the same cuts:

- `GatewayAccess` composes the sockets, logins and leases of many miners;
  `GatewaySession` is one session with the share journal and the jobs behind it;
- `DepositScan` takes shares to allocations; `Settlement` composes the arithmetic
  of an allocation with that of the payout that follows;
- `Treasury` composes allocation, planning, execution and confirmation over the
  ledger's accounts; `PayoutExecution` refines its execution to single awaits;
- `Counterparties` composes what the gateway keeps of those it deals with: both kinds of
  addresses that cool down, the secrets of customers, and the accounts at the pools;
- `BackgroundJobs` composes the timers of the worker: the scan for deposits, when the
  scheduler pays, and the statistics;
- `Upstreams` composes what the server connects to: the way out of the host, the choice
  of a pool, and the wallets' RPC;
- `Administration` composes login, sessions and the audit log of administrators.

The last four put together parts that share no row, key or lock: a step of one changes
nothing that another reads. In one behaviour of these modules only one part moves (variable
`part`) and the others stay as they began, so TLC visits the sum of the state spaces in
place of their product; each property, or each conjunct of it, is about one part. In
`GatewayAccess`, `Settlement` and `Treasury` the parts interact and all of them move.

## Modules

State, in the models, is what survives an `await`: rows, Redis keys, fields of
services, and the local variables a call still uses. One action is the code from
one `await` to the next, or a database transaction where the isolation level makes
it atomic. Strings, amounts in the protocol models, hashes and log messages are
abstracted to what the code tells apart.

| module | models |
| --- | --- |
| `PayoutStates` | `payout-state.ts`: the table of transitions |
| `PayoutContract` | what executing payouts promises: sign once, relay that payload only, debit once and only after all of it is relayed |
| `PayoutExecution` | `approve` (read, write), `execute` (lock, reorg check, read, prepare, persist, reread, query, relay part by part, commit, result, catch, release) and `reconcile`, with crashes, failing calls, relays that arrive late, lost renewals and the time to live of the lock |
| `Allocation` | `largestRemainder` and `splitBasisPoints`, with decimal.js quotients of bounded precision |
| `DepositSplit` | the amounts of `allocateDeposit`: groups of shares, items, ledger entries |
| `PayoutFees` | `preparePayout` of both adapters: rounds until the fee converges, and the fee limit of the batch |
| `Settlement` | a deposit split by `DepositSplit` and paid out through `PayoutFees` |
| `Treasury` | accounts, deposits, plans of both kinds with a policy that was read before, automatic approval and its daily limit, signing, failure, retry, broadcast, confirmation |
| `DepositScan` | `scanAll`, `scanAsset`, `allocateDeposit`, an administrator's allocation; confirmations that are lost, failures, restarts |
| `GatewaySession` | one session of either protocol with its handlers, pool sockets and `close()`, the share journal, and the hourly jobs that touch shares |
| `GatewayAdmission` | `accept` and its counters, the events of a socket, leases of one worker |
| `AutoProvision` | `authenticate` up to `finalize`, `autoProvision` and its rate limit |
| `GatewayAccess` | `GatewayAdmission` and `AutoProvision` as the miner's way in |
| `ShareAggregates` | `aggregate`, its strides and windows, and pruning |
| `PayoutDestinations` | requests for addresses by administrator and portal, `activateDueDestinations` at READ COMMITTED |
| `OperatorSetting` | the operator's addresses, `updateOperatorPayout` and the readers that activate them |
| `CustomerAccess` | `createWorker`, `rotateCredential`, `revokeCredential` with the grace period; `rotatePortalAccess`, and `authenticate` of the portal with its rate limit |
| `PoolAccounts` | `create` and `update` of pool endpoints that share an account |
| `Counterparties` | these four |
| `PayoutSchedule` | `scheduled`, `claimScheduledRun`, `claimSlot`, `nextCustomerPayoutAt` |
| `BackgroundJobs` | `DepositScan`, `PayoutSchedule` and `ShareAggregates` |
| `AuditLog` | `record` statement by statement under the advisory lock, with time-outs; `verify` |
| `AdminLogin` | `login` of one account with lockout and backup codes, `beginTotp`, `enableTotp` |
| `AdminSessions` | `getSession`, the guard, `logout`, disabled administrators, and the tabs of a browser (`auth.tsx`, `api.ts`) over one cookie |
| `Administration` | these three |
| `EgressProxy` | `update` of the proxy setting, overlapping `tick`s, the state file, the agent's loop, and the dials that follow the setting |
| `PoolFailover` | `candidates`, `success` and `failure` as sessions of one asset share them, the test button, and the alerts |
| `RpcClient` | `JsonRpcClient`: the queue of digest calls, challenge and answer, time-outs |
| `Upstreams` | these three |
| `*Proofs` | theorems, see below |
| `MC*` | instances for TLC |

Definitions followed by the comment "(Mutant: ...)" are slightly wrong variants of the
definition after them. Replacing the one by the other must break a property;
`PROJECT.json` names one for every property. They are not part of the specifications.

## How state and actions correspond to the code

- **PayoutExecution.** `state`, `signedPayload`, `transactionIds`, `thresholdHit` and
  `approved` are columns of `PayoutBatch`; `postings` counts the journal transactions of
  its items; `lock` is the Redis key and `lockLost` the flag of the renewal timer; `pc`
  and `local` are where a call of `execute` is and the row it holds. `onChain` and
  `inFlight` are the network: a relay that failed here may still arrive
  (`LateRelay`). Each await of `executeUnderLock` has an action, `Throw` takes any of
  them to the catch block, and `Crash` forgets `pc` and `local` and leaves the lock
  behind. `CommitBroadcast` may commit and still report an error.
- **Treasury.** `balance` holds the ledger accounts, `batches` the rows with the policy
  they were planned with. `PlanRead` and `PlanCommit` are the two halves of `plan`: the
  policy is read outside the transaction that plans with it. The daily limit of
  `canAutoApprove` is computed from the batches of the day.
- **DepositScan.** `current` is the receipt in the scanner's hands with the row as it was
  read; `ScanWrite` writes what follows from that row, not from the present one.
- **GatewaySession.** `down` is the handler of the miner's messages (they are handled
  one by one), `up` the answers being handled, one per pool socket, and `closing` the
  progress of `close()`. A handler that is past an await goes on when the session has
  been closed meanwhile, as in the code.
- **GatewayAccess.** `conn`, `login` and `authenticated` are a socket, its login and the
  flag of its handlers; `worker` is the password an identity was claimed with; `attempts`
  and `ttl` are the Redis counter of an address and whether `EXPIRE` has been called.
- **ShareAggregates.** A stride of the job (`NextStride`) reads its window, groups by
  bucket and upserts bucket rows; shares resolve and are pruned between strides.
- **PayoutDestinations.** A run of `activateDueDestinations` has read its list before
  its transactions begin; in a transaction each statement sees what was committed before
  it (READ COMMITTED), and rows locked by another run are waited for.
- **PayoutSchedule.** `Calls` are calls of the minute timer that may overlap; `running`
  is set after the awaits that compute and claim the slot.
- **CustomerAccess.** `token` holds the rows of `WorkerCredential`, `code` the row of
  `CustomerPortalCredential`; `rotation` is what an administrator's call has read and
  `visit` where a call of the portal is. `attempts` and `ttl` are its Redis counter.
- **PoolAccounts.** `row` holds the endpoints; an `edit` has read its row and its peers
  before the transaction that writes them. `crossed` records that an edit which changes who
  is in an account overlapped another.
- **AuditLog.** One action per statement of `record`: lock, newest row, insert, commit, and
  a transaction that Prisma gives up at any of them. `verify` reads the rows in order.
- **AdminLogin.** A call has read the account row and its codes before it compares the
  password; the counter of failures, the lock and the use of a backup code are written
  afterwards. A TOTP code is known by the secret that it is made from.
- **AdminSessions.** `getSession` reads the key, the administrator's row, and sets the key
  again to extend it. Tabs share the cookie, and each has an administrator that it shows
  and a CSRF token of its own.
- **EgressProxy.** `setting` is the stored one, `file` and `config` are the files that
  application and agent share. A tick works with the setting it has read; the agent's loop
  reads fields of the file one by one. `tunnel` and `direct` are the network: the probe
  succeeds over either.
- **PoolFailover.** `cooling` is the map `unhealthyUntil` of the process, `health` the column
  `lastHealthOk`, `open` the number of open alerts of a pool; a session goes through the list
  that it has fetched.
- **RpcClient.** `previous` of a call is the promise it found in `digestTail`, which it awaits
  before it asks for a challenge. The wallet may perform a request whose caller gave up.

## Runs

| run | instance | what it shows |
| --- | --- | --- |
| `payout_execution` | one batch of two transactions, two payloads, two executions, one approval, one reconciliation; the lock holds | the batch is paid at most once, with the payload stored first, and journalled only when all of it is paid (`PaidAsStored`, `PaidAtMostOnce`); signed only when approved; implements `PayoutContract`; the lock is freed again and again |
| `payout_lock_lapses` | one batch of one transaction; the lock may vanish under a running call | the batch is journalled once, and settled only when journalled, by the database alone (`DebitedOnce`) |
| `payout_paid_twice` | the same without approvals | expected violation: without the lock two executions pay different payloads of one batch (see Finding) |
| `settlement` | amounts up to 99, up to three groups with works 1, 3, 7, two policies, quotients of three digits, fees 0, 1, 4 | `FairShares`: every deposit with work is allocated, within a unit of the exact share, more work never gets less, splits are exact; `PaidAsRecorded`: the recorded fee and outputs are those of the signed transaction, within the limit, everybody is paid something, and a payout takes no more than the deposit |
| `treasury` | two customers, one deposit, two batches, two days, both fee payers, one planner | reservations are covered by balances; the treasury account equals the wallet, and customers' claims are in it (unless the operator pays fees); automatic approvals stay within the day's limit; an eligible customer is planned |
| `session` | Bitcoin: one login and a share with two faults, the same and another request with one. Monero: two logins and a share, one login with a share and a request, and one login with a share and a fault | no accepted share that the pool has not accepted, also when connections replace each other; journalled before it is forwarded, resolved once, and accepted work the miner was told of is kept until it is paid for; every share settles; a closed session gives back what it held |
| `access` | three sockets of two addresses, two passwords, a name that is stored under another; one lease, other limits 2 | socket counts are exact and limited, leases are limited (`WithinLimits`); no address is shut out by a count that is too high; who mines for an identity has proved its password |
| `counterparties` | three addresses, two activations, two readers, three changes of the operator; three tokens and codes, two administrators, two visitors, grace 2, four ticks; three endpoints, one named account, two editors, two edits | nobody is paid at an address younger than a day (`AddressesCooled`); without an overlap one address is active, and with or without one a change never leaves none (`ActiveIsReplaced`); a replaced token ends with its grace period and an access code at once, and no rotation leaves a worker without a token (`ReplacedSecretsEnd`); endpoints of one account agree unless edits of its membership cross (`AccountsAgree`) |
| `jobs` | two deposits, two shares, two faults; nine ticks, days of four, intervals of two, two overlapping calls, one change of the policy; two shares, two strides, buckets of 2 and 4, windows of 3 and 5 ticks | a deposit is allocated once, has its batch and work of its own (`AllocationsAreSound`), and is allocated in the end if it is confirmed; a slot is paid once, by one call at a time (`OnePayment`), and not before it was announced; no share is counted twice (`NeverOvercounts`); a count falls only in the bucket in which a window begins (`FallsOnlyAtTheEdge`) |
| `administrators` | two recorders, two events; two logins, two enables of TOTP, lock after two failures; two administrators in two tabs, two logins, two requests | the audit log verifies after every history of appends and time-outs, and only grows; a backup code lets in once and guesses are bounded by the lockout and the calls in flight (`LoginsAreBounded`); a change is made by the administrator whom the tab shows (`ActsAsShown`); a session that has ended stays ended once the requests that had found it are over; the right credentials get in again |
| `egress` | two overlapping ticks, threshold 2, five settings, two saves, two faults | the server leaves by another way only with a configuration for it and after the failed probes the setting asks for (`EgressIsEarned`); path and tunnel settle on what the setting says (`EgressSettles`) |
| `upstreams` | two pools, two sessions; three RPC calls, two faults | miners return to the first pool and its alerts close (`FailsBack`); every wallet call ends and is performed at most once (`CallsEndOnce`) |

### Bounds

Two executions are enough for one to act on a row that the other has changed since;
two transactions per payload, for a relay that fails half way; two payloads, for a second
signature to differ. A third payload, approval or batch adds only independent copies:
batches share nothing but the lock, and the theorems about payouts hold for any number.
`MaxFaults` bounds failing calls, restarts and lost confirmations: two let a failure hit
the recovery from another. In `settlement` the precision of three digits stands for
decimal.js' twenty: amounts reach 99, so quotients do get rounded, in both directions.
`treasury` bounds batches and days so that the second plan of a day and a plan on the next
day both meet reservations of the first. In `access` the lease limit is one and two sockets
have the same credentials, so that leases are contended for, and a third claims the same
identity with another password. `jobs` is long enough for three daily and five interval
slots, and for both on one day.

Three runs have a set of budgets (`Traffic`, `Budgets`, `Starts`): each behaviour picks one,
so that each of the combinations that matter is exhausted without their product. In
`session` a second login meets no faults, since a replaced connection already is one, and two
faults meet a session without other requests, whose answers share nothing with a share's but
the table of pending requests. In
`administrators` five guesses against a lock after two let both calls act on a row read
before the lock, and a second setup overlaps the first without guesses. In `egress` two
faults take the direct path down and stop a process; two ticks overlap with one save
between them. Three RPC calls let one wait behind one that gave up, which itself waited; three
endpoints are an account of two and one that joins it; three tokens, a rotation of a token
that another one has replaced. Symmetry is used only in runs without liveness properties.

### Fairness

- `payout_execution`: weak fairness of every call's next step and of the expiry of an
  orphaned key. Calls of database and wallet have timeouts, and Redis expires a key after
  its time to live. Nothing is assumed of approvals, plans or reconciliation.
- `treasury`: plans that have begun commit (weak fairness), and the scheduler begins a
  customer plan again and again (strong fairness, as a plan is not enabled while another
  of the same planner is under way). The timer fires every minute.
- `jobs`: the monitor starts a scan every minute, and every await of it is answered. Nothing
  is assumed of the other two parts.
- `session`: `close()` and the handler of messages run on, because their awaits are
  answered or fail; the hourly job runs; a lease without a heartbeat expires.
- `administrators`: calls of `login` and `enableTotp` are answered, a lock of 15 minutes
  ends, and, as the premise of `RightGetsIn`, somebody with the credentials of the moment
  keeps trying. Wrong logins are not assumed to stop by themselves; they are bounded.
- `egress` and `upstreams`, runs of one specification about different `Parts` of it: the steps
  of an update, a dial, a tick and the agent's loop are answered or time out, and the timers
  fire (`setInterval`, the agent's `sleep`); a session that looks for a pool goes on, and a cooldown of the map ends; an awaited promise of the RPC client
  continues once it is settled, and a request ends with an answer or after 30 s of silence.
  That the direct path or a pool answers for good is a premise of the properties.

Otherwise miners, pools, administrators, failures and the chain are never assumed to act.

## Proofs

The theorems hold for every value of the constants that satisfies the named
assumptions of the modules (finite sets, natural limits, values that are distinct).

**PayoutExecutionProofs** (any number of batches, calls, payloads and transactions;
Redis may lose the lock): `DebitIsSafe` (from `TypeCorrect`, `PostedOnce` and
`SettledJournaled`) and `SignedIsApproved`. The inductive invariant `DbInv` adds to the properties what the calls
carry across awaits: a call that pays has a payload, a pending `approve` never restores
SIGNED without one, a call that skips the postings has seen them, and whoever is about to
write to a row works on one that is past approval. Without these conjuncts a write that
is based on an old read could not be excluded. What carries them is the conditions of the
code's updates and the unique key of the journal, not the lock.

In the same module, under the assumption that the lock is not lost while its holder runs
(`~LockCanLapse`): `PaidOnce`, `StoredThenPaid` (from `Persisted` and `JournaledPaid`),
`PayloadFinal` and `Refinement`, which shows that `PayoutExecution` implements `PayoutContract`. `LockInv` says that only
the holder of the lock is past `Acquire`, and that the payload, the ids and the number of
relayed transactions in a call's hands match the row and the network. Mutual exclusion is
proved first; it turns "the row as the call read it" into "the row as it is".

**BackgroundJobsProofs**, for the composed specification that run `jobs` checks. Each part
has an invariant of its own, and a step of another part leaves its variables alone.
- Deposits (any number of deposits, shares, faults and restarts): `AllocationSafe`.
  `DepositInv` adds that allocations are counted by batches, and that a row the scanner has
  read as ALLOCATED has its batch, because the scanner writes the status it has read.
- Payouts (any number of calls, any length of a day, interval, offset and daily time):
  `OnePayerAtATime` and `PaidAsAnnounced`, as long as a claim takes less than a period of the
  timer (`~SlowClaims`), and `SlotsPaidOnce` when the policy changes once at most as well
  (`MaxSaves <= 1`). Both premises are needed, see below. `ScheduleInv` adds that a slot that
  was taken has begun, that the one stored is the newest taken of its kind, that a slot in a
  call's hands is the current one, and that the announced time is that of the slot after the
  stored one. The proofs rest on `DivBounds`, `DivLeast` and `DivMost`, what the division of
  a time by an interval gives.
- Statistics (any shares, strides, windows and retention): `NothingCountedTwice` and
  `CountsFallAtTheEdge`. `StatsInv` adds that accepted shares are kept or were paid for.

**GatewayProofs** has the ways in and out of the gateway. The way in (any finite set of
sockets, any addresses, names, passwords, limits and rate limit): `AdmissionSafe` for `GatewayAdmission` by itself. The invariant adds that
the handlers' flag agrees with the login, without which a decrement could hit a counter
twice, and the proof works with cardinalities of sets of sockets. `AccessSafe`,
`AccessWithinLimits` and `AccessNotShutOut` are for the composed specification that run
`access` checks. Every step of `GatewayAccess` is a step of `GatewayAdmission` or leaves its
variables alone, so the limits carry over. For `ProtectedByPassword` the invariant adds that
a login is checked once, so that its identity does not change after it was let in, and that a
lease belongs to a login of its worker. What carries it is that an identity that exists is
never claimed again.

The way out (any settings, threshold, overlapping ticks, calls and failures), for the
composed specification that runs `egress` and `upstreams` check: `EgressStaysEarned`, where
`EgressInv` adds that the count which gives the direct path up is never ahead of the probes that failed one
after the other, and that a save is made from a setting that was in order when it was read; and
`CallsEndRightly`, the safety part of `CallsEndOnce`, where `WalletInv` says that the calls
which wait for each other's promise form a queue, of which those before one place have ended
and those behind it have not begun (`OneAtATime`).

**GatewaySessionProofs** (any number of messages, logins and failures, both protocols):
`PoolsWordOnly`, `ShareLives` and `ResolvedForGood`. `SessionInv` adds where a message is on
its way (`OnePlace`: a share that has not been handled has no row), and that what the gateway
knows of a share agrees with the journal and the pool (`Tracked`: who is in the map of
pending requests or has an answer under way is unresolved, and in one of the two only). An
answer takes its request from the map, so a second answer finds nothing to resolve.

**AdministrationProofs**, for the composed specification that run `administrators` checks.
- The audit log (any number of recorders, events and rows): `LogAlwaysVerifies` and
  `LogIsAppendOnly`. `AuditInv` adds that only the holder of the advisory lock is between
  reading the newest row and committing its own, that what it has read is still the newest,
  and that numbers of rows are below those still to be given. A hash is the pair of what is
  hashed, so the assumption is that SHA-256 does not collide; `ChangeIsFound` shows that a
  changed row is the first that `verify` rejects.
- The sessions (any administrators, tabs and requests): `TabsActAsShown` and
  `EndedSessionsStay`. `PanelInv` adds that the key of a session and the CSRF token of a tab
  name the same owner, and for every step of the guard what it has found out by then.
- The login (any finite set of logins, any codes and number of attempts):
  `LoginsStayBounded`. `LoginInv` adds that a transaction of `enableTotp` that has begun holds
  the row (`RowLockOk`), that one login at most has taken a code and not opened its session yet
  (`CodesOk`), and `GuessInv`: while the account is open the count lags behind the guesses by
  the calls that are counting and those that failed; once it is locked, only calls that had
  read it before can still guess.

**CounterpartiesProofs** (any addresses, calls, tokens, endpoints, accounts and terms; any
grace period): `AddressesAreCooled`, `SecretsEnd`, `TermsAgree` and `ActiveReplaced`, for the
composed specification that run `counterparties` checks. The invariant is one conjunct per
part. `AddressInv` adds that what a run has read as due has cooled; `OperatorInv`, the same of
what a reader will write; `TokenInv`, that every replaced token has an end within the grace
period of its first rotation, that only replaced ones have an end, and that some token has none
or was revoked; `PortalInv`, that a call marked as begun with an old code holds one that is not
the stored one; `PoolInv`, that, as long as no edit which moves an endpoint has overlapped
another, such edits are alone and what any edit has read is how things are. `NotRaced` adds for
`ActiveIsReplaced` what a transaction of an activation has done to the rows it has locked.

**SettlementProofs** has the arithmetic of `Allocation`, and the theorems about run
`settlement`.
- `RemainderExact` (any precision, total and weights with `Precise(total, n)`, at most `n` of
  them): `largestRemainder` gives away its total, no more and no less. `Precise` says that the
  digits of decimal.js reach so far behind the point that `n` roundings together stay below one
  atomic unit. With the code's 20 digits and an amount below 10^16 that is so for 19,999
  weights. The argument: a quotient is within half a last place of the exact one (`DivFacts`), so
  the floors together do not exceed the total; and the order of the loop gives every entry a
  place of its own, so that what is missing is handed out exactly.
- `SharesAreFair` (any customers, policies, deposits and groups of work): `allocateDeposit`
  never fails when there is work, and its shares are fair. `SplitInv` says that an allocation is
  the one computed from the work. The lemmas under it: no more units are missing than there are
  quotients with a remainder (`MissingFew`), so those, and only those, get one unit at most
  (`ShareIsOne`); a quotient is on the same side of every whole number as the exact one
  (`RoundsToward`), so a share is the exact one rounded down or up (`ShareWithinQuota`); and more
  work has a larger quotient, hence no smaller share (`ShareInOrder`).
  The last needs more digits than `Precise` asks for, `Discernible` in `SplitAssumption`: a unit
  of work must be worth a last place of the amount. With 20 digits that is so when the number of
  groups times the largest work is at most 10^19. Beyond that two quotients can round to the same
  number, and the order of the groups decides who gets the unit.
- `PayoutIsAsRecorded` (any fees with `Precise`, any limit and minimum above zero): the payout
  that follows is signed as it is recorded and paid out of the deposit. `PayoutInv` adds that the
  batch is one that `plan` or `planOperator` makes (`PlannedBatch`), and that from "sign" on the
  transaction is the one whose outputs were computed with the fee it needs. The fee is taken from
  the items exactly (`NetIs`, by `RemainderExact`), and the customers of a batch are distinct, so
  that together they get no more than the deposit credited to customers (`CustomerGrossIs`).
- What recursive functions compute is proved by induction over the subsets of a finite set or
  over numbers. A property is given as the set of what has it (`SetInduction`, `LeastOf`), as
  the provers cannot use the library's induction theorems, which take an operator.

**TreasuryProofs** has the money of `Treasury`, with the arithmetic of `SettlementProofs`.
- `ClaimsStayCovered`, `WalletsStayCovering` and `DailyLimitHolds` (any number of customers,
  planners, policies, deposits, batches and days; `AmountAssumption` says that amounts are
  natural numbers decimal.js can represent, that the split is at most 10000 basis points, and
  that fees are `Precise` for a batch of all accounts). The invariant `IInv` adds to the three
  that an unpaid batch is in a state that `Available` counts, that a journalled one was signed,
  that the fees of a signed batch's items add up to its fee (here `RemainderExact` is used),
  that no batch is of a later day, that the books balance over all accounts, and that the fee
  recovery account holds what the network fee account lacks unless the operator paid. From the
  last two follows that customers are covered.

Only model-checked: liveness and what rests on fairness (`LockIsFreed`, `EligibleIsPlanned`,
`ConfirmedIsAllocated`, `EveryShareSettles`, `ClosedIsReleased`, `RightGetsIn`, `EgressSettles`,
`FailsBack`, `CallsEndOnce`), for which TLAPS has no rule here. Every safety property that a
passing run checks is also a theorem.

## Finding

`payout_paid_twice`: `docs/ARCHITECTURE.md:5` calls Redis "disposable infrastructure for
sessions, rate state and live connection counters". That a batch is paid once, however,
rests on the Redis key `payout:execute:wallets`: the transaction that stores a signed
payload does not test that the row is still unsigned. When the key is gone while its holder
runs (Redis restarts without it, or renewals come too late), a second execution starts
before the first one notices, and each signs and relays a payload of its own. What the
database guarantees without the lock is the subject of `payout_lock_lapses`.

## Statements that do not hold

These are stated in the modules, or are runs' properties without their premise, and TLC
refutes them on the instances named. They mark where a property above has a premise,
or where a comment, test or document says more than the code does.

| statement | instance | why |
| --- | --- | --- |
| `PayoutExecution!OnlyTableTransitions`: a batch moves along the table of `payout-state.ts:17` | two approvals, one execution, one transaction | `approve` checks the table on the row it has read and updates by id (`payouts.service.ts:225`), so a second approval may return a batch that has moved on |
| `Treasury!CoveredWhoeverPays` (`OPERATIONS.fa.md:18`) | run `treasury` | no plan reserves the fee that the operator pays (`payouts.service.ts:164`) |
| `Treasury!EligibleIsPlanned` with fewer items per batch than active destinations (`OPERATIONS.fa.md:16`) | policies `MCSmallBatches`, operator's minimum 2, three batches, no suspension | `take` is applied to destinations before balances are looked at (`payouts.service.ts:89`) |
| `DepositScan!HaltLastsUntilConfirmed` (`TROUBLESHOOTING.fa.md:17`) | run `jobs` | the scan after the one that found a reorganisation writes OBSERVED over REORGED (`deposits.service.ts:106`) |
| `DepositScan!ReorgIsAlerted` | run `jobs` | after a stop between the update and the alert no scan sees an ALLOCATED row again (`deposits.service.ts:70`) |
| `GatewaySession!LeaseOfClosedEnds` (`gateway-auth.spec.ts:101`) | Bitcoin, one login, one share, no faults | a login that ends after `close()` starts a heartbeat that nobody clears (`bitcoin-gateway.session.ts:168`) |
| `GatewaySession!DedicatedUpstream` (`ARCHITECTURE.md:7`) | run `session` | the same for the pool's socket (`bitcoin-gateway.session.ts:173`), and a second Monero login opens a second one |
| `GatewayAdmission!UnauthenticatedWithinLimit` (`gateway-limits.spec.ts:35`) | three sockets of one address, limit 1, other limits 3 | `gateway:authorized` after `close` takes a socket off the counter a second time (`gateway.service.ts:168`) |
| `AutoProvision!CounterHasEnd` | run `access` | when EXPIRE fails after INCR the key stays without an end (`gateway-auth.service.ts:240`) |
| `ShareAggregates!CountsAreKept` (`ARCHITECTURE.md:32`) | run `jobs` | a window that begins inside a bucket replaces its row by a part of it (`share-maintenance.service.ts:96`) |
| `PayoutDestinations!OneActive` without `~raced` (`OPERATIONS.fa.md:37`) | run `counterparties` | two activations that overlap each revoke what they see (`customers.service.ts:335`) |
| `PayoutDestinations!RevokedIsFinal` (`public-portal.service.spec.ts:101`), `NewestStays` | run `counterparties` | a due row is activated by id, in no given order, from a list read before (`customers.service.ts:331`, `:344`) |
| `OperatorSetting!LatestIsKept` (`settings.service.spec.ts:178`) | run `counterparties` | a reader writes the setting it has read over a newer one (`settings.service.ts:233`) |
| `PayoutSchedule!SlotOnce` with two changes of the policy, or slow claims (`settings.service.spec.ts:92`, `:125`) | run `jobs` with `MaxSaves` 2, or `SlowClaims` | only the last slot is stored (`settings.service.ts:280`), and it was computed before a wait (`:257`) |
| `PayoutSchedule!PaysAsAnnounced` after a change of the policy (`OPERATIONS.fa.md:14`) | run `jobs`, the property without `saves = 0` | the announced time and the slot follow different rules (`settings.service.ts:118`) |
| `CustomerAccess!OneLasts`: one token of a worker has no end ("Rotation overlaps for a bounded grace period", `THREAT_MODEL.md:9`) | run `counterparties` | rotations that overlap do not see each other's new tokens, so both last until the next rotation (`customers.service.ts:195`) |
| `PoolAccounts!AlwaysAgree` (`README.md:96`, `POOL_ONBOARDING.fa.md:7`) | run `counterparties` | peers are read before the transaction that writes them, so an endpoint that joins meanwhile keeps the old terms (`upstreams.service.ts:107`) |
| `AdminSessions!EndedIsFinal`: an ended session is never there again | run `administrators` | a request that has read the session sets its key again after `logout` deleted it (`auth.service.ts:159`) |
| `EgressProxy!FailoverStays` (`NETWORK_PROXY.fa.md:17`) | run `egress` | the probe goes through the tunnel that it has brought up, counts as the direct path and takes the tunnel down (`proxy-health.service.ts:74`) |
| `EgressProxy!DisabledTakesDown` | run `egress` | a tick that read the old setting writes the state file after the update did, and ticks of a disabled setting write none (`proxy-health.service.ts:46`, `:74`) |
| `PoolFailover!OneAlert`: one open alert per pool | run `upstreams` | `raise` looks for an open alert and then creates one (`alerts.service.ts:21`) |
| `PoolFailover!CoolingIsAlerted` | run `upstreams` | a success on its way when another session fails closes the new alert |

Not kept either, for the same reason as their neighbours above and without a definition of
their own: nobody gets in while the account is locked (`lockedUntil` is of the row read before
the password check, `auth.service.ts:40`; `LoginsAreBounded` states what is kept), the TOTP
secret that is enabled is the one that was confirmed (a second `beginTotp` may replace it in
between), every change is in the audit log (`record` follows the change), and a portal counter
has an end (INCR and EXPIRE, as `CounterHasEnd`).

## Not modelled

- Byte streams, TLS and SOCKS handshakes: in `GatewaySession`, `PoolFailover` and
  `EgressProxy` connecting succeeds or fails. `GatewaySession` takes the pool it is given;
  which one that is, is the subject of `PoolFailover`.
- Listening and shutdown of the gateway's servers; creation of partitions.
- Creation of customers, policies and administrators: single inserts without a race the
  properties see. (`AutoProvision` assumes that a password is not rotated while its miners are
  connected.)
- Contents of Stratum messages and difficulties. A share is journalled with the difficulty
  that is current when it is submitted; which one the pool applies is not in this code.
- `listtransactions` returns the newest 5000 entries; older receipts are out of the model.
- Digests, nonces and ids of the RPC client: an answer to a challenge is right when it is
  of the connection's last challenge. That a silent request ends rests on node's idle
  time-out of 30 s.
- Cryptography: hashes, encryption and tokens are taken as injective and unguessable.
- Balances that the portal and the ledger's overview read in several queries are taken as
  read at one moment.
- Statistics, health, metrics, the stream of events, controllers and their validation,
  configuration, the pages of the admin panel other than login and the API client, command
  line tools and deployment other than the proxy's agent: they read state, pass calls on or
  start the process.
