# HelpMi in TLA+

HelpMi is the backend of an odd-jobs marketplace: posters pay for a task, a
doer works on it, and the money is held until the poster confirms, a dispute is
decided, or everybody stays silent for a day. It is a NestJS application over
PostgreSQL (Prisma) with the PayHere gateway behind it. What is hard to test in
it has one shape: **several requests, webhooks and cron jobs that work on the
same rows, each a chain of awaited statements.** This project models three
groups of rows that share nothing but ids: the money core (tasks, payments,
refunds, payouts), the accounts (users, one-time codes, sessions) and the
community (doer profiles, ratings, messages, notifications). Around the money
core it models what that core takes for granted or leaves behind: the database
transactions it consists of, the events that tell its users, the amounts it
moves, and the configuration its process starts with. It checks all of them with
TLC and proves what matters most about them with TLAPS.

All paths below are under `src/backend/src/`.

## 1. Inventory

| component | state | operations that change state | talks to |
|---|---|---|---|
| **tasks** `tasks/tasks.service.ts` | `Task.status`, `doerId`, `completedAt`, `confirmedAt` | create, accept, markStarted, markComplete, confirm, releaseEscrow, cancel, forceCancel, raiseDispute | escrow and fee rows, refunds, payouts, events |
| **payments** `payments/payments.service.ts` | `Escrow.status`, `payherePaymentId`, `PostingFee.*` | initiatePayment, handleWebhook (escrow, fee), announceTask | the task row, refunds, PayHere checkout |
| **refunds** `payments/refund.service.ts`, `providers/payhere.client.ts` | `Refund.status`, `Escrow.status` | initiateForEscrow, execute, retry, reconcile | PayHere Merchant API |
| **payouts** `payments/payout.service.ts` | `Payout.status` | createForEscrowRelease, markPaid | called after a release, and by admins |
| **scheduler** `scheduler/scheduler.service.ts` | none of its own | hourly refund reconcile, hourly auto-release | refunds, tasks |
| **admin** `admin/admin.service.ts` | `Dispute.status`, KYC status and tier, bans | resolveDispute, initiateEscrowRefund, retryRefund, forceCancelTask, markPayoutPaid, approve/rejectKyc, ban/unban | all of the above |
| **auth** `auth/auth.service.ts` | `OtpToken` (attempts, used, expiry) | issueOtp, verifyOtp | SMS provider |
| **doer, KYC** `doer/doer.service.ts` | `DoerProfile.kycStatus` | submitKyc, setPayoutMethod | admin review |
| **ratings** `ratings/ratings.service.ts` | `Rating`, `avgRating`, `onTimeRate` | create, updateDoerStats | task status |
| **messages** `messages/messages.service.ts` | `Message.readAt` | sendMessage, getMessages (marks as read) | task status |
| **notifications** `notifications/*` | `Notification` | one handler per event, the fan-out of TASK_POSTED, send, push | events |
| **configuration** `config/env.validation.ts` | the environment | validateEnv, and what every service reads later | SMS, push, PayHere, storage |
| **uploads** `uploads/*` | files in two buckets | presign, presignRead | submitKyc, the KYC review |
| **database transactions** (`$transaction`) | row locks | begin, statement, wait, commit, abort | every row above |
| users, categories, guards, filters, bootstrap | single rows | single statements, no interaction | - |

How they interact: by direct awaited calls (`cancel` calls
`initiateForEscrow`, `releaseEscrow` calls `createForEscrowRelease`, the cron
jobs call both), by **shared rows**, which is where everything happens, and by
events, emitted after the commit, which only lead to notifications. There is one `$transaction` in
`releaseEscrow`, `executeCancel`, `raiseDispute`, each webhook path, `execute`
and `resolveDispute`; everything else is a statement at a time.

What is hard: two actors on one task (accept/accept, cancel/webhook,
confirm/auto-release, dispute/refund, sweep/admin retry), values read before an
await and used after it, a process that dies between two statements, a gateway
that refuses, or that pays and whose answer is lost, webhooks that come twice
or late, and cron loops that work on a batch read long before.
`PROJECT.json` lists each hazard at its line, with the properties that guard it or the
reason why none does.

What makes each component correct:

- *tasks*: one doer per task; CANCELLED never with HELD money; released once, counted once.
- *payments*: a task is announced once and only when paid; captured money keeps its payment id; a fee for a dead task is written off, no other.
- *refunds*: one executor; COMPLETED only after the gateway confirmed; refused refunds are retried until they end.
- *payouts*: one per release, to the doer of the task.
- *scheduler*: due tasks get released, failed refunds get retried, loops end.
- *admin*: what it forces must not break the rest.
- *auth*: guesses per code and codes per cooldown exceed their limit by no more
  than the requests that race; a session is worth something only to the owner
  of its phone.
- *KYC*: nobody works who was never approved; a submission takes no approval away.
- *ratings*: one per participant and task; the averages count all of them.
- *messages*: what is marked read was shown to its reader.
- *notifications*: nobody is told of something that did not happen or does not
  concern him, everybody concerned is told, no race is told twice.
- *transactions*: each has the effect it would have had alone, or none; which of
  them can deadlock is known.
- *amounts*: the parts make the whole but for a known cent; a refund is what was
  paid; nobody is paid more than came in.
- *configuration*: a production process that starts logs no codes, takes real
  money, and asks for refunds where the charges are.
- *documents*: what is presigned for the KYC can be submitted, only by its
  owner, is never public, and the review finds it.

## 2. Modules

```
Ledger                  rows, requests in flight, types            (schema.prisma)
 |- Refunds             RefundService + PayHere client
 |- Payouts             PayoutService
 |- Payments            PaymentsService + the paying poster
 |   TaskLifecycle      TasksService                (EXTENDS Refunds, Payouts)
 |    |- Scheduler      SchedulerService, RefundService.reconcile
 |    |- Admin          AdminService (money tools)
 |
HelpMi                  the composition, fairness, properties
 |   Marketplace        the abstract promise, instantiated by HelpMi
 |   Transactions       the atomic steps, instantiated by HelpMi and by Locks
 |- Claims              what comments and docs say where the code differs
 |   MCHelpMi           constants for TLC
 |- HelpMiSafety        proofs: types, NoCancelledHeld, OneExecutor, RefundConfirmed;
     |                  effects of single steps
     |- MoneyFlow       ... CapturedMoney, DisputeFreezesHeld, RefundedIsAccounted,
         |              PayoutFollowsRelease, JobsCountReleases
         |- Promise     ... FeeWrittenOffIfDead, the refinement KeepsPromise,
                        StepsAreTransactions

Locks                   the transactions over PostgreSQL's row locks
 |- MCLocks             constants for TLC
 |- LocksProofs         proofs of everything it promises

Accounts                AuthService, JwtStrategy, deleteMe, bans
 |- MCAccounts          constants for TLC
 |- AccountsProofs      proofs: types, GuessesBounded, LoginIsOwner, CodesSpaced

Directory               rows, requests in flight, Notify
 |- Profiles            submitKyc, the KYC review, accept's check, RatingsService
 |- Messages            MessagesService
     |- Community       both, over tasks that move on; properties
         |- MCCommunity constants for TLC
         |- CommunityProofs  proofs of everything it promises

Notifier                the events, the listener, NotificationsService
 |- MCNotifier          constants for TLC
 |- NotifierProofs      proofs of everything it promises

Configuration           validateEnv and what the services read
 |- Checkout            the amounts and hosts of one task's money
 |- Documents           presign, submitKyc's keys, the review's URLs
     |- Deployment      both, sending codes and pushes; properties
         |- MCDeployment     constants for TLC
         |- DeploymentProofs  proofs of everything it promises
```

**State.** `Ledger` has one variable per table (`task`, `escrow`, `fee`,
`refund`, `payout`, `dispute`), each a function from task ids because every
money row is unique per task in the schema (`escrowId`, `taskId` unique);
`"NONE"` is a row not inserted yet. Only the columns that some guard or some
property looks at are kept: statuses, owners, payment ids (0 is null),
`confirmedAt # null` as `confirmed`, and `completedAt <= cutoff` as `due`.
`jobs` is `totalJobsCompleted`, `announced` counts the TASK_POSTED events, and
`gateway` is what PayHere knows of an order.

**Requests.** `proc` holds, for every slot of a request or a cron job, where it
will resume (`pc`) and the locals it holds over the await: the doer it acts for
(`who`), the payment id (`pay`), the verdict of a check on a row read before
(`refundable`), the loop that called (`caller`) and the rest of its batch
(`todo`). An action is what runs between two awaits. A handler that reads,
checks and then writes is therefore at least two actions (`MarkStarted`,
`StartWrite`), and everything may come between them; a check that fails answers
with an error and changes nothing, so it is the action's guard. Reads that are
followed by nothing but a return are not steps. Where two consecutive awaits
can be one step without losing a behaviour, the comment says why (`MarkPaid`,
`Execute`, `ResolveDispute`).

**Accounts.** `user`, `tokens` (in the order of `createdAt`) and `sessions` (what
`verifyOtp` signed, with the phone it was signed for); `now` is a clock of few
ticks against which `born` and `expires` are compared. `req` holds a request's
locals: the phone, the user or token it found, the expiry it computed, and
whether the user it read was banned.

**Community.** `profile[u].stats` stands for `avgRating` and `onTimeRate`: it is
the set of ratings they were computed from, so a lost update is a missing
rating. A notification goes out as part of the step that emits the event:
nobody waits for its handler and nothing but its owner reads the row. Of the
task only status and doer are kept, and they move by any of the status writes
of `TasksService` and `resolveDispute` (`Moves`), those included that overwrite
a status they did not see. `shown` and `disturbed` are history variables: what
a thread showed (or failed to show, with an error); and whose review was not
recorded because the request failed half-way (`"review"`), or whose ratings
raced, failed half-way or found no profile to be counted in (`"ratings"`). The
properties except these users, each for what happened to him and nothing else,
because the code keeps no promise to them.

**Transactions** are atomic steps of the money core, and `Locks` is the reason
why they may be. There each is a sequence of statements that lock rows and read
what is committed, as PostgreSQL runs them by default (READ COMMITTED): an
UPDATE that matches waits for the holder and then looks at its WHERE again, one
that does not match passes by. `CommitsAreAtomic` says that every commit has the
effect of one step of `Transactions`, and `StepsAreTransactions` that every step
of `HelpMi` on an escrow task's rows is one of those steps. So the two meet in
`Transactions`: locks below, services above. A transaction aborted for a deadlock
is a rejected statement (`Fail`).

**Notifications of tasks.** `Notifier` keeps of an escrow or a cash task what decides
who is told: status, doer, the escrow's status (`"NONE"` for cash), whether the task
is confirmed, whether there is a dispute. A request commits its change, remembers
the events it is to emit with what it *read before*, and tells afterwards (`Tell`),
if it lives that long; `sends` are the sends in flight and `over` those that ended. A
send whose row is refused ends like one that was delivered, because the service logs
the error and goes on. Two history variables say what there is to tell, and `Record`
keeps them beside every step of a request, without regard to what the code emits:
`changes` is read off the rows (what a row says after the step and did not say
before, by whom, and whom he took for the doer), and `told` counts the requests that
set out to tell of a change that can be made once. So a request that emits without
having changed the row, as the loser of a compare-and-swap might, has a notice
without a change, or a second telling.

**Configuration.** `env` has, for each variable, the values that some reading tells
apart, in every spelling that one of them normalises and another does not.
`Boot` is `validateEnv`; the operators after it are how each service reads the
same variable later. `order` is one task's money from `create` to the payout or
the refund, in cents, with the host at PayHere that took it and the one that is
asked to return it; `toFixed(2)` on a float gives the nearest cent, and either
neighbour for a tie (`Rounded`). `file` is one uploaded file from `presign` to
the review.

**Failures.** `Faults` chooses among three: `"reject"`, a statement fails or
the process dies at any await (`Fail`: the request is gone, or control goes
back to the caller's catch; what was committed stays); `"refuse"`, the gateway
refuses a refund; `"lose"`, it refunds and the answer gets lost, which
`refundPayment` reports as a failure.

**External parts**: `PosterPays` (the poster pays a checkout, perhaps twice),
`ProviderConfirms` / `ProviderRefuses` / `ProviderAnswerLost` (the Merchant
API), `CompletionAges` (time). The gateway is assumed to pay one payment back
at most once and to refuse a second refund of it. Webhooks are not lost in
transit or remembered: any charge can be notified at any time, any number of
times, which covers late, duplicate and reordered delivery and also none.

**The promise.** `Marketplace` says in 60 lines what the users are promised: a
task is announced once and only if paid, one doer gets it, is credited once,
and the payment goes back at most once. `HelpMi` instantiates it with a
refinement mapping (`Market`), and `KeepsPromise` says that every step of the
services is one of its steps or changes nothing it sees.

## 3. Runs

| run | question | instance |
|---|---|---|
| `client_races` | What can two concurrent requests of any kind do to one task and its money? | 1 escrow or cash task, 2 doers, 2 requests, 2 charges, all faults; 260,000 states |
| `two_tasks` | Do tasks of one doer disturb each other; does a stale sweep batch? | 2 escrow tasks, 1 request, 1 cron job, lost answers, sweep of 1; 680,000 states |
| `cron_liveness` | Do the hourly jobs finish what failed or was forgotten? | 1 task, 1 request, 1 cron job, refusals, `FairSpec` |
| `locks` | Are the transactions atomic, and which of them deadlock? | 1 escrow task, 3 transactions of any kind, aborts; 887,000 states |
| `accounts` | What can two concurrent sign-ins do while accounts are deleted and banned and time passes? | 1 phone, 2 ids, 2 codes, 2 requests, limit of 1 guess, cooldown 1 of 2 ticks, failures; 2.2 million states |
| `community` | Do profiles, ratings, threads and notices agree with what happened? | 1 task, poster and applicant, 2 requests, messages begun while there is none, failures; 2.2 million states |
| `notifier` | Is everybody told of what concerns him, and of nothing else, and once? | 1 escrow or cash task, a poster, 2 equal doers, one below the tier, one banned, 2 requests, failures; 236,000 states |
| `deployment` | What does a process do in an environment it accepted? | every environment within two variables of `.env.example` or of the tests' safe one, 20 budgets, 2 users; 231,000 states |

What they show:

- `NoCancelledHeld`, `CapturedMoney`, `DisputeFreezesHeld` (client_races): money
  follows the task through every order of cancel, webhook, dispute, release.
- `PayoutFollowsRelease`, `JobsCountReleases`: money and credit go to the doer
  of the task, once, also when confirm and the auto-release race.
- `OneExecutor`, `RefundConfirmed`: the refund claim works under crashes and lost answers.
- `RefundedIsAccounted`: no crash, retry or sweep marks an escrow REFUNDED; only
  the gateway's confirmation or an admin's resolution does.
- `FeeWrittenOffIfDead`: a posting fee is given up only for a task that stays dead.
- `StepsAreTransactions`, `CommitsAreAtomic`: the two halves of the argument that
  the transactions may be taken as atomic. The second also covers the webhook,
  which reads the task a second time after its promotion counted nothing.
- `DeadlocksNeedEscrowFirst`: cancel, webhook, dispute and single statements never
  deadlock among themselves, as the comment in `applyEscrowPayment` says of two of
  them. Deadlocks exist all the same: `confirm` and `resolveDispute` write the
  escrow before the task, everybody else after it.
- `NoCancelledHeld` of `Locks`: the money rule, statement by statement.
- `KeepsPromise`: refinement of `Marketplace`, for escrow and for cash tasks.
- `RefundsRetried`, `DueTasksSettle`, `HandlersEnd`: liveness.
- `GuessesBounded`, `CodesSpaced`: the attempt limit and the cooldown are checked
  on a snapshot; they give way by the number of racing requests and no more.
- `LoginIsOwner`: when a deleted user's number gets a new owner, neither old
  sessions nor old codes open an account that is not the owner's.
- `HiredWereApproved`: accept trusts a profile that reviews and submissions
  change meanwhile; still only a reviewed and approved doer gets a task.
- `StatsExactUnlessRaced`: the averages of anybody, posters included, lag behind only
  after a race, a failure, or a rating made before there was a profile.
- `ReadMeansShown`: mark-then-list loses no message in between.
- `NoticesAreTrue`: no notification runs ahead of its row or goes to the wrong one.
- `TaskNoticesAreTrue`: behind every notice there is a change that some request really
  made to the row, and that concerns whoever is told, although the payload was read
  before the commit: no poster hears of a doer who lost to a cancel, no doer of a
  payment that a dispute kept back.
- `PartiesTold`: of every change of a row everybody concerned is told, although sends
  fail one by one, unless the request or the fan-out itself failed. Excepted is the
  doer who was hired during a cancel (below).
- `ToldOnce`: a task is announced, accepted, paid and disputed once, and one request
  sets out to tell of it, however many race or are repeated (a webhook that comes
  twice, a release after another). Starts, completions and cancels overwrite each
  other and can repeat, and so can the confirmation of a cash task, so these are told
  whenever they are made.
- `TiersAgree`: search, fan-out and accept, which read the tiers in three ways, agree.
- `CodesStayOutOfLogs`, `ProductionChargesLive`, `RefundsReachCharges`: what
  `validateEnv` accepts is also safe as the services read it, for the spellings
  the properties name.
- `BooksBalance`: fees rounded one by one still add up, but for the cent it names.
- `DocumentsReachReview`: the five tables about KYC files agree.

**Why the bounds are enough.** Every guard looks at one task's rows; two tasks
meet only in the job counter and in a cron batch, so two of them, and a batch
limit of one, make every such meeting happen. Between a read and the write that
uses it a second request can do any number of complete operations (slots are
reused), so two requests reach every race of two; three-party races are left to
the theorems, which bound nothing. Two doers are the least that can compete,
two charges the least that can be paid twice. `MaxCharges` bounds how often an
order is paid; it is the only bound in a guard of the money core. `client_races`
has an escrow task and a cash task and explores one at a time (`MCOneTask`): the
two have no row in common. In `Locks` three transactions are more than two
because a cycle may need three; nothing else is bounded. In `Notifier`, handlers
of different events share nothing, so the sends of one event are explored at a
time (`MCOneDelivery`), and so is one task, escrow or cash (`MCOneTask`). `MaxChanges` = 5
bounds how many changes a history has when it is continued. That is a whole life (a
posting, a doer, a completion, confirmation and payment, and a dispute to end it), or
a shorter one with cancels and blind writes over each other. In `Deployment` the order, the file and the messages share only the
environment, so one of them moves in a behaviour (`MCOneConcern`); an unsafe
combination needs two variables at most, one that is read in two ways and one
that permits it; the fees depend on the budget modulo 20, and `MCBudgets` has
every residue. In `Accounts`,
`MaxTime` bounds the clock and `MaxTokens` how many codes exist when another is
requested (two requests that pass the bound together make a third); a limit of
one guess and a cooldown of one tick are the least at which limit and cooldown
bite, an expiry of two ticks lets a code outlive its cooldown, and one phone
that two ids can own in turn is where deletion and sign-up meet. In
`Directory`, `MaxMessages` bounds how many messages exist when another is begun
(two racing senders make two). One task and one applicant are enough there: a
rating is per task, and poster and doer rate each other. Runs without `Crons` and with
crashes (`Fail`) say `CHECK_DEADLOCK FALSE`: without the cron jobs the system
may stop, once the task is cancelled or settled and nobody has a reason to act.
With a cron job it never stops, and deadlock is checked; so it is in `accounts`
and `community`. `locks`, `notifier` and `deployment` say so, too: a task that is
settled admits no further transaction, a task that is cancelled and told of
nothing further, and a refused process and a finished order stop. Symmetry is used over
interchangeable requests, doers and tasks, and only where no liveness is checked.

**Fairness.** `FairSpec` assumes (1) weak fairness of every step of a request
that has begun: an awaited statement is answered; (2) strong fairness of
starting each cron job: `@Cron(EVERY_HOUR)` fires it whenever the hour comes
round; (3) strong fairness of `ProviderConfirms`: the gateway does not refuse
one refund for ever. Nothing is assumed of posters, doers and admins.
`RefundsRetried` needs (2) and (3); `HandlersEnd` needs only (1).

### Where the code and its comments disagree

Four runs check a statement of a comment or an error message, and TLC finds it
violated (`Claims`, and `findings` in `PROJECT.json`):

| run | statement | what happens |
|---|---|---|
| `double_move` | concurrent refund paths never double-move money | a release between a refund's read and its uncounted claim: payout *and* refund |
| `blind_start` | a task must be ASSIGNED to start | a cancel between check and write is overwritten |
| `stuck_refund` | after a crash the sweep retries | a refund left PROCESSING is skipped by every path |
| `lost_payout` | a payout that failed can be recovered | nothing else ever creates one |

Met while modelling and not given a run of their own:

- *Resolved as refunded* (`admin.service.ts:208`): a dispute resolved for the
  poster marks the escrow REFUNDED and calls no provider, where the schema and
  `refund.service.ts:22` say that REFUNDED means the provider confirmed.
- *Overwritten approval* (`doer/doer.service.ts:43-69`): an approval between
  `submitKyc`'s check and its upsert becomes PENDING; an approved doer is
  otherwise told "KYC already approved".
- *Stale recipient* (`tasks.service.ts:439`): a doer hired after `executeCancel`
  read the task and before it wrote is not told that the task is gone.
- *Unknown SMS provider* (`auth/providers/sms.provider.ts:112`): a name that the
  factory does not know, or a known one with a blank after it, passes validation
  and makes the console provider log the codes of a production process.
- *Two readings of one mode* (`payments/payments.service.ts:81`,
  `providers/payhere.client.ts:36`): the checkout compares `PAYHERE_MODE` as it is
  spelled and is live unless it is "sandbox"; the refund client is in the sandbox
  unless it is "live" in some case. Outside the spellings of `RefundsReachCharges`
  ("", "SANDBOX", "live " or an unknown word) charges and refunds go to different
  hosts.
- *Placeholder credentials* (`providers/payhere.client.ts:30`): "your-..." counts as
  configured for a refund, where validation calls it missing.
- *The odd cent* (`tasks.service.ts:69-73`): where budget modulo 20 cents is 10,
  payout and doer's fee are both halves of a cent and may miss the budget by one.
- *Stale accept* (`tasks.service.ts:193-207`): an admin refund claims the escrow
  between accept's check and its CAS; the doer is hired for money on its way back.
- *Deadlock by order* (`tasks.service.ts:325`): confirm and cancel, dispute or a
  resolution take the rows in opposite orders; PostgreSQL aborts one of them, and
  its user sees an error.
- *Stale claim* (`refund.service.ts:72`): a dispute raised after
  `initiateEscrowRefund`'s check is refunded without being decided, although
  disputed escrows are "excluded" (`admin.service.ts:230`).
- *Stranded escrow* (`refund.service.ts:71`): a claim that stalls until another
  path has completed the refund, with a late dispute write in between, leaves
  the escrow REFUND_PENDING for ever: the COMPLETED row makes every retry return.
- *Overwritten payment* (`payout.service.ts:70`): `markPaid` between insert and
  dispatch update is set back to PENDING.
- *Lost answer* (`providers/payhere.client.ts:97`): a refund that was made but
  recorded FAILED is refused at every retry. `cron_liveness` leaves out `"lose"`
  for this reason; with it `RefundsRetried` fails.
- *Unpaid resolution* (`admin.service.ts:208`): an escrow RELEASED by
  `resolveDispute` gets no payout and counts no job.
- *Second charge* (`payments.service.ts:169`): a second captured charge of an
  order is dropped without a record.
- *One code, two sessions* (`auth/auth.service.ts:92`): two verifications that read
  one unused token both redeem it; the second update of `used` is not conditional.
- *Silent SMS* (`auth/auth.service.ts:62`): when the gateway throws, the code's row
  stays, and the cooldown refuses a new code to someone who got none.
- *Lost average* (`ratings/ratings.service.ts:94`): two ratings of one user at once;
  the write that counted one of them lands last. The next rating repairs it.
- *Half a rating* (`ratings/ratings.service.ts:46`): after a failure between the
  rating and the averages a retry is refused as "Already rated".
- *Late profile* (`ratings/ratings.service.ts:85`): ratings received as a poster
  before the first KYC submission are not in the averages until the next one.
- *Message to a closed task* (`messages/messages.service.ts:43`): the task may close
  between check and insert.
- *Unnoticed message* (`messages/messages.service.ts:53`): the recipient is of the
  task as it was read; a doer who is assigned before the insert is not told.

## 4. Proofs

TLAPS checks these for **every** value of the constants that satisfies the
assumptions of their module: any number of tasks, users, requests, cron jobs,
connections and codes, all faults, every set of environments and budgets. The
assumptions say that null values lie outside the ids, that every task has a
poster, and that what is counted is finite (`LedgerAssumption`,
`AccountsAssumption`, `DirectoryAssumption`, `NotifierAssumption`,
`LocksAssumption`, `ConfigurationAssumption`, `CheckoutAssumption`,
`DocumentsAssumption`). Every invariant and every action property of the passing
runs is among them.

| theorem | module | states |
|---|---|---|
| `TypeCorrect` | HelpMiSafety | `Spec => []TypeOK` |
| `CancelledNeverHeld` | HelpMiSafety | `Spec => []NoCancelledHeld` |
| `OneExecutorAlways` | HelpMiSafety | `Spec => []OneExecutor` |
| `CompletedWasPaidBack` | HelpMiSafety | `Spec => []RefundConfirmed` |
| `MoneyIsCaptured` | MoneyFlow | `Spec => []CapturedMoney` |
| `DisputedNeverHeld` | MoneyFlow | `Spec => []DisputeFreezesHeld` |
| `RefundedForAReason` | MoneyFlow | `Spec => []RefundedIsAccounted` |
| `PayoutsFollow` | MoneyFlow | `Spec => []PayoutFollowsRelease` |
| `JobsAreExact` | MoneyFlow | `Spec => []JobsCountReleases` |
| `WrittenOffIsDead` | Promise | `Spec => []FeeWrittenOffIfDead` |
| `ServicesKeepPromise` | Promise | `Spec => KeepsPromise`, a refinement |
| `ServicesAreTransactions` | Promise | `Spec => StepsAreTransactions` |
| `LocksHold` | LocksProofs | `Spec => [](Typed /\ LockInv)` |
| `CancelledIsNotHeld` | LocksProofs | `Spec => []NoCancelledHeld` (of `Locks`) |
| `CommitsAsIfAlone` | LocksProofs | `Spec => CommitsAreAtomic`, a refinement |
| `DeadlocksOverEscrow` | LocksProofs | `Spec => []DeadlocksNeedEscrowFirst` |
| `AccountsTyped` | AccountsProofs | `Spec => []TypeOK` (of `Accounts`) |
| `GuessesStayBounded` | AccountsProofs | `Spec => []GuessesBounded` |
| `LoginsAreOwners` | AccountsProofs | `Spec => []LoginIsOwner` |
| `CodesStaySpaced` | AccountsProofs | `Spec => []CodesSpaced` |
| `CommunityTyped` | CommunityProofs | `Spec => []TypeOK` (of `Community`) |
| `HiredWereVouched` | CommunityProofs | `Spec => []HiredWereApproved` |
| `AveragesExact` | CommunityProofs | `Spec => []StatsExactUnlessRaced` |
| `ReadWasShown` | CommunityProofs | `Spec => []ReadMeansShown` |
| `NoticesHaveRows` | CommunityProofs | `Spec => []NoticesAreTrue` |
| `NotifierTyped` | NotifierProofs | `Spec => []TypeOK` (of `Notifier`) |
| `NoticesConcern` | NotifierProofs | `Spec => []TaskNoticesAreTrue` |
| `ConcernedAreTold` | NotifierProofs | `Spec => []PartiesTold` |
| `TiersAlwaysAgree` | NotifierProofs | `Spec => []TiersAgree` |
| `NewsOnce` | NotifierProofs | `Spec => []ToldOnce` |
| `BooksAlwaysBalance` | DeploymentProofs | `Spec => []BooksBalance` |
| `DeploymentTyped` | DeploymentProofs | `Spec => []TypeOK` (of `Deployment`) |
| `CodesNeverLogged` | DeploymentProofs | `Spec => []CodesStayOutOfLogs` |
| `ProductionAlwaysLive` | DeploymentProofs | `Spec => []ProductionChargesLive` |
| `RefundsFindCharges` | DeploymentProofs | `Spec => []RefundsReachCharges` |
| `DocumentsAlwaysReachReview` | DeploymentProofs | `Spec => []DocumentsReachReview` |

### The money core

**Type correctness** is inductive as it stands, because `ProcsOK` includes that
a request that works on a task has one. It has a lemma per component, and rests
on three lemmas about the ways a request moves: `BeginEffect`, `GotoEffect`,
`ReturnEffect`. The module also states what the steps that write two columns at
once do to a row; the other proofs cite those.

**`NoCancelledHeld`** is not inductive: `executeCancel` skips the escrow of a
CASH task, so one would have to know that such an escrow holds nothing. The
invariant `HeldInv` adds just that (`CashHoldsNothing`). A step is *Harmless*
if it makes HELD only from PENDING and never makes a task CANCELLED beside HELD
money of an escrow task; harmless steps keep `HeldInv` and each action is shown
harmless.

**`OneExecutor` and `RefundConfirmed`** are proved together from `RefundInv`:
whoever is between the claim and the result finds the refund PROCESSING
(`ExecutorClaimed`), which is what the CAS needs to exclude a second executor,
and whoever is about to write COMPLETED finds it paid back
(`CompletesConfirmed`). All steps but six are *Quiet* (they admit no executor
and leave refunds and repayments alone); the six are treated one by one with
`ExecutorMoves`, which says that what an executor does to its refund disturbs
nobody else, for nobody else executes it.

**Where money comes from.** `raiseDispute`, `markStarted` and others write a row by id, long
after they looked at it. What keeps their writes from touching money nobody paid
is not their guard but what the row was when they were let in: a status that
only a payment brings about. `FundInv` says so: a task that has begun, was
completed or disputed has its payment (`RowSound`), a request before a blind
write was let in by such a row (`Justified`), and one request at most inserts the
money of a task (`OneCreator`). `Kept` lists what no step may undo for this to
last.

**Where it goes.** `ReleaseInv` adds that a release under way acts for the doer of the
task (`ActsForDoer`) and that HELD money is credited to nobody (`CreditSound`).
So the CAS on HELD adds a task to its doer's set that was not in it, and the
counter and the cardinality grow by one together (`FS_AddElement`).

**The promise.** A step implements an action of `Marketplace` only if the request
still has the right to it, and its own guard does not show it: `announceTask` runs
after the commit that opened the task, and `accept` looks at a status, not at the
payment. `PostInv` supplies it: an announcement to come is of a paid task, of one
not yet announced, and the only one (`OneAnnouncer`); what has begun was paid
(`PostSound`). Then every step is classified under the mapping `Market`: a
payment that is taken note of is `Fund`, an announcement `Post`, an accept `Hire`, a
release `Credit`, a repayment by the gateway `GiveBack`, and all others stutter. The fee written off for a dead task
falls out of the same invariant.

**The transactions.** `StepsAreTransactions` needs more than the promise does: a
release is `Release` only if it credits somebody, and a webhook's commit is `Fund`
only if it does not open a task whose money came in before. `WorkInv` adds that
work that has begun has its doer, that whoever acts on it has seen that doer
(`Employed`), and that a funded task does not await its payment (`Worked`). The
steps are then classified as for the promise, one lemma per transaction
(`ReleaseAlone`, `CancelAlone`, ...), and all others leave the rows of an escrow task
alone (`Rests`). Together with `CommitsAsIfAlone` below the argument that the
transactions may be taken as atomic is proved from the locks up.

### The locks

`LockInv` is what a transaction knows between two statements. What it has locked
is as it saw it (`Same`) or as it will leave it (`Swaps`), and nobody else holds it
(`Exclusive`). What its WHERE passed over it does *not* hold, so a second fact is
needed: that the row still does not match at the commit. It depends on who else
may write that row, and this on the two phases of a task (`Phases`): before the
payment it can only be cancelled, and no transaction but cancel and webhook can be
under way; afterwards nothing makes an escrow PENDING again. Each kind of
transaction has its own conjunct (`Cancels`, `Funds`, `Releases`, ...); a step of
one keeps those of the others because it locks no row that they hold. At the
commit the drafted rows are then those of one action of `Transactions` (`Effect`),
for the webhook also where it promoted nothing and read the task a second time.

**Deadlocks.** All kinds but `confirm` and the two resolutions lock task, then
dispute or refund, then escrow, then profile (`Depth`), so what such a transaction
waits for lies deeper than all it holds (`WaitsUpward`). In a set of waiting
transactions that wait for each other only, take one that waits for the deepest
row: its holder waits for one still deeper. So one of them is of the three kinds.

### The accounts

**`LoginIsOwner`**: what a code, a request in flight or a session says of a user and
a number is true or the user is gone (`LoginInv`). A number is only ever given to
a user who did not exist, so whoever owned one goes on owning it until the
account is deleted (`UserWriteLasting`); every other step hands the pair on, from
the phone's owner to the request, the code, the request that verifies and the
session.

**`GuessesBounded`** is not inductive: a request that read the counter will
increment it, so the counter *and* those requests must stay under the bound
together. `GuessInv` says so for every code: attempts plus `Guessing(i)`, the
requests about to count a wrong guess, is less than the limit plus the number of
slots. Beginning a guess keeps it because the counter was read below the limit
(`VerifyStep`), counting one moves a unit from the one summand to the other
(`CountStep`), and every other step lets no counter grow and no new request
guess (`OtherMoves`).

**`CodesSpaced`** counts a burst of codes over a window of time, and is not
inductive, for a request past the cooldown will add one more. `SpacedInv` counts
the codes of a burst together with the requests that may still add to it
(`Adding`): they are no more than the slots. A request passes the cooldown only
when no code of its phone is young, so it never joins those who add to a burst
that has begun; inserting a code moves a unit from one summand to the other, and
time only takes requests out of it.

### The community

**`HiredWereApproved`** holds because an approval is on record, about to be, or lost
in a failure (`Vouched`) from the moment a profile shows it, and nothing takes it
back: a submission or a rejection changes the profile and not what was recorded.
`HireInv` carries this to the request that read the profile and is about to
assign, so the race with a review does not matter.

**`StatsExactUnlessRaced`**: of a user whose ratings were not disturbed one request
at most has a rating under way, and what it read of them is still all there is
(`StatsInv`). That a second one marks him as disturbed the moment it inserts is what
keeps the first conjunct; a failure half-way marks him too, by `HalfDone`.

**`NoticesAreTrue`**: a request in flight already has what its notice will say
(`Truthful`): a rating that is told of is in the table, a message's recipient is a
participant and not its sender, although the task was read before. **`ReadMeansShown`**
is inductive: whoever marks a message goes on to list at least what he marked.

### The notifications

What the code emits and what became of the rows meet in three invariants. `RowsInv`
is about the rows and the requests: a doer, once there is one, stays; what a request
read of him is still right or was null; and a row keeps the mark of what was done to
it (`Done`, `Hired`). `HistoryInv` ties the history to the rows: whatever a row says
has been recorded (`Happened`), and what was recorded names the right doer
(`SeenRight`). `SendsInv` ties the requests to the history: every event that a request
holds and every fan-out has its change behind it (`Backed`), every change is told of or
pending (`Answered`), every send is true. The step in between is `Tells`, proved
action by action: a step that commits a change takes up the event of what the row
newly says, or of what it says now, and no other. `NewIsRecorded` and
`RecordedIsNew` carry that over to the history, and `TaskNoticesAreTrue` and
`PartiesTold` follow from `SendsInv`. `ToldOnce` needs one invariant more (`OnceInv`):
a telling leaves its mark in the row, an accepted task has a doer, a released one
does not hold its money, a disputed one has its dispute, and where the mark is
nobody sets out to tell again.
`TiersAgree` needs no invariant: the three readings agree in every state.

### The deployment

**`BooksBalance`** rests on arithmetic: rounding errs by half a cent
(`RoundedIsNear`), so net and fee miss the budget by less than a cent and a half,
and by one only if both were ties (`SplitIsNear`); and the payout and the trust
fund's share are covered by what the poster paid (`ShareIsCovered`). The invariant
adds to the property what the amounts are at each stage (`Amounts`): the charge is
fixed when the checkout is handed out and refund and payout are computed from the
fees then on record, so all three have to be tied to the fees all along.

**The environment** is fixed while a process runs, and a process that runs has
passed validation (`Booted`). So whatever was decided by a reading of it can be read
off it later (`Configured`, `Delivered`, `Filed`), and the properties reduce to the
agreement of two readings of one spelling, which is a case distinction over the
spellings.

### Model-checked only

The three liveness properties of `cron_liveness` (`RefundsRetried`, `DueTasksSettle`,
`HandlersEnd`): TLAPS has no rules for `WF_`, `SF_` and `ENABLED`. The disagreements
of section 3 are counterexamples, found by TLC; there is nothing to prove about
them.

## 5. Not modelled, and why

- Signatures and their verification, DTO formats, HTTP guards, filters and
  interceptors: functions of one request. `ProviderConfigured` stands in the money
  core for whether the Merchant API credentials are set; `Configuration` models how
  that is decided.
- `bootstrap` (`main.ts`, CORS, throttling), categories, health: no state that
  interacts.
- KYC and tier as they change, in the money core and in `Notifier`: `Doers` and
  `TierOf` are the users whose profile passes. `Community` models the change itself.
- `setPayoutMethod`, profile updates, `markRead` and `markAllRead` of
  notifications, device tokens: single statements on fields that no guard reads.
  So it stays open what becomes of a payout without bank details (`payout.service.ts:37`).
- The fan-out's limit of 500 doers, of whom more are not told, and the search's
  cut-off before it filters by distance: nothing promises completeness.
- Documents replaced while an admin looks at them: neither the review nor the
  submission records which documents were seen, so there is nothing to relate.
- `resolveDispute` in `Notifier`: it emits nothing, so nobody is told what became of
  his dispute, and nothing in the repository promises that he is.
- A review's `tier` and the `isDoer` flag, which no modelled guard reads.
- The `twilio` provider, which takes the same path as `dialog`, and a restart in
  another environment between a charge and its refund.

## 6. Plan

Order of work, most important first.

1. `Ledger`, `Refunds`, `Payouts`, `TaskLifecycle`, `Payments`, `Scheduler`,
   `Admin`, `HelpMi`, `Marketplace`, `Claims` and their runs. *Done.*
2. Type correctness, `NoCancelledHeld`. *Done.*
3. `OneExecutor`, `RefundConfirmed`. *Done.*
4. `Accounts`: sign-in, deletion, bans; `GuessesBounded` proved. *Done.*
5. `Directory`, `Profiles`, `Messages`, `Community`. *Done.*
6. `Locks` and `Transactions`: the transactions as sequences of row locks. *Done.*
7. `Configuration`, `Checkout`, `Documents`, `Deployment`; `BooksBalance` proved.
   *Done.*
8. `Notifier`: who is told of which step. *Done.*
9. `HelpMiSafety`, `MoneyFlow`, `Promise`: all invariants of the money core and the
   refinement of `Marketplace` proved. *Done.*
10. `StepsAreTransactions` and `LocksProofs`: atomicity proved from the locks up. *Done.*
11. `AccountsProofs`, `CommunityProofs`, `NotifierProofs`, `DeploymentProofs`: every
    other invariant proved. *Done.*
12. Left: invariants not yet stated, above all one for the hazards that have no
    property (stale accept, dropped charge, full sweep batch, overwritten payment),
    where the code keeps no promise now and a repair would make one.
