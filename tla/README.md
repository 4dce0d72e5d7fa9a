# Verification of the Mastermind Minecraft Server Manager

TLA+ models of the control plane (NestJS, `src/control-plane`), of the host
agent (Go, `src/agent`) and of what the dashboard shows (Next.js, `src/web`),
checked with TLC on small instances; all but one of the invariants, two action
properties and the refinement of the job pipeline are proved with TLAPS for every
value of the constants.

## The system

| Component | State | Operations | Hard behaviour |
|---|---|---|---|
| Job runs, org queue, agent endpoints (`jobs/`) | `job_runs` rows, a BullMQ queue per org, request handlers in progress | create, poll (claim, mark, respond), result, progress, stale sweep | handlers interleave at every `await`; a handler outlives the agent it serves; write-by-id after an old check; restart between two calls |
| Agent job loop (`agent/internal/jobs`) | polling goroutine, read slots, mutation token and flag, job goroutines | poll, acquire, execute, submit, release | backpressure blocks the poller; the flag and the token are two operations; death with work in hand |
| Batches (`batches/`) | batch row with denormalised counters | createBatch, count started and completed, cancelBatch | partial creation, cancel racing a claim, two-statement completion |
| Scheduler (`scheduler/`) | schedule rows, delayed fires | hydrate, fire, skip, create, update, delete, next run of an expression | re-run after a stall, lost chain, boundaries of fields and windows |
| Item grants (`triggers/`, `donations/shop-grants.ts`, `jobs.service.ts`) | triggers, fires, donation lines | create, switch, backfill, fire, enqueue, retry, finish | a threshold read before the write, retry of what was done, attempt cap, lines rewritten whole |
| Donations and shop (`donations/`) | donations, totals, articles, pictures on disk | checkout, webhooks, refunds, edits of articles, thumbnails | webhooks out of order and duplicated, lost update, rows and files changed apart |
| Players (`players/`, `player-auth/`) | player rows, sessions, portal passwords and tokens | log lines, rosters, merging of rows, registration, sign-in | rosters older than log lines, rows merged under a request |
| Hosts, server instances (`hosts/`, `server-instances/`, `jobs/agent-stability.controller.ts`) | host and server rows, cooldowns | heartbeat, reboot-if-down, stability restart, maintenance, discovery, update | check-then-act automations, a JSON column several writers merge |
| Minecraft adapter (`agent/internal/games/minecraft`) | the game process, worlds, backups, jars, configuration | start, stop, restart, update, save, restore, upload, approve, merge | the process is seen only through its ports; crash in the middle of a restore; name clashes |
| Pairing and keys (`pairing/`, `agent/main.go`) | tokens, hosts, key versions, two files on the host | create token, pair, rotate, agent start | check-then-act, crash between two files |
| Accounts (`auth/`, `orgs/`) | users, memberships, sessions, integrations | register, verify, sign in, approve, remove, save settings | a sign-in that overlaps a password change, the last administrator |
| Logs and alerts (`logs/`, `alerts/`, `discord/`, `agent/internal/logtail`) | file offset and pending chunk, events, tails of the keyword scan, rate windows | tail, upload, parse, relay, retry, prune, send | rotation, repeated upload, a message cut by a chunk, a limit reached by two requests |
| Web interface (`src/web`) | page, selected server, polls in flight, session | poll, select, click, sign in and out, follow a log | answers out of order, a revoked session |
| Retry and back-off, Discord bot | - | - | not modelled |

The control plane talks to agents only through the agent's own requests
(pairing, heartbeat, poll, progress, result, logs, discovery); everything that
should happen on a host becomes a job run. The job pipeline is therefore the
core; the other models take a run as queued, executed, reported or lost.

What makes each part correct:

- *Job pipeline*: a run is executed at most once whatever is lost; a host never
  executes two mutations at a time; a run that was reported or swept stays
  settled; a running run settles; the agent's loop never stops for good.
- *Batches*: the counters add up, and completion is neither early nor missed.
- *Scheduler*: an enabled schedule goes on firing, does not stack its work, and
  its next run is the first time that fits.
- *Item grants*: whoever passes a threshold has its reward, it is sent at most
  as often as the attempts allow, and is never recorded as given when it was not.
- *Donations and shop*: the total is the sum of what was paid and not refunded;
  an article has its own picture; a line is booked at the price paid.
- *Players*: a row is online exactly while it has an open session; who left ends
  offline; an account of the portal has one owner.
- *Hosts*: a server that should be up comes up again; a stop holds; maintenance
  is not undone by an automation.
- *Files*: no world, jar or archive is lost by a step that was not told to
  remove it; a merge carries the operator's settings; discovery keeps what an
  operator set.
- *Access*: a session ends with what it rests on; an administrator is left; one
  token yields one valid key; credentials are whole.
- *Logs*: every line read is recorded; a message is posted or waits for it; a
  keyword is noticed once; a channel is not flooded; a page has no hole.

`PROJECT.json` lists the hazards of the code at their lines, with the
properties that cover them.

## Modules

Paths are under `src/control-plane/src` unless they say otherwise.

| Module | Models | Source |
|---|---|---|
| `JobConstants` | runs, hosts and requests shared by the pipeline | - |
| `JobRuns` | `job_runs` rows, the org queue, the poll (list, remove, mark), result, progress and sweep handlers | `jobs/jobs.service.ts`, `jobs/jobs-queue.service.ts`, `jobs/agent-jobs.controller.ts` |
| `AgentLoop` | the polling goroutine, the limiter, job goroutines | `agent/internal/jobs/loop.go` |
| `Batches` | a batch row, `createBatch`, the counter updates, `cancelBatch` | `batches/batches.service.ts` |
| `JobSystem` | composes the three; properties and fairness | - |
| `JobDispatch` | abstract specification: submit once, take once, execute at most once, lose at any time before | - |
| `JobSystemProofs` | the inductive invariant of the pipeline, the proofs, the refinement of `JobDispatch` | - |
| `Scheduler` | one schedule: fires, skips, hydration, edits | `scheduler/scheduler.service.ts` |
| `Cron` | fields, next run, execution window | `scheduler/cron-next.ts` |
| `Milestones` | triggers, backfill and what moves a player past a threshold, first joins included | `triggers/triggers.service.ts`, `triggers/catalog.ts`, `logs/logs.service.ts` |
| `TriggerGrants` | delivery of one trigger's items to one player | `triggers/triggers.service.ts`, `grantitems.go` |
| `Shop` | a donation: checkout, webhooks, ledger, grant lines | `donations/donations.*.ts`, `donations/shop-grants.ts`, `jobs/jobs.service.ts` |
| `ShopFront` | articles, pictures, cart, booked lines | `donations/shop-items.*.ts`, `donations/donations.shop.ts` |
| `LogTail` | the agent's tailer over a file that grows, is truncated, rotated, removed | `agent/internal/logtail/logtail.go` |
| `Logs` | chunks, chat events, relay and its retry; composes `LogTail` | `logs/logs.service.ts`, `alerts/alerts.service.ts`, `discord/discord.service.ts` |
| `Keywords` | keyword rules over chunks | `logs/logs.service.ts` |
| `LogView` | the log page, its cursor and pruning | `logs/logs.service.ts`, `web .../logs/page.tsx` |
| `Alerts` | alert rules, duplicate suppression, the rate limit | `alerts/alerts.service.ts`, `discord/discord.service.ts` |
| `Presence` | rows and sessions of a player under log lines and rosters | `logs/logs.service.ts`, `jobs/jobs.service.ts`, `players/player-identity.ts` |
| `Dashboard` | polls, selection, clicks, sign-out of every page | `web/src/hooks`, `web/src/lib`, `web/src/app` |
| `GameServer` | the game process and the lifecycle jobs as programs of steps | `agent/internal/games/minecraft/{adapter,process,maintenance,rcon}.go` |
| `Hosts` | heartbeats, automations, maintenance, the server's row; extends `GameServer` | `hosts/hosts.service.ts`, `jobs/agent-stability.controller.ts`, `heartbeat.go` |
| `Worlds` | world, backups, save, restore, wipe | `saves.go`, `adapter.go` |
| `Jars` | the jars of a server in three directories and the jobs on them | `mods.go` |
| `Mods` | templates and configuration files of the jars; extends `Jars` | `mods.go`, `modconfig.go` |
| `ConfigMerge` | merge of JSON, INI and XML documents, as operators | `configmerge/*.go` |
| `ServerFiles` | composes `Worlds` and `Mods` behind the mutation gate | `loop.go`, `adapter.go` |
| `Uploads` | archives and their runs, the portal's list of mods | `jobs/jobs.controller.ts`, `jobs/agent-jobs.controller.ts` |
| `Instances` | instance rows, updates, discovery reports | `server-instances/server-instances.service.ts` |
| `Accounts` | accounts of one organisation, some with a membership elsewhere, guards, sign-in, lock, administration | `auth/*.ts`, `orgs/orgs.service.ts`, guards |
| `Enrolment` | tokens, hosts, keys, the agent's files | `pairing/*.ts`, `agent/main.go`, `agent/internal/pairing` |
| `Access` | composes `Accounts` and `Enrolment` | controllers |
| `Portal` | portal accounts and sessions over player rows | `player-auth/player-auth.service.ts` |
| `Settings` | integrations of each organisation, the captcha the login page shows and login asks for | `orgs/orgs.service.ts`, `orgs/mod-ai.service.ts` |
| `Sums` | what is proved of sums over finite sets | - |
| `ShopProofs` | proofs about `Shop`, `ShopFront` and `Milestones` | - |
| `ServerProofs` | proofs about `Hosts` (with `GameServer`), `Worlds`, `Uploads`, `Instances` and `Jars` | - |
| `AccessProofs` | proofs about `Access` (`Accounts`, `Enrolment`), `Portal` and `Settings` | - |
| `ConsoleProofs` | proofs about `Logs` (with `LogTail`), `LogView`, `Keywords`, `Alerts` and `Cron` | - |
| `MCJobs` | instances of `JobSystem` for TLC | - |
| `MCScheduler` | `Scheduler` and `TriggerGrants` | - |
| `MCShop` | `Shop`, `ShopFront` and `Milestones` | - |
| `MCConsole` | `Logs`, `Keywords`, `LogView`, `Alerts` and `Cron` | - |
| `MCViews` | `Presence` and `Dashboard` | - |
| `MCServerFiles` | `ServerFiles`, `Uploads` and `Instances` | - |
| `MCAccess` | `Access`, `Portal` and `Settings` | - |

**How code becomes actions.** The control plane is single-threaded, and another
handler may run wherever one awaits. A handler is therefore one action per
database or queue call; what it has read before is kept in a record of its own
(`pollRun`, `rep`, `hb`, `upload`, a request's `pc` and copies). Calls whose order
nothing can observe are one step, which the comments say. A step of the agent is
one step of one goroutine, and of a job one file operation or one exchange with
the game. Requests and answers may be lost. Deaths of the control plane and of
the agent forget local state and keep rows, queues and files. Definitions whose
name carries a suffix (`Claimable_IgnoresBusy`) are mutated forms used to show
that a property can fail; no specification uses them.

**What a property excepts.** Several handlers read, decide and write in separate
awaits without a transaction; when two of them overlap on the same row, the
second overwrites the first. Where a property is about everything but that, a
history variable marks the overlap at the step where it happens (`blurred`,
`contested`, `crossed`, `raced`, `lost`, `overlapped`, `slipped`, `cutOff`) and
the property speaks of what is not marked. `discarded` marks a restore begun over
what another one left, and `lost` in `Scheduler` a chain of fires that ended in one
of the two ways known. The overlaps stay in the models, and their other properties
hold in spite of them. Each comment names the exception. Such a property is weaker
than the hazard beside it: it says that the marked overlap is the only way for the
thing to go wrong, not that it cannot.

*Job pipeline.* `Create`/`Enqueue` are the row and the `queue.add` of
`createJob`; `Poll`, `List`, `Claim`, `ReadClaimed`, `Mark`, `CountStarted` and
`Respond` are the poll handler with `getNextJobForHost` (the list and the removal
are two calls, so that two polls may claim one run) and `markJobRunStarted`; `Begin`, `Finish`, `Release` are the job goroutine; `Check`,
`Write`, `CountCompleted` and `CompleteBatch` are `reportJobResult` with
`recordJobRunCompleted`; `Age` and `FailStale` are `failStaleRunningJobs`. The
side effects of a result are one point at which the handler may fail.

*Scheduler and Cron.* Time is in minutes. A fire is named by its time, as its
`jobId` is. `Occ` gives the occurrences of each expression, so that the chain of
fires is separate from the arithmetic, which `Cron` does over a regular calendar
with short hours, days and months. `Later` stands for all times after the horizon.

*Grants and shop.* `FireOnce` stands for each caller of `fireOnce`; jobs in
flight are counted per stage, since nothing distinguishes two grant jobs of one
fire. In `Shop` the grant items of a line are one value, as in the database: a
handler writes the whole sequence it read, changed at one index.

*Game server.* A job is a program, a sequence of steps such as "stop", "wait",
"force" and "start", which the adapter's functions put together. The game is
down, booting, up, stopping or saving, and only its open ports are seen.
`stopped` remembers a stop that was reported as success.

*Worlds and mods.* A directory is a function from file names to versions; a copy
goes file by file while the game may save. A jar is known by a number, so that
the loss of a jar is the absence of its number from all directories.

*Access.* A request passes the guards, reads and writes in three steps. A session
carries the version read at sign-in; `era` counts the changes that should end
sessions. Of other organisations only this is known: who is removed from this one
may belong to another, and then keeps the account.

*Presence.* The host's last heartbeat says whether the game is reachable; only then
a roster is asked for or answered. A game that dies writes no line, and its players
stay online until a roster after the next start.

*First joins.* `UuidLine` is the line with the player's UUID, which makes the row;
`PlayerJoins` evaluates the first join only when there is none.

*Dashboard.* A page is described by what it polls, whether it numbers its loads
and what its buttons do; one set of actions serves every page.

## Runs

| Run | Question | Result |
|---|---|---|
| `jobs_dispatch` | A mutation and a read, two concurrent polls of one host which may claim the same run, one death of the control plane: executed at most once, settled runs are not taken up again, the pipeline implements `JobDispatch` | holds |
| `jobs_batch` | A batch of two, a cancel request, failing calls, a restart: the counters | holds |
| `jobs_liveness` | Two mutations, one death of the agent: the gate and the flag; runs settle, the queue drains | holds |
| `batch_settles` | Does a batch without pending or running runs complete? | violated: a swept run is never counted |
| `scheduler` | Stacking and the chain of fires with edits (switching on and off included), a call that throws inside or outside the try block, or a death; is a trigger's fire ever forgotten, with lost results and two handlers? | holds |
| `shop` | Ledger, attempts and lines of a donation; pictures and prices of the catalogue; rewards | holds |
| `first_join` | Does a player seen for the first time get the reward for it? | violated: the line with the UUID makes the row before the join is read |
| `console` | Log lines, relay, keywords, log page, alerts, cron | holds |
| `presence` | Sessions and online rows; what a dashboard page ends up showing | holds |
| `server` | Stops, maintenance and keep-alive of one server | holds |
| `files` | World, jars, configuration, archives, instance rows | holds |
| `access` | Sessions, administrators, keys, portal accounts, integrations of two organisations | holds |

`scheduler`, `shop`, `console`, `presence`, `files` and `access` each check parts that share
no rows: an initial state chooses the part, and a behaviour follows that part
alone, which covers what a product of them would, since no step of one reads
another. In `shop` the ledger and the grants of one donation are separated too:
they meet in the donation's status only, so that one part has every refund and
another credit but no items, the other the items and the refund of the whole.

**Bounds.** *Jobs*: one host is enough for safety, since an entry is claimable by
its own host only; the proofs cover any number. Two runs and two polls give every
race between two claims; one death of the control plane in `jobs_dispatch` and one
of the agent in `jobs_liveness` reach every crash point (safety under both is
proved); `jobs_liveness` has mutations only, so that blocking on a read slot is in
`jobs_dispatch` and in the proofs; `ReadLimit` 1 makes the read slot a bottleneck; a batch of two is the smallest in
which two completions interleave. *Scheduler*: two minutes give a fire, its
successor and one left over; three edits allow create, skip or a switch off, and one
change more; one failure reaches each point of a handler, the read before the try
block and the catch block included.
*Grants*: two handlers, one failure and a cap of one attempt make the cap bind; a
job that was noted has then used it up, so that what `NotForgotten` demands is that
a fire without a noted job is taken up again. With two attempts the run takes longer
than the others and finds no more.
*Shop*: refunds of parts of an amount of three; an article of two items of which
one can be given, two attempts, two requests at once, two failures; two
articles, three edits and two prices show a picture or a price of the wrong
article or edit; thresholds 1 and 2 with three switches of a trigger. *Console*: two lines and two files give a
rotation with a line on either side, two requests a repeated upload; a tail of
two letters under a text of five cuts every keyword at every place; four rows,
pages of two and a view of three overflow both, with one row at a time of the
server that is not followed; two messages per window of two ticks reach the
limit across its end; a calendar of 3 minutes, 2 hours, 3 days and 2 months ends each unit within a
search. *Presence*: three ids allow two rows to be merged and one made again, two
requests overlap, a backlog of two lines; six pages stand for all, the others
having the same polls, numbering and buttons as one of these; two loads in
flight and two changes give an answer that is late after a change and back. *Server*: two
heartbeats, one operator's job, a queue of two, one fault. *Files*: two parts of
a world tear a copy, a retention of one backup makes pruning happen, two names
and three jobs make clashes; two uploads; two instance rows, one directory in
several spellings. *Access*: three people of whom two administer, two passwords,
two tokens and hosts, two requests at once and three in all, two starts of the
agent; two organisations, the second with a captcha of its own; three player rows, two portal sessions.

**Deadlock** is checked in `presence` only: elsewhere creation is bounded, every
system may come to rest, and what must not come to rest is stated as liveness.

**Fairness.** Weak fairness of the steps a living process takes by itself:
handler steps, job goroutines (each job has a deadline in `loop.go`), the
sweeper's interval, the agent's polling and its restart by the service manager.
None for creating jobs, for cancelling, for delivering a result or for losing
anything. In the scheduler: `Tick`, the start of a dead process, hydration,
worker and request steps; no run has to settle. In the grants: handler and job
steps, the passing of time, and the roster result that starts
`retryPendingItemGrants` again and again. In `Hosts`: the heartbeat timer, its
handler, the cooldown, the agent's restart (`Restart=always` of its unit), its
steps and the sweep; none for an operator, the game or a fault. In `MCViews`: the
poll of rosters every interval while the game answers (`players.service.ts:29`),
the steps of its handlers, the browser's poll
interval and the arrival or failure of a load, and that a button pressed is
answered; none for a player, an operator or other writers.

## Proofs

Every theorem below is about a specification without fairness, for every value of
the constants that the named assumptions admit. None of the properties is
inductive alone: each has an invariant that says in addition what the copies held
by the requests in progress are worth, and every lemma about it takes one action,
or the actions that share a frame.

**Job pipeline** (`JobSystemProofs`; `JobAssumption`, `LoopAssumption`,
`BoundsAssumption`). `Invariance` is `Spec => []IInv`, and from it `TypeCorrect`,
`AtMostOnce`, `MutationExclusion`, `HeldMutationFree`, `SuccessExecuted`,
`CountersAddUp`; `SettledStays` is the action property `NeverRevived`;
`Refinement` is `Spec => Dispatch!Spec`, the stage of a run being read off from
where it is. *At most once* needs `Places`: several poll handlers may have claimed a run, but the
agent of its host waits for the answer of one of them only, and while it does the
run is held nowhere else and was not begun. *Exclusion* needs `Gate` (the
token is out exactly while a mutation goroutine lives). *A held mutation never
waits* needs `BusyPolls`, which relates the flag sent with a poll that may have
been answered long since to what the host executes now. *Success was executed*
needs `Reports`. *Never revived* needs `Handed`: a run that was marked is neither in
the queue nor on its way there, so that only a handler that had listed it before can
still write it; which of these do, the property says. *Counters add up*
needs `Tally`: no run of the batch exists before its row does. Frame lemmas
(`RunFrame`, `PollFrame` and so on) list once what each kind of step leaves
alone.

**Scheduler** (`RunsAreNotStacked`, at the end of `Scheduler`;
`SchedulerAssumption`). `OneFire`: while no two fires have overlapped at most one
is in progress; at "create" it has found no run of its type, at "enqueue" it has
one of its own and it is the only one.

**Sums** (`Sums`). A sum over a finite set is a fold, a recursive function on the
subsets of the set. No induction theorem of the library can be used with it, so
`SumExists`, `SumUnique` and `BySmaller` take a smallest set that contradicts the
claim instead. From them follow the facts that proofs cite: one element more
(`SumFirst`), two sets (`SumUnion`), renamed elements (`SumMap`), equal, smaller,
zero and changed values (`SumSame`, `SumMono`, `SumZero`, `SumChange`).

**Donations and rewards** (`ShopProofs`; `ShopAssumption`, `ShopFrontAssumption`,
`MilestonesAssumption`). `ShopInv` yields `LedgerHolds`, `GrantsAreCapped` and
`SettledMeansGiven`: a copy has the items of the line and its due items still
have attempts (`CopiesHeld`), every job sent or about to be sent is an attempt of
its own (`SentCounted`), what the line, a copy or a result calls delivered has
been given (`DeliveredGiven`), and before the donation is written nothing is
refunded, sent or delivered (`NothingBefore`). `RewardsAreEarned` (for a first join, when no earlier line has made the row) needs
`RewardInv`: a request that read an amount to change it still knows it and is the
only one (`AmountsCurrent`), no fire is ahead of its threshold
(`NothingTooEarly`), and a reward that is due has fired or is pending in some
request (`NothingForgotten`). `CatalogueIsKept` needs `ArticlesInOrder`: while one request
at a time works on an article, each step of it says which files the article has
then and which row it will write; a sale has one line for each article of the cart,
and the booked lines repeat their amounts, so that the sums are equal (`SumMap`).

**Game server** (`ServerProofs`, as the next part; `HostsAssumption`). `StopKeepsTheServerDown`
rests on `StopJob`: what is left of a stop's program says how far down the game
is. `MaintenanceIsQuiet` rests on `QuietInv`: reboot-if-down is off while
maintenance is asked for, so that no heartbeat begins that late.

**Files** (`WorldsAssumption`, `InstancesAssumption`, `JarsAssumption`).
`WorldIsKept` rests on `RestoreCopies`: while a restore copies, the world that the
first restore since the last success found, unless a further one has discarded it, is
the one beside it, and what stands in its place is the part of the backup that was
copied, unless the game saved. `ArchivesFollowRuns` rests on
`ArchiveFollows`, one line per place an upload can be at. `OperatorIsKept` needs
that a row read by a report still has the operator's wish, or that a clerk who
writes it has crossed the report (`CrossedRows`). `JarsAreKept` needs that no number
is in two places (`JarsOnce`), that what is there was written and is not gone
(`JarsCounted`), and that what is not gone is somewhere (`JarsFound`); the jars of an
archive are new because none is written over a name that exists or comes twice
(`ExtractableFacts`). It is about `JarsSpec`, the jobs as they change jars; in the
run `files` each of them is a conjunct of the job that also changes configuration.

**Access** (`AccessProofs`; `AccountsAssumption`, `EnrolmentAssumption`,
`AccessAssumption`, `PortalAssumption`, `SettingsAssumption`).
`OldSessionsAreRefused`: the version in a session, a sign-in or a request says
which era it is of (`StampsKept`). `AdminRemains`: a request that removes an
administrator leaves another one (`AdminsRemain`). `KeysAreNotShared`: one
exchange per token is between the check and the mark, one rotation per host
between reading and writing, and each version of a host has one key.
`AccountsHaveOneOwner`: a row that a registration has picked has no password, and
no two have picked the same one. `IntegrationsStayWhole`: what a save has checked
still holds when it writes; a secret is stored with the site key or after it, in each
organisation, and page and login meet in the oldest one only.

**Players** (`OnlineMeansOpen`, at the end of `Presence`; `PresenceAssumption`).
`Knows`: what the one handler in progress has read is still so, and a row matches
its sessions but for the one it is about to open (`RowsMatchBut`).

**Logs, alerts and schedule** (`ConsoleProofs`; `LogsAssumption`, `TailAssumption`,
`LogViewAssumption`, `KeywordsAssumption`, `AlertsAssumption`, `CronAssumption`).
`ReadLinesAreRecorded` and `RelaysAreAccounted` share `LogInv`: a line of the
chunk that a request will answer is covered by an event, was given up, or is
still to be parsed by that request (`RequestsHold`). From it `ChunksAreTakenWhole`
proves the action property `WholeChunks` of `Logs`, which no run lists: the agent has
all it read acknowledged at once, when every line of it is recorded or given up
(`HeldWasRead`), and short of that forgets lines only by dying. `PageHasNoHole`: the rows of
an answer continue the rows shown (`PollContinues`, `AnswerContinues`).
`KeywordsAreNoticed`: the tail kept is the end of the log (`TailIsKept`,
`SearchedIsLast`), so that an occurrence that ends in a chunk lies in what is
searched. `RulesDoNotFlood`: an open window counts the messages since its
start, and when it opened less than the limit had been sent in as long a stretch
before (`WindowCounts`), so that any stretch has the rest of one window and at most
the whole of the next. `NextRunsAreFirst`: the minutes before the one being tried do not fit
(`TriedInTurn`); the arithmetic of the calendar is in the lemmas `Division`,
`Multiples` and `FieldParsed`.

Some assumptions on constants say more than their type, each because the code
does: there is an administrator (`prisma/seed.ts:81`, `orgs.service.ts:200`), the
log page follows some server, a window is two times of the day and a part of a
field a number or a step (`schema.prisma:428`, `cron-next.ts:43`), a directory
that is missing is none of the directories.

Only model-checked:

- all liveness: `RunningSettles`, `QueueDrains`, `KeepsRunning`, `NotForgotten`,
  `KeepAlive`, `GoneSettles`, `ShownSettles` (fairness and ENABLED are out of the
  prover's reach);
- `SettingsCarried`: what the recursive merge operators of `ConfigMerge` compute for
  every document needs induction over data.

## Assumptions

- BullMQ: `job.remove` refuses only a locked job, so that several polls that listed
  a waiting job may all claim it; `add` ignores a `jobId` it knows, finished ones included; a job whose worker died is run again once,
  then failed; a job being processed cannot be removed.
- A single database statement or transaction is atomic. `failStaleRunningJobs`
  (query and conditional `updateMany`), the check and write of
  `reportJobProgress`, and `job.create` with `jobRun.create` are one step each.
- Which waiting job a poll claims is left open; the window of 500 listed jobs is
  not modelled. A result is submitted once, without retry.
- The HTTP server listens after `onModuleInit`, so that no edit runs during
  hydration. An update of a schedule changes one field.
- In `TriggerGrants` only calls of `fireOnce` made before the row exists are
  started (later ones find the row and return), the grant loop gives all or some
  of the items (one bit), and a handler takes less than five minutes.
- Stripe delivers an event at least once, in any order, and never a refund above
  what was paid. Signatures and tokens cannot be forged; a hash stands for its
  password.
- A rename or removal of one file is atomic; a copy is not. The game writes its
  world only while it runs or saves, and its log line by line.
- The clock of the control plane does not go back, and clocks are not changed
  for summer time.
- The verdict of the chat moderator, the answers of Discord and of RCON, and
  whether a port opens in time are free choices.

## Known weak points without a property

The models have these behaviours, or they lie next to what is modelled; no
property is stated because the code does not exclude them.

- `jobs-queue.service.ts:69`: two polls may claim one run. Only one agent takes it,
  but the second handler may write `running` over a result, or over the sweeper's
  verdict (`jobs.service.ts:409`), and count the start twice; the sweeper then fails a
  run that succeeded. `NeverRevived` says that nothing else revives a run.
- `scheduler.service.ts`: `KeepsRunning` excepts a call that throws outside the try
  block (:89, or in the catch block) and an update that adds a fire which the queue
  still knows (:355), after which the schedule rests until the next start, although
  `docs/scheduler-design.md:34` says that the next run is already scheduled. The calls
  of the start itself are not assumed to throw. A skip
  set after the fire read its row (:272) hits the next one; a crash after the skip
  was cleared (:107) runs the fire again; a crash between `jobRun.create` and
  `orgQueue.add` (:166) leaves a run that makes every later fire skip as busy.
- `triggers.service.ts`: the age of the fire, not of its job, decides that it is
  stale (:243); a fire whose last attempt was lost stays queued (:242); attempts
  are checked and incremented by different calls (:390), and a job noted after its
  result (:424) is sent again. `grantitems.go:66`: a retry gives again what was given.
- `jobs.service.ts:445`: a progress request checked before the result may be
  written after it.
- `pairing.service.ts:79`, `:179`: overlapping exchanges or rotations yield two
  keys, or two holders of one version; `agent/internal/pairing/pairing.go:29` and
  `agent/main.go:77`: two files are written one after the other.
- `merge_ini.go:35`, `:126`: the header `[[s]]` of an array of tables is written back
  as `[[s]`, which is no TOML, although `docs/minecraft-adapter-config.md:79` promises
  a merge in which the template wins the structure; `SettingsCarried` says that this
  is the only line of the structure to change. `:28`: of repeated headers one section's values are carried, while the same sentence speaks of matching keys.
- `saves.go:118`: after a death or a failed move back in the middle of a restore, the
  next restore removes the world put aside before it copies; it may be the only one.
- `players.service.ts:29`: while the game is down, or the agent does not probe it
  (`heartbeat.go:18`), no roster is asked for, and a player whose game died without
  lines of leaving stays online; `GoneSettles` speaks of a game that answers from some
  time on.
- `auth.service.ts:171`, `:203`: login asks for the captcha of an organisation of the
  user, or of any one, while the page shows that of the oldest; a member of another
  organisation may be asked for a captcha that the page does not show.
- `triggers.service.ts:298`: a backfill takes the first 500 players only; who is past the
  threshold beyond them has no reward.
- `adapter.go:479`: a start script that is done within three seconds fails the job,
  though the game it started runs.
- `process.go:179`: a game that has not opened its ports yet counts as stopped.
- `orgs.service.ts:156`, `:184`: two requests may remove two administrators after
  both counted them. `donations.service.ts:185`, `:310`: credits and refunds of one player that overlap
  lose an amount; a refund announced before the credit is acknowledged and lost, and
  `LedgerAddsUp` compares the total with the rows, not with Stripe. `shop-items.service.ts:150`: overlapping edits of one article.
- `alerts.service.ts:141`: an alert that the limiter or Discord refuses is noted
  and not sent again.
- Web: `mods/page.tsx` keeps the answer of an action of the server selected
  before; `saves/page.tsx:22` neither polls nor numbers its loads.

## Plan

Done: models of every area above, and proofs of their invariants.

Left, in this order:

1. *Result field* of a run and `waitForJobOutput` as an extension of `JobRuns`.
2. *Second organisation* in `Access` as rows of its own, with its hosts and roles; so
   far a membership elsewhere decides only what a removal takes away.
3. *Clock changes* in `Cron`.

## Not modelled

Back-off (`agent/internal/backoff`): one bounded delay, which decides nothing the
models tell apart. The Discord bot, rendering, forms and the cart kept in the
browser. Health samples, metrics, `sweepOfflineHosts` (nothing calls it), notes
and manual totals of players, the connection tools (a Minecraft roster carries
neither ping nor address), single RCON commands, stop and wrapper commands of
operators, jar metadata, `server.properties`, XML comments, merge statistics,
rate limits of pairing and registration, the expiry of sessions, cryptography,
logging, wording. Each component of `PROJECT.json` says what of it is left out.
