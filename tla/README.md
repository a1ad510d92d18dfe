# Reviewer assignment service: TLA+ models and proofs

Specifications of the service in `src/`: an HTTP API in Go that keeps teams,
users and pull requests in PostgreSQL and assigns reviewers to pull requests.
`src/TODO.md` holds the original requirements, `src/README.md` and
`src/openapi.yml` the documented behaviour.

What makes the service hard to get right is not its sequential logic, which
unit tests reach, but what happens when several handlers work on the same rows:
every handler runs its own transaction at READ COMMITTED, some rows are locked
with `FOR UPDATE` and some are only read, deadlines cut transactions short, and
a lost COMMIT leaves the client without an answer. Reports read several tables
one query after the other while all this goes on, and the process starts and
stops around it. The models are about that.

## 1. Inventory

| Component | State it keeps | Operations |
|---|---|---|
| Database schema, `db/migrations` | `teams`, `users`, `pull_requests`, `pr_reviewers`, `pr_reassignment_history`, with keys and foreign keys | - |
| Pull request repository, `repository/postgres/pull_request.go` | nothing of its own; the tables, and the transaction of every call in flight | `CreatePR`, `MergePR`, `ReassignReviewer` |
| Team repository, `team.go` | same | `CreateTeam`, `GetTeam`, `DeactivateTeam` |
| User repository, `user.go` | same | `SetUserActive`, `GetUserReviews` |
| Statistics repository, `stats.go` | reads only | `Stats`, `StatsSummary`, `ReviewerStats`, `PRStats` |
| Use cases, `usecase/domain` | the request timeout | empty-argument checks, `withTimeout`, one repository call |
| HTTP handlers and mapper | none | body parsing, status and error code of every domain error, DTOs |
| Process lifecycle, `cmd/main.go`, `connection.go` | the connection pool, the running server | start (ping, migrate, listen), signal, shutdown with a deadline, close |
| Configuration, logging, generated API | settings, log sinks | - |

**Interaction.** A handler goroutine calls a use case, which derives a context
with a deadline (when the configured timeout is positive) and calls one
repository method. The repository method takes a connection of the pool and runs
one transaction (`SetUserActive`: one autocommitted statement). Handlers share
nothing in memory; they meet in the tables and in PostgreSQL's row locks only.

**What is hard, per component, and what makes it correct**

* *Pull request repository.* Two creations of one id, two reassignments of one
  PR, a reassignment against a merge. Correct when a PR has at most two
  reviewers and never its author, a merged PR is frozen, an answer describes what was
  committed, and the history accounts for every change of reviewers.
* *Team repository.* `DeactivateTeam` locks users, then PRs, one row at a time,
  in scan order; `CreateTeam` locks users in request order: lock waits in the middle of a
  statement, deadlocks, PRs merged or reassigned while it waits. Correct when
  every PR it has locked and found open ends without a deactivated reviewer, nothing
  it does reaches a merged PR, and only bulk requests ever meet in a deadlock.
* *User repository.* One statement, but it waits in the middle: its UPDATE works
  on the latest row, its JOIN on an older snapshot. Correct when "user not found"
  means that there is no such user.
* *Statistics.* Three or four queries per report, each on the tables of its own
  moment; placeholders numbered by hand. Correct when what a report says about
  merged PRs is final, a history explains the reviewers beside it, the counters
  of one answer contradict each other only in the direction the order of the
  queries allows, and every combination of filter fields selects what it says.
* *Use cases.* A deadline can fall at any statement, COMMIT included.
* *HTTP.* A client that was answered 500 does not know whether its request took
  effect and repeats it. Correct when a refusal (4xx) means that nothing was
  changed, a repetition changes nothing twice, and an answer shows what is there.
* *Lifecycle.* A signal at any moment of the start, shutdown against requests in
  flight, handlers that keep pool connections while they wait for row locks.
  Correct when the process ends, never under a transaction, and nobody waits
  for a connection for ever.

`PROJECT.json` lists every component with its status, and every hazard at its
line with the properties that cover it.

## 2. Plan

| Order | Module | What it is | State |
|---|---|---|---|
| 1 | `ReviewTables` | schema, queries, `pickRandom` as operators | done |
| 2 | `ReviewTx` | the writing operations as concurrent transactions | done |
| 3 | `MCReviewTx` | small instances of it | done |
| 4 | `ReviewTxProofs`: types | type correctness | done |
| 5 | `ReviewTxProofs`: row locks | lock discipline, frozen merges, no lost update, deadlocks | done |
| 6 | `ReviewLedger`, `TeamLedger`, `ReviewTxLedger` | the abstract specifications: one PR's life as atomic steps (created, reviewer replaced or removed, merged, never anything after), then the same with the teams; the refinement mapping under which `ReviewTx` implements both | done |
| 7 | `StatsReads`, `MCStatsReads` | the reports query by query beside the steps of `TeamLedger` | done |
| 8 | `PickRandomLoop` | the loop of `pickRandom` on slices with its fallback, against the set-valued operator of `ReviewTables` | done |
| 9 | `PrTimeline`, `MCPrTimeline` | `created_at`, `merged_at`, `changed_at` with NOW() fixed at the start of a transaction, against the order of commits | done |
| 10 | `ServiceApi`, `MCServiceApi` | handlers, use cases, status codes and clients that repeat calls, on top of `ReviewTx` | done |
| 11 | `ServiceProcess` | start, shutdown, pool connections | done |
| 12 | `ReviewTxLedgerProofs`, `DataLemmas` | `AtMostTwoNeverAuthor`, `AnswerIsCurrent`, `ImpactedCleaned`, then both refinements step by step | done |
| 13 | `PrTimelineProofs` | `StampsFollowCommits` for any timeout, lag and number of handlers | done |
| 14 | `ServiceProcessProofs` | `TypeOK`, `NoTransactionKilled`, `NoServiceWithoutSchema` for any number of requests and pool size | done |
| 15 | `ServiceApiProofs` | the promises of the answers, for any clients, calls and repetitions | done |
| 16 | `StatsReadsProofs`, the sums of `DataLemmas` | everything the run `reports` checks, for any tables and any number of commits | done |
| 17 | `PickRandomLoopProofs` | `PickRandomIsTheLoop` for any number of candidates | done |

`MCReviewTx` extends `PickRandomLoop` too, which compares every draw of
`ReviewTx` with the loop. `ServiceApi` extends `ReviewTx`; `StatsReads`
extends `TeamLedger`, whose steps `ReviewTxLedger` shows the transactions to
be. `PrTimeline` and `ServiceProcess` stand alone: the first needs one row and a
clock, the second no tables at all.

## 3. What is modelled

### ReviewTables

The tables are functions from ids to rows (`Nil`: no row) and a set of pairs for
`pr_reviewers`, whose primary key makes it a set. Queries that several
operations share are operators over the rows a statement sees: `TeamCandidates`,
`OtherTeamCandidates`, `ImpactedPRs`, `ReviewersOf`. `PickRandom(S, n)` is the
set of all results `pickRandom` can return. `Database` with `ForeignKeysHold` says which databases
the service can be started on.

### ReviewTx

Each `Client` is a handler goroutine. `tx[c]` is its transaction: `pc` names the
statement it waits for (most labels are the query constants of the Go files),
`locks` the rows it holds, `w...` its uncommitted writes, the other fields the Go
variables that live from one statement to the next.

| Code | Actions |
|---|---|
| `BeginTx`, start of a method | `Receive`, `Begin` |
| `CreatePR` | `SelectAuthor`, `InsertPR`, `SelectCandidates`, `Commit` |
| `MergePR` | `SelectPRForMerge`, `Commit` |
| `ReassignReviewer` | `SelectPRForReassign`, `SelectReviewerTeam`, `SelectReplacement`, `Commit` |
| `SetUserActive` | `StartSetUserActive`, `UpdateUserActive` |
| `CreateTeam` | `InsertTeam`, `UpsertUser` per member, `Commit`, `GetTeam` |
| `DeactivateTeam` | `SelectTeamForDeactivate`, `DeactivateUser` per row, `SelectImpactedPRs`, `LockImpacted` per row, `BeginPR` per PR, `ReplaceReviewer` per deactivated reviewer, `Commit` |
| deferred `tx.Rollback` | `Fail`, in every error path |
| context deadline | `Expire`; `CommitLost` when COMMIT took effect |
| deadlock victim | `DeadlockAbort` |

An action is one SQL statement and the Go code after it. Statements that only
touch rows the transaction already holds join the action before them, because no
other transaction can tell the difference: the UPDATE in `MergePR`, the reads of
`pr_reviewers` under the PR's lock, DELETE, INSERT and history entry of a
replacement.

**PostgreSQL, as far as the code relies on it** (the definitions marked
external):

* A statement sees rows committed before it started, and its own
  transaction's writes (READ COMMITTED, pgx's default when `TxOptions` is empty).
* `FOR UPDATE`, UPDATE and `ON CONFLICT DO UPDATE` wait while another
  transaction holds the row, then work on its latest committed version and
  evaluate their WHERE again. A row that no longer matches is skipped, and stays locked.
* A scan over several rows locks them one after the other in an order the code does not
  determine. Members of a team are upserted in the order of the request.
* INSERT of an existing key waits only for an uncommitted insert (or
  update) of that key; `FOR UPDATE` on a row that is not committed yet finds nothing and does not wait.
* Foreign keys take KEY SHARE locks. They conflict with nothing here: users and
  teams are only updated outside their key, and rows of `pr_reviewers` and of the history
  are only inserted by the transaction that owns the PR's row.
* A cycle of waits ends with one transaction aborted, any of them.
* COMMIT is atomic. A client that loses its connection during COMMIT does not know
  whether it took effect. A crash of the service is `Expire` (or `CommitLost`) for every client.

Left out: names, timestamps (see `PrTimeline`), the pool (see
`ServiceProcess`), and I/O failures other than by deadline (they end like `Expire`). Some error paths of
the code no execution reaches: the service never deletes a team, a user or a PR,
and never inserts a reviewer twice. `ErrUserNotFound` in `SelectReviewerTeam` and
`ErrTeamNotFound` in `GetTeam` are in the model as the code has them and never
fire; the unique violation of an insert into `pr_reviewers` is not modelled.

### ReviewLedger, TeamLedger and ReviewTxLedger

`ReviewLedger` says what all this is for, without teams, users' flags,
transactions or locks: a record per PR (author, status, reviewers, history) that
changes by `Create`, `Merge`, `Reassign` and `HandOver`, one step per successful
request. `HandOver` is the commit of `DeactivateTeam`, which may change up to two
reviewers of every open PR at once. `ReviewTxLedger` reads the committed tables as such
records (`LedgerOf`); `ImplementsLedger` states that a COMMIT is a
step of the ledger and everything else a stutter.

`TeamLedger` adds who is in which team, and with it says what the reports can
be overtaken by: one step per writing operation, as its COMMIT leaves the tables.

* `CreatePR`, `ReassignReviewer`: the people of the record are users. Nothing is
  said about their teams or flags, which the code reads earlier and without a lock: a candidate
  may have been moved or set inactive before the COMMIT.
* `DeactivateTeam` picks the members `S` its UPDATE has found active (`team.go:25`), any
  subset of the team: a member who was inactive keeps his reviews. The PRs it
  hits are some of those `S` reviews, since its one scan (`team.go:159`) misses
  assignments in flight, and PRs merged before their turn are left alone. From each PR it
  hits it takes every reviewer in `S`, one after the other, and nobody else (`Cleared`).
* `CreateTeam` moves any users into a team that did not exist.

`TeamOf` reads the teams from the users' rows; `ImplementsTeamLedger` states that
`ReviewTx` takes no other steps. So the writers of `StatsReads` are not a
second, narrower model of the code: they are what its transactions are shown to do.

The only bound of `ReviewTx` is a constant. `MaxRequests` bounds the number of requests; nothing else is bounded, because
the ids are the constants' sets. `Quiesce` lets a system whose bound is
used up stand still, so that TLC reports every other state without a successor as a deadlock.

### PickRandomLoop

`pickRandom` cuts each pick out of its pool with `append(pool[:i], pool[i+1:]...)`,
which works on the array both slices share, and falls back to `pool[:n]` when
`crypto/rand` fails, possibly after some picks. `Picked` is the array and the
result after each pick, `PickRandomSlices` what the function can return.
`PickRandomIsTheLoop` compares that with `PickRandom` at every draw of the
transactions, in every order the query may return the candidates. One or two are asked for
(`pull_request.go:81`, `:237`, `team.go:287`). From three on the two would differ:
after two picks `pool[:3]` can reach an element twice.

### StatsReads

`ledger` and `team` are the committed tables; `request` is a report being made,
`parts` the results of the queries that have run. An action of a report
(`Stats`, `StatsSummary`, `ReviewerStats`, `PRStats`, `GetUserReviews`) runs its
next query on the tables as they are then: `Query` takes the list of queries in
the order of the code, and ends the report when a query that must have a row
has none. Between queries the writers commit,
each by a step of `TeamLedger` (`Committed`); `CreateTeam` moves users and so changes what the
joins with teams give. `past` remembers the tables the report may have seen.

The filter of the summary is modelled with its placeholders: `Args` is the list
of arguments, `Conditions` the positions the clauses name, `Where` binds them.
`Limited` is ORDER BY ... LIMIT with ties in any order. The limits of handlers and use cases
(`GetStatsSummary`, `SummaryStats`, `GetStatsReviewerUserId`) and the missing
`user_id` that the generated wrapper turns into an error are there as well.
Bounds: `MaxWrites[r]` commits during report `r`, `MaxMembers` of a new team.

### PrTimeline

One PR's row lock, a clock, and handlers with a deadline. `tx[c].now` is NOW():
fixed when the transaction begins, before it waits for the lock. `Written` says
which column gets it. `Tick` lets time pass but nothing outlive its deadline by
more than `Lag`, an assumption about the network and PostgreSQL: a COMMIT under
way or an abandoned connection is dealt with that soon. `MaxClock` bounds the
clock and `ShortHistory` the history.

### ServiceApi

`http[c]` is a client's last call, with its attempts, its status and the ids
shown to it. `Asked` is the handler and the use case up to the repository call:
`Nil` when the body cannot be parsed or an argument is missing, answered 400.
Otherwise the request starts with `Begin` of `ReviewTx`, runs there, and
`Repository` turns the outcome into a status (`WriteError`) and the ids
into what the mapper shows: no candidates are a nil slice, `null` in the
answer. `Retry` repeats what was answered 500. `Trim` is `strings.TrimSpace` on team
names, applied by `PostTeamDeactivate` only. `GetTeamGet` reads the team and
its members in one step here; the wait between its two queries matters to
nobody, teams being never deleted. Bounds: `MaxRequests` attempts in all, `MaxTries` per call.

### ServiceProcess

| Code | Actions |
|---|---|
| `OnStart` | `OpenPool`, `Migrate`, `EnsureVersion`, or `StartFails` at any of them |
| `main`, wiring and `go serv.Listen` | `Serve`, `Listen` |
| `signal.NotifyContext` | `Signal` |
| `serv.Shutdown` in a goroutine, `select` with `shutdownCtx` | `Stop`, `ShutdownStarts`, `Drained`, `StopWaiting` |
| deferred `OnStop`, `pool.Close` | `OnStop` |
| a request | `Accept`, `Acquire`, `QueryDone`, `LockRow`, `TxDone`, `Answer` |
| deadline, refused statement, server shutting down | `Expire`, `Refuse`, `Cancel` |

`Uses` lists the transactions and queries of every operation in order. From the
versions in `go.mod` (fiber v2.52.10, fasthttp v1.51.0) come: `Shutdown` of a
server that does not listen returns at once, and a shutdown ends the contexts of
requests. `timeouts` says whether `http.request_timeout` is positive; both cases
are initial states. Handlers stop with `main`.

## 4. Runs

`MCReviewTx`, `MCStatsReads` and `MCServiceApi` hold the initial databases and
the requests. Every property of a passing run has a mutant of the code's
definitions that breaks it (`PROJECT.json`, "mutants"; the mutated definitions
stand before the ones they change).

| Run | Instance | Shows |
|---|---|---|
| `pull_requests` | 3 clients, 4 of 6 requests on one existing and one new PR, team of five, deadlines | `ImplementsLedger`, `AtMostTwoNeverAuthor`, `AnswerIsCurrent`, `MergedFrozen`, `NoLostUpdate` hold when creations of one id, merges and reassignments overlap and are cut short anywhere |
| `bulk` | 3 clients, 4 of 7 requests, two teams of two, two PRs reviewed from both, deadlines | the same for team deactivations and creations, which lock many rows; real deadlocks occur (`DeadlockAbort` fires); `ImpactedCleaned`, `DeadlocksAreBulk`; `ImplementsTeamLedger` in the place of `ImplementsLedger`: whose reviews a deactivation takes, and who moves to which team |
| `serial` | 1 client, 5 of 15 requests, an empty and a populated database | types; without overlap `AssignsActive`, `AssignsFromTeam`, `FullyStaffed`: the rules of `TODO.md`; `PickRandomIsTheLoop` |
| `answered` | 2 clients, 3 requests of `bulk`, `FairSpec`, no deadlines | `Answered`: every request is answered although requests wait and deadlock |
| `inactive_assigned` | 2 clients, 2 requests | counterexample to `AssignsActive` |
| `leftover_reviewer` | 1 client, 2 requests | counterexample to `DeactivatedTeamReviewsNothing` |
| `not_found_after_move` | 2 clients, 2 requests | counterexample to `NotFoundMeansAbsent` |
| `reports` | 3 PRs, two of them created in the same microsecond, 4 users of whom one has no row; one of 11 reports (three of PRs, `Stats`, a summary over merged PRs, four of reviewers, two lists of reviews, one of them without `user_id`) with 2 commits meanwhile, or one of 80 more summaries (`from`, `to`, `status` and `limit` each left out or with one of two values) with none | `MergedReportIsFinal`, `HistoryExplainsReviewers`, `CountedPRsExist`, `MergedTotalsGrow`, `CountedMergedAreListed` between commits; `QuietTotalsAgree`, `FilterIsExact` when nothing is committed: what a filter selects is a question about one moment |
| `timeline` | 2 handlers, timeout 2, lag 1, clock to 4 | `StampsFollowCommits`: the order of timestamps is off the order of commits by at most timeout plus lag; `MergesAgree` |
| `process` | 3 requests of up to three uses each (a team creation, a merge, a PR report), pool of 2, with and without request timeouts | `NoTransactionKilled`, `TimelyStopCutsNobody`, `NoServiceWithoutSchema`; `Stops` and `Served` under fairness |
| `api` | 2 clients, 3 attempts of 19 calls, deadlines, team of four with one open PR | `MergeAnswerIsFinal`, `RefusalChangesNothing`, `RetriesApplyOnce`, `TeamAnswerExplained` |
| `null_reviewers` | 1 client, a team of one | counterexample to `ReviewersIsArray` |

**Why the bounds are enough to be of interest.** The hazards of the writing half take
two or three transactions on one PR or on two users. Three clients give a third
party that commits while two others wait for each other. Four requests let a client come
back after an error, as a retry does, while the others are still at work. Five users in
one team leave two candidates for two reviewers after the first assignment, so
that the draw matters; two PRs and two users per team make both scans of `DeactivateTeam`
visit several rows in every order. Clients are interchangeable, so the
safety runs use them as a symmetry set; the liveness run does not.

A report of three or four queries can only contradict itself through what is
committed between two of them; two commits give a reassignment before a merge, a
creation before an assignment, or a team move on either side of a query. The
limits 1 and `Nil` (which stands for 10) cut the lists of three PRs off or not;
two PRs of the same time stand on the boundary of `from` and `to`. In
`timeline` the clock runs longer than timeout plus lag, so that a stamp could be
too old. In `process` three requests want two connections and one row: one
waits for the row with a connection, one for a connection. Three attempts in
`api` are a call, its lost commit, and a rival or a repetition before the
answer.

`CHECK_DEADLOCK FALSE` stands where a system may stop: a report ends (`reports`),
a process exits (`process`).

**Fairness.** `FairSpec` (run `answered`) has weak fairness of every client's statements and of the deadlock
victim. It stands for: the goroutine runs on, PostgreSQL answers, the
deadlock detector runs, and a freed lock goes to a waiter. Weak fairness
of a waiting statement would allow starvation by an endless stream of other
requests; PostgreSQL's lock queue is first come, first served, and here the
bound on requests stands for that. Nothing is assumed of deadlines: the run switches them
off, since with them every wait ends anyway.

`Fairness` of `ServiceProcess`: `main` and the runtime's goroutines go on, except
that `EnsureDBVersion`, which has no context, may hang (`Stops` allows for it). The
other calls of `OnStart` have deadlines, so they end in success or `StartFails`;
a failed start and a failed listener are never assumed away. With request
timeouts nothing is assumed of the database: `Expire` is what ends a request.
Without them the database answers (`HandlerStep` is fair), which no code
guarantees: `postgres.query_timeout` only bounds the start. So `Stops` cannot notice a hang in
`EnsureDBVersion`, nor, without request timeouts, a query that never ends: both
are assumed away here, and listed as hazards without a property. pgxpool and PostgreSQL
serve waiters in order of arrival; requests are finitely many here, so weak fairness is enough.
No fairness is assumed of signals, arrivals, or of a server that comes up.

### Findings

1. `inactive_assigned`. `CreatePR` reads its candidates without locking their
   rows (`pull_request.go:61`), and so do `ReassignReviewer` and
   `DeactivateTeam`. A user who is set inactive between the read and the COMMIT is
   assigned all the same; `TODO.md:28` forbids it. The same holds for a whole team: an
   assignment in flight brings back a user `DeactivateTeam` has just removed.
2. `leftover_reviewer`. `DeactivateTeam` hands over the reviews of the users its own
   UPDATE returns, the members that were still active. A member set inactive before
   keeps the review, and if no active member is left the method returns at once.
   `openapi.yml:276` promises the reviews of all members.
3. `not_found_after_move`. In `setUserActiveQuery` the UPDATE works on the latest version
   of the user's row, the JOIN on the snapshot of the statement's start. When the user
   is moved to a team created meanwhile, the statement changes the flag and
   returns no row, so the answer is `ErrUserNotFound` (`errors.go:7`: "is returned when a user does not exist").
4. `null_reviewers`. `pickRandom` appends to a nil slice (`pull_request.go:302`),
   and `CreatePR` answers what it returns: with no candidate in the team,
   `assigned_reviewers` is `null`. `openapi.yml:98` makes the required field an array.

**Observations without a run**, visible in the models or in their comments:

* A summary is not the state of one moment: `StatsSummary` runs three queries
  outside a transaction, although `stats.go:113` calls the result a snapshot.
  `MergedTotalsGrow` is what remains true of it.
* When `crypto/rand` fails at the second pick, the fallback depends on the first,
  random one: it is not the head of the candidates that `src/README.md:74` describes. It is still
  a set `PickRandom` allows.
* A member sent without `user_id` is stored under the empty id (`mapper.go:14`);
  the example in `src/README.md` sends `id`.
* `PostTeamDeactivate` trims the team's name, `PostTeamAdd` and `GetTeamGet` do not
  (`handlers-fiber/team.go:48`): a team created with a blank around its name cannot be deactivated.
* `postgres.query_timeout` bounds the connect and the ping of the start, no query;
  a signal before the listener is up finds nothing to shut down, and requests
  the late listener accepts meet a closed pool (`TimelyStopCutsNobody` excludes exactly this case).
* `TimelyStopCutsNobody` says that everybody has been answered, not that everybody has
  been served: fasthttp's `Shutdown` ends the contexts of requests (`Cancel`), and a request
  it meets in the middle of a statement is answered with an error.
* A reassignment history ordered by `changed_at` is ordered by the start of
  transactions, not by their commits, within the bound `StampsFollowCommits` gives.

## 5. What is proved

Every theorem holds for all constants that meet the assumptions of its module.
TLC evaluates them in every run.

| Module | Assumptions |
|---|---|
| `ReviewTables`, `ReviewTx` | `NilAssumption` (`Nil` is not an id or a row), `RowAssumption` (ids of different tables differ), `UserAssumption` (finitely many users), `RequestAssumption`, `SeedAssumption` (requests are well-formed, the initial database fits the schema), `TimeoutsAssumption`, `MaxRequestsAssumption` |
| `ReviewTxLedger` | `RecordAssumption` (`Nil` is not a record of the ledger) |
| `StatsReads` | `FiniteAssumption` (finitely many users and PRs), `NilAssumption` (`Nil` is no id, record or status), `CreatedAtAssumption`, `RequestsAssumption`, `SeedsAssumption` (a report starts on sound records of users that exist), `BoundsAssumption` |
| `PrTimeline` | `TimelineAssumption` (timeout, lag and bounds are numbers, `Nil` is not a time) |
| `ServiceProcess` | `KindsAssumption`, `MaxConnsAssumption` (the pool has a connection) |
| `ServiceApi` | `TrimAssumption` (blanks trimmed from an empty name leave it empty), `CallsAssumption`, `MaxTriesAssumption` (a call is made at least once), `NoAnswerAssumption` (`Nil` is no call and no status) |

**`ReviewTxProofs`: `TypesHold`** (`Spec => []TypeOK`). `TypeOK` is not
inductive: what a statement writes has its type only because of what the transaction knows at that
point. `Shape` says this label by label: which request is being
served, that a row the Go code dereferences exists (`prs[p] # Nil`, `users[u] # Nil`), that
the list of members left is not empty. `TypeInv` is both. The proof has one lemma
per action, over `ProceedTypes`, `FinishTypes`, `FailTypes` and `PublishTables`
for the four ways a step ends. `Shape` survives the steps of other clients because rows never disappear (`TablesStep`, `ShapeStable`).

**`ReviewTxProofs`: `LocksHold`.** The invariant behind the rest:
*Exclusive*, no row is locked by two transactions; and *Careful*, a
transaction changes a PR's row, reviewers or history only while it holds that row's lock and
has found the PR open, or absent, under it, and changes a user's row only while it holds that lock. From it:

* `MergedStaysFrozen`: a merged PR never changes again, for any number of
  concurrent merges, reassignments and team deactivations (`MergedFrozen`). A commit that touches a PR holds its
  lock and saw it open; nobody else can have merged it since.
* `NoUpdateIsLost`: what a transaction has written or locked is not changed
  under it (`NoLostUpdate`).
* `DeadlocksOnlyBulk`: a request about one PR or one user never is in a deadlock
  (`DeadlocksAreBulk`): it holds nothing while it waits for its only lock.

**`ReviewTxLedgerProofs`: `DraftsHold`, and the refinement.** Neither
`AtMostTwoNeverAuthor` nor the refinement is inductive: both are decided at the COMMIT, by
writes made several statements earlier. `Draft(t, r, p)` is record `r` of PR `p`
with the uncommitted changes of transaction `t`, and `Drafted` says label by
label what it is: nothing before the first write; a new record without reviewers after the INSERT of
a creation, a sound one at its COMMIT; the record with status MERGED at the COMMIT of a merge; one
`Replaced` reviewer in a reassignment; in `DeactivateTeam`, per PR, at most the
two replacements of `HandedOver`, with every locked open PR still to do
(`impacted`), in work (`at`), or without a deactivated reviewer. `NoOrphans` (a PR
without a row has no reviewers and no history) is what makes a creation start from nothing.
Statements of others leave a draft alone because of `LocksHold`: they cannot
change a record whose row is locked. From `DraftsHold` follow

* `AssignmentsSound`, `AnswersAreCurrent` and `ImpactedAreCleaned`
  (`AtMostTwoNeverAuthor`, `AnswerIsCurrent`, `ImpactedCleaned`), each in a step,
* `LedgerImplemented` (`Spec => ImplementsLedger`): the initial tables are an
  initial ledger, a COMMIT is one `Create`, `Merge`, `Reassign` or `HandOver` or
  changes no record, and every other step is a stutter.

**`ReviewTxLedgerProofs`: `MembersHold`, and the refinement with teams.** That a
COMMIT is a step of `TeamLedger` needs facts about users no draft tells. `MembersInv`
adds them to the invariant above: `RowsHold`, the foreign keys of authors, reviewers and
teams; and `MembersOK`, per transaction: the people of its uncommitted records have
rows; a team it has inserted is locked, not committed by anybody, and the only one it
writes into users' rows (`NewTeam`), any other user it writes keeps the team he has;
and whoever a deactivation has found active is still in the team. The last is where the
row locks come in again: nothing but another transaction's upsert could move him,
and his row is locked to the COMMIT. `CommitOfTeams` says what a COMMIT does to the teams,
`HandingOverIsStep` that a deactivation over any number of PRs is one `DeactivateTeam`,
`OneRecordIsStep` and `CommitIsTeamStep` the rest. `TeamLedgerImplemented`
(`Spec => ImplementsTeamLedger`) is what makes the results about reports, below,
results about the transactions of the code.

**`PickRandomLoopProofs`: `DrawsAreTheLoop`** (`Spec => []PickRandomIsTheLoop`). No
invariant is needed: the candidates of a draw are users, of whom there are finitely many, and
one or two are asked for (`DrawsAre`). `LoopIs` is the fact about the slices, for a list of any
length: `CutOutIs` says what is in front after a cut, `FirstPick` and `SecondPick` which results
there are after one and two picks, `HeadIs` what the fallback returns before any pick and after
one. `SomePicks` finds the function `Picked` is defined by (a smallest number of picks
without one cannot exist), so no induction over data is needed. `SomeList` makes sure that the
set of lists is not empty, and so that each set `PickRandom` has is reached.

**`PrTimelineProofs`.** `TimelineInv` ties every transaction to the clock
(`Timely`: its NOW() has passed, its deadline is at most a timeout away from
NOW(), and the clock is at most the lag beyond the deadline), and says what the row lock protects
(`Permitted`: a creation about to commit still finds no row, a change still finds the PR open).
`Follows` is `StampsFollowCommits`, over sequences of any length. A new stamp
comes last; it has passed, and is no more than timeout plus lag old, so it is no further behind
any stamp before it. Theorems: `TimelineTypesHold`, `StampsAreInOrder`,
`MergesAnswerAlike`.

**`ServiceProcessProofs`.** `ProcessInv`: a request holds a connection only in
flight and with work left, the row lock only in a transaction (`ReqInv`); how far `main` has come
says whether there are a pool, a schema and a listener (`StartInv`); a shutdown that is
done, with the server not up, left nobody in flight, and a timely stop had waited for it
(`StopInv`); `Leased` is finite, without which a bound on its cardinality would
say nothing. Theorems: `ProcessTypesHold` (never more connections than `MaxConns`),
`NobodyIsKilled`, `NobodyIsCutOff`, `SchemaComesFirst`, for any set of requests and
any size of the pool.

**`ServiceApiProofs`: `ApiHolds`.** `ApiInv` adds two layers to the invariant of the
transactions, whose preservation is reused as it stands: a step of `ServiceApi` is a step of
`ReviewTx`, or leaves its variables alone, or is the `Begin` of a request.

* `Enrolled` is about teams: `CreateTeam` keeps its team locked and out of the
  table until it commits, has by then written a row of every member it was
  sent, and nobody else moves a user to another team.
* `Talk` is about one client. *Spoken*: an attempt under way is one more that may
  change a table, so the changes made are at most the attempts, and none at a first refusal.
  *Applied*: what a call has changed is still there (the PR exists, is merged, the
  team exists), so that a repetition meets it and changes nothing. *Final*: a
  merge answered 200 showed what the tables hold. *Staffed*: the members missing from the
  answer of a team creation are in teams the client's commit did not know.

`Talk` survives the steps of other clients since rows never
disappear, a merged PR is frozen, and a user changes team only to one that was not there before.
Theorems: `ApiTypesHold`, `MergeAnswersAreFinal`, `RefusalsChangeNothing`,
`RetriesAreAppliedOnce`, `TeamAnswersAreExplained`, and `ServiceImplementsLedger`,
the refinement again for clients that repeat their calls.

**`StatsReadsProofs`: `StatsHolds`.** None of the promises of a report is inductive:
a report is judged when its last query has run, by tables that have changed
since its first. The writers are all steps of `TeamLedger`, partial hand-overs among them
(`Effect` is what each leaves true, proved for one operation after the other). `StatsInv` says of
every part, from the moment its query has run, what remains true of it whatever commits afterwards:

* `TablesOK`: records are sound and name users that are there, which the
  aggregates need (`RecordIs`); `Underway`: the fields there are those of
  the first queries, in their order, so that each later query finds the
  earlier ones.
* `PRReport`: a PR read as merged has the reviewers and the history it has now
  (`Grown`: a commit leaves merged records alone). The reviewers read are
  *explained* by the record of now: undoing some last changes of its history
  leads to them (`Explains`). A replacement appends an entry and `Rewind` undoes it first
  (`RewindAppend`, `ExplainsReplaced`), so the explanation survives every commit; when the
  history is read it becomes one by a record of the report's time.
* `StatsReport`, `SummaryReport`, `ReviewerReport`: while nothing was committed
  (`Quiet`), every part is the aggregate of the tables. After a commit only the
  inequalities are left: the PRs with reviewers are still rows, the reviews of
  merged PRs in the filter are still there, so what was counted first is at most
  what is counted later, and a PR has at most two reviews (`TwoReviewsEach`).

The aggregates rest on `DataLemmas`: grouping a finite set and adding up the
groups gives its size (`CountsAddUp`), sums are monotone (`SumLeq`, `SumSubset`).
`WhereIs` shows that whatever fields of a filter are set, every placeholder meets its
argument; `LimitedIs` and `TopIs` what ORDER BY ... LIMIT leaves. Theorems:
`TypeOKHolds`, `MergedReportIsFinalHolds`, `HistoryExplainsReviewersHolds`,
`CountedPRsExistHolds`, `MergedTotalsGrowHolds`, `CountedMergedAreListedHolds`,
`QuietTotalsAgreeHolds`, `FilterIsExactHolds`.

The library's induction theorems take an operator as a parameter, which no
installed prover can instantiate. The sums and the fold `Rewind` are shown
without them: a set of smallest counterexamples has a least element (`Least`, from the
well-foundedness of `<` on `Nat`), and that one cannot be a counterexample.

**What proving changed in the models.** `ApiTypeOK` was false with `MaxTries = 0`
(a first attempt counts one), hence `MaxTriesAssumption`. `Asked` had overlapping
guards in a CASE, whose value is then any of them: it asks for malformed bodies first now,
as the handlers do. `Begin` was cut out of `Receive` so that both specifications start a
request by the same operator. `StatsReads` states now that the tables a report starts on are
sound, which its seeds were and nothing said. `Query` writes the field it adds as a function, and
`FilterIsExact` adds up a function. `StatsReads` once had writers of its own, whose
`DeactivateTeam` took the reviews of all members, inactive ones too; the proof of
`TeamLedgerImplemented` is possible only for the steps `TeamLedger` has now. The inductive invariants were checked by TLC on the
instances of the runs before they were proved.

**Model-checked only.**

* `Answered`, `Stops`, `Served`: liveness under fairness is outside what TLAPS does.
* `AssignsActive`, `AssignsFromTeam`, `FullyStaffed`: they are checked without overlap only
  (run `serial`, one client) and claim nothing about concurrent requests; `inactive_assigned` is the
  counterexample to the first with two.

## 6. What is not modelled

* Configuration: environment, file and defaults are read in a straight line before
  anything runs concurrently. The values that matter to behaviour are parameters:
  the request timeout (`Timeouts`, `timeouts`, `Timeout`), the size of the pool
  (`MaxConns`) and the shutdown deadline (`StopWaiting` may give up at any moment).
* Logging: it writes lines and changes no state.
* The generated API beyond its bodies, required parameters and routes: parsing of
  query parameters is library code, the embedded specification is data.
* Of the schema: serial ids, indexes, ON DELETE (nothing is deleted but rows of
  `pr_reviewers`) and the Down migrations, which the service never runs.
* Names of users and PRs, messages and the `code` field of errors, the counters of
  `DeactivateResult`, the order of rows in lists (except through LIMIT).
* The empty-argument checks of `Team`, `GetReviewList`, `ReviewerStats` and `PRStats`:
  no request reaches them, since the generated wrapper refuses an empty query parameter
  first and a path parameter is never empty.
* PostgreSQL, pgx, fiber and fasthttp themselves: what the code relies on is in the
  definitions marked external, and listed above.
