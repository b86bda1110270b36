# Verification of Debrief

Debrief is a Next.js application.  It turns a CSV of ad results into a memo with
one primary decision, reads competitors' pages and ads, and in its monitoring
beta checks competitor pages on a schedule and stores what they say.  This
directory holds TLA+ models of the system, the TLC runs that check them on small
instances, and proofs, checked by TLAPS, that hold for every value of the
constants.

Paths below are relative to the repository's `src/`.  `service.ts`,
`scheduler.ts` and so on, without a directory, are in `modules/monitoring/`.

## The system

| Part | State it keeps | Operations | Talks to |
|------|----------------|------------|----------|
| Check engine (`service.ts`, `scheduler.ts`, `outcomes.ts`, `fetcher.ts`, `db/schema.ts`) | Postgres rows: competitors, snapshots, check events | check (fetch, plan, four statements), add, remove, resume, retry | guarded fetch, Postgres |
| Cron pass (`service.ts`, `app/api/monitoring/cron`, `vercel.json`) | the queue of one pass, in memory | select due rows, pool of workers | check engine, platform scheduler |
| Anonymous workspaces, rate limits (`workspace.ts`, `ratelimit.ts`) | workspace rows, rate events, a cookie per browser | resolve, mint, touch, consume | every monitoring route |
| Monitoring reads and UI (`differ.ts`, `components/monitoring`) | what the browser last fetched | list, diff, derive a status | monitoring routes |
| Guarded fetch (`modules/competitor/guardedFetch.ts`, `ssrf.ts`) | none between calls; hop, deadline and bytes in one call | fetch with redirects, deadline and size cap | DNS, HTTP |
| Debrief session (`components/workspace/DebriefProvider.tsx`, `components/debrief/GeneratorPanel.tsx`) | file, fields, memo, error, period slot, queue of accounts, object URLs; the panel's card and KPI | choose a file, generate, switch the KPI, reset, add to and remove from the queue | debrief API |
| Meta connection (`MetaProvider.tsx`, `MetaConnect.tsx`, `modules/meta`) | token and accounts in memory, popup, listeners, polls and timers | connect, disconnect, expire, pull | OAuth popup, Graph API |
| Analysis, decision, memo (`modules/debrief`) | none: pure functions | check, extract, analyze, decide, compose, compare | debrief API |
| Debrief API (`app/api/debrief/route.ts`) | none: one request | the ladder of checks, then the pipeline | analysis |
| Watchlist (`modules/competitor/watchlist.ts`, `pageSignals.ts`, `GeneratorPanel.tsx`) | a list in memory and in localStorage; the panel's cards and guard | add, type, remove, clear, refresh one, refresh all | signals route |
| Competitor debrief (`modules/competitorDebrief`, `CompetitorDebriefPanel.tsx`) | pasted blocks, page dump, search, fetched ads, report | parse, extract, search, select, fetch, load more, generate, clear, reset | three routes, Ads Library |
| Ads Library client (`modules/metaAdLibrary`) | none: one call | search pages, fetch ads | Ads Library |
| Report (`components/report`, `components/debrief/Report.tsx`) | look, preset, register, logo URL, checked tests, briefs | customize, reset, check tests, draft briefs | none |
| Marketing and static pages | none | none | none |

What makes it hard:

- The database driver is stateless HTTP: every statement commits alone, except
  in the one transaction of `addCompetitor`.  A check is a sequence of separately
  committed statements, nothing locks the row, and the failure streak is read
  before a fetch of up to twenty seconds and written back as a value.
- An instance can be killed between any two statements, and the platform can
  miss or repeat a firing.
- In the browser every request is answered later, while the user goes on
  clicking.  Almost no answer is compared with what was asked: what keeps them
  apart is which buttons a state leaves enabled, and which components are mounted.
- The report says one decision many times over, to two readers, in sentences,
  statuses, tests and counts that separate functions compute by rules of their own.

## What makes each part correct

- *Check engine*: a status that says a page was read has a snapshot behind it; a
  failed check touches no good data; a pause is earned by failed checks and is
  only lifted by the user; a removed page stays removed.
- *Cron pass*: of a bounded batch, each page is checked by one worker and counted
  once, however the workers take turns; a due page is reached in spite of failures, and waits only for older dates;
  scheduled checks of a page are at least a week apart.
- *Workspaces*: never more pages than the cap; a limit exceeded at most by the
  requests that overlap; a browser keeps reaching the pages it was told of.
- *Guarded fetch*: no connection to an address that was not checked, no redirect
  beyond the limit, one socket at a time and none left, an end by the deadline
  whatever the servers do, and a cap on what is kept of a body.
- *Debrief session*: one run at a time; what was entered about a file is never
  used with another; images are revoked exactly when they are dropped; the queue
  is only edited by the user; the card and the KPI are those of the loaded file.
- *Meta connection*: connected means a token and its accounts; waiting for a
  sign-in ends; a pull that was cut says so.
- *Analysis, decision, memo*: the registers of a report agree with each other and
  with the decision; every ad is judged or set aside once; confidence is earned;
  what the call says of the ends of a list holds of the whole of it; two periods
  are matched without guessing.
- *Competitor debrief and watchlist*: what is read of a page stays with its page;
  every line of a dump is accounted for; a pattern has two examples; what the
  user declined stays out.
- *Report*: the named preset is what is shown; briefs are those of the checked
  tests.

## Modules

| Module | Models | Kind |
|--------|--------|------|
| `CheckPlan` | `fetcher.ts` outcome switch, `outcomes.ts`, `scheduler.ts` | operators |
| `MonitoringEngine` | `service.ts` check engine and the requests on a page, over `db/schema.ts` | state machine |
| `MonitorPromise` | what the beta promises about one page, without checks | abstract specification |
| `DueBatch` | `processDueBatch`, its pool, the cron route and the calendar | state machine, fair |
| `Workspaces` | `workspace.ts`, `ratelimit.ts`, the caps of `addCompetitor`, the routes and the cookie | state machine |
| `GuardedFetch` | `guardedFetch.ts`, the address check of `ssrf.ts` | state machine, fair |
| `DebriefSession` | `DebriefProvider.tsx` with the pages, panel and report that drive it, and the pull of `MetaConnect.tsx` | state machine |
| `DebriefIntake` | the file card and the KPI of `GeneratorPanel.tsx`, the request, and the pull that brings a file in | state machine |
| `MetaSession` | `MetaProvider.tsx`, the popup's routes, the pull and its paging in `graph.ts` | state machine, fair |
| `DebriefAnalysis` | `analysis.ts`, `funnelStages.ts`, `accountKpi.ts` | operators |
| `DebriefExtract` | `extract.ts`, `columns.ts`, `kpiUsability.ts` | operators, extends `DebriefAnalysis` |
| `DebriefNaming` | `namingPatterns.ts` and its readers | operators, extends `DebriefExtract` |
| `DebriefLimits` | `buildLimits` of `decision.ts`, `segmentSpread.ts` | operators, extends `DebriefNaming` |
| `DebriefDecision` | `decision.ts` | operators, extends `DebriefLimits` |
| `DebriefMemo` | `memo.ts`, `briefReadiness.ts`, `evidenceDiagnostic.ts` | operators, extends `DebriefDecision` |
| `DebriefCompare` | `compare.ts`, `creativeGroups.ts` | operators, extends `DebriefExtract` |
| `ExportCheck` | `fileCheck.ts` and the checks of the debrief route | operators, extends `DebriefExtract` |
| `DebriefRun` | one request to the debrief route, composing the seven modules above | state machine |
| `PageSignals` | `pageSignals.ts`, `signalSummary.ts`, `differ.ts` and the content hash | operators |
| `Watchlist` | `watchlist.ts` and the panel that edits and refreshes it | state machine, fair, extends `PageSignals` |
| `Lists` | `filter`, `flatMap`, `reduce`, `sort`, the order of a `Set` and the object spread, in a form to prove about | operators |
| `AdText`, `PageDump`, `CompetitorBrief` | `adParser.ts`, `adsLibraryParser.ts`; `pageDump.ts`; `engine.ts`, `strategicPatterns.ts`, `internalLearnings.ts` | operators |
| `CompetitorSession` | `CompetitorDebriefPanel.tsx`, its routes and the Ads Library, composing the four above | state machine |
| `ReportView` | `useReportCustomization.ts`, `reportCustomization.ts`, `reportPresets.ts`, the tests and briefs of `Report.tsx` | state machine |
| `MC...` | small instances for TLC | |
| `...Proofs` | lemmas and theorems (eight modules) | proofs |

### CheckPlan

The signals extracted from a page are a member of `Pages`.  `contentHashOf` is a
digest of the signals, so a page state stands for its hash: equal hashes are
equal pages.  `FullPages` are the ones with a headline (`completenessOf`);
`NoPage` is a response without usable text.  `AttemptOutcome` is the switch of
`runCheckAttempt`, `TransientAttempt` is `isTransientAttempt`, `PlanPersistence`
is `planPersistence`, `CompetitorUpdate` is `buildCompetitorUpdate`,
`NextCheckTimes` the dates `nextCheckAt` may choose with its jitter, and
`RetryAllowedAt` is `retryAllowedAt`.

### MonitoringEngine

`row` has the columns of `monitored_competitors` that checks write, `snaps` the
snapshots of a page in the order of `fetched_at` (the index stands for the id),
`events` the number of `check_events` rows.  `job[r]` is one execution of
`executeCheck`: where it is, and its local variables (the streak of the row it
was given, the attempt, the plan, its time, the id it inserted).  The actions are
the statements: `Fetch` and `Refetch` (`service.ts:334-340`), `ReadLatest`
(342-356), `InsertSnapshot` (358-371), `UpdateCompetitor` (373-379),
`InsertEvent` (381-385), `PruneEvents` (386-397).  A check starts in
`StartRetry` (with the cooldown against the row it read) or `SelectDue` (with the
due date and pause it was selected on).  `Abandon` is the death of the instance
or a statement that throws, at any point.  `AddCompetitor`, `RemoveCompetitor` and
`ResumeCompetitor` are the requests; the foreign keys and cascades of `db/schema.ts` decide what a check of a
removed page may still do.  `started` bounds the checks; `failed` counts the
failed checks written, for `PauseNeedsFailures`.

### MonitorPromise

Per page: the snapshots that may be shown, the verdict of the last check
(none, good, bad), the streak and the pause.  Snapshots are only added, a good
verdict needs one, only a failure that reaches the threshold pauses and only the
user resumes.  `MonitoringEngine` implements it with the mapping `Promise`:
`verdict` is the class `deriveMonitoringStatus` gives the last outcome.

### DueBatch

A check is one step here, written or not.  Dates are compared only with firings
and with each other, so a date is the number of firings until it is reached
(`wait`), and of two due pages `older` has the pair with the older date first; among
dates reached by the same firing the order is free, which covers every jitter.
`StartPass` is the SELECT: its WHERE is `Due`, its ORDER BY and LIMIT are `Batches`.  `hand[v]`
is the row that worker `v` is checking; `Take` is its `queue.shift()` once it is free,
`Persist` and `Throw` are the two ends of `executeCheck`, after which the worker counts
the row (`Count`).  `selected` has the rows of the pass and `dealt` those that
`report` counts, as processed or as errors, so that a row that two workers do or that
none does shows (`EachRowOnce`).  `Kill` is `maxDuration`, `MissPass` a firing that did not happen
or a SELECT that failed.  `unseen` is the age of `last_seen_at`, which every
request of a workspace refreshes.  `quiet` and `skipped` are history for
`WeeklyCeiling` and `BoundedWait`.

### Workspaces

`req[t]` is the request in flight in slot `t`, a tab of the browser `Jar[t]`: its
step, what it asks for, and the token its cookie held, then that of its workspace.
`cookie` is what a browser holds of the `debrief_ws` cookie.  `Find`, the limiter
(`Count`, `Consume`, `Prune`: three statements of `consumeRateLimit`) and `Mint`
are `resolveWorkspace`; a mint needs none of the cookie's value, as the comment at
`workspace.ts:134-141` demands.  `Validate`, `LockRow`, `CountPages`, `InsertPage`
and `Commit` are `addCompetitor` with its transaction, `Respond` the 201 that sets
the cookie, `RemovePage` and `Cooldown` the other two routes that change anything
here (the check that a retry runs is in `MonitoringEngine`, and so is a resume,
which neither counts against a cap nor a limit).  `Fail` is any way a request ends
early: a killed instance, a statement that throws, a response that is lost.  It
frees the lock of the transaction and leaves everything that was committed.
`rates` has the rows of `rate_events`; `admitted` is the same without pruning.
`acked` has the pages of which a browser saw the 201 under the cookie it holds;
`raced` the browsers that sent a second add while one without cookie was in
flight, for which the code promises nothing.

### GuardedFetch

One call, step by step between its awaits.  `CheckUrl` is `checkUrlSyntax` (what
its rules say of an address is the constant `Policy`, the private literal is
modelled), `Resolve` the answers of the resolver and their validation, `Connect`
the clock check and the transport that opens the socket and arms its timer,
`Redirect`, `Headers` and `StartBody` the response, `Chunk` and `EndBody` a turn
of `readBody`, `SocketFails` and `Expire` an error of the socket and the timer
that causes one.  `Finish` is a return through the `finally` that destroys the
socket of the hop.  The resolver and the servers are the environment and do what
they like.  A `content-length` that is no number compares like 0.  The kinds of
outcome are those of `FetchResults` in `CheckPlan`, where they become the outcome
of a check; status, challenge and text pass through unchanged and are left out.

### DebriefSession

One browser tab.  An event of the user, an answer, or an effect is one action,
with the render it causes: React commits the state of a discrete event, and runs
its effects, before the next one.  `SetFile`, `ResetSession` and `StartRun` are
`setFile`, `reset` and `generate` of the provider.  What the user can do depends
on what is on screen (`ReportShown`, `PanelShown`, `FormShown`), and the local
state of a component lives only as long as it is mounted: `Render` says what
becomes of the KPI flag (`manual`), the file check (`checked`), the "added" mark of
the report and the pull, which goes on without its component (`orphans`).
`runs` are the calls of `generate` in flight, each with what it captured; `Answer`
and `Refuse` are their ends, in any order and at any time.  `FileRead` is the
effect that reads a file and may change the KPI.  `Leave` is the unmount of the
provider and a new visit.  A file stands for its content; `formats` and `groups`
hold the file whose ads they were entered for, so that a mix-up shows.  The
preview, the previous period's file, the text fields and the error messages are
left out: no step but the user's own changes them, and they are sent as they are.

### DebriefIntake

The panel of the generator as it takes a file in.  `ChooseFile` starts a read
whose end (`ReadDone`, `ReadFails`) may come after another choice, an unmount or a request;
the clean-up of the effect only marks it cancelled.  What a read finds is computed
by `ExportCheck` from the rows and columns of the file, by the functions that the
page and the server share, so that the card can be held against the answer of the
request.  `PickKpi`, `SwitchKpi`, `ChoosePrevious`, `SendForm` and the answers are
the rest of the form.  The panel may be unmounted and mounted again: the file outlives
it, the KPI's flags do not.

A pull from Meta is another way for a file to come in.  `StartPull` is pressed on the
form, in a `MetaConnect` that pulls once at a time (`pulling`); submitting or leaving
unmounts that one, and its call goes on.  `pulls` counts the calls in flight.
`PullArrives` calls `setFile` whatever is on screen by then (`MetaConnect.tsx:175`): it
may replace the file under a run or a report, and `SwitchKpi` then sends a file that no
card was shown for.  `PullFails` is every other end.  What a pull can bring is the
constant `Pulled`, which `PullsAreExports` limits to what `insightsToCsv` writes: all of
its columns, whatever the account has, and at least one row, since the route answers
`empty` otherwise; that it has no defect of a file adds that there are at most 2,000 of
them (`MAX_INSIGHTS_ROWS` of `graph.ts`; a file may have 5,000) and that what Meta calls an ad is short and printable,
which is external.  That every column is there is what keeps `CardTellsTheRequest` true
of a file the page never checked: its mutant `InsightsColumns_noValues`, a pull that
leaves the conversion values out, breaks it.

### MetaSession

Each press of Connect is a numbered attempt with its listener, its poll of the
popup's `closed`, the timer the poll leaves behind and the call for the accounts.
All attempts share one `cleanupRef` and one named popup, as in the code, so that
an attempt may tear down another one.  `Deliver` and `LoseMessage` are the popup's
message, which may come late or never.  A pull is one request of the insights
route, page by page; its token is that of the attempt it was sent under, and a
401 (`Expire`) tears down whatever is connected by then.

### The debrief

The operators follow the pipeline of `app/api/debrief/route.ts`.  A row of an
export is a record of the cells it has; money and values are integers, and the
code's quotients are compared by cross products, with a median kept doubled, so
that no threshold is rounded.  A sentence is reduced to a tag with the ads, counts
and spend it states: the properties are about what two sentences of one report say
of each other.  `DebriefExtract` turns rows into ads (which cells are a zero, which
are missing, which rows are one creative), `DebriefAnalysis` judges and ranks them,
`DebriefLimits` lists what the data cannot establish, `DebriefDecision` makes the
call, `DebriefMemo` writes the report around it, `DebriefCompare` attaches the
previous period, `ExportCheck` is the ladder of refusals.  `DebriefRun` is the
request: `ReadForm`, `ReadExport`, `ReadPrevious`, `AnalyzeAds`, `ComposeMemo`,
`AttachGroups`, `AttachComparison`, `Send`, each with its early answers.

The sums, filters and orders that a proof goes through are those of `Lists`.

### PageSignals and Watchlist

A text (of `Texts`) is its word, what is left of it without case and spacing, and its
look.  The canonical form of a list of texts is its words and their order.
`ExtractPageSignals` says what is read of a page, `DiffPageSignals` and
`GroupSignalChanges` are the card's and the notes' comparison, `DiffSnapshots` and
`CanonicalizeSignals` those of the monitoring.  In `Watchlist` the panel knows an
item by its place: a call for a page (`wire`) keeps the place it was asked for, and
`PageArrives` writes into whatever stands there by then.  `guard` is
`watchInFlight`, one per mounted panel; `loop` is `refreshAllWatch`.  `Leave`,
`Return` and `Reload` are what ends the panel or the tab.  The number of an item
and `disturbed` are history.

### The competitor debrief

A line of a pasted text has a kind (blank, rule, button, copy, interface line) and
what it says: which kind a line has is decided by its characters and is given.
`AdText` cuts a paste into ads and finds which are copies of one; `PageDump` cuts a
page of the Ads Library into candidate ads under advertisers' names;
`CompetitorBrief` draws patterns and tests and applies the team's learnings.
`CompetitorSession` is the page with its three ways in, its three routes and the
library, with any number of answers under way; a visit bounds what the user brings.

### ReportView

`look` is what a preset fixes.  It is changed by a field, by a preset, or with the
register as long as nobody touched it; `preset` is the stored name.  `urls` are the
object URLs that were not revoked.  `queued` are the checked tests and `briefs` the
drafted ones.  The performance report and the competitor debrief share the panel.

## Runs

| Run | Question | Result |
|-----|----------|--------|
| `engine` | Do two overlapping checks of a page, with retries, crashes, resume and remove at any point, keep what is stored consistent and keep the promise? | holds |
| `due_batch` | Is each selected row done once by two workers, is waiting bounded, does the weekly ceiling hold, is every due page reached? | holds |
| `workspaces` | Caps, limits and reachability with overlapping, dying and lost requests of one browser? | holds |
| `guarded_fetch` | Checked addresses, sockets, deadline, cap, and an end, against any resolver and server? | holds |
| `session` | Inputs of the own file only, images live, one answer per report, the queue edited by the user only? | holds |
| `intake` | Do the card and the KPI follow the loaded file, and does the page let through only what the API takes, also when a pull replaces the file under a run or a report? | holds |
| `meta` | Is a connection whole, does waiting end, does a cut pull say so? | holds |
| `debrief` | Do the registers of a report agree, on every export around the thresholds? | holds |
| `competitor` | Patterns, substitutes, declined ads and page dumps, with searches and fetches under way? | holds |
| `stale_pairing` | "never leave a stale Page/ads pairing on screen" (`CompetitorDebriefPanel.tsx:603-606`)? | violated: a fetch for an earlier selection answers beside the new one |
| `report_view` | Does the preset tell the truth, and do the briefs follow the checked tests? | holds |
| `watchlist` | Are undisturbed refreshes exact, do the comparisons agree, does refreshing all end? | holds |

`PROJECT.json` names the properties of each run and, for each property, a mutant
of the code under which the run's configuration finds it violated.

### Bounds

The `engine` instance has one page, since checks of different pages
share no state, and two runners, since every hazard of the list is a race of two
(the theorems cover any number of both).  `Threshold` is 2 so that a streak can
be started, interrupted and completed within `MaxChecks` = 3 checks; the two page
states, one full and one partial, allow an unchanged, a changed and a reverted
page; `MaxTime` = 2 with `Interval` = 1 lets a page become due again, and the two
cooldowns 1 and 2 are told apart.  `KeepEvents` = 1 makes the pruning happen.
The runners are symmetric.  `LastGoodSurvives` and `PromiseKept` are checked under
that symmetry as action properties, which it does not disturb; no liveness is.
`CHECK_DEADLOCK` is off because the clock and the number of checks are bounded.

`due_batch` has three pages in two workspaces, and a batch of two for two workers, so
that a batch leaves a page out, both workers hold a row at once, and one takes both
while the other is still at its first or has found nothing; an
interval of one day so that pages fall due again within a few days; and an
active window of one day, so that a workspace goes dormant by staying away and one
that is visited daily never does.  Ages are capped one past the last value any
guard looks at.  Nothing is symmetric, since a liveness property is checked.

`workspaces` has two tabs of one browser, since a workspace is reached from one
cookie and every hazard is a race of two requests; two tokens, so that a browser
can lose one and mint another; three addresses against a cap of two, so that a
full workspace and a duplicate address both happen, and a refused one; limits of
one per window, a window of one tick, and pruning right behind it, the closest
that the code's assumption (windows inside `PRUNE_AFTER_MS`) allows; and four
requests, which is two races, or one after a workspace was filled and its cookie
cleared.  Slots and addresses are symmetric.

`guarded_fetch` has an address of each sort the loop tells apart (a name, a public
and a private literal, a refused one), one public and one private answer, two
redirects, so that a call passes through a first, a middle and a last hop, a cap
of two bytes with chunks of one or two and bodies up to twice the cap, so that a
chunk ends below, at and beyond it, and a clock that runs two units past a
deadline of two.  `CHECK_DEADLOCK` is off: a call ends.

`session` has two files, the sample and a pulled one whose values move the KPI,
so that every mix-up of files has two to mix; two KPIs, one of them an outcome;
two runs, which is a run and its switch, or the runs of two accounts; one ad with
two URLs, so that an image is replaced; one pull at a time; and two adds to the
queue, enough for two entries with equal labels.  The URLs are symmetric.

`intake` has six exports, each of which makes the card or the answer differ: a
shop's, the same in another currency, one with clicks only, a file that is no export,
and the two that a pull can bring, with all of its columns: one with leads and empty
value columns, and one where nothing delivered.  Two loads are a read superseded by
another, or a file and the pull that replaces it under its run or report; two pulls in
flight are one of a form that is gone and one of the form on screen.

`meta` has three attempts, so that one may tear down another while a third waits;
a cap of three rows with pages of two, so that the cap falls inside a page, and
accounts with up to four ads, so that it falls short of, at and beyond the last.

`debrief` is checked on chosen exports: every pick of up to five rows (four for two
of the contexts) from a catalogue per KPI whose rows lie on both sides of each
threshold and exactly on it, read in each of two to four contexts; every pair of
periods of three ads in six castings of names and IDs; three exports in which a median
or every outcome is zero, or refunds bring the median below it; and each refused form
and file.  Thresholds that are percentages keep the code's values; counts that would
only make exports longer (the ads judged for a supported call, outcomes for a
budget move) are scaled down and named as constants.  A pipeline has no
interleavings: each request is one behaviour, and the run is a bounded comparison
of the operators with properties stated independently of them.

`competitor` has visits of one theme each: pastes with copies and learnings, an
edited paste, library pages of one to three cards in any order, whole or not, and
searches over a library with three ads of one Page, two of them equal, one without
a text of the other, and pages that deliver an ad twice or a foreign one.
`PageSize` 2 makes "Load more" happen; the caps are scaled down likewise.

`report_view` has the six sections the presets tell apart, two charts, two tests
and two logos.  `watchlist` has two items against a cap of two, so that a neighbour
may take a place; three calls and two visits, enough for a call that outlives its
item, its list and its panel; and a page that changes in case, order and number,
loses its headline, or says nothing.

### Fairness

In `GuardedFetch` the program's steps, its timers and the clock are
weakly fair and a lookup is answered in the end (the system resolver has its own
timeout); nothing is asked of the servers.  In `DueBatch`, days go by and a batch
whose work is done ends (weak).  A firing happens again and again, and so does a
worker taking a row (strong: some firings may be missed and some instances killed,
not all).  A check of a given page that is started again and again is in the end
written (strong): a page whose check throws every time, before its UPDATE, is never
written, and nothing in the code prevents that.  A check of a removed page throws
(weak).  In `MetaSession` the interval, the timer and the call for the accounts of
an attempt are weakly fair: they are the tab's own; the popup and its message are
not.  In `Watchlist` an answer comes while calls are under way (weak): the route
reads a page under the deadline of `GuardedFetch`, and a lost connection rejects
the call.  The other specifications state no fairness and no liveness: a run, a
read or a search ends when its fetch does, and the browser sets no deadline for it.

## Theorems

Each holds for any values of the constants that satisfy the named assumptions of
the module, any number of runners, tabs, files, attempts and so on.

`MonitoringProofs` has the check engine and the watchlist.  Of `MonitoringEngine`:
`TypeCorrect`, `SuccessAlwaysBacked`,
`PauseAlwaysEarned`, `StreakAlwaysMatches`, `RemovalIsFinal` and
`LastGoodAlwaysSurvives`, and `EngineKeepsPromise`: the engine implements
`MonitorPromise`.  None of the invariants is inductive, because a check
writes what it read several steps earlier.  The strengthening `IInv` says of each
check in flight what it may still rely on, however stale it is: `PlanSound` (a plan
that inserts counts as a success, one that fails adds one to the streak it was
given), `JobSound` (that streak is at most the failed checks written so far; a
check about to record a success finds a snapshot; a snapshot id it holds exists,
unless the page is gone) and `RowSound` (the row is consistent with the snapshots
and the count).  The facts of `JobSound` only mention quantities that grow while a
page is live (`Grows`), so a step of one check cannot break them for another:
`JobSoundGrows` is that lemma, and it reduces each action to the one runner that
moved.  The module begins with lemmas about the operators of `CheckPlan`.

Of `Watchlist`: `ListAlwaysExact`, `DiffsAlwaysAgree` and `RefreshAllIsWaiting`
(the safety half of `RefreshAllEnds`: while a loop waits, the call it waits for is
on its way or was answered), for any pages, any stored list and any number of items,
calls and panels.  Whatever happens, the items' numbers stay apart (`Numbered`).
While nothing disturbed the panel, `guard` remembers exactly the places of the calls
on their way, each of the panel on screen and alone at its item (`CallsSound`), and
what a card shows is of its own item (`CardsSound`).  The first candidate held on
every run and was not inductive: nothing in it kept a panel still to come from
having calls, which is what `NoneAhead` says.  Its lemmas say what extracting,
sanitizing, cutting and removing return, and that a set of numbers has a least one.

`PassProofs` has the two ends of a monitoring pass.  Of `DueBatch`:
`EachRowAlwaysOnce`, for any number of workers, `WaitAlwaysBounded` and `WeeklyAlways`.
`EachRowOnce` is inductive together with the types, which say that `older` is a total
order of the due pages: a row leaves the queue for one hand (`RowTaken`) and that hand
for the count (`RowCounted`), and nothing else moves a row (`RowsKept`).  `WeeklyCeiling` needs `DatesSound`: the firings until a page is due and
those since its last persisted check make up a week at every moment, and a page of
the batch is one that was due when it was selected.  `BoundedWait` needs
`WaitingSound`, the argument for it: with `Ahead(c)` the due pages that are due for
longer than `c`, the times `c` was left out, a batch each, and the pages still ahead
of it and not being checked never add up to more than the other pages.  A pass that
leaves `c` out takes a full batch from `Ahead(c)` (`Selected`, `LeftOutWaiting`), a
new date only takes a page out of it (`OneLeaves`), and a day adds to nobody's
(`DayOrder`); a throw or a kill, which puts pages back, is what ends the count.
Of `GuardedFetch`: `OnlyCheckedContacted`, `SocketsAlwaysClosed`,
`DeadlineAlwaysHolds` and `CapAlwaysHolds`.  Its invariant ties each piece of the
call to its step: the one socket is that of the current hop with the timer of the
call, the addresses in hand are checked ones, nothing is decided before the end and
what is kept until then is below the cap.
Of its liveness property `Ends` the safety half is proved: every step of a call but
the clock's is to a later hop of a limited number, a later step of the hop or more of
a limited body (`CallGoesForward`), and while a call waits for a server the timer of
its hop is set for the one deadline (`WaitAlwaysTimed`).  That the timer fires, and
that a lookup is answered, is the fairness.

`WorkspacesProofs`: `TypeCorrect`, `CapAlwaysHolds`, `AckedAlwaysReachable` and
`AdmissionsAlwaysBounded`.  Its invariant has five parts besides the types: `RequestSound` (what a request has
established at each of its steps), `LocksSound` (a transaction past its lock holds
it, so the count it read still stands at its insert) and `CookiesSound` (of a
browser that did not race, at most one first add is in flight, and while it is
there is no cookie), `EventsSound` (what pruning took from the table is older than
any window) and `AdmissionsSound` (the events of a window and the requests counted
but not yet inserted are within the limit and a request per slot).  Each has a frame lemma that says which steps cannot disturb
it, and a lemma with one step per action.

`DebriefSessionProofs`: `TypesAlways`, `OneRunAlways`, `OwnInputsAlways`,
`ImagesAlwaysLive`, `ReportAlwaysOneAnswer` and `QueueAlwaysOnlyEdited`.  `OneRunAtATime` is inductive by
itself: each way to start a run or to reset the session needs a status in which, by
the invariant, nothing is in flight.  `OwnInputs` needs that the overrides and
groups are those of the loaded file, since a run captures them; `ImagesLive` that
no two ads share a URL, since replacing the one would revoke the other's.
`QueueOnlyEdited` needs that no two entries share an id (`QueueInv`), which holds
because ids are counted up and never taken again; a filter that drops an
id then drops one place, and what is left is what stood before it and after it
(`CutIsTwoParts`).

`DebriefProofs` has the debrief, from the form to the report.  Of `DebriefIntake`:
`TypesAlways`, `FilesGetTheirCards`, `KpiAlwaysFollows` and `CardAlwaysTells`, for any
exports of any rows and columns.  What carries them (`IntakeInv`) is that a card or a
read is of a load no later than the last, that a read under way is of the loaded file,
and that a request, and a report, is on a file whose structure was read, which is the
loaded one unless a pull has taken its place.  A file that was pulled passes the same
checks, for every KPI (`PulledFits`), so a switch of the KPI may send it unseen.

Of `DebriefRun`: `MatchingAlwaysSure`, `HighConfidenceAlwaysEarned`,
`TestsAlwaysFollow`, `ProxyAlwaysHeld`, `RegistersAlwaysAgree`, `ExtremesAlwaysSpeak`
and `SetAsideAlwaysAccounted`, for requests of any rows, columns, context and previous period,
and for any thresholds, where the run has the exports it constructs.  `RequestsAssumption` asks that an export is a list of rows whose cells are
numbers, as they are once read.  The invariant (`RunInv`) is that, wherever the handler
is, what it holds was composed in the order of the code: the ads are what the export is
read as, the analysis is of these ads, the memo is of this analysis, and what is
attached later leaves the rest of the memo alone.  Everything else is about what the
composed functions return:

- An ad that was read, and aggregated, has numbers or nothing in each field
  (`ExtractedAreRows`, `AdsOfAreAds`); two ads are matched on a key that names one ad of
  each period (`MatchingSure`).
- The judged ads are on one side each of their benchmark, and each of the two lists
  that are sorted has just the ads of its side, once, in its order (`RankedBySide`,
  `AnalysisSound`).
- What receives budget is among the winners, has passed the criteria, is at most
  `MaxReceivers` many, and the weakest of them has the fewest outcomes
  (`ReceiversQualify`, `WeakestIsFewest`).  A high confidence has to go through all of
  them (`EarnedByReceivers`).
- `ReportSays` collects what the decision, the statuses and the tests of a memo are made
  from.  The tests are three at most, and `FirstTestIs`, `SecondTestIs` and
  `ThirdTestIs` say which one stands at which place, so that a test of kind "raise" can
  be traced to the move (`TestsFollow`), and a move to a KPI that is no proxy.
- The losers that a call does not trim are the ones near their benchmark, so those it
  holds, trims and leads are all that were judged (`TrimsAre`, `SidesCounted`).  Where a
  cut is worth its while its worst ad is far enough to be trimmed (`WorstIsTrimmed`),
  hence no line that reduces is empty; and a line that names all losers does so only
  when all are trimmed (`LinesAgree`).  This takes the gap as a share of the size of the
  benchmark: refunds can make a median negative, and dividing by it as it stands would
  call the worst ad near.
- The two lists are in the order they are sorted by (`RankedEnds`), and what holds of
  their first ads holds of the rest: no winner is further ahead than the first, as a
  share of its own benchmark, no loser further behind, and none is without an outcome
  unless the first is (`LeaderSpeaks`, `LastSpeaks`).  Shares of different benchmarks
  are compared by their cross products, so all rests on these being transitive
  (`QuotientsCompare`), for benchmarks of either sign, and on a gap to a benchmark of
  zero counting as none, which keeps an ad without a share from leading ads that have
  one.  The decision then reads the bar it needs off the first ad alone
  (`CallReadsExtremes`).
- The two passes of the gate leave each ad with one gate that fits it (`GatesFit`), so
  the gates part the ads (`GatesPart`).  The counts of what was lacking cut across the
  gates, since an ad without a value counts as that also when it spent too little; they
  come to the same number because what the one count takes the other leaves
  (`GapsCounted`, `AsideAdds`), and an outcome minimum is only asked of a KPI that counts
  outcomes, where its part of the line is printed.
- A median exists whatever the values, and has as many values below it as above
  (`KthExists`, `MedianBetween`); the best of the ads is then not below it, unless it is
  an ad without an outcome (`LeaderIsNotBelow`), which is what the first test of a proxy
  run hangs on.

`ListsProofs` has what these and `CompetitorProofs` need of lists.  What a filter
returns is computed by a recursive function of the length (`Lists`), and the theorems of
the library on recursion take an operator as a parameter, so the facts are proved by
least counterexample, of one function at a time: a set of numbers without a least one is
empty (`NoneLeast`), hence the function exists (`PickedExists`), and what is picked is
at places that only go up, every place asked for among them (`PickedProperties`).  In
the same way a sum of numbers is a number (`TotalIsNumber`) and a sorted list has the
places it was given, each once (`OrderedProperties`); when it is sorted by an order of
these places, none stands before one it comes after (`OrderedInOrder`).  How often
something is in a list, and in lists all together, is compared by bijections of the
places it is at.

`BrowserProofs` has two small modules of what the browser keeps.  Of `MetaSession`:
`TypeCorrect`, `ConnectionAlwaysWhole`, `WaitingIsWatched` (the safety half of
`WaitingEnds`: something is always left that will end the wait) and
`PullAlwaysSaysCut`, for any cap and page size; rows that were cut are known to be,
or will be with the page that is still linked to.  Of `ReportView`: `PresetNamed`,
`BriefsSelected`, `LogoUrls`.  Its state falls into three parts that no action
mixes, each with an inductive invariant.

`CompetitorProofs`: `DeclinedAlwaysOut`, `RecurringAlwaysInTwo` and
`SubstituteAlwaysClear`, for any texts, page, library, learnings and order of answers
and clicks.  The argument follows the texts: what a paste or a page is cut into are
lists of lines (`BulkAds`, `ProcessedAds`); each text that is sent is of an ad of its
own, among those the user had included, and says no more than that ad does
(`TextsSound`: `ActiveTextsSound` for the paste modes, `DistinctSound` for the
search); trimming keeps that (`AnalysedSound`); two texts with one label are then two
ads (`PatternsInTwo`).  `DeclinedStaysOut` needs that what was unchecked is still on
the list (`ListSound`), or an ad could come back as new: a merge keeps what is there
at its place and adds only ids that are not (`MergeSound`), and the answer, cut out of
the page and joined with a stray, has no id twice because the library has none
(`AnswerSound`, from `LibraryAssumption`).

`DumpAlwaysAccounted` is the theorem on a page pasted at once, for any page, name and
aliases.  Nothing is kept for it but what the last processing was given (`RunSound`);
the argument follows a line of copy through the stages of `processPageDump`.  That it
is there as often is a bijection between the places it has before a stage and after it
(`PickedAsOften` where lines are taken out, `SplitAsOften` where a list is cut,
`EachAsOften`, `ChosenAsOften` and `JoinedAsOften` over the parts), and bijections
compose: `HeaderAsOften`, `ChromeAsOften`, `BoundariesAsOften`, `CandidatesAsOften`.
Two facts about the code carry it: an interface line is taken with the one before it
only if it is a label or "Sponsored" (`HowStripped`), so never copy; and a part with
copy that tells an ad is neither malformed nor empty nor a link card
(`CopyIsNotSkipped`).  That it comes under no other name follows the header of its
card: what stays of the page is still headed when the sweep took no label
(`RestHeaded`), so its marker is above the copy with no border between (`ChromeMarked`),
so a cut leaves both in one part (`StretchNamed`), so a part with one name has the
copy's (`NameIsItsOwn`).

Left to TLC is liveness (`EveryDueReached`, `Ends`, `WaitingEnds`, `RefreshAllEnds`),
which is out of this prover's reach; of the last three the safety half is proved.

## Where the code disagrees with what is said about it

The run `stale_pairing` shows the one disagreement kept as a run, with its quotes in
`PROJECT.json` under `findings`: an answer to a fetch for an earlier selection puts
its ads beside a newly selected Page, and the debrief is made of them under its name.

Two more are left out by a clause of a property, without which the run `debrief` fails
on the exports kept for them (`DoubtfulCases` of `MCDebrief`):

- A field is called flat because "winners/losers are sorted best-/worst-first, so if
  BOTH extremes sit within the band, every judged ad does" (`decision.ts:1540-1544`).
  Among stages with medians of their own, an ad ahead of a median of zero has no
  percentage and is sorted as 0 (`analysis.ts:270`), behind the winners of another
  stage: it is not the extreme that is looked at, and the headline says that "every
  judged ad is within 15% of the median" (`decision.ts:2083`).  `ExtremesSpeakForAll`
  says it of benchmarks that are not zero.
- When the proxy's leader is below the median of the outcome KPI "no test may be built
  on it" (`decision.ts:210-213`; `scripts/trustLeftovers.test.ts:33`).  In an export
  without a purchase that leader can come first on the outcome KPI too, with a blank
  value that counts as 0 (`analysis.ts:538-542`), and the first test is built on it.
  `ProxyMovesNoMoney` leaves out that ad.

The others were met while modelling.  The models have the behaviour in them, the
properties are stated so that they hold in spite of it, and nothing here depends on
what was intended.

Monitoring:

- Two overlapping checks may both insert the same snapshot (`service.ts:342-371`),
  against "Equal hash => no_change event, no new snapshot row"
  (`db/schema.ts:146-147`).
- A check writes back the streak it read before another one succeeded, so that a
  pause may come without "4 failed weekly checks in a row"
  (`components/monitoring/copy.ts:26`).
- Seven days after the end of a check is after the seventh firing: the cadence is
  eight days, not "once a week" (`components/monitoring/copy.ts:53`).
- An add refused after the mint sends no cookie and the next one mints again,
  against a user "who needs exactly one" (`ratelimit.ts:72-74`).
- A body that reaches exactly the cap is a success before the rest is read, in the
  mode that should abort (`fetcher.ts:24-25`, `guardedFetch.ts:204`).

Debrief session and Meta:

- A pull that was started before a run replaces the file under its report
  (`MetaConnect.tsx:175`), though the switch "re-runs the same file on the outcome
  KPI" (`DebriefProvider.tsx:259-260`).
- That the user picked the KPI is remembered in the panel (`GeneratorPanel.tsx:586`):
  after a report or another page the KPI is set from the file again.
- The page lets a file through in which no ad delivered, and the request answers
  "No ad rows found" (`fileCheck.ts:3-5`).  Choosing another file keeps the
  previous period's.
- A 401 of a request sent with an earlier token drops the token of a later sign-in
  (`MetaProvider.tsx:74`), and two attempts may leave two listeners for a while
  (`MetaProvider.tsx:60-61`).

Debrief analysis and report:

- A row with spend, no purchase and a value of 0 is ranked with a ROAS of 0 like any
  other, where one with a blank value is a zero outcome (`extract.ts:277-285`).
- A KPI value that stays at 0 over two periods is counted as declined
  (`compare.ts:228-231`), and an ad may be said to appear no longer although its
  Ad ID is on a merged row.
- A former leader that spent enough without an outcome is said not to have reached
  the minimum spend (`compare.ts:381`, against `compare.ts:179-190`).
- A minimum of 0.5 outcomes is floored to 0 and ignored (`route.ts`).
- The rationale of a cut counts every ad below the median as 30% below
  (`decision.ts:2062`); the line for a criterion that cannot be verified says it
  was not applied (`decision.ts`).
- Leaving the client's preset through the buyer's tab names the look "custom"
  (`reportCustomization.ts:99-103`); copied text carries briefs of a section that
  is hidden; a reset of the customization keeps the tests checked.

Competitor debrief and watchlist:

- The sweep of a page's header may take the first card's name line with it
  (`pageDump.ts`), and its copy comes without a name or under the one swept:
  `DumpIsAccounted` says whose copy is whose where that did not happen.  Copy without a
  theme of the ads' under a bare domain line is the text of a link card, and skipped
  (`pageDump.ts:857-876`).  A legal footer of an ad entered by labelled fields stays in its
  text.  Only the first learning that hits a test is acted on, so that a hook which
  a second one flags is kept (`internalLearnings.ts:317-337`).
- Copies are grouped pair by pair, so that an ad without an advertiser's name may
  join ads of two advertisers in one group (`pageDump.ts:676-684`).
- A report may appear after Reset, when its request was under way; a search that is
  cleared while it runs shows its results under no query.
- A refresh of a watched page keeps its item's place through the call
  (`GeneratorPanel.tsx:976-1028`): after an item before it was removed, the signals
  of one page are stored as those of another item (`watchlist.ts:33-36`), and a card
  may say "Refreshing" for good.  `UndisturbedIsExact` is what holds of the rest.  Clearing the
  list frees the guard while calls are under way, and "Refresh all" goes on over
  items added since.  Changing an item's address keeps the earlier page's signals as
  what the next read is compared with.

## Not modelled

Of the parts that are modelled:

- *Text*: the quoting and number formats of a CSV, the classification of a line, a
  header or a phrase by its characters, the HTML of a page.  The models take the
  outcome as given.  Wording and layout of every sentence.
- *Monitoring UI*: the section's own state, four phases of one fetch.
- *Meta*: the signed state cookie of the login and the conversion of insights to
  rows: stateless.
- *Ads Library client*: its table of errors and the normalisation of one ad.
- *Decision*: the low-intent flags and the summary text of a queue entry.
- *Browser*: two tabs with one localStorage, where the last writer wins.

Marketing and static pages have no state that a step could corrupt.  Postgres, the
platform, the network and Meta are present as what they may do to the code: commit
a statement alone, refuse a foreign key, kill an instance, miss a firing, answer
with any result, late or never.
