# Frontier GoWild search, modelled in TLA+

This directory holds a formal model of `frontiergw_search`: TLA+ modules translated from
the source, TLC configurations that check them on small instances, and proofs checked by
TLAPS. Paths are relative to the repository; `app/` stands for `apps/api/app/`.

## 1. The system

An operator imports flight schedules and airports with a command line tool into PostgreSQL.
A FastAPI service answers searches from the schedule in force, with Redis as an optional
cache, lock and rate limiter. A Next.js front end edits a search, keeps it in the URL and
shows the result.

| Component | Source | State | Operations |
|---|---|---|---|
| Schedule import | `app/services/schedule_import.py` | `data_sources`, `scheduled_flights`, `routes` rows; the `ImportResult` | fetch, normalize, validate, gate, deduplicate, insert, replace the active source, commit, invalidate |
| Quality pipeline | `app/services/normalization.py`, `schedule_quality.py`, `app/providers/static_csv.py` | none | normalize, validate, batch gates, deduplicate |
| Airport import | `app/services/airport_import.py` | `airports` rows; the session's objects; the `AirportImportResult` | parse, validate, look up, add or change, flush, commit, invalidate |
| Redis cache service | `app/services/cache_service.py` | Redis keys; per process the backoff deadline | get, set, delete, invalidate a prefix, lock, unlock, rate limit |
| Search endpoint | `app/api/search.py` | one request: key, lock token, result | rate limit, status, cache lookup, lock, engine, response, store, unlock |
| Status and airport endpoints | `app/api/schedules.py`, `airports.py` | one request | rate limit, cache lookup, query, store |
| Schedule repository | `app/repositories/schedule.py` | the source id a request is bound to | departures by date, airports by code |
| Routing engine | `app/services/routing/`, `app/domain/` | none | resolve instances, connect, price, filter, deduplicate, sort |
| Rate limit | `app/services/rate_limit.py`, `cache_service.rate_limit` | one Redis counter with a TTL per client and endpoint | count, allow or refuse, fail open |
| Health and middleware | `app/api/health.py`, `middleware.py`, `errors.py` | none | probes, request ids, body limit, error envelope |
| Airport combobox | `apps/web/components/AirportCombobox.tsx`, `lib/hooks/useDebouncedValue.ts`, `lib/api/client.ts` | text, debounced text, list, highlight, status, the lookup in flight | type, keys, click, debounce, abort, settle |
| Search form and links | `apps/web/components/SearchForm.tsx`, `ResultsView.tsx`, `lib/url/searchParams.ts` | fields, the address | edit, submit, serialize, parse, post, keep results, sort, modify |

How they interact: imports and requests meet only in PostgreSQL (READ COMMITTED, one
statement a snapshot) and in Redis. Imports run in short-lived processes of their own;
requests run in a thread pool of each API process, and the threads of a process share one
`CacheService` and so one backoff. The front end talks to the API over HTTP, with several
requests in flight.


### What is hard, and what makes each part correct

- **Schedule import.** Several imports may run at once; duplicates are looked for before they
  are inserted; the replacement of the active source is a lock, two UPDATEs and a unique index
  checked per statement; any statement, the commit or its reply may be lost. Correct means: one
  active source with exactly its own routes, no two sources alike, no activation overwritten
  unseen, never a moment without a schedule once there is one, nothing visible that did not pass
  the gates, every call ends and reports what happened.
- **Airport import.** A session that does not flush before it queries, that holds objects others
  may have changed since, and that writes changed columns only; duplicate keys inside a file and
  between imports; INSERTs in the order of the file. Correct means: an import takes effect whole
  or not at all, mixes its columns only with those of an import that overlapped it, reports what
  it did, and ends.
- **Search endpoint.** One request reads the schedule status, a cache, a lock, the status again,
  the source, two sets of flights and the airports, each in a snapshot of its own, while imports
  commit. Correct means: one schedule in an answer, a schedule that was in force during the
  search, no lock but one's own released, and an end whatever Redis does.
- **Status and airport endpoints.** A slow reader stores what an import has just replaced;
  invalidation is bounded and best effort. Correct means: stale only for a named reason, and not
  for ever.
- **Routing engine.** Sequential and deterministic, but full of boundaries: midnights, clock
  changes, inclusive dates, the limit on results, random ids. Correct means: the answer is the
  best part of *all* valid itineraries, once each, in order, the same after a re-import.
- **Rate limit.** A counter with a TTL under bursts, retries, failures and forged headers.
- **Quality pipeline.** A row may fail at six places; the gate's idea of a duplicate, the
  checksum's and the database's differ, and what the tables allow is written down a second time.
  Correct means: what is stored is all that was accepted, without contradictions, no schedule is
  stored twice however its file is written, and no constraint refuses what the gate let through.
- **Airport combobox.** Lookups overlap, are aborted, fail or are refused while the user goes on,
  and effects run after renders. Correct means: the list answers the text, the form's origin is the
  one on screen, and a user who pauses learns what was found.
- **Search form and links.** The form, the link, the parser, the request and the API each have
  defaults and checks of their own, and results are kept under the text of a link. Correct means:
  the request posted is the one asked for, by whichever way, the API takes it, results kept are
  shown to the same request only, and a search shown can be modified.

## 2. Modules

| Module | Models | State | Actions |
|---|---|---|---|
| `ActiveSchedule` | what the store promises its readers: whole activations, one after the other | `catalog`, `current` | `Activate` |
| `ScheduleImport` | `import_schedule`, statement by statement, any number of importers | committed rows (`stored`, `contentOf`, `active`, `liveRoutes`) and per importer `pc`, session, uncommitted route writes (`routesOff`, `routesOn`) and `result` | one per statement of the method, with a `...Conflicts` action where an index may refuse it, and `FetchFails`, `DatabaseFails`, `CommitUnacknowledged`, `Crash` |
| `QualityGate` | provider, normalization, validation, batch gate, checksum, the tables' constraints | none | operators |
| `ImportPipeline` | `ScheduleImport` with the datasets `QualityGate` makes of files | | those of `ScheduleImport` |
| `AirportTable` | what the airports table promises its readers: whole imports, and what one that was overtaken may leave | `table`, `running`, `late` | `Begin`, `Abandon`, `Commit` |
| `AirportImport` | `import_csv`, statement by statement, any number of importers | committed `airports` and per importer `pc`, file, the session's objects (`loaded`, `now`, `added`), what is still to be flushed, `report` | `Parse`, `Select` and `Recall` (the two outcomes of `db.get`), `Flush`, `UpdateRow`, `InsertRow`, `InsertConflicts`, `DeadlockDetected`, `Commit`, `Invalidate`, and `ParseFails`, `DatabaseFails`, `CommitUnacknowledged`, `Crash` |
| `RedisCache` | `CacheService`: entries and per-process backoff | `entries`, `backoff` | `GetJson`, `SetJson`, `Delete`, `Expire`, `Corrupt`, `EndBackoff` as operators the next two compose |
| `SearchCache` | `POST /search`, extends `ActiveSchedule` and `RedisCache` | `req` (one record per request), `lock`, history `inForce` | one per statement or command of `post_search` and the engine, `Import`, `ExpireLock`, `Restart` |
| `CacheAside` | `GET /schedules/status` and `GET /airports`, extends `RedisCache` | `reader`, `version`, the importer's `scan` and `deleted`, history `missed` | read path, `Commit`, `DeleteNext`, `EndInvalidation`, `InvalidationFails` |
| `Connections` | the time arithmetic: clocks, instants, gaps and folds, flights on dates, connection rules | none | operators |
| `Routing` | `search_itineraries` and the cut of `build_search_response`, extends `Connections` | the inputs and the `response` | `Search` |
| `RateLimit` | `client_ip`, `enforce_rate_limit`, `rate_limit` | `now`, `counters`, `openUntil`, history `admitted`, `refused` | `EnforceRateLimit`, `OtherCommandFails`, `Tick` |
| `AirportCombobox` | the airport field, its hook and `searchAirports` | `value` (the form's origin), `input`, `debounced`, `open`, `items`, `active`, `status`, `lookup`, `superseded` | one per browser event (`Type`, `ArrowDown`, ..., `Close`), `Debounce`, and of the network `Headers`, `Answered`, `ConnectionFails`, `SupersededSettles` |
| `SearchForm` | the form, the link, the request and what the API accepts | `page`, `form`, `link`, `range`, history `asked` | `Edit`, `StatusLoads`, `Submit`, `ChangeSort`, `Modify`, `OpenLink` |
| `ScheduleImportProofs`, `AirportImportProofs`, `SearchCacheProofs`, `CacheAsideProofs`, `RoutingProofs`, `RateLimitProofs`, `AirportComboboxProofs`, `SearchFormProofs` | theorems | | |
| `MC...` | instances for TLC | | |

**How they fit.** `ScheduleImport` implements `ActiveSchedule` (`ImplementsActiveSchedule`,
checked and proved): an uncommitted transaction is invisible, a commit is one activation of a
dataset that clashes with none before. `SearchCache` therefore builds on `ActiveSchedule` and
not on the statements of the importer. `CacheAside` needs even less of an import: that what the
database holds changes, and that an invalidation follows. `ImportPipeline` gives `ScheduleImport`
its datasets: the identity is the file's name, the checksum and the verdict are what `QualityGate`
computes from the rows. The theorems about `ScheduleImport` hold for these datasets as for any.
`AirportImport` implements `AirportTable` (`ImplementsAirportTable`, checked and proved) under the
mapping that shows of an importer what its file asks for while its transaction is open. A schedule
import reads the airports once, before its own transaction, and takes them as given.

**PostgreSQL** (`ScheduleImport`). What an open transaction has written is `Staged`, the row it has
inserted, `Locked`, the rows it has locked, `Lowered` and `Raised`, the ones whose `is_active` it has
updated, and `routesOff` and `routesOn`, the sources whose routes it has turned off and inserted.
Three statements switch a schedule: `UpdateRoutes`, sent at once, for the rows just locked;
`WriteRow`, once per row of `data_sources`, at the flush; `InsertFlights`, at its end. Each may fail,
and other transactions run between them; `CommitFlags` makes visible what each has written, and an
end without a commit discards it (`LeaveSession`). A statement that would collide with another open
transaction waits (its action is not enabled), one that collides with committed rows raises (a
`...Conflicts` action). `SELECT ... FOR UPDATE` takes its snapshot in `SelectActive`, waits in
`LockActive`, and keeps the rows still active after the wait, as READ COMMITTED does. The UPDATEs
of the flush go out in primary-key order (`NextRow`), and keys are random.

**The session** (`AirportImport`). `autoflush` is off, so `db.get` does not see what was added
before; an airport that was changed stays in the session (`Recall`), one that was only read may
have been forgotten and is read again (`Select`). At the end the changed airports are updated in
the order of their codes, changed columns only (`Written`), and then the added ones inserted in
the order of the file. `Waits` says which open transaction a statement waits for; a circle of
waits is ended by `DeadlockDetected`.

**Redis** (`RedisCache`). A command is skipped during the backoff, applied, or failed with or
without effect on the server, which then starts the backoff of its process. Entries with a TTL
may disappear at any time, a value of another release may appear in place of a good one: a misfit,
which is deleted by a command after the one that read it (by `get_json` if it does not decode, by the
endpoint if the schema rejects it), or a list, which both leave alone.

**Time** (`Connections`). A zone has one change of its offset, so that gaps and folds exist;
`Instants` is the set of instants a clock shows a time at, and `Localize` accepts a time only if
there is exactly one, which is what the code's round trip and fold comparison decide. Python
orders two aware datetimes of one zone by their clocks and of two zones by their instants;
`Resolve` and `Chronological` do the same, and `RoutingProofs` shows the two orders agree. The
reference that `AnswersBest` compares with resolves flights by the same `Localize`, so it would not
notice a wrong instant of a time in a gap or a fold; `SearchAnswers` does, since the engine's own
checks then contradict each other.

**The browser** (`AirportCombobox`). React handles one event at a time and flushes the renders and
effects it causes before the next, so an action is an event with its effects: `Type` also runs the
effect on `value` when it clears a choice, which empties the input (the first character typed after
a choice is lost; the code does so, and no document says otherwise). An aborted `fetch` or
`json()` rejects with `AbortError`, which is ignored; `parseError` swallows it when the body is
that of an error, and then the superseded lookup still settles (`superseded`).

**Links** (`SearchForm`). Criteria are functions from the parameters of a link. A form unmounts
when the results page opens, so it starts from the link when it comes back. `QueryKey` is what
React Query keeps results under for half a minute, and shows them again without a request. The three time filters
are treated alike and one stands for them.

**Files** (`QualityGate`). A file is the sequence of its rows; what a stage keeps is the set of
their places, and a list of records is a function from the places of the rows they come from, so
that nothing is lost of the order (`seen` is the record with the smallest place) and no recursion
is needed to say what a stage does.

**Lists** (`Routing`). A list of itineraries is a set with an order: the queries sort rows by time,
number and id, the engine adds the dates and keeps the order, and `Place` is what they sort by.
`Deduplicate` is the dictionary of the code, from the itinerary first seen under an identity to the
one that wins it; `SortItineraries` puts each value at the rank of its sort key, where equal keys
would keep the order of their places. `IsInput` says what a search can be given: what the CHECK
constraints and foreign keys of `scheduled_flights` and the limits of `SearchCriteria` allow.

**Data.** In `ScheduleImport` a dataset is an identity, a checksum and the verdict the pipeline reaches on it; a
cached response is the schedule it was computed from; airport codes,
carriers, flight numbers and ids are integers. Wording, logging, metrics and HTTP are left out.

## 3. Runs

| Run | Instance | Shows |
|---|---|---|
| `schedule_import` | 3 importers, 4 good datasets that clash in each way, 3 keys | `OneActiveSource`, `RoutesFollowSource`, `SourcesDistinct`, `ReplacesWhatItLocked`, `ImplementsActiveSchedule` |
| `import_files` | 2 importers, 14 files, fair | `SuccessIsBacked`, `SameScheduleOnce`, `StoredIsWhole`, `GateCoversConstraints`, `ImportsEnd` |
| `airport_import` | 2 importers, 2 airports of 2 columns, every table to begin with, 6 files, fair | `ReportIsTrue`, `ImplementsAirportTable`, `SeedsEnd` |
| `search_cache` | 2 searches in 2 processes, 2 schedules, fair | `OneScheduleInAnswer`, `AnswerWasInForce`, `OnlyOwnLockReleased`, `SearchesEnd` |
| `cache_aside` | 2 readers in 2 processes, 2 keys, an invalidation of at most 1 key, an import, fair | `StaleOnlyIfMissed`, `EventuallyFresh` |
| `routing` | one connection at every arrival hour up to two days later, every departure hour, 6 effective ranges, 33 clock changes; every subset of 8 rows under 14 searches; a limit of 3 results | `AnswersBest`, `RefusedDatesAreEmpty`, `SameAfterReimport`, `SearchAnswers` |
| `rate_limit` | a client, 2 processes, limit 2, more than two windows | `BurstBounded`, `RefusalsEnd`, `RetryAfterHolds` |
| `combobox` | 2 airports, 6 texts, fair | `ListAnswersText`, `ChoiceIsShown`, `CatchesUp` |
| `search_form` | every field at its default, beside it and off its bounds; 2 parameters of a link changed by hand | `SearchSurvives`, `PostedIsAccepted`, `KeptResultsAreOfTheLink`, `ModifiedCanBeSubmitted` |

Each module with a state of its own has one type invariant in one of its runs, except `Routing`,
whose one step leaves nothing for it to say that `AnswersBest` does not.

**Bounds.** Three importers are the least at which a waiter finds that the source it waited for
was replaced by a third; four datasets give equal version, equal content and neither. Two
searches and two schedules are enough for one search to fill what the other reads, to lose the
lock to it, and to see an import between any two of its statements; a third request adds no
resource. Both schedules cover the date; a search of a date that is not covered takes the branch of
a search without a schedule, which the run has. A key beyond `MaxKeys` (1 of 2) is what a bounded invalidation misses. A day of 8 ticks
keeps the ratio of the longest layover (a quarter of a day) and lets every arrival, departure and
clock change fall on either side of midnight. The pool of rows holds two rows of one identity, a
tie in everything but the carrier, a return to the origin, a flight abroad, one that ends, one
that has not begun; the limit of 3 is below the number of results. `MaxTime` lets three windows
begin, `MaxCount` lets a client be refused three times in each. The files of `import_files` reach
every verdict (`Outcomes`), 1 duplicate in 20 rows and 1 in 19 among them, and for each reason to
reject a row have a row rejected for it alone; one has an equipment text wider than its column.
The files of `airport_import` name the airports in both orders (a deadlock), one airport twice with
different rows and back again, the same row twice and a row that is rejected; two columns are the
least that two overlapping imports can mix. The 25 tables to begin with make every row an
insertion, an update and a repetition. The texts of `combobox` find both airports, one or
none, are blank, are codes, are labels, and one is refused. In `search_form` 60 minutes is both a
shortest and a longest connection, and the dates have one outside the schedule, one that does not
exist, year 0000 and a year of five digits.

**Fairness.** `ImportsEnd` assumes that a process whose next statement can run is eventually run
(`WF` of `Run(i)`): nothing forces a fault, a crash or a lock's release other than the end of its
transaction. `SeedsEnd` assumes the same of airport imports; that a circle of waits is ended is
PostgreSQL's deadlock detector, a step of the statement it fails. `SearchesEnd` assumes the same of a request's thread and neither that a lock, an
entry or a backoff ever expires nor that Redis answers. `EventuallyFresh` assumes that threads
and a started invalidation go on and that Redis honours a TTL. `CatchesUp` assumes that the timer fires once the user pauses, that the API answers or
the connection breaks, and that a rejected promise runs its catch. Imports, failures, crashes and
corruption are never assumed to happen, nor any event of a user.

**Deadlock.** `SearchCache`, `Routing` and `RateLimit` stop when all requests are served or the
clock is at its bound, so their configurations turn the check off; importers that have finished
stutter in `Terminating` and any other deadlock among their locks would be reported.

## 4. Where code and documents disagree

Each is a run that TLC refutes.

| Run | Property | Disagreement |
|---|---|---|
| `import_status` | `SuccessMeansCommitted` | `success` is set before the commit and survives its failure; the command exits 0 |
| `import_rollback` | `ReimportRestores` | re-importing the content of a replaced schedule is a no-op "duplicate", so the runbook's rollback restores nothing |
| `combobox_stale` | `NoStaleStatus` | a lookup superseded while the body of its error is read is not cancelled but reported: `parseError` swallows the abort, and the field says "error" or "No matching airports" over the newer state, for good if there is nothing left to look up |

More disagreements are visible in the modules without a run of their own. `docs/TDD.md:2072` marks
the previous version inactive before the new one is activated; the code leaves both UPDATEs to one
flush, which sends them in the order of random primary keys, so about half of all replacements
activate first, fail on the unique index (`WriteRowConflicts`), and, `success` being set, exit 0.
A status stored after
an import's invalidation (`missed` in `CacheAside`) makes `GET /schedules/status` report a replaced
schedule for its TTL, although the endpoint's docstring promises the source the engine uses. And a
flight with seconds in its times passes `normalization.py`, which speaks of `HH:MM`, and makes every
response that shows it fail (`WholeMinutes` in `Routing`); the instances of `routing` have whole
minutes only. Two rows that differ in `effective_end` alone pass the gate and `schedule-validate`
but break the unique key of `scheduled_flights`, and an equipment code of more than ten characters
its column (verdict `unstorable` of `QualityGate`), so `schedule-import` fails on a file that was
validated. An airport file with two different rows for one code is applied if the airport exists and
fails whole on the primary key if it does not (`InsertConflicts`). A row with too few cells raises an error the
provider does not catch and fails the whole file, although `docs/TDD.md:2178` has invalid rows
rejected (`Raises`). An import between the key and the engine's queries files the new schedule's
results under the old schedule's key (`docs/CACHING.md:5` promises otherwise); it does no harm to
clients because of `AnswerWasInForce`: a key names the schedule its reader found active, a replaced
schedule never comes back under its key, and so whoever hits the odd entry still searches while its
schedule is coming into force. An airport import leaves search entries as they are until their TTL,
although `PHASE.md:313` wants them invalidated. And a year 0000 in a link is a date for the browser
and not for the API.

## 5. Proofs

All proofs are checked by TLAPS for every value of the constants that satisfies the named
assumptions.

**`ScheduleImportProofs`.** The inductive invariant `Inv` adds to `TypeOK` and `OneActiveSource`:
who holds row locks (`LocksInv`: locked rows are active, and disjoint between transactions), what
is left to update (`TodoInv`), that the transaction which has raised its row has lowered all
active ones and is alone (`RaisedInv`), and that a staged row is fresh and holds its importer's
dataset (`NewIdInv`, `BatchInv`). `OneActiveSource` alone is not inductive: a commit keeps it only
because the committing transaction had locked everything active. `RoutesFollowSource` needs that a
transaction has turned off the routes of just the rows it locked (`RoutesInv`), statements before it
lowers those rows; that they are still all that is active at its commit is what the locks are for. `SourcesDistinct` needs the same
statement of staged rows (`DistinctInv`). From these follow `TypeCorrect`, `AtMostOneActive`,
`NoLostActivation`, `RoutesInForce`, `ScheduleStays`, `NoDuplicates` and `Refinement`.
`SuccessStays` (`SuccessIsBacked`) needs that a stored source is never taken back (`StoredStays`)
and, step by step, what each way of ending a call answers.

The same module proves what `ImportPipeline` adds, for every file and every meaning of its texts
that `GateAssumption` allows. `GateInv`: a source in the making or stored passed the gate. With it
`GateIsEnough` (`GateCoversConstraints`: no CHECK constraint or foreign key refuses what the gate let
through), `NothingIsDropped` (`StoredIsWhole`: the records that deduplication drops are equal to one
it keeps, since without contradictions an identity has one payload, `DropsEqualsOnly`) and
`StoredOnce` (`SameScheduleOnce`: by `ChecksumIsContent` two files have one checksum exactly when the
same flights are accepted from them, and `NoDuplicates` says the rest). `SuccessIsWhole` joins them:
an answer of success without an error code means that the file passed the gate and, unless it was
only validated, that a committed source holds exactly its flights, even one that came from another
file; `AcceptingInv` carries the gate's verdict to the answer.

**`AirportImportProofs`.** `IInv` adds to `AirportTypeOK` how far a session has come through its
file (`SessionOK`): an airport it has an object of is in the table, and as it was loaded unless
another import has committed (`late`); the object is as the last row handled of its airport says,
which `LastParsed` shows to be what the file says last although repeated rows are skipped; what it
has inserted is not in the table; and no airport is inserted by two transactions (`InsertsApart`).
Without these a commit could not be matched with `Commit` of `AirportTable`. From it `AirportTypes`
and `Refines`. `ReportsAreTrue` (`ReportIsTrue`) counts: `ReportOK` says that the
counters add up to the rows handled, repeated or rejected so far, that `inserted` is the number of
added objects, which `IInv` makes the airports that are new at the commit, and that in a file
without a repeated code `updated` is the number of objects changed, which are the rows changed at
the commit unless another import has committed since they were loaded.

**`SearchCacheProofs`.** `SearchInv` says of each request what its status, source and segments may
be, and of each entry that a request which could read it has its schedule in `inForce`. From it:
`SearchTypeCorrect`, `OneSchedule`, `InForceDuringSearch`, and `LockOfItsOwner`.

**`CacheAsideProofs`.** `AsideInv` ties the entries and what the readers hold to the history
`missed`: a stale entry is missed or still in the `scan` of an invalidation, and a request about to
store a value that is no longer the database's has its key in `missed`. `StaleOnlyIfMissed` alone is
not inductive, since it says nothing of values not stored yet. From it `AsideTypes` and `Missed`.

**`RoutingProofs`.** `ClockOrder`: of times that exist once in a zone, the clock's order is the
instants' order. From it `PositiveDuration`, `ConnectionAdvances` (the itinerary's own check never
raises for a validated connection) and `CandidateDatesSuffice` (no valid connection departs on a
date the engine does not search, if the longest layover, the minute lost by rounding and the
clock's jump fit in a day; the API allows 6 hours). On these rests `GenerationIsComplete`: for every
input, the queries over spans of dates, the candidate dates, the airports loaded beforehand and the
engine's own checks yield all the itineraries there are, and nothing else. What happens to them
then is an argument about orders. `Less` is a strict total order of tuples, and so `KeyLess` of
sort keys (`LessTransitive`, `LessTotal`, `KeyOrder`); in a finite set with such an order the ranks
are the numbers below its cardinality (`Ranks`), and every part of it has a minimal element
(`Minimal`). An itinerary's identity decides its price, its duration and its sort key
(`IdentityDecides`), its place decides the itinerary (`PlaceDecides`); so deduplication keeps exactly
one itinerary of each identity (`Deduplicated`), sorting puts each at its rank (`Sorted`), and what is
left after the cut is the best of the choice (`ResultsAreBest`), of which there is only one list of
keys (`BestIsUnique`).

The invariant is that the inputs are inputs and the response is what they give (`RoutingInv`). From
it `RefusalsAreRight`, `AnswersAreBest` (`AnswersBest`), `ReimportIsInvisible` (`SameAfterReimport`:
rows under other ids have the same journeys but for the ids, hence the same choice, hence by
`BestIsUnique` the same answer), and `SearchesAnswer` (`SearchAnswers`), which has a hypothesis:
no clock time or offset has seconds (`InMinutes`). The code does not guarantee it (section 4), and
without it the property is false. `InputsAssumption` asks for `IsInput` of every input and of the
integers only what `TimeAssumption` and `RoutingAssumption` say.

**`RateLimitProofs`.** `ForgingIsVain`: behind any chain of trusted proxies the last untrusted
address of the chain is the client's, whatever its own header says. So every counter has one owner,
and `RateInv` can tie a client's refusals to its counter: the first lies within a window of the
counter's end, the last before it, and each named a time at most half a second short of it.
`RefusalsEnd` is not inductive without the counter: only its TTL, which a refused request never
renews, bounds how long refusals go on. From it `RetryingIsHarmless` and `RetryAfterIsRight`.
`BurstsAreBounded` follows the last `2 * Limit + 1` admissions of a client by their age (`admitted`):
`BurstInv` says which of them the present counter can have counted and that all but `Limit` of the
others are a window old, because windows of one counter do not overlap. `RateTypeCorrect` is the type invariant.

**`AirportComboboxProofs`.** `ComboInv` adds to the four invariants that a lookup in flight is
for the debounced text, and wanted, and that of superseded lookups only those are left whose error
body was being read: they carry no list, which is why they can disturb the status and never show a
list of an older text. From it `ComboTypeCorrect`, `ListIsCurrent`, `OriginIsShown` and `SearchingIsHonest`.

**`SearchFormProofs`.** `RoundTrip`: criteria within the form's bounds come back out of the link
they are written to, although `serializeSearchParams` leaves out values, `parseSearchParams` fills
in some and `toSearchRequest` the others. `ValidAsk`: a valid link asks for such criteria, whoever
wrote it; and `SameLink`: criteria and the request made of them write the same link. With these
`FormInv` is inductive: a search that is known is complete, and stands in the form or, as
submitted, in the link. From it `FormTypes`, `SearchesSurvive`, `PostsAreAccepted`, `KeysTellRequests`
and `ModificationsCanBeSubmitted`. `FormAssumption` keeps the parameters' sets apart from `NoValue` and
has the form's initial values among them.

**Only model-checked.** Liveness (`ImportsEnd`, `SeedsEnd`, `SearchesEnd`, `EventuallyFresh`,
`CatchesUp`), which TLAPS does not reach. Every other property of a passing run is a theorem.

## 6. Not modelled

The results page's query states and its single retry, the ranking of airport matches (`search_airports`
is a function of the text and the table, `Found`), health probes, middleware, the error envelope, the
configuration and the command line's parsing, which keep no state; metrics and logging; the way from
one migration to the next (the constraints they leave behind are in `QualityGate` and the import
modules). Which airport row is valid is a parameter of `AirportImport`. Taken as given: PostgreSQL's
READ COMMITTED with row locks, immediate unique indexes and a deadlock detector, the order of
SQLAlchemy's flush, Redis commands and scripts as atomic, SHA-256 as injective, valid zone names (the
import checks them), and one change of offset in the days around a search.

## 7. Plan

1. *Done*: both imports with their files and abstract specifications, search cache, cache-aside
   endpoints, routing, rate limit, combobox, form and links; the safety theorems of all of them.
2. *Next modules*: the results page's query with its single retry, against the rate limit; the airport
   search's ranking.
3. *Composition*: `CacheAside` over the commits of `ScheduleImport` and `AirportImport`; a schedule
   import that reads airports while they are imported; `SearchForm` with the combobox as its origin
   field.
4. *Theorems*: that `SearchCache` sees `ActiveSchedule` only through its variables, so that the
   theorems about it hold over `ScheduleImport`; a bound on the steps of an import, which liveness
   under fairness would rest on.
