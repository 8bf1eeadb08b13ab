# A verification development for Pulso Energia

TLA+ models, model-checking runs and machine-checked proofs for the backend
under `src/`: a FastAPI application over PostgreSQL that takes a user's
electricity bills, extracts their figures, has them reviewed and derives
analytics and forecasts.

    tlc -workers 2 -config MCRefreshTokens.cfg MCRefreshTokens.tla
    tlapm RefreshTokensProofs.tla

`PROJECT.json` is the index: components, runs, faulty variants, the source
lines behind every definition, findings, hazards and theorems.

## 1. Inventory

Every HTTP request runs in a thread of its own (the endpoints are synchronous,
except the upload) in one of two worker processes (`docker-compose.prod.yml`),
with one SQLAlchemy session (`app/db/session.py:42-58`): no autoflush, rows are
not expired at a commit, whatever is not committed is rolled back. PostgreSQL
runs at READ COMMITTED. No statement of the application locks a row it reads
and no table has a version column. Almost everything hard about this system
follows from these facts.

| Component | State it keeps | Operations | Interacts with | What must hold |
|---|---|---|---|---|
| Sessions (`services/auth/service.py`, `token_service.py`) | `users`, `refresh_tokens`: family, `revoked_at`, `replaced_by_jti` | register, login, refresh, logout | the client, which keeps the last token; the clock | one usable token per session, a reused token is detected, the end of a session is final, an honest client keeps its session |
| Phone verification (`phone_verification_service.py`) | `users.phone_number`, `phone_verified`, `account_status`; `phone_verification_codes` | start, resend, confirm, status | SMS provider, account gate | one account per phone, access only with a proved phone, limited guesses, a block stays |
| Account gate (`api/dependencies/auth.py`) | none | `get_current_user`, `get_active_user` | every endpoint | bills only for active accounts |
| SMS provider (`services/sms`) | none | send | called inside the transaction of a start | |
| Upload and storage (`services/documents`) | files, `uploaded_documents` | upload | the file system | every document has its file, no file is left without reason |
| Extraction, review, deletion (`services/extraction`, `review`, `bills`) | `utility_bills`, `consumption_history`, `extraction_confidence`, logs | extract, confirm, delete | storage, analytics | one bill per document, rows hang from their parents, a confirmed bill shows what was reviewed |
| Analytics and forecast artefacts (`services/analytics/service.py`) | `forecasts`, `insights` | analytics, forecast, refresh after a confirmation | all confirmed bills of the user | only for confirmed bills, current, one per month |
| Series resolver, calculator, insight builder, forecasting engines | none | pure | the above | a month is taken from the best source; what is served is trusted by one criterion; reading changes nothing unless it must |
| Parser, processor, validator | none | pure; the validator's answer is rebuilt from stored confidences | extraction | a doubtful or missing figure is always sent to review; what is stored is well formed and agrees with itself |
| Text extraction and OCR | none | pure, external binaries | extraction | |
| Rate limiter (`api/dependencies/rate_limit.py`) | a queue of times per client and scope, in memory | enforce | all threads of a worker, the clock | at most `limit` calls in a window, refusals only at the limit, nobody locked out |
| Configuration, errors, session, migrations, seed, deployment | | | | |

What is hard here, and rarely reached by the tests, which send one request at
a time: a decision taken on a row that another request has changed since; an
UPDATE that carries only the columns which differ from the copy that was read;
collections replaced by deleting the rows that were loaded; two transactions
where a reader expects one (registration, confirmation and its forecasts,
deletion and its file); an SMS sent inside an open transaction; answers lost
after a commit; process death between two steps; a clock read before the lock it
is compared under; a chain of corrections in which a later one changes what an
earlier one relied on. `PROJECT.json` lists every
hazard at its line with the properties that cover it, or why none does.

## 2. The modules

| Module | Stands for |
|---|---|
| `SessionChain` | what the token store promises: a session is one chain of tokens of which at most the last is usable, and its end is final |
| `RefreshTokens` | register, login, refresh, logout over `refresh_tokens` |
| `PhoneVerification` | start, resend, confirm |
| `BillLifecycle` | upload, extract, confirm, analytics and forecast, delete |
| `RateLimiter` | enforce: the queue of times behind every limited endpoint |
| `BillExtraction` | parser, processor, validator and the answer sent for review |
| `Forecasting` | the series of a bill, insights and forecasts derived from it, and when they are served again |
| `SequenceOrder` | filtering and stable sorting, as list comprehensions and `sorted` do them; used by the two modules above |
| `RefreshTokensProofs`, `SessionChainProofs`, `PhoneVerificationProofs`, `BillLifecycleProofs`, `RateLimiterProofs`, `BillExtractionProofs`, `ForecastingProofs` | theorems (section 4) |
| `SequenceFacts` | lemmas on filtering, sorting, folds, concatenation and induction that the last two rest on |
| `MC...` | instances for TLC: symmetry sets, texts, reviews; the other constants are in the `.cfg` files |

`BillLifecycle` and `Forecasting` describe the same artefacts from two sides. The
first has overlapping requests and crashes, and figures without structure: where
a decision depends on them, both outcomes are allowed. The second has the figures
and one request at a time. `BillExtraction` is what happens inside the one step
`ExtractCommit` of `BillLifecycle`.

### Requests over the database

`RefreshTokens`, `PhoneVerification` and `BillLifecycle` are built the same way. A
request is a *slot* with a program counter. Its first step is its SELECTs and
checks; its writes take effect in one step, its commit; any other slot may
commit in between. Statements that only wait (an UPDATE behind another UPDATE of
the row) need no step of their own. A transaction is split further where
something observable lies between two of its statements: `revoke_family` selects
and then updates (`SweepSelect`, `SweepCommit`), a start sends its SMS between
flush and commit (`StartFlush`, `StartCommit`), a rebuilt forecast deletes before
it inserts (`Replace`, `ReplaceCommit`). Failure is an action too: `Crash` and
`Leave` end a slot at any step and roll back.

**RefreshTokens.** `family`, `revoked`, `replacedBy` are the columns, one row per
token; `expired` is the clock. `RefreshLive`, `RefreshExpired` and
`RefreshReplaced` are the branches of `refresh` (`service.py:87-119`), `RotateCommit`
its last one. `Revoke` writes `revoked_at` only: `replaced_by_jti` was read as
NULL and is set to NULL, so the session emits no change of it; the faulty variant
`RevokeWholeRow` shows what depends on that. `client`, `parent`, `reported`,
`closed`, `overlapped` and `spoiled` are history: what the client knows, and
which sessions saw overlapping transactions or an impatient client.
`ImplementsSessionChain` is the refinement: a session's usable token, the sessions
opened, the tokens used and the sessions that branched are what `SessionChain`
sees of the store.

**PhoneVerification.** `row` and `code` are the committed rows, `slot[r].copy` the
user's row as authentication read it. `Emits` is the set of columns a start
changes with respect to its copy, `LocksOut` and `Unlocked` are the row locks
and the unique index entry a flushed start holds while the SMS is sent. `Age`
moves a code past the resend interval and then past its expiry, in order of
creation. `Block` is an operator: no code under `src/` sets BLOCKED.

**BillLifecycle.** A bill is named by its document. Its figures are `main`
(`read` by the parser or `typed` by a reviewer) and `history`, the batches of
rows it owns; a forecast batch carries the series it was computed from.
`Written` is the ORM's UPDATE: status and figures change only where the new value
differs from the copy, history loses the rows that were loaded. `ExtractRead`
stands for the document's foreign-key lock (no deletion until the extraction
ends) and, for a document never extracted, for the lock of the UPDATE of
`extracted_text`, which makes first extractions wait for each other. After its
commit a confirmation goes on as `RefreshRead`, `Replace`, `ReplaceCommit`, with the
columns of its own copy and the history loaded again.

### The limiter

**RateLimiter.** `enforce` reads the clock (`Arrive`) and then takes the lock and
decides (`Admit`, `Refuse`); in between other threads of the worker decide, so a
queue is not in order and `popleft` may stop at an entry younger than what is
behind it. There is no clock variable: a time is kept as its age, which `Tick`
increases up to `Cap`, beyond which nothing depends on it; this makes the state
space finite without bounding time. `granted` is history: the ages of the last
admissions themselves, as opposed to the readings the code keeps. `wait` is what
a refused client was promised by `Retry-After`. `Restart` empties the memory of a
worker. The two workers of the deployment have a limiter each; the model is one
of them.

### The figures

**BillExtraction.** A line of text is a record of what the regular expressions
find in it (labels, months, amounts, tokens of a history row, digits): the
expressions themselves are left out, and every decision made on what they find
is kept. `Parse` chooses, for each field, the line that is believed or the guess
that is taken, with its confidence. `Process` is the chain of corrections in the
order of `processor.py:60-70`: consumption, days, month, total, colour, history.
`Merged` and the recovery of rows from interleaved digits stand for
`parser.py:175-181`
and `301-383`. `SchemaAccepts` is the schema an answer is built with: a
consumption or a total that is not positive, or a month of a three-digit year
(`Malformed`), ends the request with an error and nothing is stored, before the
checks of the validator that would have sent the same values to review are
reached. `Shown` rebuilds the fields to review from the stored confidences,
because the validator's own list (`flagged`) is not stored. Two things were found
not to decide anything and are left out: whether a row stands in the history
section (every row looks like one, inside and outside), and decimals of money.
Colours spread over several lines, maximum lengths and warnings are left out too.

**Forecasting.** `Candidates` are offered in the resolver's order and `Take` keeps
the first of the best precedence of each month. `Trend`, `Residuals`, `Anomalies`
and `Seasonality` are the calculator's least squares with all fractions cleared;
predictions are in thousandths of a kWh, as they are stored, and rounded down.
`Fallback` is the deterministic engine, `Trustworthy` the criterion applied both to
a fresh answer of Prophet and to a stored forecast. Prophet is external: any of a
set of answers, or a failure; asked to fit a series without a point it fails
always (only a minimum of zero points lets it be asked). `Confirm`, `ConfirmUnderived`, `Extract` and `Delete`
change a bill and lose its artefacts; `Get` serves what is `Reusable` or builds
anew. Intervals, tariffs, messages and the wording of insights are left out.

## 3. The runs

| Run | Instance | Shows |
|---|---|---|
| `sessions` | 1 user, 2 sessions, 3 tokens, 2 slots | type invariant, five safety properties, and that the store implements `SessionChain` |
| `sessions_race` | 1 session, 3 tokens, 2 slots | *violation* of `ReportedFamilyIsRevoked` |
| `phone` | 2 users, 2 phones, 2 slots, 2 codes, 2 attempts | type invariant and six safety properties |
| `phone_attempts` | 1 user, 2 slots | *violation* of `AttemptsLimited` |
| `phone_blocked` | 1 user, 1 slot | *violation* of `BlockIsKept` |
| `bills` | 2 documents, 2 slots, 4 batches | type invariant and seven safety properties |
| `bills_review_race` | 1 document, 2 slots | *violation* of `ConfirmedIsReviewed` |
| `bills_stale_forecast` | 2 documents, 1 slot | *violation* of `ServedForecastIsCurrent` |
| `limiter` | 1 address, 3 scopes (limits 2, 1 and none; windows of 2 and 1 s), 2 threads, 2 ticks a second, lag of 1 tick | type invariant, three action properties and one liveness property |
| `extraction` | every text of at most 3 lines of 24 kinds, every history table of 4 to 6 lines of 6 kinds | type invariant and five properties of what is stored and shown |
| `extraction_month` | the same texts | *violation* of `HistoryConsumptionIsOfItsMonth` |
| `forecasts` | 3 bills, 7 reviews, 3 answers of Prophet and its failure, 4 months ahead | type invariant, four invariants and one action property |

The properties of the first three models come in three strengths. Some hold in
*every* interleaving (`ExchangedTokensStayDetectable`, `DeathIsFinal`,
`OneAccountPerPhone`, `StatusAgreesWithVerified`, `SpentCodesAreClosed`,
`RowsAreRooted`, `DocumentHasFile`, `StrayFilesAreExplained`,
`FirstExtractionIsExclusive`). Some hold for a session, a user or a bill whose
requests *never overlapped*, although everything else in the system does
(`OneLiveToken`, `EndedSessionsAreDead`, `OnePendingCode`,
`ActiveMeansPhoneProved`, `AttemptsLimitedWhenSequential`, `ReviewHolds`,
`NoForecastBeforeReview`, `ForecastFollowsItsBill`): the history variable
`overlapped` records the overlap. What the code or its documents say without
that condition and does not hold is a run of its own with a finding.
`PatientClientKeepsSession` is the promise to a client that follows the protocol.

The limiter's are about the gap between the clock and the lock: how far
short the window may become because of it (`LimitHolds`: by no more than the
lag), that the disorder of the queue never refuses a client too early
(`RefusesOnlyAtLimit`), that a client who waits as long as it was told is refused
only if another call of its key came first (`RetryKept`), and that nobody who goes
on sending is refused for ever (`RefusedIsAdmitted`).

Those of the figures relate the two ends of a pipeline: what is shown for review
to what the validator decided (`ReviewIsShown`) and to what is empty
(`EmptyIsShown`), what is stored to the text (`PrintedRowsAreKept`) and to itself
(`StoredIsWellFormed`, `HistoryAgreesWithBill`), the series to a declarative
definition of the best source (`SeriesTakesBestSource`), a forecast to the last
month of its series (`ForecastContinuesSeries`), what is served to the series as
it is now (`ServedIsTrusted`) and a stored forecast to its replacement
(`OnlyUntrustedIsReplaced`).

**Bounds.** Two slots are enough for every race described above, which are all
between a reader and one writer; a slot is used again and again, so sequences
are as long as the other bounds allow. Three tokens give a session two
rotations, or two sessions with one rotation between them, and leave one token
for a branch. Two attempts are the smallest limit with a guess that is not the
last. Two codes give a resend and a code that is superseded. Four batches are an
extraction, a review, a forecast and one repetition of any of them. A passing run
with three slots and one document was also made during development, with the
same result. `MaxCodes` and `MaxBatches` bound counters and are conjuncts of the
actions that count.

In `limiter`, a limit of two is the smallest with a queue whose head is not its
end, a limit of one has the shortest promise, and a limit of zero is switched
off; two ticks a second make the truncation of `Retry-After` visible. `MaxLag` is
one tick: enough for a reading to be older than one already in the queue. It
bounds the wait for the lock, so it is part of every statement about it.

In `extraction`, three lines are enough for a labelled line to compete with a
guess and a third line to correct either; the 24 kinds hold one line for each
branch of the extractors, including zeros, days out of range and malformed
months. The six kinds of the longer tables are those that meet in the history:
repeated months, a malformed one, and digits in which rows are recovered.

In `forecasts`, the series are a peak, a fall that leads to zeros, a seasonal
year, one with missing days and an empty one, and the other two bills add months
that compete with each other; `MinPoints` 5 lets both engines be chosen; energy is
counted in units of 100 kWh so that squares fit TLC's integers. The operators
were compared with the arithmetic of the source on 180 series without a
difference.

Users, sessions, tokens, phones, documents and slots are interchangeable, no
liveness is checked under symmetry, and no CHOOSE depends on the order of model
values except the one under `Live(f) # {}` in the mapping to `SessionChain`, where
sessions that did not branch have one live token; so symmetry is sound.
`CHECK_DEADLOCK FALSE` in the bill runs: a document is never uploaded twice, so
when every document is gone and no batch is left nothing can happen. The same in
`forecasts`, where every bill may be deleted.

**Fairness.** Only the limiter assumes any. `WF(Tick)`: the clock runs.
`WF(Decide(t))`: a thread that waits for the lock gets it; the lock is held for a
few operations on a queue in memory and never across an I/O. `SF` of sending for
each refused key: the clients keep trying; strong, because a thread is free only
now and then. Without the last the property is empty, since a client that gives
up is never admitted. Everywhere else none is assumed: nothing in the code
retries, polls or runs on a timer, so what happens next is up to the clients, and
all properties there are safety properties.

Every property has a faulty variant of the code it depends on, kept next to the
definition it varies ("Faulty variant: ..."), for which TLC finds the property
violated; `PROJECT.json` pairs them.

### Findings

1. `revoke_family` misses a token inserted between its SELECT and its UPDATE,
   after which the answer says that the family was revoked
   (`sessions_race`).
2. `attempts += 1` on a value read earlier loses counts, so the limit of
   guesses is exceeded by concurrent ones (`phone_attempts`).
3. A confirmation ends an operator's block (`phone_blocked`).
4. An extraction that overlaps a confirmation leaves unreviewed history in a
   confirmed bill (`bills_review_race`). Needs history rows of disjoint months,
   for example a review that clears the history: otherwise the unique index on
   bill and month refuses the second request.
5. A forecast depends on all confirmed bills and is invalidated only with its
   own (`bills_stale_forecast`); no concurrency is needed. `ServedIsTrusted` says
   what is left: such a forecast is served only while it is plausible for the
   series as it is now.
6. A missing consumption is taken from the history row of the month first read;
   when that month is corrected afterwards, the bill is stored with the
   consumption of another month, with a confidence that asks for no review, and
   the reconciliation then overwrites the right row (`extraction_month`).

## 4. The proofs

Every theorem holds for any sets of users, sessions, tokens, phones, documents,
slots, scopes, clients and threads and for any values of the bounds. What is
assumed of the constants is named in the module that declares them and no more
than this: `None` is not one of the values it stands beside; bounds are positive;
limits and windows are integers, with any sign; the limiter is sent well-formed
requests; documents with history are documents; answers of Prophet, when there are
any, have a prediction for each month of the horizon; a text is a sequence of
lines of the declared type; a review has the shape its schema demands, with
positive consumptions (`schemas/extraction.py:15-31`); the bills of a user are
listed once each. Two theorems have a hypothesis of their own, on a setting the
code does not bound: `ReviewSurvivesStorage` needs a threshold above 40 % and
`EmptyFieldsAreShown` one above zero, where the default is 75 %
(`core/config.py:39`). Below that they can fail, since the checks cap a
confidence at 40, 30 or 0 % and the answer compares it with the threshold.

| Module | Theorem | Property |
|---|---|---|
| `RefreshTokensProofs` | `TypeCorrect` | `TypeOK` |
| | `ExchangeCorrect` | `ExchangedTokensStayDetectable` |
| | `SequentialCorrect` | `OneLiveToken`, `EndedSessionsAreDead` |
| | `DeathCorrect` | `DeathIsFinal` |
| | `PatientCorrect` | `PatientClientKeepsSession` |
| `SessionChainProofs` | `ChainCorrect` | `ImplementsSessionChain` |
| `PhoneVerificationProofs` | `TypeCorrect` | `TypeOK` |
| | `OnePhoneCorrect` | `OneAccountPerPhone` |
| | `StatusCorrect` | `StatusAgreesWithVerified` |
| | `SpentCorrect` | `SpentCodesAreClosed` |
| | `SequentialCorrect` | `OnePendingCode`, `ActiveMeansPhoneProved`, `AttemptsLimitedWhenSequential` |
| `BillLifecycleProofs` | `TypeCorrect`, `RowsCorrect`, `FileCorrect`, `StrayCorrect`, `FirstExtractionCorrect` | `TypeOK`, `RowsAreRooted`, `DocumentHasFile`, `StrayFilesAreExplained`, `FirstExtractionIsExclusive` |
| | `ReviewCorrect`, `PendingCorrect`, `ForecastCorrect` | `ReviewHolds`, `NoForecastBeforeReview`, `ForecastFollowsItsBill` |
| `RateLimiterProofs` | `TypeCorrect`, `LimitCorrect`, `RefusalCorrect`, `RetryCorrect` | `TypeOK`, `LimitHolds`, `RefusesOnlyAtLimit`, `RetryKept` |
| `BillExtractionProofs` | `Transaction` | the inductive invariant of the next six |
| | `ScoresInRange`, `ReviewSurvivesStorage`, `EmptyFieldsAreShown` | `TypeOK`, `ReviewIsShown`, `EmptyIsShown` |
| | `StoredBillIsWellFormed`, `HistoryAgrees`, `PrintedRowsSurvive` | `StoredIsWellFormed`, `HistoryAgreesWithBill`, `PrintedRowsAreKept` |
| `ForecastingProofs` | `TypesCorrect`, `SeriesCorrect` | `TypeOK`, `SeriesTakesBestSource` |
| | `ForecastCorrect`, `AnomaliesCorrect` | `ForecastContinuesSeries`, `AnomaliesAreRare` |
| | `ServedCorrect`, `ReplacementCorrect` | `ServedIsTrusted`, `OnlyUntrustedIsReplaced` |

**Sessions.** `TypeOK` is inductive, and `DeathIsFinal` follows from it.
`ExchangedTokensStayDetectable` is not inductive alone; `DetectInv` adds that a
token without a row has no parent, so that an insertion starts the link it makes.
The slot that rotates may present a token that another slot has rotated
meanwhile: the proof is that the older child keeps its parent, which stays
revoked and replaced. `SequentialInv` adds `Alone` (in a session that never
overlapped at most one transaction is open), `SweepsOwnFamily` (a sweep has
selected rows of its own family only) and that a session that was reported or
closed has been opened. `PatientInv` is about a client instead of the rows: a
session that is not spoiled has at most one busy slot, the token on its way to
the client is live, and the token the client holds is live until it is exchanged
or expires (`Kept`). A sweep of another family is excluded by `SweepsOwnFamily`
again.

**Refinement.** `ChainInv` joins `TypeOK`, `SequentialInv` and that only opened
sessions branch. Each step of the store opens a session, rotates its token,
ends it, marks it as branched, or is a stutter: one lemma for each (`ChainOpen`,
`ChainRotate`, `ChainRevoke`, `ChainBegin`, `ChainFrame`). `AnyOfOne` and
`ShownLive` remove the CHOOSE of the mapping.

**Phones.** `Inv` says of each slot what its program counter implies (`Holds`) and
that codes not yet generated have no row (`Rows`). On top of it stand separate
invariants: `OnePhone` needs that the phones of flushed starts are held by nobody
else (`PhonesHeld`), which is what the row locks and the unique index give;
`Agreeing` extends the agreement of the two columns to every copy a slot holds,
since a start writes what differs from its copy; `Sequential(u)` says of a user
whose requests never overlapped that the one open request holds the rows as they
are now (`Follows`); `Counted` bounds the wrong guesses by the column.
`SpentCodesAreClosed` holds with stale counts too, because the request that writes
the last count also closes the code.

**Bills.** The type invariant needs more than types: an extraction writes a bill
it loaded earlier, so `Held` says that a document being extracted keeps its row
until the commit, and a deletion and an upload what each of them has done so far.
The second half of the module adds `SerialInv`: a bill whose requests never overlapped has at
most one request, its rows agree with each other and with what was reviewed
(`Agrees`), and what that request loaded is what is there (`Loaded`). `OtherStep` shows once and for all that
requests of other bills do not disturb this.

**Limiter.** The property is about admissions, the code keeps readings. `Matches`
ties the two: the readings in a queue belong to the last admissions, each at most
`MaxLag` older than its admission, and an admission whose reading was purged is
itself old. That is what survives the disorder of the queue. `Promised` says that
a refused client was given a time counted from the head of a full queue.

**Sequences.** Lists are filtered and sorted, months are found by a fold, parts
are joined: what these return for a list of any length takes induction.
`Positions` defines filtering and sorting by the positions that are taken, with
the k-th having k - 1 before it, so `RankIsTaken` is a fact about cardinalities and
`SortedIsPermutation` needs no induction at all. For folds and concatenations the
library's induction theorems cannot be used, as they take an operator; but an
induction is also the statement that a set of numbers with zero and all
successors is Nat (`NatIsLeast`), which takes a set. `FoldLeftAccumulates` turns a
fold into a sequence of intermediate results, and an invariant of a fold is then
the set of the numbers up to which it holds. The same is done for sums.

**Extraction.** `IInv` says that whatever is stored was all computed from the text
by one run of parser, processor and validator, or nothing is stored; the
properties relate what is stored in different tables, so none of them is
inductive alone. The rest is about that one run. `WellRead` is what every
correction keeps: each field has a value of its kind or none, a field without a
value has confidence zero, the history is in order with one row for a
month. `ParseIsWellRead` shows it of the parser, `Corrects` of each correction,
together with the fact that a correction touches its own field only, so that
the order of the chain in `Process` matters only where a correction reads an
earlier field. `Rows` describes the history loop after any number of lines (each
row is the first of its month), `AddMonthKeeps` and `MergedKeeps` that recovered
rows are added and never replace a printed one, `ReconciledHistory` what becomes of the bill's own month: that the
reconciliation is the last correction is what `HistoryAgrees` rests on. For
`ReviewSurvivesStorage` the hazard is a check that flags a field and leaves its
confidence above the threshold: `FinalScoreIn` shows that every check caps it.

**Forecasting.** `ServedInv` says that what is stored is complete (as many points
as the horizon has months, and at least one insight), so that a stored forecast
is replaced for one reason only, and that the last answer may be served for the
series as it is; `BuiltIsServable` is the lemma about both engines. For the series,
`FoldIsBest` shows that after any number of candidates each month is held by the
first candidate of its lowest precedence; `CandidatesFrom` and `CandidatesBySource`
say where in the joined list the candidates of a bill stand, which makes *first*
the same as *of the newest bill*. `SeriesEndsLast` and `FollowInv` carry this to the
stored forecasts: those that no other bill has made stale begin after the last
candidate, and their predictions are not negative. For the
anomalies, an outlier has 81/25 of a sample variance, so k outliers among n
months give 81k <= 25(n - 1) (`LargeOnesAreFew`), hence fewer than a third. With
five months that leaves one; its residual is the sum of the four others with the
sign changed (`FiveResidualsCancel`), whose squares are then at least a quarter of
its own, which raises the variance above what an outlier may have. The least
squares have integer coefficients after the fractions are cleared: this is a
proof about the formula, which the program evaluates in floating point.

**Only model-checked.** `RefusedIsAdmitted`: liveness under fairness, which is out
of the prover's reach. Every invariant and every other action property of the
passing runs is a theorem. And, as they do not hold, the properties of the six
findings.

## 5. What is not modelled

- What a regular expression finds in a line, text normalisation, and the text
  extraction and OCR before it (libraries and an external binary): a text is a
  sequence of what was found.
- Figures that decide nothing: averages, variations, extremes, intervals, costs,
  the wording of insights, messages and warnings.
- The SELECTs of one request that follow each other without a write or an
  external call are one step. An interleaving between them is therefore not
  explored; insights are taken to share the fate of their forecast.
- In `BillLifecycle` a document is extracted with the same figures every time;
  `Forecasting` has one request at a time.
- A commit whose outcome is unknown to the caller, timeouts of the database,
  and deadlocks it resolves: the failed request is `Leave` or `Crash`.
- Access tokens, signatures, passwords, logs, configuration.
- The memory of the limiter: keys are never removed, in the model as in the code,
  and nothing there bounds their number.
- Ownership: `bill_id` is always looked up with the user, so one user's
  documents are enough; which of the user's bills are confirmed is in `Series`.
- Routers, schemas, migrations, the seed script and deployment: wiring and data
  whose constraints are guards of the commits.

## 6. Plan

Done: sessions with the abstract chain; phone verification; bills; the limiter
with its liveness; extraction; forecasting; theorems about all of them.

1. `Backend`: the account gate in front of the bill operations, sessions and
   phone verification together: what an account that loses its verification or
   is blocked in mid-request can still do.
2. Liveness of derived forecasts under fairness of single requests; a commit
   with an unknown outcome in `BillLifecycle`.
3. `Forecasting` with two requests at a time, and its analytics figures.
4. Proofs beyond the runs' properties: that `Forecasting` and `BillLifecycle`,
   which describe the same artefacts, agree step by step while requests do not
   overlap (a refinement), and the same for the proofs of item 1.
