# GameLens AI: a TLA+ verification project

GameLens AI recommends games. A browser (Next.js) talks to an API (FastAPI,
SQLAlchemy, PostgreSQL); a Python package builds a model artifact offline and
ranks games from it. Anonymous visitors who consent get a session, and the API
keeps their preferences, feedback and a log of the recommendations made for
them. This directory holds the TLA+ models of the parts of that program whose
correctness depends on order, concurrency or failure, the TLC instances that
check them, and the proofs.

Contents: [inventory](#inventory), [plan](#plan), [the profile
store](#the-profile-store), [retention](#retention), [the browser](#the-browser), [the
model](#the-model), [the database around them](#the-database-around-them), [runs](#runs),
[proofs](#proofs), [observations](#observations), [how to run it](#how-to-run-it), [what is
not modelled](#what-is-not-modelled).

## Inventory

`apps/api/app` is written `app` below.

| Part | State it keeps | Operations | Speaks with | What is hard about it | What makes it correct |
|---|---|---|---|---|---|
| Anonymous identity (`app/services/anonymous_identity.py`) | `users` rows: digest, consent, expiry, revocation | create, re-consent, delete, look up | every `/me` service calls its look-up | row locks, expiry during a wait, token collisions, deletion beside writers | deletion is complete; consent and expiry hold at the commit |
| Feedback (`app/services/feedback.py`) | `interactions`: active and superseded rows | replace, clear, list | identity, catalog rows | two tabs, time stamps after waiting, history | PUT is a replacement; history is ordered and append-only |
| Preferences (`app/services/preferences.py`) | `user_preferences` | replace, clear, get | identity, catalog rows (FOR SHARE) | two tabs, lock order | PUT is a replacement; no deadlock |
| Personalized generation (`app/services/personalized_recommendation.py`) | `recommendation_events` | recommend | identity, preferences, feedback, catalog, ranking | snapshot, serialization failure, lost commit acknowledgement | an event shows the profile of its commit; answers are honest |
| Transactions (`app/db/session.py`, `app/core/exceptions.py`) | open transactions | begin, end, answer errors | all services | isolation levels, leaked locks | every request ends |
| Retention, revocation (`app/services/retention.py`) | none of its own | purge, revoke, preview in batches | `users`, `recommendation_events` | SKIP LOCKED beside live requests, interruption | cutoffs are respected, remaining = 0 means done when drained |
| Catalog seeder (`app/db/seed.py`) | catalog tables | upsert, delete | preference and feedback writers wait for its locks | lock order | no deadlock, one consistent catalog |
| Migrations (`apps/api/alembic`) | schema | upgrade, downgrade | all tables | backfill of active feedback rows | unique active row per dimension |
| Cookies and CSRF (`app/core/security.py`, routes) | cookie jar of the browser | set, clear, match | identity, web flows | several tabs, late answers | a tab never acts for another session |
| Stateless recommendation, model status (`app/services/recommendation`) | loaded artifact | recommend, status | catalog snapshot, artifact | artifact and catalog of different ages | ranks only on matching fingerprints |
| Ranking (`ml/.../ranking.py`, `feedback.py`) | none | score, adjust, explain | both recommendation services | fixed-point arithmetic, selection limits | scores bounded, components add up |
| Artifact (`ml/.../training.py`, `artifacts.py`) | bundle on disk | build, publish, load | stateless recommendation | crash while publishing, two builders | a reader sees a whole bundle or none |
| Web flows (`apps/web/src/features`) | component state | bootstrap, consent, save, generate, page | API client | late answers, aborted calls, failed refreshes | what is shown is what was stored for this session |
| Catalog API, health, settings, infrastructure | none that matters | read-only queries, wiring | - | - | - |

They interact through PostgreSQL (row locks and snapshots) on the server,
through HTTP calls and one cookie jar between the tabs of a browser and the
API, and through files between the artifact builder and the API.

## Plan

| Module | Part | Composes | State |
|---|---|---|---|
| `ProfileStore`, `ProfileAtomic` | the transactions on a saved profile, and what they promise | the five services of the first rows; refines `ProfileAtomic` | done, proved |
| `Retention` | purge and revocation in skip-locked batches, retirement of a secret | extends `ProfileStore` | done, proved |
| `SessionApi` | the endpoints as a browser sees them: cookie, CSRF token, consent version | abstracts `ProfileStore` to one step per request | done, proved with `PersistentFlow` |
| `PersistentFlow` | the opt-in panel in several tabs | extends `SessionApi` | done, proved |
| `FeedbackPages` | the feedback list, page by page | the loader of the web client and `FeedbackService.list` | done, proved |
| `KeyedFetch`, `CatalogBrowser` | result list, game page, filters and address | `CatalogBrowser` extends `KeyedFetch` | done, proved |
| `RecommendationForm` | the request-only form | - | done, proved |
| `WebPages` | the three parts of the client that share no state | extends `FeedbackPages`, instances of the two others | done, proved |
| `Ranking` | scores, policy and order | both rankers | done, proved |
| `ModelArtifact` | building, publishing, loading, answering | builders, API processes, catalog, disk | done, proved |
| `SchemaMigrations` | revisions 0003 to 0005 on a populated database | migrations and the application's writes | done, proved |
| `CatalogSeed` | the seeder beside saving requests | seeders, writers, PostgreSQL's deadlock check | done, proved |

Nothing of it is left. What the provers cannot reach and what is not modelled is said at the end
of "Proofs" and in the inventory.

## The profile store

`ProfileStore.tla` models the services of the first five rows of the
inventory: every request that changes what hangs off one `users` row.

**State.** `users`, `prefs`, `interactions` and `events` are the four tables.
A `users` row is its state (never inserted, live, gone), its consent (none, of
an older version, current), `expires_at`, whether it is revoked, and `xmin`, the
version that PostgreSQL gives a row on every committed UPDATE. `lock` is the
FOR UPDATE lock on each row. The rest is the state of requests: how far each has
got (`pc`), what it asks (`call`), the clock value it works with (`stamp`), what
its transaction has read (`view`), its insert attempts and its answer.

**Transactions.** A READ COMMITTED request looks up its user FOR UPDATE, which
waits for the holder of the row and then sees the newest row; it reads, and
commits. A generation is REPEATABLE READ. Its first statement, the same look-up,
takes its snapshot and then waits; if the row was updated or deleted since the
snapshot, PostgreSQL raises a serialization failure, and the API answers 503
(`LookupConflict`). Writes of an open transaction are visible to nobody else, so
the tables change in one step, the commit; what a transaction read before stays
in its `view`. `Released` and `Finish` are what every end of a transaction does.

| Code | Actions |
|---|---|
| `FeedbackService.replace`, `clear` | `BeginFeedback`, look-up, `ReadProfile`, `Commit` with `WriteFeedback`, or `RollbackUnchanged` |
| `PreferenceService.replace`, `clear` | `BeginPreferences`, look-up, `ReadProfile`, `WritePreferences`, or `RollbackUnchanged` |
| `PersonalizedRecommendationService.recommend` | `BeginGeneration`, look-up, `WriteGeneration`, or `NoContentSignal`, `Refuse` |
| `create_or_reconsent` | with a credential `BeginLifecycle`, look-up, `WriteConsent` or `RollbackUnchanged`; without `BeginCreate`, `CreateSession`, `CreateCollision`, `CreateExhausted` |
| `AnonymousIdentityService.delete` | `BeginLifecycle`, look-up, `WriteDelete` (foreign keys cascade) |
| look-up: `find_by_digest(lock=True)`, `_require_unexpired`, consent check | `LookupConflict`, `LookupUnauthenticated`, `LookupOutdated`, `LookupGranted` |
| routes: Origin, cookie, CSRF, readiness | `RefuseEarly` |
| CSRF in the service, unknown or stale catalog values, too little context | `Refuse` |
| `DBAPIError` before the commit, process failure | `Abort` |
| `DBAPIError` at the commit | `CommitUnacknowledged`: applied or not |

The clock matters in two ways, and both are kept: `create_or_reconsent` reads it
before the wait for the row (`ClockBeforeLock`), all other handlers after it; and
it passes (`Tick`) at any moment.

Feedback is a set of rows per user and game; `Desired` turns a request body into
the (type, value) pairs its active rows must have, and `Superseded`, `Closed` and
`Added` are the three parts of `InteractionRepository.replace_game_state`. A
rating is an abstract number, 0 being NULL. Rows that agree in every column are one
member of the set: the primary key is left out, and no property counts rows.

**What it promises.** `ProfileAtomic.tla` says the same without transactions,
locks, clocks or history: at one moment a request is carried out on the state of
that moment and answered, or is answered with a failure and changes nothing; only
a lost acknowledgement separates effect from answer. `ImplementsAtomicProfile`
is that specification under the refinement mapping in `ProfileStore` (events and
active rows become what each game has, the tables become plain functions).

**Properties.** The comment of each states it; in short:
`GenerationUsesCurrentProfile` (an event shows the profile of its commit),
`ReplacementIsExact` (PUT replaces; docs: "PUT means complete replacement, not
merge"), `OneActiveRowPerDimension` and `HistoryIsOrdered` (the unique indexes
and the check constraint are never what refuses a request), `HistoryIsKept`,
`DeletionIsComplete` (docs: "no orphan event or post-delete owned row"),
`OwnedDataNeedsConsent`, `EveryRequestIsAnswered`, `ImplementsAtomicProfile` and the
inductive invariants `Inv` (of which `TypeOK` is a part) and `HistoryInv` (of which
`OneActiveRowPerDimension` and `HistoryIsOrdered` are parts).

Operators named `Mut_...` are seeded bugs next to the definition they would
replace (a forgotten `user.updated_at`, a missing row lock, a clock read too
early). No specification uses them; each shows that a property can fail.

## Retention

`Retention.tla` extends `ProfileStore`: every action of a live request is there,
and beside them runs of the two operator commands (`services/retention.py`).

**State.** The rows get what the filters look at: `created` and `revokedAt`, and
for events `started`, the time the generation's transaction began
(`generated_at` is the database's `now()`, fixed at the start of a transaction;
`created_at` likewise lies between the creation's first look at the clock and its
commit). A run has a `job` (its kind and cutoffs), a `phase`, the rows its open
transaction has locked, and for revocations the clock value it works with.

| Code | Actions |
|---|---|
| `purge`, `revoke`: validation, first clock reading | `Start` |
| `SELECT ... LIMIT FOR UPDATE SKIP LOCKED` | `Select`: a batch of free rows |
| an empty selection: `return`, `break` | `Exhausted`: the next kind of row, or the count |
| `DELETE ... WHERE id IN ... AND filters`, commit | `DeleteEvents`, `DeleteUsers` (foreign keys cascade) |
| `UPDATE users SET revoked_at`, commit | `RevokeUsers` |
| `_counts`, `_count` after the loops | `Report`: `complete` is "remaining is zero" |
| process ended by operator or failure | `Interrupt`: the open batch is rolled back |

`Arrives`, `Proceeds` and `Aborts` are the requests of `ProfileStore`; a request
waits (`WaitsForBatch`) while its session is in a batch. A run passes over rows
that a request or another run holds, and sees nothing uncommitted.

The retirement of a secret is a procedure of the operator (API README: "quiesce
anonymous session creation and re-consent on the old secret, drain in-flight
requests, record the database-time cutoff"): `Quiesce`, `Drained`, `NoteCutover`.
A run is `retiring` when it was started as the procedure's last step.

Left out: `preview` and the counts before the loops, which change nothing and
decide nothing; how many rows were processed; the confirmation text that the
commands want. A retry is another run. Once stopped, issuing is not resumed: with
a new secret, later sessions are created after the cutoff and are not in the cohort.

**Properties.**

- `RetentionInv`, the inductive invariant; its part `BatchesStayEligible` says that
  no row is in two hands and that a selected row still passes the filters of its
  run when the batch is carried out. The code repeats the filters in the second
  statement; the model shows the repetition is a second line of defence.
- `PurgeStaysInScope` (plan: "Execute deletes only events/users at or before the
  documented cutoff and leaves newer state untouched"): who may make a session
  or an event disappear. But for `DELETE /me`, it was in the batch of a run that was
  at rows of its kind and had been given a cutoff that covers it: `expired_before` for
  an expired session, `revoked_before` for a revoked one, `events_before` for the events of
  a session that stays. Because cutoffs are never in the future, no usable session
  is purged.
- `RevocationIsFinal`: no request in flight changes, renews or adds to a revoked
  session.
- `RetiredCohortIsGone` (README: "until `remaining` is zero before retiring the old
  secret"). Both halves of the quiescing are needed: with only creation drained TLC
  finds a re-consent under way that renews an expired row after the last count.
- `DeletionIsComplete` again, now with purges; `EveryRunEnds`.

## The browser

**SessionApi** is the API as a browser meets it. A session is a token; its row is unused,
live or over. A call takes its cookie from the jar when it is issued and carries the CSRF
token its tab holds; the server decides in one step (`Serve`: what takes several steps there
is `ProfileStore`'s subject); the answer reaches the browser later, in any order, or never.

| Code | Definitions |
|---|---|
| `create_or_reconsent`, `_protected_credential`, `resolve_active(_for_update)` | `CreateVerdict`, `SessionVerdict`, in the order the code checks |
| refusals of a body (422, 404, 409) | `BodyVerdicts` |
| effects of the endpoints | `CreateSession`, `Reconsent`, `DeleteSession`, `SetPreferences`, `SetFeedback`, `Read` |
| `set_session_cookie`, the clearing 401 of `exceptions.py` | `JarAfter`, `ClearsCookie` |
| a redeployment with a new notice, expiry, revocation, Max-Age | `Upgrade`, `EndSession`, `LapseCookie` |

**PersistentFlow** adds the tabs: `tab[t]` is the React state and the refs of
`persistent-recommendation-flow.tsx` (state, busy, pending game, epoch, lifecycle, durable
data, results). An async handler is the action that issues its first call and one action for
each answer it awaits; what follows an await up to the next one is atomic. `Awaited` is the
epoch test, `SessionFailure` and `ClearRouteMemory` are the functions of that name.

| Code | Actions |
|---|---|
| `bootstrap`, "Try again", loading the page | `Retry`, `Reload`, `BootstrapAnswered`, `RehydrateAnswered` |
| `consent`, `reconsent` | `Enable`, `Continue`, `ConsentAnswered`, `RehydrateAnswered` |
| `clearAllData` | `Clear`, `ClearAnswered` |
| `savePreferences`, `clearPreferences` | `SavePreferences`, `ClearPreferences`, `PreferencesAnswered` |
| `generatePersonalized` | `Generate`, `GenerationAnswered` |
| `saveFeedback`, `clearFeedback` | `SaveFeedback`, `ClearFeedback`, `FeedbackAnswered`, `RefreshAnswered`, `GenerationAnswered` |
| an answer after the epoch has moved on | `LateAnswer`: nothing but the cookie |

A fetch can fail although the server has handled, or will still handle, its call (stage
`detached`). Loading the feedback list is one call; its pages are `FeedbackPages`. Calls that
agree in every field are one member of `net`. A run starts with settled tabs; the first load
is reached by `Reload`.

`switched` is history: the tabs behind whose back the browser got another cookie since they
last asked for a session (`GET /me`, opting in). An answer that replaces the cookie puts
every tab there but the one that awaits it; a click that asks for a session takes its tab out.

Properties: `FlowInv`, `OneSessionShown`, `ShownIsStored`, `ChangesAreSigned`,
`ConsentIsInformed`, `EveryTabSettles`. `OneSessionShown` is the plan's "A single
current-session key so stale or prior-session responses cannot win": the preferences and the
feedback a tab shows are of the session it names, in any number of tabs, unless the tab is in
`switched`; what happens there is under "Observations". `FlowInv` has besides the types

- `ShownBelongsToActiveSession`: a tab is active exactly while it shows a saved profile, of the
  session it names;
- `HandlersTakeTurns`: which call a tab may listen to in which state, and that no two handlers
  wait at once, but for what is left of a load that failed;
- `AnswersAreHonest`: an answer in flight is the server's word for the session of the cookie,
  or for a new one, and an accepted generation is of the session that signed it;
- `TabsFollowTheCookie`: the cookie of the browser, and of the calls about saved data that a tab
  listens to, is the one of the session it loads or shows, or none.

`ChangesAreSigned` and `ConsentIsInformed` are about the call that is answered in the very step
that changes what is stored: it carries the session's token, or the version its page showed.

`NamesAssumption` and `StartsAssumption` say that the names for nothing name nothing and
that tabs start with what the server can hold.

`ShownIsStored` relates the page to the database: when nothing a tab has asked for is on its
way, what it shows is what is saved, and the recommendations on display were made from that. It
is about one tab (another one may save at any time), and it ends where the code's knowledge
ends: with a change that failed with an unknown outcome, and with a cookie replaced behind the
tab's back. `StoredInv` strengthens it for states in which answers are on their way; adding it
to `flow_alone` passes too.

**FeedbackPages** is `loadAllFeedback` against `FeedbackService.list`: the order of the list
(latest active row first, then game id), one snapshot per page, and changes of other tabs
between pages. `ListIsComplete`: an accepted list misses no unchanged game, provided no game
changed twice meanwhile. (A game that comes to the front and falls back between two pages
hides another: totals agree and nothing comes twice. The plan promises no consistency across
pages.)

**KeyedFetch** is the pattern of the result list and of `game-detail-view.tsx`: the state that
an answer sets carries the key of its request and is shown only while the key is the one of
this render; cleaning up aborts, but an aborted request may still be answered.
**CatalogBrowser** extends it with the address (`wanted`), `latestQueryRef`, `pendingHrefRef`
and the router: `Navigate` (a filter, sort order or search), `Render`, `Elsewhere` (a link,
back and forward), `SyncQuery` (the effect on the query). The router is external, modelled from
how the component uses it. **RecommendationForm** is `recommendation-flow.tsx`: the options
load (four requests that settle on their own), selection, review, submission, results, start
over. A list that loads replaces what its family had, one that fails leaves it (`Kept`). The
catalog only grows, so a later list holds what an earlier one did (`Lists`); the exception is
the games, of which the form asks for the first page of 100 by title: a new title can push a
chosen game off a full page. Such a choice is still counted and submitted, but the form shows
it no more. **WebPages** composes the three, of which one is open; `MCWebPages` is its instance.

Properties: `WantedIsShown`, `RapidClicksCompose`, `FormIsHonest`, and `ClickStartsFromAddress`,
which the code does not keep (see Runs). `WebInv` has what makes them inductive: `RequestsFit`
(once the fetch effect has run, a request that can still be heard is for the key of this
render, and there is one until its answer is shown), `PushIsPending` (the query effect, as long
as it has to run, finds the address on its way pending) and `SubmissionsFit` (only the latest
submission can be heard, and it was sent from the review of the selection as it still is).

## The model

**Ranking** has the arithmetic of `ranking.py` and `feedback.py` on integers: `Quantize`,
`Contribution` (a product rounded half up), `BaseScore`, `PersonalScore`, the lexicographic
order `Top`, and the policy: `PositiveSources`, `EffectiveContext`, `Candidates`,
`Personalized` with its reasons for an empty answer, of which "insufficient_context" stands for
both ways to `InsufficientContextError`: nothing is left to compare with, or the preferred genres
and tags have no word that the vocabulary knows (`HasSignal`). What `RankingConfig` and
`FeedbackPolicyConfig` validate is `ValidConfig` and `ValidPolicy`; what a request and a feedback row can be
is `ValidContext` and `ValidFeedback`. The similarities to the context and to the profile and
the popularity are inputs, a number of parts of one, also below nothing and over one, as
floating point may leave them (`ValidSignal`); the vectors, TF-IDF and popularity baseline they
come from are data. Properties: `ScoresAreSound` (in range, near the exact sum, true to clear
cases), `NothingRejectedIsShown`, `NeutralFeedbackIsNeutral`, `WithoutFeedbackItIsStateless`.
"Near" is `Slack`: each rounding may add or take half a unit, weighted as what it rounds is
weighted afterwards. Two units for a base score (half a one for its three signals together,
half a one for each of three contributions), half a unit for the affinity, half a one for each
of two contributions of a blend and half a one for a played game, so three and a half at most
whatever the weights.

**ModelArtifact** follows a bundle from the catalog to an answer. A fingerprint is the pair of
catalog versions the games and the taxonomies were read at, so that a reader without one
snapshot would be seen to mix them; a file is missing, of a fingerprint, or rotten.

| Code | Actions |
|---|---|
| `commands/recommendation_artifact.py`, `build`: one REPEATABLE READ read | `StartBuild`, `ReadCatalog` |
| `build_artifact`: target check, temporary directory, members, manifest, validation, rename, `except BaseException` | `CheckTarget`, `WriteFile`, `ValidateBuild`, `Promote`, `FailToWrite`; `CrashBuilder` leaves the directory |
| `create_recommendation_service`, `load_artifact` | `StartServer`, `VerifyMembers`, `LoadMember` (each member is opened twice) |
| `recommend`: snapshot, fingerprint comparison | `Ask`, `Answer` |

`rename(2)` (external) refuses a target that exists. Properties: `Inv` (its parts
`PublishedIsWhole`: a target is whole or absent, up to rot, and `LoadedIsWhatWasBuilt`: a process
holds what one build wrote; with `BuildsKnowWhatTheyRead` and `LoadsFollowTheManifest`, which say
how far a build and a load have got), `BuiltFromOneCommit`, `AnswersMatchTheCatalog`,
`PublishedStays`. Left out: the formats of members and their other checks in `load_artifact`,
an operator who removes a bundle, loss of power (the parent directory is not synced), and rot
in the moment between checking a member and reading it again.

## The database around them

**SchemaMigrations** takes a populated database through revisions 0003, 0004 and 0005 and
back, with legacy rows inserted before and the application writing after. `alembic/env.py` runs
all the revisions of one command in one transaction; the model takes them one at a time, with
the application between, since an operator may stop at any of them. `Upgraded` and `Downgraded` are its data statements, `Constrained` the constraints
and unique indexes that must hold for it to commit. Left out are the unique index and the format
of `anonymous_token_digest` (0003) and the unique index of `generation_id` (0005): the migrations
build both values from the primary key. Properties: `UpgradesSucceed`, `Inv`
(`RowsAreDated`: only the ledger supersedes a row, not before its own time;
`HistoryHasNoOverlap`: the back-filled history is one), `MigrationsKeepHistory`,
`NobodyInheritsASession`. A feedback state that was cleared becomes current again when the
database is taken back below 0004 and forward: the downgrade drops the column that says so.

**CatalogSeed** is `seed.py` beside the requests that save: the seeder reads and writes family
after family and the games last, in one transaction; a saving request locks its user and then
shares its games, genres, tags and platforms. The two orders are opposite, so they can wait
for each other; `Detect` is PostgreSQL's deadlock check (external), which ends one of a cycle.
What a seeder has read of a family and has still to write is `pending`, written in the order of
the seed. Properties: `Inv` (`SeedIsAllOrNothing`, with `LocksAreCompatible`,
`WritersHoldTheirRows` and `SeedersMissNothing`), `ValidatedRowsStay`, `EveryoneEnds`.

## Runs

The instances are in the modules whose names begin with `MC`; the constants are in the `.cfg`
files. A mutant per property in `PROJECT.json` shows that a plausible slip breaks it.

| Run | Instance | Shows |
|---|---|---|
| `profile_races` | one session (active or outdated), three requests, one game, one genre and one platform, three feedback bodies, clock 1..3 | every interleaving of three requests of one session: two writers and a generation between them, a deletion among writers, two renewals; `Inv`, `HistoryInv`, replacement, generations |
| `profile_sessions` | two credentials, each absent, active or outdated; two requests; three collision attempts, clock 1..2, fairness | creation and its retries, consent, deletion; the refinement; every request is answered |
| `profile_renewal` | as `profile_races` | **violated**: `NoRenewalAfterExpiry` |
| `retention_cohorts` | two sessions, one request, one run, batches of one row, a purge and revocations to choose from, clock 1..2, fairness | a run beside a request of a session in or outside its cohort; `RetentionInv`, scope, retirement, finality, deletion; every run ends |
| `flow_tabs` | two tabs, two sessions (one active at first), three user actions | what a tab shows while another tab changes, deletes or replaces the session; who may write |
| `flow_alone` | one tab, two sessions, two consent versions, two user actions, one fetch that fails without an answer, fairness | shown and stored data, late answers of an earlier session, consent, no buttons left disabled |
| `web_pages` | four games in pages of two and of one with changes at three times; two facets, three pushes, one retry; a form that sees one of two games, three submissions, two option loads | the list is complete, the wanted answer is shown, clicks compose, the form is honest |
| `catalog_links` | two facets, three navigations, no discarded push | **violated**: `ClickStartsFromAddress` |
| `ranking` | units of 1/10: all numbers of two scored games; all feedback on four games with two sources | scores and policy |
| `artifact_races` | two builders, two targets, two members and a manifest, two API processes, two seedings, two crashes, one rotten file | publishing, loading, answering |
| `migrations_back` | one user, two games, three interactions, one event, two times, seven migrations | forwards, back and forwards again |
| `seed_beside_writers` | two seeders, two saving requests of one user, two families of two rows, one of each to be inserted, fairness | no half catalog, validated rows stay, everyone ends |

*Why the bounds are enough: the profile.* A lost update needs two writers, a stale generation
one generation and one writer that overtakes it, an orphan row one writer and one
deletion; three requests contain each of these with a further request before,
between or after. Requests of different sessions share no row, so two credentials
suffice for what crosses sessions (creation, frames). The row a session starts
with may hold any saved preferences; feedback starts empty, and is filled by the
first of three requests. One game is enough for replacement, as no statement
relates two games; two slugs give a body with and one without a platform. Expiry
lies within the clock's bound, so sessions expire at every point of a request.

Named bounds: `MaxTime` (the clock stops), `Requests` (each used once),
`CollisionRetries` (the code's constant, 3),
`FreshTokenRemains` (tokens are drawn from the finite set of credentials, so a
creation begins only while an unused one is left). `Quiescent` is the end of a
bounded run, so deadlock stays checked: a request that waits forever for a lock
would be one.

*Retention.* Two rows of `users` and batches of one row make a second batch, so a run meets
rows that changed since its first. One request holds the row while the run selects, or arrives
while the batch is open. The jobs include cutoffs that are still in the future at first and
become admissible as the clock passes, and a purge whose cutoff for sessions lies before the one
for events, which must leave what expired after it. Each run executes one job (`Runs` is a bound);
`AllDone` is its end. Feedback is left out of the instance and two runs beside each other
too; the theorems about `Retention` include both.

*The browser.* `MaxClicks`, `MaxLost` and `MaxVersion` bound what users and networks do.
Two tabs and three actions contain the dangerous orders: one tab deletes or replaces the
session while the other generates, saves or reloads. Two sessions are one that ended and one
that follows. With one tab, a second action overtakes the late answer of the first. In
`web_pages`, `MaxTime`, `MaxPushes`, `MaxRetries`, `MaxSubmits` and `MaxLoads` are bounds;
`MaxItems`, `PageSize` and `PageLength` (the 100 games of the form) are the code's constants
made small. A page of one of two games can lose the game that was chosen from it. Three changes suffice to move
a game to the front and back while a third page is still to be read.

*The model.* Scores are in tenths instead of millionths, which makes a rounding step as large
as a weight: errors that a millionth would hide are visible. Two sources of at most two make a
third positive game, which is eligible again. Two builders, two targets and two crashes meet
in every state of each other, two seedings are one before and one after a build; `MaxSeeds`,
`MaxCrashes`, `MaxRots` are the bounds.

*The database.* Three rows of one state are the least for which a wrong neighbour shows in the
back-fill (`MaxRows`); seven migrations take 0002 to 0005, back below 0004 and up again
(`MaxMigrations`, `MaxEvents`, `MaxTime`). Two rows of each kind make the opposite lock orders
meet; one row to insert in each family makes two seeders collide.

Deadlock is not checked where the program may simply rest: a browser without clicks, an
artifact after the last build, a database after the last migration, transactions that have
ended, an answer that has been given.

*Symmetry* permutes requests or tabs, in safety runs only.

*Fairness.* `FairSpec` gives weak fairness to `Progress(r)`, the steps of a
request when nothing fails: a worker thread runs its handler to the end and
PostgreSQL wakes a waiter when the row lock it waits for is released. It demands
no arrival, no failure and no passing of time. Weak fairness is enough because
three requests of finite length cannot keep a row locked forever; the starvation
of one waiter by an endless stream of others, which PostgreSQL's queue excludes,
is not expressible with single-use requests. `FairRetentionSpec` adds weak fairness of each
run's steps, `Work(o)`: a command that runs goes on. It demands no start, no interruption, no
passing of time, and does not show that a run ends under an endless stream of newly eligible
rows; the cutoffs are past when a run starts, so only requests that began before can still
add rows to its cohort. `PersistentFlow!Spec` has weak fairness of `Handle` (the server answers
what it receives) and of `Receive` (a fetch settles, with the answer or with an error, as
browsers and networks see to; the client sets no time limit of its own); it demands no click. `CatalogSeed!Spec` has weak
fairness of each transaction's steps and of PostgreSQL's deadlock check.

*The violated runs.* `profile_renewal`: the plan document says "Expired authentication cannot access
profile or lifecycle data, delete, or re-consent into the old identity."
`create_or_reconsent` reads the clock on line 79 and then waits for the row lock
on line 84, so a session that expires during the wait is renewed. `delete` and
`resolve_active_for_update` read the clock after the wait. The window is the
time another transaction of the same session holds the row.

`catalog_links`: the plan for the frontend says "Search, taxonomy filters, sort, and page
belong in the URL" and "Browser back and forward restore both controls and results." The query
effect of `catalog-browser.tsx` waits while `pendingHrefRef` differs from the address (line
112) and clears it when the query becomes the pushed one (114). Submitting the search form
unchanged pushes the address already shown: the query does not change, the effect does not
run, the reference stays. After a link or the back button the effect then waits for an address
that will not come, and the next filter is composed with the query of before: what the
reader removed comes back.

## Proofs

TLAPS checks them for all values of the constants that satisfy the named assumptions: any
number of sessions, requests, tabs, builders, processes, games, rows and values, and any
bound. Every argument has the shape "an inductive invariant, one lemma per action, then the
property from the invariant"; what the invariants are and why the obvious ones are not
inductive is said below. An action property follows from the invariant and one step.

| Module | Theorem | Property |
|---|---|---|
| `ProfileStoreProofs` | `InvHolds`, `TypeCorrect` | `Inv`, `TypeOK` |
| | `GenerationsAreCurrent` | `GenerationUsesCurrentProfile` |
| | `ConsentCoversChanges` | `OwnedDataNeedsConsent` |
| | `DeletionLeavesNothing` | `DeletionIsComplete` |
| | `HistoryHolds`, `HistoryInOrder`, `OneRowPerDimension` | `HistoryInv`, `HistoryIsOrdered`, `OneActiveRowPerDimension` |
| | `ReplacementsAreExact` | `ReplacementIsExact` |
| | `HistoryStaysKept` | `HistoryIsKept` |
| | `StoreIsAtomic` | `ImplementsAtomicProfile` |
| `RetentionProofs` | `RetentionInvHolds` | `RetentionInv` |
| | `RetirementIsComplete` | `RetiredCohortIsGone` |
| | `PurgeLeavesNothing` | `DeletionIsComplete` |
| | `RevokedStaysRevoked` | `RevocationIsFinal` |
| | `PurgeKeepsToItsScope` | `PurgeStaysInScope` |
| `PersistentFlowProofs` | `FlowInvHolds` | `FlowInv` |
| | `OneSessionIsShown` | `OneSessionShown` |
| | `StoredIsShown`, for one tab | `ShownIsStored` |
| | `SpecChangesAreSigned` | `ChangesAreSigned` |
| | `SpecConsentIsInformed` | `ConsentIsInformed` |
| `WebPagesProofs` | `WebInvHolds` (`BrowserInvHolds`, `FormInvHolds`, `ListInvHolds`) | `WebInv`, with `ListIsComplete` |
| | `WantedIsAlwaysShown`, `ClicksCompose` | `WantedIsShown`, `RapidClicksCompose` |
| | `FormStaysHonest` | `FormIsHonest` |
| `RankingProofs` | `ScoresAreSoundAlways` (`ScoresInRange`, `ScoresStayNearExact`, `RoundingKeepsDominance`) | `ScoresAreSound` (`TypeOK`, `ScoreIsNearExact`, `DominanceIsKept`) |
| | `RejectedStaysHidden` | `NothingRejectedIsShown` |
| | `NeutralStaysNeutral` | `NeutralFeedbackIsNeutral` |
| | `WithoutFeedbackStateless` | `WithoutFeedbackItIsStateless` |
| `ModelArtifactProofs` | `InvHolds` | `Inv` |
| | `PublishedBundlesStay` | `PublishedStays` |
| | `OneCommitInABundle` | `BuiltFromOneCommit` |
| | `AnswersFitTheCatalog` | `AnswersMatchTheCatalog` |
| `SchemaMigrationsProofs` | `InvHolds` | `Inv` |
| | `UpgradesNeverFail` | `UpgradesSucceed` |
| | `HistoryIsMigrated` | `MigrationsKeepHistory` |
| | `NobodyInherits` | `NobodyInheritsASession` |
| `CatalogSeedProofs` | `InvHolds` | `Inv` |
| | `ValidatedRowsAreKept` | `ValidatedRowsStay` |

**Profile store** (`ConstantsAssumption`). `TypeOK`, and the properties, are not inductive:
what a commit writes depends on what its transaction read some steps before. `Inv` adds

- `LockDiscipline`: who holds a row lock is between its look-up and its end, and
  the row still passes the checks of the look-up;
- `ViewsAreCurrent`: the view of a lock holder is what is stored, and so is a
  snapshot whose user row has not moved on;
- `SnapshotsOnlyAge`: a row only gains versions, and is gone for good;
- `CallsNameTargets`, `StagesMatchOperations`: which calls reach which stage.

The heart is `EndOfTransaction`: a commit changes the rows of one user, whom
nobody else has locked, and gives that user's row a new version, so every view
that must be current either belongs to another user or loses its claim. That
argument is where `user.updated_at = now` in every writer is needed.
`DeletionIsComplete` is inductive together with `Inv`. The properties of feedback rest on
`HistoryInv`: the stamp of a staged feedback request is not before anything its user's rows
record (the clock was read under the lock), and what a body asks of a game names each
dimension once.

*The refinement.* `StoreIsAtomic` maps the initial states to initial states and each step to a
step of `ProfileAtomic` or a stutter, under `Inv`, `HistoryInv`, `DeletionIsComplete` and
`Unanswered` (a request has no answer before it ends). An arrival is `Ask`; a commit, the
creation of a session, and an end with nothing to write are `Serve`, at that moment; a
refusal, an abort and a failed look-up are `Fail`; a commit or creation whose acknowledgement
is lost is `Lose` if it was applied and `Fail` if not; a granted look-up, the reads, a
collision of tokens and the clock are stutters. A commit is `Serve` because, by
`ViewsAreCurrent`, what its transaction has read is what is stored when it writes.

**Retention** (`RetentionAssumption`). `RetentionInv` is `Inv` of the profile store, which
runs preserve because they write only to rows no request has locked and give a revoked row a
new version, with `BatchesStayEligible` (a request that would change a selected row waits for
it; another run skips it), `RunsFollowJobs` (the cutoffs of a run stay in the past) and
`RetirementInv`. The last is the argument for retirement: once the time is noted no
request that creates or renews is under way and none can begin, so every live row was
created by then; a usable row therefore is in the cohort of any later count, and a
count of zero stays true. The steps of live requests reuse the lemmas of `ProfileStoreProofs`.

**Persistent flow** (`NamesAssumption`, `StartsAssumption`). That a tab shows the profile of
the session it names depends on which answers it still listens to: an answer accepted in a
state its handler did not leave would put one session's data beside another's. So
`HandlersTakeTurns` says for every call that is listened to in which state its tab is. The
proof follows the handlers: one lemma says that a handler leaves its tab in order when it ends
(`HandlerEnds`), goes on (`HandlerGoesOn`) or begins (`HandlerStarts`, `HandlerBegins`), and
each click and each answer is one of these. The epoch is what makes `HandlerBegins` true: a
click that raises it cuts off everything that was on its way.

`OneSessionShown` is not inductive: what a tab shows comes from answers, those from the cookie
of their calls, and that from the jar when the call left. `TabsFollowTheCookie` carries the
session along this way. It lives as long as the jar changes only to none: a load begins with
the answer that names its session (`LoadBegins`), whose call had the cookie of the jar or whose
answer sets it; each answer listened to then is of that session (`AnswerOfMine`, from
`AnswersAreHonest`); and only opting in replaces a cookie (`JarStays`). The call that deletes
the session is not in it: it may leave from a page whose cookie has been replaced, and the
server refuses it there.

`StoredIsShown` has the hypothesis `OneTab` (`Tabs` has one member) and is otherwise for any
number of sessions, versions, clicks and lost answers. Its invariant `AloneInv` adds to `FlowInv`
two facts about what is on its way. `AnswersAreKnown`: every answer is one the handlers tell
apart, and only `GET /me` answers that the consent has lapsed. `StoredInv`, of a tab that is not in `switched` and whose changes
all have a known outcome (`UpToDate`): every change the server may still handle is one the tab
awaits; what the tab was told, in answers it will still take and in those its load has taken, is
what is saved (`WasTold`); and the page shows what is saved, unless an accepted change, or the
refresh that follows one, will tell it otherwise (`ShowsOrWillHear`). The three
depend on each other: an answer told the truth when it was given, and it stays true until it
arrives because a change can only come from a handler of this tab, and no two handlers wait at
once (`HandlersTakeTurns`; a load waits alone). That is what `isMutationPending` is for, and the
mutant `Mut_BusyOnly` shows that the busy flag would not do. The same lemmas on handlers carry
it (`HandlerStores`, `LoadBegins`, `ClickStores`), and `LateKeeps` shows that an answer nobody awaits
takes nothing with it.

For `ChangesAreSigned` and `ConsentIsInformed`, only a call that is answered in the same step
changes anything (`OnlyEffectsChange`). Its effect touches the row of the cookie alone, and the
cookie agreed with the token when the call was let through.

**Web pages** (`BrowserAssumption`, `PagesAssumption`, `FormAssumption`). `WantedIsShown` needs `RequestsFit`: cleaning up aborts
exactly the requests for other keys, so an answer that is heard is for the key of this render.
`RapidClicksCompose` needs `PushIsPending`. `FormIsHonest` needs that at most the latest
submission can be heard, which is `SubmissionsFit` and rests on the abort at every submission;
for what is offered it needs `ListsFit`: the lists of a load are of families that have answered
and hold what the form already has, or fill a page. Counting a page asks that the items are
finite (`FormAssumption`).

`ListIsComplete` says nothing of a load that is still on its way, and a page can miss a game or
read one twice long before the counts are compared. The invariant (`ListFits`, for pages of p
games) counts. The loader passes p places with each page, so it has read at most as many games
as it has passed places, and as many as the server counted at the end only if no game came
twice (`Border`). Then the games it missed are as many as those it read that were cleared since.
Such a clearing shortens the list, and every page has the same total, so as many games were added;
these are in front, where the loader has passed. `Balanced` says that the games that moved to the
front and were missed make up for what was cleared. It fails when so many games move between
two pages that they reach beyond the places passed; but then all those places are taken by games
that moved (`MovedAreFirst`), and the ones the loader has not read are enough by themselves
(`ReadingFits`). Either way only games that moved are missing at the end
(`OnlyMovedAreMissing`). A game that changes twice can leave the front again, which is why the
property excludes it. The lemmas on `Rank` (`RanksAreDistinct`, `PlacesAre`) say that a page of p
places has at most p games and the first b places b.

**Ranking** (`ConfigAssumption`, `InputAssumption`). The invariant is simple (`AnswerInv`: the
input is valid, the answer is missing or is `Personalized` of it); the work is in the lemmas on
the operators. *Units:* integer division with remainder gives `ContributionBounds` (a
contribution is at most its weight and at most what it weighs), `ContributionGrows`,
`ContributionOfAll` (weighing with one does not round), `QuantizeBounds` and `QuantizeGrows`;
monotony through all the roundings is `DominanceIsKept`. *Error:* `Near` is a distance that
adds up and scales; each rounding is near what it rounds, and `BaseIsNear`, `PreIsNear` and
`FinalIsNear` add them to the bound of `Slack`, with all denominators multiplied out.
*Order:* `Before` is a strict total order for keys of one length, so the places of games are an
injection into 1..n, hence onto, and `Top` finds a game at each place (`TopPicks`); keys that
compare alike give the same answer, which is what the last two properties need.

**Model artifact** (`ArtifactAssumption`, `ValuesAssumption`). A rename publishes a directory
that was compared, file by file, with what its build had read; `BuildsKnowWhatTheyRead` carries
that from the read to the rename, through failures and crashes, and `LoadsFollowTheManifest`
carries the manifest from the check of the members to the last of them. No action writes to a
target that exists but `Rot`, and a process that loads has its files to itself. An answer is
given in one step after the comparison with the catalog of the request's snapshot.

**Schema migrations** (`MigrationAssumption`). `HistoryHasNoOverlap` speaks of two rows of one
state; the back-fill gives each superseded row the time of the next one, which exists because
of the newer rows one is the oldest (`OldestNewer`). `RowsAreDated` is what keeps the constraints of
0004 satisfied on the way up; since every upgrade brings the rows into shape before it
constrains them, none fails.

**Catalog seed** (`SeedAssumption`). `SeedIsAllOrNothing` is not inductive: that a commit writes
all rows needs `SeedersMissNothing`, what a seeder read as up to date stays so, because values
only turn new. `ValidatedRowsStay` needs `WritersHoldTheirRows` and `LocksAreCompatible`: who
writes a row holds it alone.

*Only model-checked.* Liveness, which is out of the prover's reach: `EveryRunEnds`,
`EveryRequestIsAnswered`, `EveryTabSettles`, `EveryoneEnds`. The two properties the code does
not keep are not theorems.

## Observations

Three behaviours of the web client that no run lists, met while modelling it. Each can be seen
by adding the named property to a configuration, for the first after dropping its condition.

- *A profile of two sessions.* `OneSessionShown` without the condition on `switched`: a tab's
  bootstrap has resolved its session when another tab deletes it and opts in again; the two
  requests of `rehydrate` (`persistent-recommendation-flow.tsx:272`) then carry the new cookie,
  and the tab shows the old session's identity above the new one's data. Preferences and
  feedback may even come from different sessions. One tab alone comes there with four actions:
  opt in, reload, opt in, reload; two more (save the
  preferences, reload) and what it shows is not what either session has saved, so
  `ShownIsStored` has the same condition. That takes more user actions than `flow_alone` has
  (`MaxClicks`), so the run would pass without the condition; the proof would not. Leaving the page aborts the bootstrap but not `consent` (line
  332 passes no signal), so two opt-ins are under way, and the later answer replaces the cookie
  between the `GET /me` of the page and its load. The next change is refused (its CSRF token is
  the old one), so nothing is stored wrongly.
- *A late 401.* `OnlyStaleCookiesAreCleared` fails even with one tab: two requests of a reload
  are refused because the session has just ended; the first 401 lets the user opt in again, and
  the second, still on its way, clears the new cookie (`exceptions.py:183`). The plan
  says "The server fails closed and clears the stale cookie"; the cookie cleared here is not
  stale.
- *"Your last saved feedback is still shown."* `AssuranceIsTrue` fails when a save succeeds and
  its answer, or the refresh after it, is lost (`persistent-recommendation-flow.tsx:494`): the
  message speaks of saved feedback, what is shown is older. `ShownIsStored` is therefore stated
  up to a failed change.

## How to run it

    tlc -workers 2 -config profile_races.cfg MCProfileStore.tla
    tlc -workers 2 -config retention_cohorts.cfg MCRetention.tla
    tlc -workers 2 -config flow_alone.cfg MCPersistentFlow.tla
    tlc -workers 2 -config web_pages.cfg MCWebPages.tla
    tlc -workers 2 -config ranking.cfg MCRanking.tla
    tlc -workers 2 -config artifact_races.cfg MCModelArtifact.tla
    tlc -workers 2 -config migrations_back.cfg MCSchemaMigrations.tla
    tlc -workers 2 -config seed_beside_writers.cfg MCCatalogSeed.tla
    tlapm ProfileStoreProofs.tla
    tlapm RetentionProofs.tla
    tlapm PersistentFlowProofs.tla
    tlapm WebPagesProofs.tla
    tlapm RankingProofs.tla
    tlapm ModelArtifactProofs.tla
    tlapm SchemaMigrationsProofs.tla
    tlapm CatalogSeedProofs.tla

## What is not modelled

- Strength of authentication: tokens and digests are identities; in `ProfileStore` the CSRF
  check is a refusal that may happen, in `SessionApi` it is the comparison.
- The statements of PostgreSQL below transactions (planner, indexes, network): its row locks,
  isolation levels, cascades and deadlock check are taken as the code relies on them. The
  router of the web framework and `rename(2)` likewise.
- Read-only endpoints beyond what a tab sees of them. The catalog API counts and lists in two
  statements, so a total may not fit its page while the seeder commits; nothing promises that
  it does.
- Operator safety checks (`commands/operator_safety.py`): pure validation before a command starts.
- Revisions 0001 and 0002, which create tables and constraints and move no data.
- Vectors, TF-IDF and the popularity baseline: floating-point data on which no ordering
  or failure depends; evidence and wording of explanations.
- In the web client: the filter options of the catalog (the pattern of `RecommendationForm`),
  the search draft, focus, the double mount of React's development mode, generated types,
  formatting and the shell.
- Settings that change while the program runs, the application factory, health probes,
  logging, containers and developer tooling.
