# Formal models of the Quran App core API

TLA+ modules, TLC runs and machine-checked proofs for the Go backend in this repository. Source
paths are relative to the repository's root; `user/` stands for `internal/modules/user/`.

## The system

A process serves HTTP. Every request runs in its own goroutine: the middleware chain, a handler
of `user/presentation/http/handler.go`, one command or query, and one statement after another over
a shared Postgres, with the connections of one pool. Nothing that matters lives in memory between requests: the error
registry and the configuration are constant after start. So the concurrency is first of all that of *sequences of
autocommitted statements on two tables*, together with a clock, and the hard behaviour is what happens between two
statements of one handler: other handlers' statements, an operator's SQL, the passage of time, a
failed or half-failed statement, the death of the process. Around the handlers it is that of panics unwinding through
middleware, of a pool that runs dry and a database that hangs; and around the process that of instances that start
together, signals at any moment and a shutdown with a deadline.

| Component | State | Operations | Where | Here |
|---|---|---|---|---|
| Accounts | `users` | register, verify-email, me | `user/application`, `user/infrastructure` | `AuthService` |
| Sessions | `user_sessions` | login, refresh, logout | same | `AuthService` |
| Handlers | none | decode, run the command, answer | `user/presentation/http` | `AuthService` |
| Token gate | none (claims in the token) | `Issue`, `Generate...`, `Validate...` | `internal/core/security/jwt.go` | `Tokens` |
| Error mapping | the registry, filled by `init` | `RegisterError`, `FromError`, `handleError` | `internal/shared/errors`, `internal/core/middleware/handler.go` | `ErrorMapping` |
| Authentication middleware | none | `RequireAuthMiddleware` | `internal/core/middleware/auth.go` | `AuthService`, `RequestPipeline` |
| Request pipeline | the status of a response, the log | recovery, logging, `Handle`, `JSON` | `internal/core/middleware`, `internal/shared/http` | `RequestPipeline` |
| Routing, health probe | none | `RegisterAPI`, `HealthzHandler` | `internal/core/route` | `RequestPipeline`, `AuthService` |
| Database pool | connections | open, limits | `internal/core/infrastructure/database` | `RequestPipeline`, `Lifecycle` |
| Lifecycle | main, the server's goroutine, the signal | start, serve, graceful shutdown | `cmd/app/main.go` | `Lifecycle` |
| Object storage | bucket, objects, URLs | `ensureBucket`, put, get, delete, presign | `internal/core/infrastructure/storage` | `Lifecycle`, `ObjectStore` |
| Swagger | none | `Register`, stylesheet, pages | `internal/core/swagger` | `RequestPipeline`, in part |
| Configuration | constants | load once | `internal/core/config` | `Lifecycle`, in part |
| Validation, decoding | none | `Decode`, `ValidateWithDetails` | `internal/shared` | its refusals |
| Clients | tokens, the screen they show | follow the action hints | outside, per `internal/shared/errors/actions.go` | `ClientFlow` |
| DI container, generated docs, quran stub, devices | pointers, data | none | | no |

How they meet: a handler calls the token gate (pure, but it reads the clock), the repositories (shared
tables) and returns an error value that the error mapping turns into status, code and action hint.
Login and refresh couple three things that have to agree: the account row, the session row and the
token in the client's hands. The properties are about that agreement.

## Modules

* `ErrorMapping`: the `AppError` values, the registry as a table from sentinel to response, and
  `Response`, the three-way choice of `handleError`.
* `Tokens`: a token is the record of its claims; `Issue`, `sign` and the validators with their order
  of checks (expiry before type).
* `AuthService`: the state machine. Its variables are the two tables (`users`, `sessions`), the tokens
  clients were given (`held`), the clock (`now`) and, for each request, the step its handler is at
  (`pc`), what the client sent (`req`), the locals that live across statements (`uid`, `until`, `pair`)
  and the answer (`reply`).
* `Directory`: what the user module promises its clients, with nothing of how it does it: no statements, tokens,
  hashes, expiries or clock. A call takes effect in one moment at which it is justified (refresh in two), and what its
  client is told is true. Three facts that follow from it, whatever implements it, are stated at its end.
* `AuthProperties`: the properties, the view of `AuthService` as a `Directory` (`D`, with `SessionOf`, `CallOf`,
  `OutcomeOf`), and four statements of the repository's documentation that do not hold.
* `ClientFlow`: the other side of the hint protocol: devices, of one user or of several, that do what the hint of an error tells
  them. Refresh is its three statements on sessions (lookup, `Revoke`, `Save`), which those of other devices come between.
* `RequestPipeline`: a request's way in through RequestID, ErrorHandler, Recoverer and StructuredLogger, to a handler
  that makes statements over a pool and then answers, fails or panics, and its way out.
* `Lifecycle`: instances of the program over one bucket: `main` step by step, the goroutine with `ListenAndServe`,
  requests under way, the end.
* `ObjectStore`: `storage.S3` after start, and the clients that use the URLs it signs.
* `MCAuth`, `MCClient`, `MCPipeline`, `MCLifecycle`, `MCStore`: the sets and tables the configurations use.
* `AuthServiceProofs` (the type invariant), `AuthSafetyProofs` (the safety properties), `DirectoryFacts` (what follows from
  `Directory` alone), `DirectoryProofs` (the refinement, and those facts carried over to the handlers), `ClientProofs`, `PipelineProofs`, `LifecycleProofs`, `StoreProofs`.

How they compose: `AuthService` is the conjunction of `ErrorMapping` and `Tokens` with the tables; it implements `Directory`.
`RequestPipeline` and `ClientFlow` extend `ErrorMapping` too: the first turns a handler's errors into answers and log
lines, the second turns the answers into what a client does next. In `RequestPipeline` and `Lifecycle` a handler is
reduced to what matters there (it makes statements and ends; it takes as long as it likes); that the handlers of the user
module end is `AuthService`'s `EveryRequestAnswered`.

### From code to actions

A step is one statement and the computation up to the next one. `register` is `ArriveRegister`
(decode, `NewUser`), `RegisterFind` (`FindByEmail`, the verdict, bcrypt's refusal of long passwords) and
`RegisterCreate` (the INSERT, judged by the UNIQUE constraint at that moment). `login` is `ArriveLogin`,
`LoginFind` (lookup and three checks, in the code's order; then `Issue` reads the clock for the
expiries), `IssuePair` (it reads the clock again to sign), `LoginSave`. `refresh` is `ArriveRefresh`,
`RefreshFind`, `RefreshUser`, `RefreshRevoke`, `IssuePair`, `RefreshSave`. `logout` is `ArriveLogout`
(middleware, decode, claims, the check of the caller) and `LogoutRevoke`; `me` is `ArriveMe`, `MeFind`;
`verify-email` ends in `ArriveVerify`, as its two checks exclude each other (theorem
`VerifyNeverAccepts`); the code after them is never reached and has no action. `RejectBody` is a body
that `Decode` refuses.

`Interrupted` is failure: at any statement, with the statement's effect or without it, the handler gets
an error (`FailureReply`: refresh reports any error of the lookup as an invalid token; `Issue` fails in the same way, when a
TTL does not parse, say), or the request
ends with no answer because the process died, the client left or a deadline cut the connection. A
restart loses nothing but the requests under way, hence it is several such steps.

`OperatorVerifies`, `OperatorDeletes` (with the cascade) and `SendVerification` are outside `src`: the code
offers no way to verify or delete an account, though every other handler depends on both; the
verification token is minted by `GenerateVerifyEmailToken`, which nothing in the code calls.

In `RequestPipeline` a step is a stretch of code in which nothing else is visible: `JSON` sends the status line and `Encode` the
document, as a panic may come in between; `Query`, `Acquire` and `Answer` are one statement; `Interrupt` is the end of its
context, by the client (`Cancel`) or by the probe's two seconds (`TimeOut`). `Panic` is possible wherever a handler's code
runs; it skips `StructuredLogger`, whose line comes after `ServeHTTP` returned, and ends in `Recoverer`, or in `ErrorHandler` if
logging the panic's value panics again. `status` is the status line sent, `code` the one the document being written speaks of,
`docs` the documents that reached the client, `lines` the log. `Reply` is `Response` of `ErrorMapping` and the probe's own 503.

In `Lifecycle` each call of `main` that may be fatal is a step. `Fatal` is an end the code decides on, `OutsideFails` one after
an error from outside; `FailsOnlyFromOutside` is about the difference. `StartServer` is the rest of the start up to
`<-ctx.Done()`; a signal before it kills, after it cancels. `StopGracefully` and `StopForced` are the two results of `Shutdown`
(it polls, so the deadline may win although the last request was just answered); with either `main` returns and the process
cuts what still runs.

In `ObjectStore` a batch is signed key by key (`PresignedGetURL`, `PresignedPutURL`), with the clock going on in between;
`FailFast` is the early return. `Upload` is S3's side: not after the URL's end, and with the type that was signed, if one was.

In `ClientFlow` `Follow` is a client that takes the hint: `login` shows the form, `refresh_token` starts the refresh flow,
anything else leaves it where it is (it tries again). As all refresh tokens have one hash, `user_sessions` is here one bit,
`open`: whether a row is there that is neither revoked nor expired. The lookup finds it for any token, `Revoke` (`Close`) clears
it for all devices, `Save` sets it; `backed` remembers whose own row it was. A logout with an expired refresh token is
refused (`SecTokenExpired`), one whose `Revoke` fails may have revoked all the same. A refresh that is `Cut` ends before its next
statement or after it. With `SessionStore = "postgres"` the lookup refuses every token, as it does in `AuthService`.

### Abstractions

* Passwords and addresses are members of small sets; `Lower` is `ToLower(TrimSpace(..))`, `First72` the 72
  bytes bcrypt looks at, `Unparsable` the addresses the validator lets through and `mail.ParseAddress`
  does not. Password hashes are perfect, and so are signatures: clients present what they were given,
  or something that is not a token.
* The refresh token's random id is the id of the request that issued it. The stored hash, the token's
  first 32 bytes, is *one* constant, `HeaderPrefix`: a signed token begins with its 36-byte header, and the
  header of every token of this server is the same.
* The clock counts ticks, `Second` of them a second. A token's `exp` is cut to the whole second when it is signed (`Truncated`,
  `jwt.NewNumericDate`); the expiry of a session row keeps its ticks.
* `First` returns the row with the lowest id; `RefreshFind` takes any match, which includes that.
* `deleted_at` is not in the model: nothing sets it and the lookups, which read into `domain.User`, do
  not filter on it. `display_name`, timestamps and `last_used_at` are left out.
* User ids are numbers of `Users`, and an id is not handed out twice; a failed insert uses one up in
  Postgres and none here, which no property can tell. A registration needs a free id in `Users`: that
  bounds the accounts of an instance.
* `SessionStore` says what the session lookup does. With `"postgres"` it is the query as written: it
  filters on `expired_at`, which the migrated table does not have (it has `expires_at`), so it always
  fails. (With the name put right it would still find nothing: `Save` writes Go's zero time to
  `revoked_at`, never NULL.) With `"contract"` it is what the handlers expect: some row with the
  hash, not revoked, not expired. What lies behind the lookup in `refresh` is reachable
  with the latter only; the results for it say that the *handler* is right once the query is.
* `Directory` leaves open which other sessions a logout or a refresh closes (the code closes all, see above), and when a session
  expires. "Unknown" is no answer at all, an error of the database, or the 500 for a new session that the foreign key refused:
  the call may have taken effect. The other answers of 500 (an address taken in a race, a password too long for bcrypt) are
  "refused" like those of 400: they had none. The two moments of a refresh are part of the promise, since the code has no
  transaction; between them it is "half" done and can no longer be refused, only end unknown.
* In `RequestPipeline` every success is a 200 (registration's is 201) and every document is as good as another. The log is
  what is written with zerolog about a request; gorm's own lines are not in it. Write deadlines cut the connection and are
  left out: a client that gets nothing is in the model as a document that does not arrive.
* In `Lifecycle` errors of the SDK are their codes: `NotFound`, `Forbidden` (another account's bucket), the two of
  `isAlreadyExists`, and one for the rest. A call that fails may have created the bucket.
* In `ObjectStore` the clock of S3 and the program's are one; an object is its type and how it came to be there. The SDK
  refuses `BadKey` and negative lifetimes, and takes zero for its own default: modelled from how `s3.go` uses it, like all of S3.
* In `ClientFlow` each device holds one refresh token and makes one request at a time; a handler whose client is gone ends with
  the statement it was in. Accounts are there and verified: deletions and the second check of refresh are `AuthService`'s. That
  the row a lookup found expires before line 50 looks at it is possible and counted with the faults. `excused` records that
  something happened since the device's last pair of tokens that may send it to the form.
* In `RequestPipeline` a failed statement outside the probe comes out as a 500 or, as from refresh's lookup of the session, as a
  401. The header with the request's identifier is not in the model.
* `refresh`'s answer `EMAIL_NOT_VERIFIED` is in the model and is never given: nothing takes a verification
  back, and only verified accounts get tokens (`RefreshMeetsVerified`).

## Properties

Each module has one type invariant, `TypeOK`. The properties of the user module:

* `UniqueEmail`, `RegisteredAccountStands`: racing registrations leave one account for an address, and it
  is the one whose client was told "ok", with that client's password.
* `VerdictNeedsPassword`: only a request with the account's password learns more from login than
  INVALID_CREDENTIALS.
* `AccountsHaveCause`: every account comes from a registration with its address and password that was not refused, if only
  one whose answer was lost.
* `VerifiedBeforeTokens`: session tokens exist only for accounts verified before. `RefreshMeetsVerified`: so refresh's own
  check of the address refuses nobody.
* `SessionBacksToken`: each refresh token a client holds has a row of the same user; a login's row outlives its token by
  less than a second, the fraction that the token's `exp` loses, and a refresh's row does not die before it (provided
  `refresh_ttl` is at most the seven days `refresh_token.go` gives the row).
* `NoOrphanSession`: no session without account.
* `SpentTokenIsRevoked`: what logout and refresh must revoke, also when the foreign key then refuses the new session.
  `RevocationHasCause`: a revoked session goes back to a request that was entitled to revoke one. A refresh that fails between
  `Revoke` and `Save` is in neither; that its session stays closed is `SessionsOnlyEnd`.
* `SessionsRooted`: every session goes back, over sessions each of which was closed for the next, to a login with the address
  and the password of its account. Refresh takes the user from the token and the row by its hash and never compares them;
  no chain of refreshes crosses from one account to another, and none is circular.
* `SessionsOnlyEnd` (of steps): once the request that opened it is answered, a session can only be closed or deleted.
* `HandlersAdvance` (of steps): a request changes by its own steps only, and each brings it nearer to its answer (`StepsLeft`).
* `EveryRequestAnswered` (liveness): a request that came in is answered or its client is gone.
* `ImplementsDirectory` (refinement): whatever the interleaving, the handlers look to clients as `Directory` promises. Two
  refreshes of one token may both succeed, and `Directory` allows it, as nothing says they must not; but each opens its
  session for the account of a session that is closed by then, for an account that exists and is verified *at that
  moment*; a profile is shown of an account that exists, however old the access token is.

Its clients (`ClientFlow`): `LoginHasCause`, if the lookup worked nobody would be at the login form without one of these since
its last pair of tokens: a logout, anybody's; the `Revoke` of another device's refresh; a row that expired before its token; a
fault of its own. The first two are causes because of the common hash: a device is sent to the form by what strangers do, which
the model shows and the property has to grant. What is left of it is that a refresh of one's own that worked is never the
reason, however the three statements of several refreshes interleave: `Save` comes after `Revoke`.
`FlowAdvances` (of steps), no answer keeps a client in the refresh flow, but for faults and an expired refresh token;
`FlowEnds` (liveness), a client in the refresh flow leaves it, also when the answer to a refresh was lost and its retry finds the
old session revoked. `FlowEnds` ends where the refresh token expires: then TOKEN_EXPIRED hints at the refresh flow, which
answers TOKEN_EXPIRED, and a client that only follows hints stays there.

The server (`RequestPipeline`): `AnswersOnce`, one document for a request, of the status that was sent, wherever its handler panics
(`ErrorHandler`, unlike `Recoverer`, writes whatever was sent before; it is reached only when `Recoverer`'s logging panics, and
then its 500 is the one further document and the last); `OneTrace`, a request that is over has left exactly one of "handled request" and "panic recovered";
`CauseLogged`, a 500 or 503 has its reason in the log before the client hears of it; `RequestsAdvance` (of steps), every step of
a request brings it nearer to its end (`Distance`) and no other request's step moves it; `ProbeEnds`
(liveness), the probe ends with the pool exhausted and the database silent; `RequestsEnd` (liveness), every request ends if the
database comes back for good.

The process (`Lifecycle`): `FailsOnlyFromOutside`, an instance never fails because others start beside it, nor because it is shut
down; `ServesWithBucket`; `CutHasCause`, a graceful shutdown answers what it accepted; `SignalStops` (liveness), a process that was asked to
stop stops, also when a handler hangs.

Storage (`ObjectStore`): `BatchWhole`, a batch gives URLs for exactly its keys or none; `UploadsTyped` and `UploadsInTime`, what clients upload
with a URL is of the type asked for and comes within the lifetime asked for or configured.

Five statements of the documentation do not hold, and a run each shows it:

| Run | The documentation | The code |
|---|---|---|
| `logout_others` | logout revokes "the authenticated user's refresh token" | revokes every session of everyone, as all rows have one hash (`utils.go:4`) |
| `refresh_refused` | refresh exchanges "a valid refresh token" | always INVALID_TOKEN (`user_session_repository.go:36`) |
| `verify_refused` | verify-email uses "the token sent via email" | refuses every token (`verify_email.go:32` and `:40`) |
| `register_race` | 201, 400 or 409 | 500 for the loser of a race (`register.go:51`) |
| `log_lines` | "every log line and response carries" the request's identifier (`main.go:54`) | the lines that say what went wrong do not (`handler.go:49`) |

`RevocationHasCause` is weak for the first of these reasons: as the code revokes all rows, all that can be said
is that *some* entitled request came before. Once the hash tells tokens apart it should name the row's own
token.

## Runs

| Run | Instance | Checks |
|---|---|---|
| `accounts` | 3 requests, 3 ids, empty table, one address in two spellings, three passwords two of which share their first 72 bytes, clock 0..1, failures, query as written | types and the account properties, `AccountsHaveCause` among them |
| `sessions` | 3 requests, 2 people (one not verified yet), all lifetimes 2, a second of two ticks, clock 0..2, failures, store by contract | the session properties, `SessionsRooted` and `RefreshMeetsVerified` among them |
| `answers` | 2 requests, all six routes, 3 ids, an unparsable address, clock 0..3, failures, store by contract, fairness | `EveryRequestAnswered`, `ImplementsDirectory`, `SessionsOnlyEnd`, `HandlersAdvance` |
| `logout_others`, `refresh_refused`, `verify_refused`, `register_race` | the fewest requests that show it, no failures | one violated statement each |
| `client` | 2 devices, 2 faults, store by contract, fairness | the types, `LoginHasCause`, `FlowAdvances`, `FlowEnds` |
| `pipeline` | 2 requests, 1 connection, up to 2 statements each, a route of every kind, panics, a database that hangs, fairness | the types and the pipeline's properties |
| `log_lines` | the same in production, where the documentation is not served | one violated statement |
| `lifecycle` | 2 instances, 2 requests, a bucket that is missing, ours or another account's, fairness | the types and the lifecycle's properties |
| `objects` | 1 caller, 2 keys, batches of two keys, of one key twice and with a bad key, overrides and configured lifetimes -1..1, clock 0..2 | the types and the storage properties |

Why these bounds are enough to be of interest. Three requests are what the longest scenarios take: a login that
hands out a token, and two requests that compete over it (two refreshes, a refresh and a logout, one of each user);
or two racing registrations and a login into the result. Two ids suffice for "somebody else's", the third lets a
second registration succeed after a deletion. In `answers` access tokens live for 1 and refresh tokens for 2, and the clock
goes past both: a refresh token expires under a refresh that already found its session. In `sessions` a second is
two ticks and everything lives for one second: a login between two seconds gets a token that dies a tick before its row, one that
is signed a tick later a token that outlives it (the clock moves inside `Issue`); a refresh's row outlives its token, and a
logout meets an expired row. Elsewhere a tick is a second, as only `SessionBacksToken` looks at what is lost of one. That two refreshes of one token both get a pair,
that a deletion makes a refresh's save fail, that a refresh and a logout both succeed: each of these situations was
confirmed reachable by asking TLC for its negation. `SevenDays` equals `RefreshTTL`, as in `config.toml` (168h).

The pipeline needs two requests and one connection: one that holds it and one that waits; with two statements a request
waits again after it gave its connection back. Two instances are a race for the bucket, and a third adds no step
that the second does not take; two requests are one that a shutdown waits for and one it has answered. Two devices are a
refresh and another one, or a logout, that comes between its statements; two faults, a lost answer and a failed retry. Storage calls of different callers
share nothing but the objects, hence one caller; the clock reaches past the longest lifetime that is configured, which is what
an upload that comes too late takes.

Symmetry is over the
requests of `accounts`, `sessions` and `log_lines`, which the specification treats alike (no liveness is checked under symmetry).

**Fairness.** `FairSpec` asks for weak fairness of each request's own steps (`Server(r)`) and of nothing else. net/http
gives every request a goroutine, Go schedules them all, and no handler holds anything another one waits for: a step is
enabled until it is taken. Clients, failures, the clock and the operator owe nothing. The requirement on the database is
that a statement returns, with a result or an error; the error is `Interrupted`, which also leads to an answer.

`RequestPipeline`'s asks less of the database: `Answer` is fair only while it does not hang, and it may hang for good; then only the
probe has a right to end, since it alone has a timer (`TimeOut`). Clients need never go away. `Lifecycle`'s asks that `main` and the
goroutine go on when they can, which includes that the calls to the database and to S3 return (the latter have 30 seconds,
`s3.go:46`), and that the ten seconds pass; handlers owe nothing. `ClientFlow`'s asks that a client in the refresh flow goes on with
it.

Every property of a passing run has a mutation of the code that breaks it, defined beside the definition it replaces
(`EmailFreeAlways`, `LoginVerdictSwapped`, `LoginSaveLate`, ...).

## Proofs

TLAPS proves every invariant and every action property of the passing runs and the refinement, for any values of the
constants. What is left to TLC alone is liveness.

**The user module**: any sets of users, requests, addresses and passwords, any TTLs, with and
without failures and for both session stores. The assumptions are those the modules name: `TTLAssumption` (TTLs are
integers, negative ones included), `SecondAssumption` (a second has a tick at least), `SentinelAssumption`, `SessionAssumption` and `ViewAssumption` (the sentinels are no values of the
other kinds), `ServiceAssumption` (`Lower` and `First72` map into their sets and are idempotent),
`InitUsersAssumption` (the table starts with distinct addresses).

1. `TypeInv == TypeOK /\ Handlers`. `TypeOK` is not inductive: that `Save` writes a well-typed row needs to know
   what the handler holds at that step. `Handlers` says it for each label: which route the request is of, that a
   refresh or logout past its checks has a refresh token that was handed out, of the caller's own for logout, that past the checks
   `uid` is a user and that past `Issue` the pair is the user's. Theorem `TypeCorrect`.
2. `Frame`: a step changes only its own request's locals; answered requests do not change; `held` grows.
3. `AccountInv`. `AccountsKept` says what a step may do to an account that exists, and everything rests on it: verified stays
   verified, address and password stay, deleted stays deleted. On top of it `UniqueEmail` follows from the constraint,
   and "found" or "created" facts about a request (`Owns`, `Cleared`) survive all steps between the check and the
   answer. Theorems `EmailsAreUnique`, `RegisteredAccountsStand`, `VerdictsNeedPassword`, `TokensNeedVerification`.
4. `SessionInv == NoOrphanSession /\ TimesInv /\ BackedInv`. `RowStep` lists what a step can do to one row (keep, revoke,
   delete with its account, save). `TimesInv` carries the expiry from `Issue` to `Save`, over the moment of signing, at which `exp` loses less than a second (lemma
   `Truncation`); `BackedInv` strengthens
   `SessionBacksToken` by "the issuing request is done", without which its row could be written over. Theorems
   `NoSessionOutlivesItsAccount`, `SessionsBackTokens`.
5. `SpentInv` and `RevocationHasCause`, from the above. Theorems `SpentTokensAreRevoked`, `RevocationsHaveCause`.
6. What refresh never answers. A refresh past its admission holds a token that was handed out (`Handlers`), so the account it
   reads is verified or deleted: theorem `RefreshesMeetVerified`. With `SessionStore = "postgres"` no request of the route is
   ever at a step after the lookup (`EndsAtLookup`): theorem `PostgresRefusesRefresh`, the finding of `refresh_refused`
   for every schedule and token.
7. `HandlersAdvance`. `StepsLeft` counts the statements a route has before it; each action lowers it, a failure goes straight
   to zero, and by `Locality` nobody else's step moves a request. Theorem `HandlersOnlyAdvance`.
8. `RefInv` and the refinement. A step of `AuthService` is a step of `Directory` or a stutter; which one it is takes the
   invariants above, and three facts more (that a refresh past `Revoke` is "half" done is read off its step, `Outcome`): a row appears only with its request's answer (a session opens once), a
   request that has not come in is blank, and a refresh opens its session for the user of the token. `ArriveX` is `Make`, a lookup
   that finds nothing is `Fail`, `RegisterCreate`, `LoginSave`, `RefreshSave` and `RefreshRevoke` are `Register`, `Login`, `Exchange` and `Close`, and
   `Interrupted` is one of these with the answer "unknown" (or, where nothing was done yet, a `Fail`). Theorem `HandlersImplementDirectory`.
9. What the refinement is good for. `DirectoryFacts` proves three facts of `Directory`, where a call is one step or two, with no
   handler in sight: `EverySessionRooted`, `EveryAccountHasCause`, `NoSessionReopens`. The rooted part is a property of *sets* of
   sessions (each has one that goes back out of it), since the order in which sessions were opened is nowhere recorded: a
   new session leads to one that was there before and is closed, and closed sessions stay as they are. Since
   `Spec => D!Spec`, and `DirectoryAssumption` follows from the assumptions of `AuthService` (`DirectoryAssumed`),
   `SessionsGoBackToLogins`, `AccountsHaveCauses` and `SessionsNeverReopen` say the same of the handlers with all their statements,
   failures and interleavings, with no invariant about them beyond those of the refinement.

**Lifecycle** (`LifecycleAssumption`: `None` is none of the other values). `main` draining has been signalled, and a request that was cut
was at a process that is over; both are needed for `CutHasCause`, as the second keeps a cause from being lost. A step of
`main` goes on or ends the process, so lemmas on the steps of `main` (`GotoStep`, `ExitStep`) and on those outside it (`OutsideStep`) carry the invariant through all actions.

**Pipeline** (`PipelineAssumption`). The invariant speaks of one request at a time: before its handler ends it has sent nothing (`Fresh`), while
its document is written the status is sent and the document is not (`Writing`), only a panic whose value cannot be
logged gets past `Recoverer` (`Unwinds`), a request that is not over has left no trace. What `ErrorHandler` appends is a
lemma on sequences (`ErrorAdded`). `RequestsAdvance` weighs a statement still to make with three steps (`Distance`): a request
that goes back from its statement to its handler has one statement less. Theorem `RequestsOnlyAdvance`. Connections are counted apart: those free and
those taken by a statement are `MaxOpenConns` (`Pool`), which is what `free \in 0 .. MaxOpenConns` needs.

**Client** (`ClientAssumption`). A device whose row is gone before its token is excused before the form tells anybody
(`Reasons`), but for the one whose own refresh is between `Revoke` and `Save`: that is the step the order of the two matters for.
Theorem `LoginsHaveCause`, for both session stores and any number of devices.
`FlowAdvances` needs from the types that the flow's answers have only the hints it knows. Theorem `FlowOnlyAdvances`.

**Storage** (`StoreAssumption`). A map under construction holds the keys passed so far and URLs of the call it is for, each of which ends
within the lifetime asked for, counted from now (`Signing`, `Belongs`); time only relaxes that bound (`BelongsLater`), and a result takes it over
with the moment it was given (`Answered`).

Three of the action properties are the safety half of liveness: `HandlersAdvance`, `RequestsAdvance` and `FlowAdvances` say that every
step taken goes towards the end, for instances of any size, and what they leave to TLC is that a step is taken at all.

Model-checked only: the liveness properties `EveryRequestAnswered`, `FlowEnds`, `ProbeEnds`, `RequestsEnd` and `SignalStops`, since liveness under fairness
and ENABLED are out of the prover's reach. No module declares a RECURSIVE operator.

## Not modelled

* The dependency container: a record of pointers built once. `docs.go`: generated data. The quran module: a stub
  without operations. User devices: a table and a struct nothing reads or writes.
* Validation: which field breaks which rule, and the sentences made of it, are pure string work; that its details hold no
  action hint, though `actions.go:3` says every error response carries one, can be read in `FieldDetails`.
* Configuration: where a value comes from (file or environment) is viper's.
* Idle connections, their lifetime, and the HTTP server's read, write and idle timeouts, but for what they do to a client.
* That login looks an address up as it was written while registration stores it lower-cased: the model does the same, and
  nothing in the repository says otherwise, so no property speaks of it.
* The header X-Request-Id: it is set before anything is written and nothing takes it back.

## Plan

What is left, in this order:

1. Once the session hash tells tokens apart, a rotation specification: a row is revoked by its own token only, and
   `RevocationHasCause` and `Directory`'s `Close` name it.
2. The validator's rules over a small set of bodies, with the claim of `actions.go:3` as a run of its own.
3. Proofs: that `main` only goes forward, as the safety half of `SignalStops`; that with the query as it stands only logouts revoke
   sessions, from `EndsAtLookup`; an abstract bucket that `ObjectStore`'s batches implement.
4. Handlers that store objects, when there are some: `ObjectStore` composed with a caller that records the key in a table.
