# Verification of rune-vault in TLA+

This directory specifies the vault daemon of rune-admin (`src/vault`): what it keeps
in memory and on disk, and what its goroutines do to it. TLC checks the
specifications on small instances; TLAPS proves every safety property that a passing
run checks, for every instance. All paths below are under `src/`.

## 1. The system

The vault is one process, `runevault daemon start`. Clients call three gRPC methods
(`GetAgentManifest`, `DecryptScores`, `DecryptMetadata`) with a token; operators call
an HTTP interface on a Unix socket to issue, revoke and rotate tokens and to define
roles. A token belongs to a user and names a role; a role permits methods, limits
`top_k` and sets a rate limit.

| Component | Code | State | Operations |
|---|---|---|---|
| token store, tables | `vault/internal/tokens/store.go`, `role.go`, `token.go` | four maps under `mu`: tokens by string, tokens by user, roles, limiters by user | `LoadFromFiles`, `LoadDefaultsWithDemoToken`, `Validate`, `GetUsername`, `AddToken`, `RevokeToken`, `RotateToken`, `RotateAllTokens`, `AddRole`, `UpdateRole`, `DeleteRole`, lists |
| token store, persistence | `store.go` | `persistTimer`, `persistWG`, `persistClosed` under `persistMu`; two YAML files | `schedulePersist`, its timer callback, `doPersist`, `atomicWriteYAML`, `Flush`, `Shutdown` |
| rate limiter | `ratelimit.go` | time stamps of admitted requests under its own mutex | `IsAllowed`, `RetryAfter`, `Remove` |
| gRPC handlers, interceptor | `vault/internal/server/grpc.go`, `interceptors.go` | none of their own: they hold the role and limiter they were given | validation, the three handlers, `emit` |
| daemon lifecycle | `commands/daemon.go`, `server/serve.go` | listeners, deferred closers | start sequence, `Serve`, graceful and forced stop |
| admin interface | `server/admin.go` | the Unix socket and its path | eleven routes, each one call of the store |
| command line client | `commands/token.go`, `role.go`, `adminclient.go` | none: one request per command | issue, revoke, rotate, role commands, with a time limit of 30 seconds |
| configuration | `server/config.go` | one resolved `Config` | lookup of the file, secret files, `Validate`, flags |
| audit log | `server/audit.go` | writers under a mutex | `Log`, `Close` |
| key bundle | `crypto/keys.go` | handle of the secret key | `EnsureKeys`, `OpenSecretKey`, `Decrypt`, `Close` |
| cloud setup | `server/ensure_vault.go` | none | `EnsureVault` |
| metadata encryption | `crypto/metadata.go`, `grpc.go` | none | opening a list of envelopes |
| generated code, installer | `pkg/vaultpb`, `install.sh`, `scripts/`, `deployment/` | none at run time | not modelled, see section 8 |

How they interact:

- A gRPC call runs on a goroutine of its own. The interceptor checks it, the handler
  visits the store under `mu` twice (`GetUsername` for the log, `Validate` for the
  verdict), then uses the user's limiter under the limiter's mutex and the role through
  a pointer under no lock at all, and finally writes one line to the audit log.
- An admin request runs on a goroutine of its own, changes the maps under `mu`,
  releases it, and only then calls `schedulePersist` under `persistMu`.
- `schedulePersist` arms a timer; the timer's callback runs on yet another goroutine
  and calls `doPersist`, which copies the maps under `mu.RLock` and then writes two
  files under no lock.
- A command of the client finds the socket by itself, sends one request and gives up
  after a while; nobody tells the handler.
- `runDaemonStart` acquires store, keys and audit log in this order and defers their
  release; `Serve` returns when the listeners have been stopped.

What is hard about it: the maps are redundant and kept in agreement by hand; limiters
are cached by a key other than what they depend on; a timer may be replaced after it has
fired; writes may overlap; two files cannot be replaced at once; what is read under a
lock is used after it; a client may have given up, and tried again, before its first
request has any effect; a stop has to wait for the right things in the right order; and
a start may find half of what an earlier one should have left.
`PROJECT.json` lists each such hazard at its line, with the properties that cover it.

## 2. Modules

| Module | Models | Granularity |
|---|---|---|
| `TokenStore` | the four maps and every operation on them | one action per critical section of `mu` |
| `Persistence` | from a change to the two files, over crashes and restarts | one action per critical section of `persistMu`, per snapshot, per file renamed |
| `WriteBehind` | what `Persistence` promises: copies of one moment, written behind | one action per copy and per file |
| `RateLimiter` | one limiter and the requests that share it, with a clock; the conversion of `rate_limit` | reading the clock, and each critical section |
| `VaultRPC` | the path of gRPC calls through interceptor, handler, store and limiter, against the operators' changes | each visit to a lock, each unlocked read, each field that `UpdateRole` writes |
| `Retrieval` | the pure functions of `grpc.go`: top k of the shards, the list of envelopes | operators, beside what they are to compute |
| `AdminApi` | commands of the client, the routes, the handlers, restarts | one action per operation of the store, per user for rotate-all, per file |
| `Daemon` | start, serving and stop of daemons that share a machine, and their key files | each step of the main goroutine, of a call and of an admin request, each key file |
| `Config` | how daemon and client arrive at their configuration | operators over all files and flags |
| `..._proofs` | theorems and proofs of the module of that name: `TokenStore`, `Persistence`, `RateLimiter`, `Retrieval`, `VaultRPC`, `AdminApi`, `Config`, `Daemon` | |

Each `MC...` module instantiates the module of that name for TLC. `VaultRPC` extends
`Retrieval` and `Daemon` extends `Config`, since they use their functions; so do their
proofs. The other modules meet at what they abstract from one another:

- `TokenStore` ends an operation at the unlock of `mu`; `Persistence` takes over there.
  `Persistence` needs no map: the content of a table is the number of its last change.
  A change to the tokens also notes which role content it was made on.
- `Persistence` implements `WriteBehind`, under the mapping `Abstract` (a table is dirty
  when a change has not been taken, and the copies are the snapshots of the writers at
  work).
- `TokenStore` creates and drops limiters; `RateLimiter` is one of them from inside.
  `VaultRPC` keeps of a limiter only its limit and how many it admitted, and asks what
  happens to a request that holds a limiter the store has dropped.
- `TokenStore` keeps of a role its rate limit, the only field that other maps depend on;
  `VaultRPC` has the fields of one role, because calls read them one by one; `AdminApi`
  has all roles with their fields, and what loading makes of them.
- `AdminApi` takes from `Persistence` that a pending persist ends in a copy of both
  tables and two writes, which may fail and overlap with those of other copies. Timers,
  `Flush` and the order of locks are left to `Persistence`.
- `Daemon` has calls and admin requests in outline only, and one flag per daemon for a
  pending persist, whose inside is `Persistence`.

### TokenStore

`tokens`, `tokensByUser`, `roles` and `rateLimiters` are functions whose domains are
the keys of the Go maps. A token string is a number: `newTokenString` draws 16 random
bytes, which are taken never to repeat, and the number tells the order. Dates are day
numbers; an absent one is `Nil`. A date outside `FirstDate..LastDate` (the years 0 to
9999) is written and compared, but does not parse (`Parses`); the difference of two
dates saturates at `MaxPeriod`, as that of two `time.Time` values does (`Sub`). `Init`
is the end of `LoadFromFiles` for any pair of the given files (defaults fill what the
roles file lacks, an omitted rate limit becomes the fallback) or of
`LoadDefaultsWithDemoToken`. The token files are those that `doPersist` can have
written, or had by hand with other dates: users and strings are unique.
`RotateAllTokens` is a process with an entry per admin request, since other requests
come between its visits to `mu`. `Validate` appears as `GetOrCreateLimiter`, its one
effect on the maps.

### Persistence and WriteBehind

A `time.Timer` and the goroutine that runs its callback are one process with program
counter `pc[t]`: `armed`, `fired` (the callback waits for `persistMu`), `passed` (it
has released `persistMu` and not reached `WG.Add`), `counted`, `roles`, `tokens` (about
to rename that file). A `Flush` that stops a pending timer runs `doPersist` itself, as
the process `Caller`. `Timer.Stop` succeeds on `armed` timers only. A write replaces
the file as a whole or fails and leaves it alone, as the rename of a temporary file
does. `Crash` may happen in every state; `Exit` ends the daemon after `Shutdown` has
returned; `Start` loads what is there.

`WriteBehind` knows no timers: the tables change, are copied, and each copy is put into
the roles file and then the tokens file, or fails to be. It allows copies that overlap,
and so does the code.

### RateLimiter

`ReadClock` is `rl.now()`, before the lock; `Allow` and `Deny` are the critical section
of `IsAllowed`; `RetryAfter` is the separate one that follows a refusal. `MaxDelay`
bounds the ticks between reading the clock and getting the lock: Go promises no such
bound, so the property that uses it is stated relative to it. `MaxRequests` may be zero
and `Window` may be any integer: a rate limit is only matched by digits.
`RateLimitParsed` converts with `strconv.Atoi`, which saturates at `Top` and whose error
is ignored, and multiplies seconds into a `time.Duration`, which wraps.

### VaultRPC and Retrieval

`req[r]` is what a handler knows: the call, the user for the log, the limiter and the
position in its text. `update` is an `UpdateRole` inside its critical section; it
writes scope, `top_k` and rate in three steps, and `Unlocked` says that nobody else can
be in `mu` then. The reads of the role take no lock. A read of `role.Scope` that races
with its write may pair the array of one slice with the length of the other, which is
the set `ScopesSeen`; a read of `role.TopK` gives the old or the new value. `past` is
the history of the role object. The role may be loaded with a rate limit that does not
parse; no limiter can be built from it, so every call is refused until an operator sets
the rate. What a handler does with a permitted call is one action for each method
(`GetAgentManifest`, `DecryptScores`, `DecryptMetadata`), with the codes it may answer.
`UpdateRate` drops limiters from the store (`Drop`); a revocation and a rotation also
empty the one they drop (`RemoveLimiter`, for `l.Remove(user)` in store.go:249 and 276),
so a handler that still holds it counts from zero. `drops` and `removals` count both.

What two of them compute is in `Retrieval`. `topK_FromShards` (rows that fall back to
their position, a stable sort, a cut) stands beside `NLargest`, the definition its
comment in `grpc.go` refers to; `Sorted` is the order that a stable sort by descending
score makes, not a way to sort, and that there is one, for every list, is a lemma
(`SomeOrder`). `OpenList` is the loop over metadata envelopes, which may fail to parse,
fail to decrypt, or decrypt to garbage under another agent's key. Scores are integers,
since only their order matters.

### AdminApi

`cmd[c]` is a process of the client, `handler[c]` the goroutine that serves its request,
which works on when the client gives up or its process ends. `CutTo` is what is left of a
name in a URL that does not escape it. A token's string is the pair of its user and the
command that drew it. `writer[w]` is a `doPersist`: `TakeCopy` copies both tables,
`WriteRoles` and `WriteTokens` replace one file each or fail, and several may be under
way. `Stop` is a crash or an exit and loses what was not written. `performed` and `saved`
keep account of which commands' effects are in the tables and in the files, and `orderly`
of whether all copies were taken outside of another's writes and no write of the roles
has failed.

What is said of a command's success (`Told`) is said of those whose effect the daemon
has: a stop may lose an acknowledged change, as `acknowledged_durable` shows, and a
command that lost its effect drops out. So nothing here excludes that a revoked string
is valid again after such a stop.

### Daemon and Config

`pc[d]` is the main goroutine of daemon `d`. `open[d]` is what deferred calls have yet
to close. gRPC handlers pass from `work` (they use the keys) to `log` (they use the
audit log); `stream` is a health or reflection stream, which only its client or `Stop`
ends. Admin requests are accepted, change the tables, schedule and respond.
`grpc.Server` and `http.Server` are external: `GracefulStop` waits for all handlers,
also after `Stop`; `http.Server.Shutdown` closes the listener, which unlinks the
socket's path, and waits for the accepted requests at most until its context ends.

`bundle` says for each key file which generation of keys it is of. `EnsureKeys` looks
for any file; `GenerateKeys` and `WriteKey` write one file at a time, and a crash, a
failed step or another daemon's start may come between them. The generator is code of
the enVector SDK; it is taken to look for files and to write its first one in one step,
which is what `keys.go` relies on when it says that keys are never overwritten.

`Config` has the lookup of the file (`--config`, `/opt`, the working directory), the mode
checks, secrets in files, `Validate`, `--admin-socket`, and the same resolution as the
client does it. `Daemon` uses it for what a start may go on with. A path is handed to
the system as it is written, so a relative one is another place for each directory that
a process works in (`At`). The repository's own development task starts the daemon with a
relative `--config` (`.mise.toml:128`). A command that is run elsewhere may then miss the
daemon; `ClientFindsDaemon` does not claim otherwise (`GoesBy` names the paths that have
to be absolute).

## 3. What is checked

| Run | Instance | Checks | Shows |
|---|---|---|---|
| `token_store` | 2 users, 2 roles, 5 strings, 2 days, 2 concurrent rotate-all, 9 pairs of files | `TypeOK`, `IndexAgreement`, `LimiterFollowsRole`, `RoleReferenced`, `RotateAllReplaces`, `RotationKeepsTerms` | the maps agree after any interleaving of all operations; rotation keeps a token's terms as far as dates express them |
| `persistence` | 1 admin request, 2 timers at once, 2 changes, a crash or exit, a failed write | `TypeOK`, `NoLostChange`, `QuiescentDisk`, `RolesBeforeTokens`, `ClosedDrains`, `ImplementsWriteBehind`, `ChangesAreTaken`, `CallsReturn` | no change is forgotten between timers; the files are right when nothing overlaps; `Flush` and `Shutdown` return; the whole is a write-behind store |
| `rate_limiter` | 3 requests, limit 2, window of 2 seconds of 4 ticks each, delay 1, words of 5 bits | `TypeOK`, `WindowBound`, `RateErrsOpen`, `AdviceAlmostRight` | the limit holds in a window less the delay; advice is less than a second short; a limit too large to convert refuses nobody it should admit |
| `vault_rpc` | 2 handlers, 3 calls, one user, 2 strings, two role updates; 2 shards of 2 scores, 3 envelopes | `TypeOK`, `NamesTheOwner`, `QuotaPerLimiter`, `JudgedSinceFound`, `TopKIsNLargest`, `PlacesAreTrue`, `ListAllOrNothing` | what may be read outside the locks is harmless to this extent; answers are the best scores in their places, lists are whole |
| `admin_api` | 2 users, 2 roles, 12 requests; 2 commands with 2 `doPersist` at once and 2 stops, or 3 commands (`MCBound`) | `TypeOK`, `OldStringsGone`, `UnshownIsKnown`, `ToldHolds`, `OrphansWereRevoked` | what an operator was told stays true through other commands, retries and late handlers, and over restarts if it had reached the files, however writes overlap and fail; orphans are tokens that were to be revoked |
| `daemon` | 2 daemons, 1 call and 1 admin request each, any number of crashes and failures, 2 key files | `TypeOK`, `CallsKeepResources`, `BundleOfOneGeneration`, `ClientFindsDaemon`, `SocketKept`, `StopEnds` | resources outlive the calls that use them; keys of two generations never mix; a client finds its daemon by absolute paths; a stop ends, whatever hangs |

`TopKIsNLargest`, `PlacesAreTrue`, `ListAllOrNothing` and `ClientFindsDaemon` are about
functions: each is asked in the states in which the process uses the function, and
quantifies over all its inputs within the bounds. `PlacesAreTrue` leaves out lists in
which the position that a shard falls back to is the index given to another one.

A role with `top_k` 0, which a command may create, has 5 after a restart (store.go:67).
`ToldHolds` grants this value and no other: no document promises that the 0 lasts.

Every property has a mutant in `PROJECT.json`: an operator of the module, marked
`Mutant`, that changes one mapped definition as a slip in the code would. With it in
place of the definition, TLC finds the property violated.

Runs that show a disagreement between the code and what the repository says of it:

| Run | Property | Disagreement |
|---|---|---|
| `rotate_all_handed` | `ValidTokensHanded` | rotate-all, "atomic revoke + reissue", is interrupted by a revocation and its handler drops the tokens it had already issued |
| `flush_writes` | `FlushWrites` | `Flush` returns without the write of a timer that had already fired |
| `stale_overwrite` | `SettledDiskIsCurrent` | the older of two overlapping `doPersist` calls writes last, and nothing repairs it |
| `sliding_window` | `SlidingWindow` | a request with an early clock reading is admitted late: more than the limit in a window |
| `torn_role` | `JudgedByOneRole` | a call passes under the old scope and the new `top_k` |
| `acknowledged_durable` | `AcknowledgedIsDurable` | the daemon's exit cancels the pending persist |

## 4. Bounds, and why they suffice

Bounds are CONSTANTS marked "bound" in the modules; they guard one action each or limit
the inputs of a function. One is a constraint of TLC, `MCBound` of `MCAdminApi`.

- `TokenStore`: two users are what rotate-all needs to be interrupted between users,
  five strings let both users be rotated by one request while the other one and single
  operations draw more, and two days let a token expire. Two roles, one of them
  a default, give a role to delete and one that cannot be. A period of 3 is longer than
  `MaxPeriod` (2), and from day 2 on its end is later than `LastDate` (4), so both limits
  of dates are met. The theorems hold without any of these bounds.
- `Persistence`: two timers at once are one that has fired and a newer one whose field
  the older callback clears; a timer that is done is used again. Two changes are one in
  the older and one in the newer snapshot, and a start that misses a file schedules one
  more persist. The theorems hold for any number.
- `RateLimiter`: with a limit of two and three requests one can be delayed while two
  others fill the window; ten ticks are a window of eight and what follows it. With
  words of five bits the numbers up to 50 saturate, wrap to a negative window and wrap
  round to a positive one; as written, 2 seconds and 10 seconds both become this window
  of 8 ticks. The theorems hold for any width.
- `VaultRPC`: two strings of one user are needed for a rotation, three calls exceed the
  larger limit of two, and two updates make a limiter stale twice. The role starts with a
  limit of one or with one that does not parse, and each method is in its scope before
  or after an update.
- `Retrieval`: two shards with two scores of two values have ties within a shard and
  across shards, empty shards, a missing index, an index equal to the other's position;
  k goes from 0 to one more than there are scores. Three envelopes put a failing one
  first, last or between.
- `AdminApi`: with two commands everything is explored: two successful updates of
  different fields of one role, a rotate-all and a revocation in its middle, two writers,
  so that an older copy may land last, and two restarts, so that what was lost and what
  was read back are written and loaded once more. Three commands (one, its retry, and one
  that meets them) are explored before the first write, with the requests that may do
  something to each other; and with one restart and writes in order, with those of them
  that are done in one visit to the store. The constraint `MCBound` says so. One name is
  cut to another's by a URL; a role is created with `top_k` 0, updated in two fields,
  and deleted. The theorems hold without these bounds, for any number of all of them
  together.
- `Daemon`: two daemons, since a third could do nothing to the port, the path or the key
  files that the second cannot; crashes and failures are not bounded. One change is
  enough, for what is asked of the tables is whether it gets to the files.
- `Config`: each setting is missing once, alone and with one half of the key pair
  under either TLS mode, the API key is given or not and in a good, a blank or a relative
  file or in none, the team secret in a loose file or in none. There are two directories,
  an absolute and a relative path for `--config` and for the socket, and a second
  configuration file in any other place.

## 5. Fairness

`Persistence`: goroutines that can run do, armed timers expire, and file operations end;
no operator need make a change or call `Flush`. `Daemon`: unary handlers end, the main
goroutine continues once it stops, and the grace period ends, by a timer; after `Stop`
streams end. A client need not close a stream, and an admin request need not end.
The other modules state no liveness: their operations end within their critical sections.

## 6. What is proved

Every safety property, invariant or action property, that a passing run checks is a
theorem `Spec => []P` or `Spec => [][A]_vars`, and the refinement of `WriteBehind` is one
too (`RotationIsFaithful` and `ConversionErrsOpen` under an assumption named below). Each
`..._proofs` module proves its theorems from an inductive invariant, or from one
laid over another, with one lemma per action. The assumptions are the ASSUMEs of the
modules; TLC evaluates them in every run. They say of constants only what the code's types
say: numbers are numbers, `Nil` and the like are none of the values beside which they
stand, a configuration file has the fields that `Config` (config.go:27) has.

`TokenStore_proofs`, for any users, roles, files, admins and bounds: `TypeCorrect`,
`IndexesAgree`, `LimitersFollowRoles`, `RolesAreReferenced`, `RotateAllIsComplete`, and
`RotationIsFaithful`. `IInv` adds to the properties what they need of each other: that a
string in the maps has been drawn (so the next one is new), and that the users a
rotate-all has yet to visit are users. `RotationIsFaithful` assumes `DatedFiles`, that a
loaded token whose expiry parses has an issue date that does: without one `RotateToken`
(store.go:264) issues a token that never expires. `IndexAgreement` is inductive only
together with the freshness of strings: two tokens of different users with one string
would make a revocation of one break the other.

`Persistence_proofs`, for any timers, admins, number of changes, crashes and failures:
`TypeCorrect`, `ChangesArePending` (`NoLostChange`), `QuiescentDiskHolds`,
`RolesReachDiskFirst`, `ClosedStoreDrains`, and `Implementation`: every step is one of
`WriteBehind` or a stutter. `IInv` has, besides types and
`NoLostChange`: `ClosedByShutdown` and `DownIsIdle` (where processes can be in which
phase of the daemon), `CallerInFlush` (the `Caller` writes only within `Flush`), and
`DataInv`, on executions where no two writes overlapped and none failed: one writer at a
time (`OneWriter`), its snapshot is the latest and the files are what it has written so
far (`CurrentSnapshot`), contents grow (`RolesGrow`), and the basis of a token
content is never newer than the roles beside it (`BasisKept`). Without the last two
the step that renames the tokens file could not be shown to find the right roles file.

`RateLimiter_proofs`, for any requests, limit, window, delay, word and length of run:
`TypeCorrect`, `WindowBounded`, `AdviceSuffices`, and `ConversionErrsOpen`, which assumes a
limit below the largest int. The idea is `Remembered`: what was admitted in the last
`Window - MaxDelay` ticks is still among the time stamps, since a stamp that `IsAllowed`
drops is older than the window of a reading that is at most `MaxDelay` old; and the
stamps are never more than the limit. For advice, `AdviceHolds` counts the stamps that
would still block a second after it has run out: they leave out at least the stamp the
advice was computed from, and no step but an admission adds one.

`VaultRPC_proofs`, for any handlers, strings, users, terms, calls and updates:
`TypeCorrect`, `OwnerIsNamed` (`NamesTheOwner`) and `VerdictsAreRecent`
(`JudgedSinceFound`). `IInv` relates the role to the end of its history (`RoleTraced`) and
says of each request what it has found (`Sound`). A scope that is torn while it is read
is that of the entry before the last; it counts as recent because no lookup happens
during an update, so every request found its token before the last entry was written.

`QuotasHold` (`QuotaPerLimiter`: a user is admitted one limit the role has had, one more
for each time a change dropped its limiter, and another for each of those that emptied it
too) counts. The state does not say whose a limiter is once the store has dropped it
while a handler still holds it, nor what it admitted before it was emptied. So the
invariant `Counted` says that two tables exist (`Accounts`), one of owners and one of the
admissions that an emptying has made the limiter forget, which agree with the store and
with every handler that holds a limiter. Against them, `Tallied` has for each user: its
admissions, each a limiter with a place in its count, are as many as were counted; its
limiters are no more than were dropped, and one if it has one now; and those of them that
were emptied are no more than `removals`. A limiter is emptied once at most, since it is
dropped at the same moment, so it forgets no more than its limit. Each limit is one that
the role has had (`WithinLimits`), so by the cardinality of a product the bound follows.
`Tallied` is what an admission through a dropped limiter keeps, for it counts on that
limiter and adds none; the property itself is not inductive, since it does not know how
full the limiters are.

`Retrieval_proofs`, for any scores, shards, rows, indexes, k, envelopes and length of
lists: `SortingIsSelection` (`SelectsNLargest`), `AnswersNamePlaces`
(`NamesTruePlaces`) and `ListsOpenAsAWhole` (`OpensAllOrNothing`), from which
`VaultRPC_proofs` has `TopKIsSelected`, `PlacesAreNamed` and `ListsAreWhole`. These are about
recursive functions. The library's induction theorems cannot be used here, so the induction
is over a set: `Least` (a set of numbers has a least one, from the well-foundedness of
Nat), from it `UpTo` (a set that has 0, and with a number the next, has all up to N), and
`Run` (steps on a set have a run, so a recursive function of the kind used here is what
its equation says). With these, `RemainingAreSorted` says that what is left after n
selections is what comes after the n-th place of the sort, which needs that `Before` is a
strict total order (`BeforeOrders`, where ties are decided); `FlatPlaces` that
flattening loses, invents and repeats no entry; and `OpenedSoFarIs` what the loop over
envelopes has made after n of them.

`AdminApi_proofs`, for any commands, requests, users, roles and writers, any number of
stops, and writes that overlap and fail: `Typing`, `OldStringsStayGone`, `SuccessShowsAll`
(`UnshownIsKnown`), `ToldLasts` (`ToldHolds`) and `OrphansOnlyRevoked`. The handlers
are first reduced to what one step may do to the strings (`Work`: what it draws it draws
once and puts in force, what it removes it was to remove) and to the roles. Then
invariants are laid one over the other:

- `Base`: types, and how far each command and its handler are together (`Stage`).
- `AllKnown`: whoever drew a string that is anywhere (in the tables, in any copy, in the
  files, in what a command had seen) has been sent, will not draw it again, and will tell
  of it if it succeeds. This is the freshness of strings; without it a restart could bring
  back a string that is drawn a second time.
- `AllLasting`: of each command whose effect is in the tables, in a copy, or in the files,
  the strings it removed are not there, and the ones it drew are, unless another command
  asked otherwise. The property speaks of the tables only and is not inductive: a restart
  makes tables of files, and files are made of copies. While all tokens are being rotated
  it speaks of the users that are done.
- `RolesHeld`: the same of the fields of roles, where a `top_k` of 0 may read as 5 once
  there was a stop.
- `Orphans`: while writes are in order, what is in the files or on its way is still in the
  tables unless it was revoked, so roles that are written later cover tokens that were
  written earlier. It is false, as the property is, of copies that overlap: an older
  one may put its roles beside the tokens of a newer one.

`Daemon_proofs`, for any daemons, calls, requests, crashes and failures: `TypeCorrect`,
`ResourcesOutliveCalls` (`CallsKeepResources`), `BundlesAreWhole`
(`BundleOfOneGeneration`) and `ServingKeepsSocket` (`SocketKept`). `IInv` says what is open in
each phase (`OpenInOrder`), in which phases calls run (`CallsWhileServing`), who may
hold the port (`PortHeld`: a second start gets no further while a daemon serves, which is
why the socket is safe), and that who writes keys found none and is alone
(`WritersAlone`). `ClientsFindTheDaemon` comes from
`Config_proofs`, where it is shown of the resolution itself, for any files, flags,
directories, paths and secrets, as far as the paths are absolute or the directory is the
daemon's.

Only model-checked: liveness (`ChangesAreTaken`, `CallsReturn`, `StopEnds`), which needs
fairness and ENABLED and is beyond TLAPS. The properties of the runs that show a
disagreement are false of the code and have no theorem.

## 7. Plan

Done: the modules above. Next, in this order:

1. `DurableStore`: `TokenStore` composed with `Persistence`, so that the timers and the
   locks decide which copy of the maps a restart loads.
2. `Admission`: the limiters of `VaultRPC` replaced by `RateLimiter`, with the quota in
   a window instead of one over all time.
3. An abstract key-value store that `AdminApi` implements, with a command's effect at one
   moment between its sending and its answer.

## 8. What is not modelled

- Routes and commands that only read: health, status, lists, logs, version. What a list
  shows may mix two states of a role, since `roleJSON` reads it after the unlock; the
  hazard is listed without a property.
- Cryptography (key derivation and AES-CTR in `crypto/metadata.go`, the CKKS decryptor of
  the SDK): functions without state whose correctness is that of their libraries.
  Handlers see a text, garbage under a wrong key, or a failure. `EncryptMetadata` has no
  caller in the daemon.
- The cloud behind `EnsureVault`: its calls are idempotent, fail or succeed.
- The units of `parseDuration`, and encodings of text: a plaintext that is no UTF-8 fails
  only in the encoder of gRPC.
- Names with '#', '?' or '/' are cut in `AdminApi` as the code cuts them, but nothing is
  claimed of the commands that were given them.
- Token files edited by hand so that a user or a string occurs twice.
- `Redact`, wording of errors, layout of log lines, rotation of log files, TLS, modes
  of the audit log. Requests that the interceptor rejects reach no handler and no log.
- `pkg/vaultpb`: generated. `install.sh`, `scripts/`, `deployment/`, `ci/`: run once, to
  set a machine up.
- That random token strings may collide, and clocks that run backwards.
