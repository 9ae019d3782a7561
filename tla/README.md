# Verification of rest-rego

rest-rego is a reverse proxy that authenticates a request, asks a Rego policy
whether it may pass, and hands it to a backend. This directory holds TLA+
modules of its concurrent parts, configurations that check them with TLC, and
proofs that TLAPS checks. `PROJECT.json` lists components, runs, mutants, the
map from definitions to source lines, findings, hazards and theorems.

## The system and its parts

| Part | State | Operations | What makes it hard | Module |
|------|-------|------------|--------------------|--------|
| File cache (`pkg/filecache`) | cached files with a dirty flag, debounce timers | `Watch`, watcher goroutine, `invalidate`, `Get`, `queue.add`, the timers' functions | events against reads, `timer.Stop` against a running function, lost events, failed reads | FileCache |
| Policy cache (`pkg/regocache`) | compiled policies | `GetRego` (requests and callbacks), `Validate`, `Ready` | two locks taken one after the other, a flag that only one reader gets | RegoCache |
| Provider contract (`internal/types`) | one answer per request | `Authenticate` | what the router relies on | AuthProvider |
| Basic authentication (`internal/basicauth`) | credential map, verdict cache | `Authenticate`, `verifyPassword`, watcher goroutine | no common lock for map and cache, watch on a file that may be replaced | BasicAuth |
| JWT authentication (`internal/jwtsupport`) | parallel lists of issuers and key sets, key cache | `LoadWellKnowns`, `LoadJWKS`, `PostFetch`, `Authenticate` | partial failure while loading, several issuers and one error, rotation and outages | JWT |
| Azure authentication (`internal/azure`) | cache of applications | `Authenticate`, `getApp` | overlapping lookups, cached results that age | Azure |
| Anonymous access (`internal/noauth`) | none | `New`, `Authenticate` | nothing | Application, Proxy |
| Request pipeline (`internal/router`, `internal/types`) | one `Info` per request, headers | the five handlers, `ServeHTTP` | many early returns, order of the handlers, panics | Proxy |
| Metrics (`internal/metrics`) | counters | `Wrap`, counters of blocked headers | counted after the fact, not after a panic | Proxy |
| Application (`internal/application`, `cmd`) | the parts above, two servers | `New`, `Run`, `Close`, management handlers | order of start and stop, signals at any time, parts that fail silently | Application |
| Configuration (`internal/config`) | constants | `New`, checks of time-outs | read once, every check ends the process | Application |

A request goes through the pipeline, which calls the authentication provider
and then `RegoCache.Validate`. `GetRego` reads the text from the file cache and
compiles it if it is told that it changed. The file cache's timers call
`GetRego` too, through `Callback`. `main` reads the configuration, starts the
management server, makes the caches, the provider and the proxy, and waits for a
signal.

## Modules

**FileCache** models `pkg/filecache`. An action is a critical section of `c.mtx`
or `q.mutex`. `fileData` and `dirty` are `c.files`. A timer is counted in
`running` until it expires, in `firing` until its function has the mutex and in
`calling` until its callback has called `Get`; `tracked` says that `q.pending`
holds a timer that still runs, so that `add` can stop it. `prefetch` counts the
goroutines of `go c.Get(name)`. `WatcherEvent` is one turn of the goroutine in
`Watch`, with `shouldProcess` and `invalidate`. The folder (`disk`,
`unreadable`), its event queue (`events`) and overflow (`lost`) are the
environment: edits, removals, changes of permissions, and the update of a
ConfigMap volume, which changes what the links lead to and reports `..data`
only.

**RegoCache** extends FileCache with `pkg/regocache`. `GetRego` is two actions,
since it calls `Get` before it takes `r.mtx`: `RequestGet` or `ReloadGet`, then
`Load`. A compiled policy is represented by the text it was compiled from.
Contents outside `Valid` stand for all three ways to fail: expansion, no package,
compilation. Three history variables serve the properties. `since` collects the
contents the file had since a request began, or everything if the watcher was
busy when it began. `spoilt` holds the names whose policy in `r.regos` is out of
step with the file cache: the last to change it was a `GetRego` whose text had been
replaced meanwhile (`StoresOld`), or the updated flag of the last change went to a
`go c.Get` that has no use for it, unless the flag is not needed (`NeedsNoFlag`).
The next `GetRego` that compiles the current text takes the name out again
(`StoresNew`). `misled` holds the requests that were given the policy they found
while it was out of step, or while another goroutine with the updated flag of the
very same text had yet to compile it (`Misleads`).

**AuthProvider** is the abstract specification of a provider. The authority
behind it (a file, issuers, Graph) vouches for credentials. A request is answered
in one step: with a user only if the credential was vouched for, as anonymous only
if it presented none or in permissive mode, else with one of the two errors.

**BasicAuth** models `internal/basicauth`. A hash is represented by the password
it matches. Loading the map, reading the cache, comparing and writing the cache
are separate steps of a request; taking an event, loading, storing and clearing
are separate steps of the watcher. `unseen` records a change that raised no
event, `everValid` the pairs that ever were valid, which is what the file has
vouched for.

**JWT** models `internal/jwtsupport`. `New` goes through the two lists one entry
per step, so that servers may go down and come back between entries. An element of
`wellknownList` or `JWKS` is represented by its issuer, and `TryIssuer` looks up
static keys by index, as the code does; an index past the end panics. A key is an
identity and an algorithm. `PostFetch` is modelled as it behaves: the algorithms
are set on one key object in turn, so the last one stays. 401 and 503 are told apart
as in the code, by the words of the last error: `Worded` holds the tokens of which
jwt.Parse may quote a text that has one of these words. `Refresh` is jwk.Cache in
the background. `able` records which issuers could verify the request's token all
the time, `outage` that a listed server was down meanwhile.

**Azure** models `internal/azure`. Reading the cache, asking Graph and writing the
cache are separate steps. Time is counted in ticks; the model assumes that a reply
of Graph is stored within the tick in which Graph made it. A refusal of Graph is
taken to be a JSON body that is not a flat map of strings, which is what its errors
look like. `since` records how long ago Graph said what of a token.

**Proxy** models the chain of handlers in `internal/router`, `NewInfo` of
`internal/types` and the counters of `internal/metrics`. The provider and the
policy may return anything their types allow, or panic, so it covers every
provider. Headers are told apart by who set them. `Serve` includes what
ReverseProxy does behind the handlers: a header that the client's Connection header
names is removed, also one that the policy has set. A panic ends the request without
a count. The missing-context answers of the handlers are left out: `WrapHandler`
always runs before them.

**Service** composes Proxy with AuthProvider: a call of `Authenticate` is one step
of both, every other handler leaves the provider alone, and the authority may vouch
for more credentials at any time. BasicAuth, JWT and Azure are each shown to
implement AuthProvider; that Service therefore speaks of the proxy with any of them
is the usual argument of composition, with `presented` in the role of the
credential that arrived, and not itself a theorem here. `noauth` is the case in
which no request presents a credential of the provider's kind.

**Application** models `cmd/main.go`, `internal/application`, the checks of
`internal/config`, and start and stop of the proxy's server. `pc` is where main is;
the servers' goroutines, requests, probes, signals and changes of policies run
beside it. Every way the process can end has a name in `exit`: `failed` (a check or
a constructor), `killed` (a signal before `Notify`), `closed` (after `Close`),
`not_ready` (`os.Exit` after `Run` returned false) and `raced` (the runtime noticed
that `Info` ranges over a map that is being written). A provider that is a nil
pointer is `loaded = FALSE`. The policies are abstracted to the answer of `Ready`,
and a proxied request to being in flight, for as long as it likes.

**\*Proofs** modules hold the theorems; the refinement of JWT has a module of
its own, JWTRefinementProofs, to keep both short enough for tlapm. **MC\*** modules instantiate the
specifications for TLC. Definitions whose comment begins with *Mutant* or
*Mutation* are wrong variants that show that a property can fail; no specification
uses them.

## Runs

Runs that pass:

| Run | Shows |
|-----|-------|
| rego | the file cache: a stale entry is about to be invalidated (`FilesCoherent`), a cache with nothing left to do holds the files as they are (`CacheSettled`), and it gets there (`CacheConverges`). A request reads a text the file had since it began (`FreshData`), is not decided by a removed policy (`DeletedNotServed`), and fails only if the file was missing or invalid (`NoSpuriousFailure`). It is decided by a policy the file held since it began, unless it was misled (`PolicyCurrent`); with nothing left to do, `r.regos` holds the policy of a valid file and none of a missing one, unless it is spoilt (`PolicySettled`); as long as it is not, `/readyz` follows the policy file in the end (`ReadyConverges`) |
| basicauth | the contract of AuthProvider (`ImplementsAuthProvider`): only pairs that were valid are accepted; a removed user is rejected; the credentials follow the file as far as its watch sees the changes, which a replaced file ends (`CredsCurrent`); stale verdicts expire |
| jwt | the contract of AuthProvider; a token whose issuer can verify it is accepted whatever happens to the other issuers (`ValidTokenAccepted`, while the two lists agree); 503 only in an outage, or for a token of `Worded` (`UnavailableOnlyInOutage`) |
| azure | the contract of AuthProvider; an error of Graph makes nobody anonymous (`FailsClosed`); what Graph said is used for a TTL at most, and for its own token only (`RecentlyVouched`) |
| proxy | the router with a provider that keeps the contract (Service): nobody reaches the policy or the backend without a credential that was vouched for, unless as anonymous, and a refusal is 401 or 503 (`NobodyUnvouched`); only allowed requests reach the backend; of the X-Restrego headers it gets those of the policy alone, less the ones that Connection names (`HeadersFromPolicy`); the policy input is clean; every request is accounted for and answered once |
| application | the proxy serves with the one configured provider, a nil pointer in two named cases, and with time-outs (`ServesOnlyConfigured`); probes say ready only when signals are caught (`ReadyAfterStart`); who may cut off a request (`CutAccounted`); a signal ends the process, whatever the requests in flight do (`ShutdownTerminates`) |

Runs that show a disagreement between code and documentation (the findings):

| Run | Shows |
|-----|-------|
| overlap_stale | overlapping loads leave the older policy in use, with nothing left to do that would replace it |
| invalid_policy | a request fails for a new text that does not compile, although the previous policy is still there |
| basicauth_stale | a request that overlaps a reload caches a stale verdict |
| jwt_index | a key set that cannot be loaded shifts the ones after it, and tokens of a healthy issuer are refused |
| app_nil_provider | the proxy starts although no credentials could be loaded, or although `NO_AUTH` is combined with `PERMISSIVE_AUTH` |
| shutdown_30 | a shutdown may wait for more than 30 seconds: 30 for the management server, then 60 for the proxy |

Behaviour that is modelled, and shows up as a premise of a property instead of as
a run:

* the updated flag lost to `go c.Get` (`spoilt`), and a removed policy that a slow
  `GetRego` puts back, after which `/readyz` stays ready (`spoilt` in
  `ReadyConverges`);
* symbolic links that are not reloaded (`Watched` in the FileCache properties);
* an htpasswd file that is replaced is not reloaded, nor are later changes of it
  (`unseen` in `CredsCurrent`), though `docs/BASIC-AUTH.md:207` says "reloads
  credentials atomically on every write or replace" and `:182` that a file from a
  Kubernetes Secret is picked up;
* an application that Graph does not know ends as 503 (`GraphError`), where
  `docs/PERMISSIVE.md:51` has "`401 Unauthorized`", or null auth in permissive mode,
  and `docs/AZURE.md:71` has unrecognized tokens pass as anonymous; `FailsClosed`
  leaves that case open;
* an error text that happens to have one of the words "failed to fetch",
  "connection" or "timeout" gives 503 without an outage (`Worded`);
* a token of another supported algorithm than the last is refused for a key that
  names none: `ValidTokenAccepted` speaks of the keys as `PostFetch` leaves them;
* a missing policy that makes `Validate` panic (a verdict of Proxy);
* a request without credentials goes on as anonymous in strict mode too, as the table
  of `docs/PERMISSIVE.md:48` says and its line 17 does not;
* an empty text of the policy's result sets no header, where `docs/PERMISSIVE.md:130`
  and `:168` show an empty one; `allow` and `url` are results like the others, where
  `:88` leaves them out (`Sources` in `HeadersFromPolicy`);
* an informational status that is counted instead of the final one (103 in
  `AnsweredOnce`);
* requests that `os.Exit` cuts off when the policy is missing as the signal comes
  (`not_ready` in `CutAccounted`), and a process that reports ready although its
  listener failed.

### Bounds

Every bound is a constant: numbers of edits, removals, permission changes and
writes, goroutines at once, queue length. The rego run has one edit, one removal and
one change of permissions: a removal followed by an edit gives re-creation, the
events of the three overflow a queue of two, and each may come during a reload. Two
loaders, one of which may serve a request (`Requester`), give every overlap of a
request with a callback and of two callbacks; two requests at once are covered by
the proofs. overlap_stale has two edits. One regular file and one link suffice for
the file cache, whose entries are independent of each other but for the queue. The basicauth run has one request
at a time next to the watcher, and two users, so that one can be removed while the
file stays loadable; overlapping requests are covered by the proofs. The jwt run
has two requests and three issuers: one in files, which may fail to load, one
that rotates through key sets with one and two keys, with and without an
algorithm, and one whose key set is never loaded; one of the tokens is in `Worded`;
jwt_index puts the server first. The azure run has two requests, two tokens of one application, one of
another tenant, and entries that live two ticks. The proxy run has two requests
that are interchangeable, one credential that may or may not be vouched for yet,
and two result keys that share a header. The application
run has two requests, time-outs at and next to their bounds, every set of
providers, and deadlines of one and two ticks of 30 seconds. `Startup` says which
contents a file may have at the start. Symmetry is used in proxy, which checks no liveness.

Deadlock is checked in azure alone. Elsewhere there may be nothing left to do:
once the bounds are used up, the cache is closed, or the process has ended.

### Fairness

Weak fairness of the goroutines and timers: the Go scheduler runs what can run,
and a timer fires. The callbacks of RegoCache have strong fairness, because in
the code each has a goroutine of its own, while in the model it competes with
requests for a member of `Loader`. An entry of the verdict cache has a TTL, which
is the fairness of `CacheExpire`. In Application main runs and time passes, and
nothing else is fair: requests may stall for ever, since no time-out bounds the body
of a response. Nothing is assumed of the owner of the files, of clients, of issuers,
of Graph or of the backend.

## Proofs

Theorems hold for every value of the constants that satisfies the named `ASSUME`
of the module: any number of files, goroutines, users, issuers, requests and
changes.

* **FileCache.** `FCTypeCorrect` needs `TrackedRuns`, that a timer held by
  `q.pending` runs: else `add`, which swaps one timer for another, could make the
  count negative. `DirtyScheduledTheorem` follows from the same invariant, since
  only `Get` ends the chain timer, function, callback, and `Get` cleans the entry
  or fails. `CacheSettledTheorem` joins the two to an invariant about missing
  entries: a file that is there and has no entry has an event or a callback on its
  way, or was lost or could not be read. `FilesCoherentTheorem` rests on the order of the event queue: an event
  leaves it only when the entry becomes dirty, is removed, or is missing.
* **RegoCache.** `RegoImplementsFileCache` shows that each step is a step of
  FileCache or leaves it alone, so FileCache's theorems carry over. The
  theorems about requests take a policy name that is watched (`RequestName \in
  Watched`: a regular file that matches). The invariant relates what a request got
  to `since`: a clean entry is the file's content unless an event is pending, and
  if one became pending since the request began, the new content is in `since`.
  `PolicyCurrentTheorem` and `PolicySettledTheorem`, for any number of goroutines,
  add `CurrentInv`: as long as the name is not spoilt, the compiled policy is that of
  the cached text, or there is a goroutine with the updated flag of that text, or a
  callback that will compile or delete (`InStep`), and a request that was not told
  that its text is new finds a policy it may use, or another goroutine is on its way
  with the flag of that text (`Led`). The two overlaps that break this for good, and the one that
  breaks it for a request alone, are exactly what `spoilt` and `misled` record.
* **BasicAuth.** The invariant says what each place in `Authenticate` knows: the
  hash it carries was in a map in effect, and a cached acceptance is about a pair
  that was valid. The history of valid pairs only grows, so no interleaving can
  undo this. `RefinementTheorem` maps the last step of a request to the one step of
  AuthProvider and every other step to a stutter or to `Vouch`.
  `CredsCurrentTheorem` follows the file through event, load and store.
* **JWT.** Every key in use, static or cached, is what `PostFetch` made of a set
  its issuer published, so a token it verifies was vouched for, whatever index it
  was found at: this gives `RefinementTheorem`. `ValidTokenTheorem` uses that an
  issuer which is able all the time is not yet passed in the loop, or has accepted
  the token. `UnavailableTheorem` uses that the last error reads like an outage only
  if a server was down or the token is in `Worded`. `IndependenceTheorem` drops the premise of `ValidTokenAccepted`
  about the lists where the code does: when no key set was skipped, or all issuers
  are servers. It needs where each issuer stands in the two lists while `New` goes
  through them (`Places`). What jwt_index shows is thus confined to a key set that
  failed to load together with an issuer whose keys are in a file.
* **Azure.** Its type invariant includes that an entry leaves the cache by the TTL.
  An entry's age is at least the time since Graph gave its data for the token in its
  key (`RecentTheorem`), and its key holds the whole token (`RefinementTheorem`).
  `FailsClosedTheorem` goes through the steps that answer a request.
* **Proxy.** Each handler relies on what the earlier ones established; one part of
  the invariant is about headers, one about who may pass, one about what was
  answered. A step of one request leaves the others alone. `RequestsAccounted`
  is a sum over all requests: each step moves one request from one term to another.
* **Service.** `ServiceImplementsProxy` and `ServiceKeepsContract` show the two
  projections: each step is a step of Proxy, and a step of AuthProvider, or leaves
  it alone. `NobodyUnvouchedTheorem` then combines what the handlers do after an
  error with what the contract says of an answer; the set of what was vouched for
  only grows, so a request that passed stays covered.
* **Application.** The invariant says what main has done at each `pc` (`Ordered`),
  that a request left behind by the router's Shutdown has outlasted it (`Proxied`),
  and how much of the deadlines is used up (`Timed`, which gives the sum of both as
  the bound of a shutdown); `Made` says that a provider is as its `New` left it. Two theorems are the safety
  half of `ShutdownTerminates`: from a signal on, main or the clock has a step to
  take (`NeverStuckTheorem`), and every such step lowers a count that nothing else
  raises (`ShutdownProgress`). What is left to TLC is that fairness makes them
  take it.

Every invariant and every refinement that a run checks is proved. Checked by TLC
alone are the liveness properties (`CacheConverges` of both modules,
`ReadyConverges`, `ShutdownTerminates`), which need fairness and with it ENABLED,
out of reach of these provers, and the six violations, each of which is a
counterexample.

## Not modelled

* Data, by choice: the text of policies and their evaluation by OPA, bcrypt,
  signatures and claims of tokens, formats of files, URLs, flags and log lines.
* Histograms, labels and registration of metrics, the version string, pprof and the
  programs of the end-to-end tests: they have no state the rest depends on.
* The time-outs of connections (read, write, idle, backend): that they are set is
  checked, what net/http does with them is not.
* A race in the Go sense on `app.regos`, written by `New` while probes read it, is
  modelled as an atomic pointer, which it is on the platforms Go supports.
* The composition of all parts in one specification is out of TLC's reach; the
  parts meet at `Ready`, at the contract of AuthProvider (Service) and at the verdict
  of the policy, and each module takes any behaviour of its neighbours there.
