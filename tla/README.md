# go-api-boot: specifications, model checking and proofs

go-api-boot is a Go library that assembles a service: a fluent Builder wires
dependencies and opens listeners, and the `BootServer` it returns runs a gRPC
server, an HTTP server (with gRPC-Web, REST routes and TLS) and a Temporal
worker until it is told to stop. Around it are an ODM for MongoDB, cloud
providers for storage and secrets, authentication and configuration helpers.

This directory holds TLA+ modules of its stateful and concurrent parts, the TLC
configurations that check them on small instances, and TLAPS proofs of the most
important properties for every instance. Paths below are relative to the
repository (`src/` here).

## 1. Inventory

| Component | Source | State | Operations | Hard behaviour | Correct when | Modules |
|---|---|---|---|---|---|---|
| Server life cycle | `server/server.go` | errgroup and its context, two servers, two listeners, Temporal client and worker | `Serve`, `Shutdown` | up to three goroutines and a concurrent `Shutdown`, failures, deadlines, signals | nothing is left behind when `Serve` returns; it returns; it reports the cause; no call is lost | `BootServer`, `DrainedService`, `BootServerRefinement`, `BootServerProofs` |
| SSL providers | `server/ssl_provider.go`, `server/ssl_manager.go` | challenge listener and its goroutine, certificate manager | `Configure`, `Run` | `Run` blocks the HTTP goroutine; nobody joins the challenge server's | HTTPS is served; the challenge server goes away | `BootServer` (Run), `Builder` (Configure) |
| Certificate cache and object store | `server/ssl_cloud_cache.go`, `cloud/azure.go`, `cloud/gcp.go` | bucket, temporary files, lazily made clients | `Get`, `Put`, `DownloadFile`, `UploadBuffer`, `EnsureBucket` | concurrent downloads through one temporary file, lazy clients read without a lock, a miss reported as an error; a bucket looked up and then made | a certificate read is one that was written; replicas share one; a first one can be had; a bucket is made once; no client is called half made | `CertificateCache`, `CertificateCacheProofs`, `Provisioning` (EnsureBucket) |
| Retry with back-off | `server/util.go` | limiter, attempt counter | `RetryWithExponentialBackoff` | a token bucket whose rate changes between attempts, contexts that end during a wait | attempts are counted, spaced, and stopped | `Retry`, `RetryProofs` |
| Dependency injection | `server/container.go`, `server/builder.go` | singletons, providers | `resolve`, `invokeFactory` | recursion over an arbitrary graph with memoisation | one instance per type, shared; an error only when something cannot be had | `Container`, run by `Builder`, `BuilderProofs` |
| Builder | `server/builder.go` | options, registrations, what is open | the setters, `Build` | errors and panics half way, between the factories and after; a second `Build` | a server only when all factories had their arguments; registered routes are served; one server per Builder; `Build` returns | `Builder`, over `Container`, `BuilderProofs` |
| gRPC-Web proxy | `server/web_proxy*.go`, `server/headers.go` | response headers, what was written | `ServeHTTP`, `Write`, `Flush`, `finishRequest` | order of headers, payload, flushes and trailers | every byte and every metadata reaches the client, once and in its place | `WebProxy`, `WebProxyProofs` |
| REST routing | `server/rest_controller.go`, `server/builder.go` | the mux's patterns | registration, `methodFilterHandler` | patterns that are malformed or conflict panic | a server that is built serves each route with its handler | `Builder` (registration), `BuilderProofs` |
| Stream buffering | `server/util.go` | buffer, size | `BufferGrpcStream` | limits at the boundary | never more than the limit is kept | not modelled: one sequential loop over one stream |
| ODM collection | `odm/odm_collection.go` | documents in MongoDB | `Save`, `DeleteByID`, `FindOneByID`, other reads | `Save` counts, then writes; callers find, change and save; every call is a goroutine | stamps tell creation from update; a Save changes what it was asked to | `OdmCollection`, `OdmCollectionProofs` |
| Index management | `odm/ensure_index.go`, `odm/index_spec.go` | a collection and its indexes in MongoDB | `EnsureIndexes` | stops half way; several replicas at once, in a rolling deployment with different models | a replica that is up has its indexes; starts do not make each other fail; repeating one completes it | `Provisioning`, `ProvisioningProofs` |
| Models, keys, MongoDB client | `odm/db_model.go`, `odm/client.go` | none | `HashedKey`, `NewModelFrom`, `ProvideMongoClient` | joined fields and a truncated hash collide | equal keys mean equal fields | `Provisioning` (the client); the hash is not modelled |
| Authentication | `auth/auth.go` | the signing secret in the environment | two middlewares, `GetToken` | signer and verifier are processes that loaded the secret at different times | processes accept each other's tokens, and none of an older secret, but for a cause | `Secrets`, `SecretsProofs` |
| Secrets and configuration | `dotenv/`, `config/`, `LoadSecretsIntoEnv` of `cloud/` | the process environment | `LoadEnv`, `LoadConfig`, `LoadSecretsIntoEnv` | three sources write one environment; secrets that cannot be read are skipped; a rotation between reads and after them | a process that read its secrets has the vault's | `Secrets`, `SecretsProofs` |
| Embeddings, logger, CLI, test helpers | `embed/`, `logger/`, `cmd/`, `testutil/` | none | HTTP clients, output, scaffolding | none beyond I/O | | not modelled: I/O |

How they interact. A program configures a `Builder`; `Build` asks the container
for the arguments of every registered factory, opens the listeners, registers
services and routes, and returns a `BootServer`. `Serve` runs its servers; with
the ACME provider, the HTTP goroutine first prefetches a certificate with
`RetryWithExponentialBackoff`, through autocert and the certificate cache, from
a bucket that all replicas share. A browser's call goes from the HTTP server
through the gRPC-Web proxy to the same `grpc.Server`. Handlers use the ODM, whose
every call is a goroutine of its own, and the Temporal client, which `Serve`
closes at its end. So the components meet in few places, and the modules are
composed where the meeting matters: the SSL providers' `Run` is part of
`BootServer`, the cloud's download part of `CertificateCache`, the mux of `Build`
part of `WebProxy`, and `Builder` extends `Container`, whose steps are those of the
factories `Build` invokes. Before any of it, `main` connects to MongoDB and ensures
the bucket and the indexes (`Provisioning`), in every replica. `Retry` is kept apart from its callers, who only see that
it ends (`Terminates`); `BootServer` and `CertificateCache` use that and nothing
else of it.

## 2. Modules

Every module's comments name the code it stands for. `MC*` modules hold only
the values of constants for TLC; `*Proofs` modules hold theorems. A definition
whose comment begins with "Wrong:" is a variant of the action below it with a
plausible bug; no specification uses it. It is there to show that the property
that watches the action would notice.

### BootServer: `Serve` and `Shutdown`

`pc` says where the caller of `Serve` and the caller of `Shutdown` stand: the
phases `grpcClose` to `httpWait` are the inside of `GracefulStop` and
`http.Server.Shutdown`, split wherever another goroutine can tell the difference
(a listener is closed, connections are told to drain, the last call has ended).
`job` says where each goroutine of the errgroup stands, `ret` what it returned,
`grpErr` the first error; `GroupDone` is the group's context. `lis` are the open
listeners, `rpc` and `req` the calls of clients, `client` the Temporal client.
An action is one step between two such points: `Launch` is `Serve` up to
`<-ctx.Done()`, `BeginStop` its return, `Stop` the two stops, `CloseClient` and
`Return` the end; `HttpNoSSL`, `DirCacheRun`, `AcmeListen` ... `AcmeStopped` are the
three providers' `Run`. The challenge server serves in a goroutine of its own, `chal`,
which nothing joins: `AcmeListen` starts it, `AcmeClose` is `Run`'s call of its
`Shutdown`, which may come before the goroutine has begun (`ChallengeStart`) and so before
there is a listener to close, and `AcmeStopped` is the end of that call, which its five
seconds may cut short. A request may be one that the gRPC-Web proxy hands to
`grpc.Server.ServeHTTP` (`BeginProxied`): where `GracefulStop` meets such a call, grpc-go
panics (`GrpcDrainPanics`) and the process ends. grpc-go, net/http, errgroup and the Temporal worker are
external: each is the calls the code makes to it, with the results they may
have. `Shutdown` is called once, at any time after the server is built.

`DrainedService` is what a caller of `Serve` is promised: a service accepts
calls while open, completes each one, and terminates once, with an error, when
no call is left. `BootServerRefinement` maps `BootServer` to it: the service is
open until connections are told to drain, and terminated when `Serve` has
returned.

### Retry: `RetryWithExponentialBackoff`

Time is a clock in ticks. The limiter of burst one is its interval `every` and
its `credit` in ticks; `SetLimit` after a failure doubles both, so half a token
stays half a token. A context is never done, cancelled at a time, or has a
deadline: the three kinds `limiter.Wait` treats differently (a deadline that
comes before the wait would be over fails it at once). Where the end of the wait
and the end of the context coincide both outcomes are allowed.

### Container: `resolve`, `invokeFactory`

The recursion of `resolve` is a stack of frames, each the parameter list being
filled. The graph (`providers`, `provided`, `factories`) never changes, and a
specification chooses it in `Init`, so one run is all graphs of the given types. A
cycle overflows the stack, here at `MaxDepth` frames. The module has actions and
no specification of its own: `Builder` says when they are taken. The reference the
results are compared with knows neither stack nor order: `Available` is the least set
closed under the providers, `Required` the least that demands what the factories and the
providers in it do.

### Builder: `Build`, over the container

`stage` is the step `Build` is at; each stage has its success and, where the
code has one, its error return or panic; `Panics` is a panic in what the program gave the
Builder, or of Temporal at a registration it does not accept. `mux` maps each pattern to what
serves it, a controller's route or a handler of Build's own; `http.ServeMux` is external: it
refuses patterns it cannot parse (`Malformed`), has already, or cannot tell from one it has
(`Overlapping`). In the stages `services`, `routes` and
`activities` the loops of `Build` invoke one factory after the other (`Due` is how
many have been called when a loop has none outstanding): a missing provider
ends `Build` wherever it is come upon (`FactoryFails`), be it with two listeners open
and the Temporal client dialled. A new container works on the Builder's own
maps (`NewContainer`), so singletons outlive a call, as do the Builder's
`options`, `open` listeners and Temporal `clients`. `Collect` is
the garbage collector, which closes a listener nobody refers to. Listening with
port `:0` always finds a port, listening with a number only when no earlier
call still holds it.

### OdmCollection: `Save`, `DeleteByID`, `FindOneByID`

Each call is a goroutine with one or two server calls. `Save` counts and then
upserts; its error from `Exists` is dropped (`CountError`). A server call takes
effect or not, and its reply may be an error either way; when the caller's context
ends it has its error at once while the write may still take effect (`Abandon`,
then `Update` or `Delete` from a late state). A member of `Edits` is a Save of a
model that `FindOneByID` returned (`CallFind`, `Find`) and whose caller changed some
fields: `model` has, for each field, the Save whose value it is, and `$set` writes
all of them (`Merge`), the unchanged ones too. In a fresh model the fields its caller
did not set are `Zero`, and `convertToBson` writes them as well: no model of the repository
has `omitempty`. Stamps and field values are the
name of the Save that wrote them: a clock has no part in the properties but to tell
the writers apart. `DeleteOne` has the same shape as `DeleteByID`, `FindOne` as
`FindOneByID`; the other reads change nothing, and nothing here uses their results.

### Provisioning: `ProvideMongoClient`, `EnsureBucket`, `EnsureIndexes`

`pc` is the call the start of every replica is at, in the order a program makes
them: the client (which pings), the bucket, the collection, and one `CreateMany`
per kind of index. A start that gets an error ends the process, as
README.md:270 does with `log.Fatalf`, and an orchestrator makes it again. Azure's
`EnsureBucket` creates and ignores that the container is there; GCP's asks for it first and
creates what it takes to be missing (`Attrs`, `AttrsMissing`, `Create`). `cfg`
chooses the cloud, the interfaces each replica's model implements and the indexes it
advertises by them, which of these another program's documents violate (`OtherSaves`), and
whether the error for a missing bucket contains the text `gcp.go:198` looks for. MongoDB,
Atlas and the stores are external: an index with the same name and definition is made again
without an error. Refused are another definition under a name that is taken, a classic index
under a second name, a unique index over documents that violate it (`Unbuildable`), and
an empty list (`EmptyList`), which `EnsureIndexes` sends for an interface that is implemented
without an index; of the other indexes of a refused call some may have been made. `Fault` is a call that fails,
with its effect, part of it, or none, or a process that dies at that point or when it
is up.

### CertificateCache: `Get`, `Put`, `DownloadFile`, `UploadBuffer`

Every replica has its prefetch; beside it there may be handlers of its challenge server,
which look for tokens in the same cache (`Challenges`), and an application goroutine that
downloads another object of the same base name (`Apps`). The shared file of a host
has two parts, written one after the other, so that a reader can find it empty,
half new and half old, or whole. Azure creates the file before the request, GCP
after. The lazy client is made under a `sync.Once`; `EnsureBlob` of Azure reads the
field outside of it, which is a data race on an interface of two words: a
reader may see a value that is not nil but whose data word is ("torn").
autocert is external: it returns what the cache has, orders on `ErrCacheMiss` or on
what it cannot parse or does not accept (`Accepted`; `Expire` is the end of the stored
certificate's days), and fails on any other error. Its renewals, which a timer makes weeks
later, are left out.

### WebProxy: one gRPC-Web request

`response` is the `webProxyResponse` together with the writers it wraps: its
header map, the wrapped map, what is committed to the wire, the base64 encoder's
`pending` bytes, net/http's `buffered` ones, and what the `client` has. The
writers (`Write`, `WriteHeader`, `Flush`, `PrepareHeaders`) are operators on it, and
the actions are the calls grpc-go's HTTP handler makes to them: header, message
(two writes, a flush), status and trailers, then `finishRequest`. Ranging over
a header map is a set of results, one for each order. A message is one entry
per byte, so that a byte left behind in the encoder is visible.

### Secrets: `LoadEnv`, `LoadConfig`, `LoadSecretsIntoEnv`, `GetToken`, the middlewares

`pc` follows each process of a service through the start that README.md:127-138
shows: the `.env` file over the exports, the section of `config.ini` that `ENV`
names by then, the vault that section names over both, then serving. Each of these may
fail, which the program ignores. Secrets are read one by one (`ReadSecret`), any
of them may be passed over (`SkipSecret`), and the listing may break off
(`ListFails`). The vault is external: `Rotate` makes a new version of the
signing secret at any time. A token is what it was signed with; `since` and
`partial` are history: the vault's version when a process began to list, and
whether it missed the secret. A process may stop at any point and start anew.

## 3. Runs

| Run | Bounds | Shows |
|---|---|---|
| `server` | one gRPC call, one HTTP request; every provider without a worker, a worker without SSL | nothing is left but what is named, the right error is returned, the client outlives the handlers, and `Serve` returns: `Serve` and `Shutdown` in every interleaving, with the refinement of `DrainedService` |
| `retry` | 4 attempts, intervals 2, 4, 8, 16, attempts of 0 to 9 ticks, contexts ending at 0 to 20 or never | spacing, total wait, termination |
| `builder` | one call of `Build` over all graphs of 3 types with at most 2 parameters, with 3 shapes of factories and a stack of 5; two calls over all settings, 10 lists of controllers and 4 graphs | one shared instance per type; a server only when everything required can be had; a server's mux has every route with its handler; a Builder yields one server at most; `Build` ends |
| `odm` | 3 Saves, 2 of them edits, 2 deletes of one id with two fields, with calls that fail and writes that come late | which stamps and fields can go wrong, and what it takes |
| `provisioning` | 3 replicas; of one version, with one that adds, changes or renames an index, implements an interface without one, or adds one that documents violate, or with one name for two kinds; both clouds; 1 fault | who is up has what it asked for; replicas and earlier starts make no start fail but for a cause; all come up once faults stop, where there is none |
| `certificates` | 2 replicas on one host or two, one with an application download, one with a challenge request, 2 attempts, both clouds, a certificate that may expire | files read are whole unless shared at the time; one certificate until it expires; a nil client only while another goroutine of the replica writes it; every prefetch ends |
| `secrets` | 2 processes, 2 versions of the secret, 2 secrets in the vault, 3 files, 3 kinds of exports, 1 token | a token is rejected, or accepted although its secret is an older one, only for a rotation since a process began to load, or a secret it could not read |
| `webproxy` | 2 messages of 0 to 2 bytes, 2 metadata names, every kind of request | bytes arrive at once and in order, metadata in its place, the content type as asked |

Why these bounds are enough. In `server`, two gRPC calls would only repeat
one: no action relates two calls, and the proofs cover any number. The
combination of a worker with SSL is left out because the worker takes part
only in `grp.Wait`; the proofs again cover all. In `retry`, the durations lie below,
at and above each interval, which are the cases of the limiter's cap. In `builder`, three types give the
diamond (two types needing a third, both needed by a factory), chains, self-loops
and cycles of two and three, and the stack of five is deeper than any path
without a cycle; two factories, of which one comes late in `Build`, meet what an earlier one left. A third call of `Build` meets no state a second one did not, and
the graphs of the second kind of input leave each of its outcomes in each loop. The lists of
controllers have a clash within one, between two and with each of Build's own patterns, by
repetition and by overlap, a malformed pattern, and a controller without routes.
In `odm`, a race needs a Save between the calls of another and a delete; the third
Save shows what a later write makes of it, and two edits can hold each other's
models; of two fields one is changed and one carried along. Two ids would not meet. In
`provisioning`, two replicas race and the third is of another version; a start is begun
again after a fault or a refusal any number of times, and one fault at any point leaves
anything half made; the proofs have any number of all of these. In
`certificates`, two writers are all a file of two parts can be mixed from; the
second attempt meets every state the first left (a sticky client, a half
file); one challenge request is the second goroutine that a torn client needs in a replica
without an application. In `secrets`, a token has one signer and one verifier, each with a secret it read before or
after the rotation or not at all; the second secret of the vault puts reads before and
after that of the first. In `webproxy`, a frame's header has five bytes, so sizes 0, 1 and 2 leave the
encoder with every remainder, over two messages with every carry; two names
can be both header and trailer, one of them, or neither. TLC's deadlock check is off in
all runs: each ends in states where everything has returned.

Where the documentation says one thing and the code does another, a run of one property shows it
on the code's model:

| Run | Property | What the text says | What the code does |
|---|---|---|---|
| `server_https` | `HttpsServed` | `server.go:40`: "run ACME helper concurrently" | the HTTP goroutine waits for `Run`, which returns when the context is done: HTTPS is first served when the service is being stopped |
| `certificates_first` | `FirstCertificate` | `README.md:69`: automatic certificates with an optional cloud cache | `Get` returns the store's "not found" wrapped, which is not `autocert.ErrCacheMiss`: from an empty bucket no certificate is ever ordered |
| `certificates_shared` | `OneOrder` | `README.md:407`: replicas share the same certificates, "no race conditions" | `Get` and `Put` are separate calls with nothing between them: replicas that find an expired certificate each order one and serve their own |
| `webproxy_built` | `BrowserServed` | `README.md:63`: "serve browsers natively" | `Build` mounts the proxy at exactly `/api` and does not strip it: a method's URL is a 404, and `/api` is no method |

Other behaviour worth knowing, which the properties state as exceptions or
conditions:
- a cancelled context does not end the Temporal worker, which is given `worker.InterruptCh()` and no context: `grp.Wait` waits for it, whatever `server.go:27` says of cancelling (`DoneReturns` has the exception);
- a secret that cannot be read is skipped without an error, and a process goes on with the one of its file or exports (`RejectionNeedsCause`, `StaleNeedsCause`); after a rotation, processes that were restarted and those that were not reject each other's tokens;
- `config.LoadConfig` never lets the environment override a value of the file, although its comment says so (`boot_config.go:27-28`), and gives an error for the nil target of README.md:131-132; README.md:107 exports `ACCESS_SECRET`, `auth.go:87` and `:130` look up `ACCESS-SECRET`;
- a controller as README.md:193-203 shows it, with `GET /users` and `POST /users`, panics in `Build`, which passes the bare pattern to `mux.Handle` twice (`Refused`);
- a graceful stop that meets a call of the gRPC-Web proxy ends the process: `GracefulStop` panics in grpc-go (`Panicked`, which `DoneReturns` and `ShutdownReturns` have as an exception);
- `Serve` may return while port 80 is open: nobody joins the challenge server's goroutine, which closes it when it comes to run (`ReturnedIsQuiet`, `LeftoverEnds`);
- when the challenge server of ACME cannot listen, `http.Serve` is never reached and `lnHTTP` stays open (`ReturnedIsQuiet`);
- an HTTP handler may outlive the Temporal client, when the five seconds ran out, part of which may have passed in `GracefulStop` (`ClientOutlivesHandlers`);
- with an SSL provider, `Shutdown` does not make `Serve` return (`ShutdownReturns` has the condition);
- a Builder that got as far as `grpc.NewServer` once can never build again (`BuilderSpent`);
- `createdOn` is overwritten by a Save that raced the insertion or failed to count, and missing where a delete came in between (`RewriteNeedsRace`, `UnstampedNeedsDelete`);
- a model that is found, changed and saved undoes what others saved meanwhile and brings a deleted document back: there is no version to compare (`UnaskedNeedsOvertaking` has the exception). A fresh model of a document that exists sets all fields its caller left alone to zero, with no other write at all;
- with the pinned GCP client (`cloud.google.com/go/storage`) the error for a missing bucket reads "bucket doesn't exist", which never contains "not found": `EnsureBucket` fails where it should create (`cfg.notFound = FALSE`, which `RefusalHasCause` and `AllComeUp` have as a condition). With a text that is recognised, two replicas race for the bucket and one fails, once;
- `EnsureIndexes`, "idempotent" by README.md:274, is so for one model: of two that disagree on an index the second never starts, be it only the index's name; nor does a model that implements `Indexed`, `SearchIndexed` or `VectorIndexed` and returns no index, as an empty list is sent (`RefusalHasCause`);
- an error in making an Azure or GCP client is kept by the `sync.Once`, so all attempts after it fail (the model's "failed" client);
- in a response without payload, a name that is both a header and a trailer keeps one of its values, which one is left to the order of a map (`MetadataDelivered`).

## 4. Fairness

Safety needs none. Liveness is checked under the fairness of the Go scheduler and what the
code itself bounds, and nothing else:

- `BootServer`, `SchedulerFairness`: weak fairness of `Serve`'s own steps, of
  the gRPC and HTTP goroutines, the start of the worker, and `Shutdown`'s
  steps, and the challenge server's goroutine (a runnable goroutine runs), and of
  `Expire("serve")`, as the five seconds of `shutCtx` pass. None for cancelling, for faults, for clients, for the end of a handler or of an
  interrupt. So `DoneReturns` names what can keep `Serve` from returning for good: a
  gRPC handler that never returns (`GracefulStop` has no deadline), a worker nobody
  interrupts, and the panic of a graceful stop that meets a proxied call.
  The prefetch is one fair step because its retries end (`Terminates`, `PrefetchEnds`).
- `Retry`: weak fairness of `Next`: the goroutine runs, and `fn` returns. The
  callers' functions have deadlines of their own.
- `Builder`: weak fairness of `BuildStep`, the one goroutine that runs `Build`; none for
  calling it, for servers that stop, or for the collector. `Dial` ends, as its retries do.
- `Provisioning`: weak fairness of each replica's `Steps`, `Start` included: what makes it again is the
  orchestrator of a service whose program ends on an error. None for faults or other programs.
- `CertificateCache`: weak fairness of the tasks' normal steps taken together: the program
  goes on as long as one of its goroutines can, which is less than a fair scheduler gives. None
  of the `Faults`, nor of `Expire`.
- `OdmCollection`, `WebProxy`, `Secrets`: no liveness. An abandoned write need never take effect,
  and a handler may go on for ever.

## 5. Proofs

All theorems are checked by TLAPS, for every value of the constants under the named assumptions of
the modules (`ConfigsAssumption` and the like: sets of the right kind, naturals
where numbers are counted). Sets need not be finite, but for the types of a program and
the metadata names of a call (`TypesAssumption`, `NamesAssumption`), which are. The goroutine's stack
is assumed deeper than there are types (`MaxDepthAssumption`): it is what makes an overflow a
sign of a cycle, and Go's stack of a gigabyte has room for any program's types.

- **BootServerProofs.** `Inv` is inductive: the type invariant; `PhaseInv` (how far a caller
  of a stop has got says how far the servers are down, whoever brought them there);
  `DrainInv` (a stopped gRPC server has no active call); `JobInv` and
  `GroupInv` (what each goroutine can have returned, and that the group's error is one
  of these); `CauseInv` (nothing is stopped, and no sentinel error recorded, without
  a cause); `ListenerInv` (who still owns a listener); `ChallengeInv` (the challenge server's
  goroutine against the HTTP goroutine that starts it and shuts it down); `ClientInv`. The properties alone are
  not inductive: that `Serve` leaves no call behind, for one, holds because
  `httpClose` lies behind the wait of *some* caller on a server that takes no
  calls any more, which is `PhaseInv` and `DrainInv` together. One lemma per
  conjunct, one step per action. The theorems: `TypeCorrect`, `QuietReturn`, `ErrorReturn`, `AskedStop`,
  `CausedStop`, `ClientLast`, and `Refinement`: with
  `Inv`, every step of `BootServer` is a step of `DrainedService` or a stutter.
  `HttpsOnlyAtTheEnd`: with an SSL provider the HTTP goroutine comes to `http.Serve`, and a request
  begins, only when the group's context is done, which a done context stays (`DoneForGood`).
- **RetryProofs.** `CreditInv` ties the limiter's credit to the time since the last
  attempt: the whole interval has passed, or the credit is twice that time.
  `WaitedInv` bounds the sum of the waits by the interval, which doubles.
  Theorems: `TypeCorrect`, `TotalWait`, `Counted`, `Spacing`.
- **BuilderProofs**, of the container and of `Build` over it. `StackInv`: every call on the stack is
  for what the call below it wants next, which is no singleton yet, and all it has found so far are
  singletons. `MadeInv`: no type is made twice. It needs the stack: a type that is there twice might
  be made from the upper call and again from the lower one. But the upper one has all its arguments
  then, and the lower one still waits for one of the same parameters, which by `StackInv` nobody has
  made; so there is no lower one (`Unmade`). `SingletonInv`: what is made lies in every closed set;
  `FrameInv`: what is asked for is in `Required`. A missing provider is then a required one. When
  the stack overflows there are more calls on it than types, so one type is there twice, and each
  type from there on needs the next: all other types together are closed, and none of the cycle is
  `Available` (`CycleUnavailable`). `CallInv` counts what each call of `Build` spent and opened;
  `PaceInv` says which factories were invoked at each stage; `Registered` that the mux serves the
  routes passed so far with their handlers, which a route added later does not change, as its pattern
  is another (`HandledMux`); `MuxInv` that it has nothing else and no two patterns in conflict;
  `SpentInv` that no later call comes to a mux once a server was made; `BuiltInv` that who was built
  had all it required.
  Theorems: `TypeCorrect`, `Singletons`, `Outcomes`, `Routes`, `SpentForGood` (an action property).
- **WebProxyProofs.** `HeldInv`: what the browser has, what net/http buffers and what the base64
  encoder holds are, in this order, everything written; so `Prompt` is that a flush leaves the last
  two empty. What is on the wire is known because headers are copied to it once, from a map whose
  keys are known: `HandlingInv` has it empty, or the pending headers, set and sent; `AnsweredInv`
  the status and the trailers on top. Its base are lemmas on the writers, one per operator: `Copied`
  (any order of `copyHeader` gives each kept name the value of one of its keys), `EmitKeeps` and
  `FlushKeeps` (no byte lost, doubled or moved), `PrepareKeeps`, `StatusKeeps`; then one lemma per
  action. Theorems: `TypeCorrect`, `NothingHeldBack`, `Metadata`, `SameType`. `NeverHandled`, from
  two facts on the mux: no request to a service that `Build` built reaches a handler through the
  proxy, whatever its path, method and type.
- **OdmCollectionProofs.** `WitnessInv`: a Save about to set `createdOn` on a
  document that is there was pending when it was inserted, or could not count.
  `UndercutInv`: a Save about to set `updatedOn` on one that is gone had it
  deleted from under it. Together they give `Unstamped` and `Rewrite`. `EditInv` (a fresh
  model is zero in every field its caller did not set; until an edit is overtaken, its document is
  there and agrees with its model in those fields) gives `Unasked`. `Exact` has
  an invariant of its own on top of them: for an id none of whose Saves was
  raced, a pending Save's count still agrees with the collection.
- **CertificateCacheProofs.** `WholeInv` follows the file of an undisturbed
  download part by part; `ClientInv` has at most one maker of a replica's client
  and a torn client only next to it, in the middle of its write, from which `PanicStep` gives
  `PanicNeedsRace`, an action property; `OriginInv` traces
  every certificate, in the bucket, in a file, in an answer or served, to the one
  the bucket had, as long as that has not expired and no replica ordered after a disturbed read. `TriesInv`
  keeps the attempts in their type. Theorems: `TypeCorrect`, `Whole`, `Same`, `Race`.
  `NoFirst`: from an empty bucket nothing is ever ordered, stored or served, with any number of replicas, attempts
  and application downloads, since no prefetch gets past its request (`Unanswered`).
- **SecretsProofs.** `KeyInv`: a process that has read the signing secret has a version
  between the vault's when it began to list and the vault's now, and `TokenInv`: so has a token,
  as of its signer. `LeftInv` (only a process that loads has anything left to read) makes
  the first hold of serving processes. A process and a signer that began at the present
  version thus have this one. Theorems: `TypeCorrect`, `Rejection`, `Stale`.
- **ProvisioningProofs.** `Progress` follows each start along its calls: whoever is past
  one finds its bucket, its collection, or its indexes of that kind, since nothing removes any.
  `Distinct`: the collection never has two indexes that clash, since each is refused.
  `Advertised`: every index is some model's, so a clash is a disagreement of models, and a refusal
  is that, an empty list, or a unique index that saved documents violate. `BucketInv`: who
  made the bucket that `Create` may find. Theorems: `TypeCorrect`, `EverythingInPlace`, `NoOtherRefusal`.

Three of the runs that expect a violation show one behaviour of a small instance. `HttpsOnlyAtTheEnd`,
`NoFirst` and `NeverHandled` say that every service has it: where the runs find a counterexample to what
the documentation says, these prove the opposite of it.

Proved, and left out of the runs: these three, and `ReturnsAnError` and `StopHasCause` of `BootServer`,
`OutcomeCounted` of `Retry`.

Only model-checked: all liveness (`DoneReturns`, `ShutdownReturns`, `LeftoverEnds`, `Terminates`,
`BuildReturns`, `PrefetchEnds`, `AllComeUp`), as fairness and ENABLED are out of the
prover's reach. Every other property of a run that passes is a theorem. The container's `Available` and `Required` are
stated as least sets and not by recursion, since induction over data is out of reach as well.

## 6. What is abstracted, and what is left out

Abstracted: contents (a certificate is a number, a message a run of equal bytes,
a document its writers' names); addresses, logging, metrics, CORS headers;
the time a call takes, except in `Retry`. A temporary file has two parts, and
`os.ReadFile` is one read of it: a file of a certificate is small. The private
key of the ACME account, which autocert keeps in the same cache, is
part of an order. Clients use each call once; `Shutdown` is called once.

Of tokens, the claims are left out: they go unchanged from `GetToken`'s arguments through the
registered claims into the context, and no decision is made on them. Of
configuration, the syntax of `.env` and `config.ini`.

Not modelled: the models' hash (a pure function of its input); `BufferGrpcStream` (a sequential loop with tests at its limits);
`GetPresignedUrl` (signs a URL, without a call to the store); the reads of the ODM other than `FindOne`
(one call, whose result is the caller's); the embedding clients (one HTTP request
each, without state), the logger, the command line generator (one sequential pass of
writes, run by hand) and the test helpers.

## 7. Plan

Done, in the order of importance: `BootServer` with its abstract specification, `Retry`, `Container`,
`Builder` over it, `OdmCollection` with edits, `CertificateCache`, `WebProxy`, `Secrets`, `Provisioning`,
and the proofs of section 5. What is not modelled is without state or concurrency (section 6).

Next, to be proved:
1. An abstract specification of a shared certificate (one object, read whole), and
   `CertificateCache` with undisturbed reads as its implementation.
2. One of a container that has all it can have and nothing twice, in one step per factory, and
   the stack of `Container` as its implementation.
3. `Provisioning`: nothing a start has made is ever taken away, as an action property.
