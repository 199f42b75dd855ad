# A verification project for the Codeium provider

TLA+ models of the concurrent, retrying and stateful parts of this repository,
the TLC configurations that check them on small instances, and theorems about
them checked by TLAPS. `PROJECT.json` lists the components, the runs, the line
every definition stands for, the hazards, the findings and the theorems; this
file explains them. Paths are relative to the repository's root.

The repository builds two programs from nearly the same code. The *standalone
program* (`main.go`, `executor.go`, ...) embeds the CLIProxyAPI SDK and talks to
the upstream with its own HTTP client. The *plugin* (`plugin/`) is a shared
library in a CLIProxyAPI host: every handler is an RPC of the host, and chat
traffic goes back through the host's callbacks (`host.http.*`, `host.stream.*`,
`host.auth.*`).

## Inventory

| Component | State it keeps | Operations | What makes it correct |
|---|---|---|---|
| Credential cache (`auth.go`, `plugin/auth.go`, `validateCredentials`) | `jwts`, `refreshGroup` | `getValidJWT`, `refreshJWT`, `validateCredentials` | no token of another account; one shared refresh; no needless one; waiters always released; a token handed out has not expired; one caller's cancellation stays its own |
| Host transport and frame reader (`plugin/host_transport.go`, `proto.go`) | `remainder`, `done`, `closed` of a body; the reader's buffer | `Read`, `Close`, `envelopeReader.read` | no byte lost however the host cuts the data; the end only after the last frame; the host's stream closed |
| Streaming execution, plugin (`plugin/execute.go`, `plugin/runtime.go`) | locals of the goroutine: attempt, tool indexes, `emittedOutput`; open bodies | `executeStreamTo`, `executeStreamAttempt`, `startAsyncExecutionStream`, `executeStream`, `executeNonStream` | one completion per request; a clean end exactly when all was delivered; the stream says what the non-streaming answer would; no leaks |
| Streaming execution, standalone (`executor.go`) | the same, and a channel without buffer | `Execute`, `ExecuteStream`, `forwardSDKStreamResponse` | the same, and the goroutine ends when the client has gone |
| Model catalogues (`plugin/modelsfetch.go`, `plugin/runtime.go`, `plugin/auth_provider.go`) | `dynamicCatalogs`, `modelCatalogRefreshes`, auth files of the host | `model.for_auth`, background refresh, `auth.refresh` | tables never shared across tokens; refreshes of a token do not overlap; an edit of a record survives |
| Tool compatibility (`tool_compat.go`) | two name maps of a request | `prepareToolCompatibleRequest`, `restoreName`, `normalizeToolParameters` | names restored exactly; no two tools share one; what is sent is what was asked for; parameters take the arguments they took |
| Chat request encoding (`chat.go`) | none | `buildChatRequest`, `chatMessage`, `encodeToolCall` | a result reaches the call it answers |
| Image compatibility (`image_compat.go`) | counters of one request and of one message | `validateRequestImageModelSupport`, `prepareImageCompatibleRequest` | the limits hold across messages; nothing is fetched for a request its roles or model rule out; the limits alone refuse an image, and none that is a part of a message is lost |
| Login (`plugin/auth_provider.go`) | callback files of the host's auth directory | `startLogin`, `pollLogin` | a login gives the account whose code was submitted for it; a code is not sent twice from its file; a callback is answered |
| Standalone program (`main.go`) | its cache of models by record; the service's registry | the goroutine of `OnAfterStart` | no models of another account; what the service clears is registered again |
| Catalogue building and resolution (`models.go`, `modelsfetch.go`) | resolution tables | `buildCatalog`, `resolveModelWire`, `lookupModelImageSupport` | the wire id sent belongs to the model and effort asked for, now and after a refresh; images go to models that take them |
| Encoding: protobuf, metadata, configuration | none | conversions | out of scope of state exploration |

How they interact: a chat request prepares its images and tools, is encoded, takes a token
from the credential cache, opens the upstream response (plugin: through the host
transport), reads it through the frame reader and hands chunks over (plugin: to
the host's stream; standalone: to a channel). The auth RPCs, a login among them, write
the credential cache without going through its group, and the catalogue refreshes use the
credential cache, the resolution tables and the host's auth files.

The hard behaviours are: requests that meet in the singleflight group while clients
disconnect and time runs; a retry that must not happen after output; calls that fail at
any point while a body is open; arbitrary fragmentation; background refreshes that write
back records which others edit; polls of a login that meet at its callback file; a service
that undoes what a goroutine registered; names that collide when they are made acceptable;
and schemas whose keywords depend on each other. `PROJECT.json` lists each hazard with its
line and the properties that would catch it.

## Modules

| Module | Models | Composes |
|---|---|---|
| `JwtCache` | the credential cache | |
| `Login` | the login of the plugin; its validations are those of the cache | `JwtCache` |
| `LoginProofs` | theorems about the cache and the login | `Login` |
| `FrameSource` | abstract: what a reader of a response promises its executor | |
| `HostStream` | `hostHTTPStreamBody` under `envelopeReader`; implements `FrameSource` | |
| `HostStreamProofs` | theorems about it, its refinement of `FrameSource` among them | `HostStream` |
| `ChatStream` | abstract: what a streaming request promises its client | |
| `StreamAttempt` | one attempt: frames to chunks, and the completion the non-streaming path makes of the same frames | |
| `StreamAttemptProofs` | lemmas about the steps the two programs share | `StreamAttempt` |
| `PluginStream` | a chat request of the plugin, in its three modes; implements `ChatStream` | `StreamAttempt` |
| `PluginStreamProofs` | theorems about it, its refinement of `ChatStream` among them | `PluginStream` |
| `SdkStream` | a chat request of the standalone program, streamed or not; implements `ChatStream` | `StreamAttempt` |
| `CatalogPoller` | the goroutine that registers executor and models | |
| `Standalone` | the standalone program | `SdkStream`, `CatalogPoller` |
| `StandaloneProofs` | theorems about its requests, its poller and both together | `Standalone` |
| `ModelCatalog` | restoring, refreshing and saving catalogues in the plugin | |
| `ModelCatalogProofs` | theorems about it | `ModelCatalog` |
| `ToolNames` | renaming, restoring and `tool_choice` | |
| `ImageBudget` | checks and limits of the images of a request | |
| `CatalogBuild` | from the answer of `GetCliModelConfigs` to tables, and from model and effort to a wire id | |
| `ChatEncode` | what `buildChatRequest` makes of a conversation | |
| `PrepareRequest` | a request before it is sent: images, tools, the model, the conversation | `ImageBudget`, `CatalogBuild`, `ChatEncode` (and so `ToolNames`) |
| `ToolSchemas` | the parameters of a tool, a JSON Schema, in both modes | |
| `SendRequest` | the same request with the parameters of its tools | `PrepareRequest`, `ToolSchemas` |
| `SendRequestProofs` | theorems about each part, about `PrepareRequest` and about the whole | `SendRequest` |
| `SequenceLemmas` | what appending, cutting, flattening and adding up do to a sequence | |
| `MC*` | instances for TLC: symmetry, frames, responses, colliding names, images | the module of that name |

In several modules a small operator stands before the one it resembles
(`RecheckDropped` before `Recheck`): it is a form the code might take by mistake.
`PROJECT.json` pairs it, under "mutants", with the property that rejects it.
These operators are not used by the specifications.

### JwtCache

A process is a goroutine in `getValidJWT` (`Callers`) or in
`validateCredentials` (`Validators`). `pc` follows the code: first look at the
cache (`CheckCache`), `refreshGroup.Do` (`EnterFlight`), second look inside the
flight (`Recheck`), `GetUserJwt` (`Mint`, `Fail`), the write of
the cache (`Store`), the release of leader and waiters (`Publish`). The request
and the answer of `GetUserJwt` are separate steps, so that time, cancellations
and other processes come between them.

A token is its account and the time it has left, so time needs no bound: `Tick`
takes one from everything that is running out. `Tick` waits for steps a process
can take by itself, which says that computation is quick compared with the 20
seconds of the deadline.

Two transports differ. The standalone program's honours the detached context of
the refresh and its deadline. The plugin's (`Hosted`) looks at neither: it sends
the request's `host_callback_id`, and the host cancels the calls of a request
whose client is gone.

Assumption `TimeAssumption`: the upstream gives tokens that outlive the margin
of a minute, and the deadline is no longer than the margin, as it is in the
code (20 s and 60 s).

### Login

The login keeps its state in a file: the host writes what the user submits for a
state (`Submit`, possibly over an earlier callback), a poll reads it (`Poll`), removes
whatever is in the file by then and looks at what it read (`RemoveCallback`), sends the
code (`SendCode`), and validates the session it gets for it. Two polls of one login
may be anywhere in this at once. The goroutine of a poll is a validator of
`JwtCache`: `Exchange` starts its validation and `PollReturns` ends it, so that the
token cache is written by logins as it is in the code. The upstream exchanges a code
once (`spent`), and a failure on the way back may spend it. Callbacks without a code,
with an error, or for another state are in the model; `startLogin` keeps no state.
The catalogue that is fetched before the answer is in no variable of the module and
cannot change the answer.

### HostStream and FrameSource

The host delivers the bytes in payloads of every size, possibly longer than the
reader's buffer and possibly with the last one marked done. `Copy` and
`CopyRemainder` are the two ways `Read` fills the buffer; `HeaderComplete` and
`BodyComplete` are the two halves of `envelopeReader.read`. The executor may
stop between frames (`Stop`) and closes the body. Bytes are numbered by frame
and position, so that a loss, a repetition or a swap is visible.

### StreamAttempt, PluginStream, SdkStream and ChatStream

`StreamAttempt` is the loop that the two programs share: text, start of a call,
arguments, finish chunk and `[DONE]` are separate emission steps because each
is a call that may fail. `DrainFrame` and `DrainEof` are the loop of a request that is
not streamed. `PluginStream` adds opening, which takes
a token first (`GetToken`) and may wait in `refreshGroup.Do` for the refresh of another
request (`JoinRefresh`), the retry, and the three modes of
`runExecute`: *live*, where chunks are emitted through the host and the host's stream is
closed; *buffered*, where they are gathered and returned together, for a host that
gives no stream; and *complete*, where one completion is returned. `SdkStream` adds the
first opening before `ExecuteStream` returns, the send that selects on the
context, the chunk with the error, and the closing of the channel; without `streamed`
it is `Execute`. The translation of chunks into other client protocols happens in the
SDK, after them, and is not modelled. In `SdkStream` a chunk is therefore sent as it is.

`ChatStream` says what each promises: chunks of one completion, one by one (`Give`) or
all at once (`GiveAll`), and a clean end only after all of them.

Each frame says what a `respDelta` says. In the frames of the runs, a call is
named by the frame that starts it. `Gathered` is `accumulateToolDeltas` over all the
deltas of an answer, and `Reassembled` what a client of OpenAI's protocol makes of the
chunks: the first is what a completion says, the second what a stream says.

### CatalogPoller and Standalone

The goroutine of `main.go` has the steps of its loop: the list of records, which hands
out copies (`List`), the next record, whose executor is put back (`Take`), the fetch
of a catalogue for a token it does not know (`Fetch`, `FetchFails`) and the
registration (`RegisterClient`). Between any two of them a record may be edited,
removed or reloaded, which clears its models and replaces the executor: that is what
the comments of `main.go` say of the service, whose code is not in the repository. A
catalogue is reduced to the token it was fetched with.

`Standalone` puts it beside the requests of `SdkStream`. The two share the
executor, which has no state, and tables modelled elsewhere, so a behaviour
follows one of the two.

### ModelCatalog

A record of the host has a token and, perhaps, a catalogue: a model list, resolution
tables and whether it is old. List and tables are reduced to the token they were fetched
with, which is what isolation is about. In memory (`tables`) a token has resolution tables
and the image support of the models, which a fetch stores together. `ModelsForAuth`
restores both, the tables as they were saved and the image support from the list
(`RestoredTables`), and starts a background refresh; `RefreshAuth` is the handler that
fetches synchronously. A fetch has the steps of the code: answer (`Respond`), store the
tables (`StoreTables`), read them back (`Snapshot`), write the whole record (`Save`). A
record's attributes may override the token (`Overrides`): the fetch then uses another
token than the one the tables are read back and persisted with. `CatalogIsolation` is what
the comment of `dynamicCatalog` says, of tables and image support; `TablesIsolation` is
what the code keeps of it where attributes override tokens.

### ToolNames

The two maps, the tools and the calls of a request, one step per tool and per
call. Cleaning, hashing and numbering of names are constant functions that may
collide in every way; the run chooses names that collide at all three levels.
`tool_choice` is what `parseToolChoice` returns.

### ImageBudget

One step per check and per part of a message. `CheckSupport` and `CheckRoles`
look at the whole request before anything is loaded. `CountLeft`, `BytesLeft`
and `ImageLimit` are what is left for one image, from the totals of the messages
before and the images of its own message. An inline image is compared with its
limit three times (with and without white space in its encoding, and decoded);
a remote one is fetched in two steps, `StartFetch` and one of `FetchEnds` and
`FetchFails`, and at most one byte more than its limit is read. `EndMessage`
adds a message to the totals and looks at the limits once more.

An image is where it comes from, its size, the white space in its encoding and
whether its bytes are an image of the declared type. An image inside a nested
array is a part of its own kind: the checks of model and roles count it, the
preparation renders it as text. The model's support for images is an arbitrary
answer of the catalogue.

### CatalogBuild

`buildCatalog` as operators over the entries of an answer: `Featured` is pass 1,
`Surfaced`, `IdOf` and `TierTable` are pass 2, and `Catalogues` is the set of all
tables the code may build, because the default of an id without the featured tier
is taken from a Go map in any order. `TierFromDisplay`, `NormalizeEffort` and
`CtxLabel` are the conversions that decide which entries meet under one id and
tier; slugs are names of families. `ResolveModelWire` and `LookupImageSupport` read
the tables. A fetch of the same account may end at any time and store them anew
(`Refetch`). It has the same answer: an account whose offer changes in the middle
of a request is served by either offer.

`ResolvedAsPromised` is stated over the entries, without the operators of the two
passes except those that say when two families share an id.

Four assumptions say what the constants stand for. `AnswersAssumption` is the type of an
answer. By `SiblingAssumption` two labels of a family give two ids and neither is the
family's own, since an id is the slug, a hyphen and the label; ids of different families
may be equal. By `LabelsAssumption` every family of an answer has such an id for the
window it comes with. `SortedAssumption` says that the order in which a list is sorted
has every id a list may have.

### ToolSchemas

A schema is a function from its keywords to their values. `NormalNode` is one call of
`normalizeSchemaNode`: `KeywordsOf` and `NormalValue` are the loop over the keywords
(annotations and identifiers dropped, `nullable` made a type, `const` an enum), and
`Resolution` is a local reference in the conservative attempt. The keyword `id` stands for
`$id`, `$anchor` and `$dynamicAnchor`. What the calls below make of schemas is a
parameter, and `Normal` ties the two together as a recursive function of the levels that
are left: the code's `depth` is `DepthLimit + 1 - left`, a list is a level of its own,
and at no levels left everything becomes the empty schema. `Schemas` are those of the
clients with all that is below and beside them (`SchemasAssumption`). `NormalParameters`
is the root.

The properties do not compare results with results of the code. `Allows` is what the JSON
Schema specification says of a schema and a value, in terms of what it says of the schemas
below; what references name is a map (`Targets`): the definitions of the root and the
schemas with an id that a reference names. `Accepts` is any validator that keeps to it,
for the schemas of the clients and for those they become (`JsonSchemaAssumption`), and the
properties compare what the client's schema and the schema sent accept. For a schema that
refers to itself without an end, on which the specification is silent, the validator may
say either. In the instance `Accepts` is a recursive checker of its own, `MCAccepts`,
written keyword by keyword, and TLC evaluates that it keeps to `Allows`. (Defined as
`Allows`, it would be a cycle through the constant that TLC's coverage statistics cannot
follow.) `Visited` are the schemas `normalizeSchemaNode` comes to at a depth; the
hypotheses of the two properties are about these alone, and name what the code does not
keep: `nullable` without a type, a `const` that is not in the `enum` beside it, what is
nested beyond the limit, an id that a reference names, which is dropped while the first
attempt sends the reference, and, in the second attempt, what is left out below `not`,
`if` and `oneOf`. The instance has ids that are named and ids that are not: without the
hypothesis about them TLC finds `SchemaKeepsArguments` violated.

### ChatEncode

`buildChatRequest` over the messages of a request: which are sent as messages and
which become the system prompt, the role each gets, and the calls, ids and results in
them. Made-up ids are a constant function (`Synthesised`) of name and place. Calls
have the names `ToolNames` made for them.

### PrepareRequest and SendRequest

The images are prepared once for a request, the tools when it is sent, and its
model is resolved and its conversation encoded as the last. `PrepareRequest` takes the
state and the steps of the four parts and puts them in this order; the names of the calls
of a conversation are those `ToolNames` made for the history of the request.
`consulted` is the state of the tables when the support of images was looked up, which
is before the wire id is resolved.
The module states what the parts promise together: every request is made ready or
refused (`Decided`), and no image goes to a variant that takes none
(`ImagesReachTakers`), provided that the variants of an id agree on images.

`SendRequest` adds the parameters of the tools, which are normalised in the step that
takes the tool. Which requests, parameters and conversations come together is a constant
(`Kinds`), so that a run may try many of each without trying all combinations.

## Runs

Every run is of the `MC` module with its name, or with the beginning or the end of it.

| Run | Question | Bounds |
|---|---|---|
| `JwtCacheStandalone` | Isolation, one refresh shared, no needless refresh, usable tokens, no shared cancellation, no regress of the cached token, every request ends | 3 callers, 2 accounts, margin 1, deadline 1, life 2 |
| `PluginLogin` | A login gives the account whose code was submitted for it, a code once sent is in no file, a callback is answered | 2 logins, 2 polls at once, 2 codes of 2 accounts, 2 callbacks |
| `JwtCachePoison` | *violation*: a disconnecting leader makes the others fail | 2 callers, 1 account |
| `HostStream` | Every byte arrives, frames whole and in order, host stream closed | up to 3 frames, bodies of 0 to 4 bytes, header of 2 bytes, every fragmentation |
| `HostStreamTruncated` | *violation*: a response cut after a header ends cleanly | up to 2 frames, every prefix |
| `PluginStream` | In every mode: one completion, clean end exactly when whole, equal to the non-streaming answer, no leaks, ends after a disconnect if the refreshes it waits for end | 4 frames of 5 kinds per attempt, 2 attempts |
| `Standalone` | The same promise to the client, no leaks, the goroutine ends; no record is offered another account's models, and what the service clears or replaces is registered again | 4 frames of 3 kinds per attempt, 2 attempts; 2 records, one with 2 tokens and one with 1, 3 changes |
| `SdkStreamRejected` | *violation*: a rejection that comes as a status is not retried | 1 frame |
| `ModelCatalog` | No overlapping refreshes, tables kept and persisted with their own token, image support with it or the overriding one | 2 records, one overriding, 2 tokens, 2 background refreshes, 1 handler, 1 edit |
| `ModelCatalogReverted` | *violation*: a refresh undoes an edit of the token | 1 record, 1 edit |
| `ModelCatalogEdited` | *violation*: a token replaced in place keeps the old catalogue | 1 record, 1 edit |
| `SendRequest` | Images: limits kept, the limits alone decide about the images that are parts of a message, loads bounded. Tools: names restored, distinct, stable; what is sent is what was asked for; parameters keep their arguments. Models: ids and efforts resolve as promised, also after a refresh, and images go to models that take them. Conversations: results reach their calls. Every request is decided | requests of 2 tools and 2 calls, nameless ones among them, and of 3 tools and 1 call, 4 names, every choice; requests of up to 3 messages and 4 images of 9 kinds; answers of up to 2 of 12 entries and 3 of 9, 4 efforts; schemas of every keyword that is rewritten, ids among them, a depth limit of 4; conversations of up to 3 messages |

Why the bounds are enough:

- *JwtCache.* The third caller lets one process lead, one wait and one arrive
  after the flight ended. Two accounts separate a shared key from an own one.
  One unit of margin, one of deadline and a life of two is the smallest choice
  in which a token is fresh, stale and expired in turn.
- *PluginLogin.* Two polls are as many as it takes to read one callback twice, or to
  remove one nobody has read; the second login and account show whether anything
  passes between logins, and the second callback is the one that is lost or
  overwritten. Time is left out of the cache (margin and deadline 0), which the run of
  the cache has.
- *HostStream.* With a header of two bytes it can be cut; frames without body,
  longer and shorter than a payload, and several in one payload all occur.
- *Streams.* Four frames hold a call, a second one, arguments without id for the
  active call and arguments with an id for the earlier one.
- *ModelCatalog.* Two records may hold the same token or different ones. Two
  background goroutines are as many as can run, because each holds the key of
  its token. Six hours are an event (`GrowOld`), not a clock. The edit may come
  between any two steps of a refresh.
- *Standalone.* Three changes suffice to edit a record during a fetch, back again, and to
  reload it; two tokens of one account separate a cache by record from one by token,
  and the second account shows models that pass between records.
- *SendRequest, names, images and catalogues.* Two names with the same clean form, two
  with the same hashed form, one hashed form that a client uses as a name and one numbered
  form that is another's clean form. Images of 1, 2, 4 and 5 bytes under limits of 3
  images, 4 bytes each and 6 bytes in all: each limit is met exactly and passed by one,
  inside a message and across messages, and 4 and 5 bytes have the same encoded length.
  The entries have two windows with one label, a smaller and an unknown one, two names of
  one tier, a fast variant, a family named like the sibling of another and a wire id that
  is also an id; three of them are enough for a sibling with two tiers neither of which is
  featured. Requests with many tools, many images and large catalogues are separate, since
  the parts share only the support of images, which the last kind of request exercises
  with an image.
- *SendRequest, schemas and conversations.* Every keyword and pair of keywords that is
  rewritten stands alone, and below each keyword that holds schemas, as a property and as
  the additional properties of roots with definitions and without, and beside references;
  the hypotheses of each property are met in hundreds of states. Arguments have up to two
  fields with scalars, objects and arrays of up to two items. The depth limit is 4 instead
  of 16: the deepest schema passes it, and a definition that refers to itself always does.
  Conversations of three messages hold a call, a result and a second call before, between
  or behind them, with ids that are missing, equal, or like a made-up one.

Deadlock is checked for the credential cache and the catalogues of the plugin. A
stream, a body and a preparation end, and a login for which nothing more is submitted
has nothing left to do, so `CHECK_DEADLOCK FALSE` is set for `PluginLogin`,
`HostStream`, `PluginStream`, `Standalone` and `SendRequest`.

## Fairness

- `JwtCache`: a goroutine that can step does, and a `GetUserJwt` under a
  transport that honours the deadline ends. Nothing is assumed of the host
  transport, which waits as long as the host makes it wait.
- `Login`: the host goes on polling a login that is pending (strong fairness per login,
  because a poll needs a goroutine that other logins may take), its handlers run, and the calls
  they make end. The last is assumed of the host: its transport does not look at the
  30 seconds of the context.
- `HostStream`: the host answers the reads it is asked for; the executor's
  deferred `Close` runs.
- `PluginStream`: the goroutine runs. Loading images ends, because a fetch has a deadline
  of its own, 15 seconds, and does not go through the host. A host call made for a request
  whose client has gone fails; that is what the comment of `startAsyncExecutionStream`
  says of the host (`plugin/runtime.go:161-164`). It does not end a wait in
  `refreshGroup.Do` behind the refresh of another request: that call was sent with the
  `host_callback_id` of the other one and has no deadline (`plugin/auth.go:63`,
  `plugin/host_transport.go:133` and `148`). So nothing is assumed of a waiting request in
  the specification, and `DisconnectCloses` states as its hypothesis that the refreshes it
  waits for end (`SharedRefreshesEnd`); without it TLC finds the property violated. An
  upstream that never answers a client who waits is allowed.
- `SdkStream`: the goroutine runs; the server takes chunks while the client is
  there; `net/http` ends a call whose context is done. Once the client has gone
  the server need not take anything, and the goroutine must end all the same.
- `CatalogPoller`: its goroutine never ends, and its fetches end because their context has
  a deadline of 30 seconds, which the standalone program's transport honours. Nothing
  is assumed of the service; as its changes are bounded, it stops making them.
  `StandaloneSpec` has the fairness of both modules.
- `ModelCatalog`: a background refresh runs, with the direct transport and the
  30 second context it is given, and the host answers its callbacks. No property
  of the runs uses it.
- `PrepareRequest`, `SendRequest`: the executor's goroutine runs; a fetch ends, because its
  context has a deadline of 15 seconds.

## What is proved

All theorems hold for every value of the constants that meets the named
assumptions; there is no bound on accounts, processes, time, frames, requests,
answers or conversations. The invariant of each proof is named here; where it says more
than the property, the property is not inductive by itself.

`LoginProofs`, of the cache:

- `TypeCorrect`, from `TypeInv`: the type invariant, and that a validation never
  stands at a step of the group.
- `SharedRefresh` and `NoOrphanWaiter`, from `FlightInv`: the keys of the group
  are the accounts of the callers that lead, and no two of them lead for one
  account. The two properties say nothing of callers between joining and
  refreshing.
- `Isolation`: whatever flights end in between, with validations and with every
  transport.
- `RefreshOnlyIfNeeded`, for `Validators = {}`: a validation may write a fresh
  token while a caller refreshes, so the property belongs to the standalone
  program. It rests on `FlightInv`: who writes the cache of an account is the
  one that leads for it.
- `UsableToken`, for `Hosted = {}`, from `DeadlineInv`: the life a new token has
  left and the time its call has run add up to more than the margin.
- `NoPoison`, for `Hosted = {}`.
- `NoRegress`, for `Validators = {}` and `Hosted = {}`, from `AgedInv`, which
  bounds the token in the cache by that of a call under way.

and of the login:

- `SentOnce` and `LoginsKeepApart`, from `LoginInv`: a callback in a file or in the hands
  of a poll that has not sent it was submitted for that login, a code in a file was not
  sent, and a poll that validates has the account of its code in the cache module's
  variables. The last part is what an answer alone does not say, since the validation lies
  between the code and the answer.
- `LoginImplementsCache`: a behaviour of logins is one of `JwtCache`, so what is proved
  there with validations (`Isolation`, `SharedRefresh`, `NoOrphanWaiter`) holds of it.

`HostStreamProofs`, for responses and payloads of any length, from `HostInv`: the frames
given are the first ones of the response, what is read next is the header or the body of
the one after them (`Placed`), and the bytes of both with those in the buffer, in the
remainder and on the wire make up the response, but for what a truncated one lost
(`Covered`).

- `AllBytesAccounted`: `NoByteLost`, which says it of the bytes.
- `FramesGivenInOrder`: the module implements `FrameSource`, for responses that are not
  truncated (`~Truncates`). Of a truncated one it is false, which is finding 2.

`StreamAttemptProofs` has the lemmas about the steps both programs share. `AttemptInv` is
their first invariant: the type of the variables of an attempt; that the chunks given are
the beginning of one stream (`OneStream`: role first, one completion, `[DONE]` after a
finish and as the last); and what `first`, `emitted`, `order` and the step say of them
(`Consistent`). `FramesAssumption` is the type of a frame.

`ToldInv` is the second, for `StreamMatchesCompletion`: at every step of the loop, the text
the client was given is that of the frames heard, and the calls it can put together
(`Match`) are those `accumulateToolDeltas` makes of the deltas heard so far: the same ids
in the order of the indexes, no id twice, the same arguments at the index of each, nothing
at an index that was not started, and the same active call. The deltas heard change in the
middle of a frame, between the naming of a call and its arguments, while the property speaks
of whole streams alone. `ToldMatches` has a hypothesis about the state, `StartsNamed`: no
call was started without a name. Where a name comes in a later frame the code gives two
different answers, which is listed under the observations.

`PluginStreamProofs`:

- `PluginTyped`: the type invariant; a step that looks at the last frame or a delta of it
  finds one.
- `PluginBodiesClosed`, from `PluginInv`, which adds `RequestInv`: only the body of the
  attempt under way may be open, and only within it.
- `PluginKeepsPromise`: the module implements `ChatStream`, in its three modes. Every
  chunk is a step of it (`Give`), or all are one (`GiveAll`); the end without an error is
  `Complete` because an attempt that ends without one was whole.
- `StreamAnswersAlike`: `StreamMatchesCompletion`, from `ToldInv`, so long as `StartsNamed`.

`StandaloneProofs`:

- `SdkBodiesClosed` and `SdkKeepsPromise`, from `SdkInv`: the same of the standalone
  program, whichever of a chunk, an end and a cancellation comes first.
- `SdkAnswersAlike`: `StreamMatchesCompletion` of the standalone program, from the same
  `ToldInv` and under the same hypothesis. Its run does not list the property again; with it
  the run passes as well.
- `StreamRejectionsRetried`: the part of finding 5's property that the code keeps.
- `OwnModelsOffered` and `CacheNeverStale`, from `PollerInv`: the cache keeps models beside
  the token they were fetched with, the record in hand was listed with a token of its own
  account, and the models in hand are those of that token or the static ones. Nothing is
  assumed of when records change.
- `ProgramSafe` and `ProgramKeepsPromise`: requests and goroutine together; a step of the
  program is one of either part and leaves the other alone (`ProgramParts`).

`ModelCatalogProofs`:

- `CatalogTyped` and `RefreshesApart`, from `WorkInv`: which variables of a goroutine
  have a value at which step. Keys are held exactly while a refresh runs, for any number
  of records that share a token.
- `CataloguesIsolated` (of `TablesIsolation`) and `RecordsIsolated`, from `Isolated`, which
  adds what a goroutine holds on its way from the fetch to the save. They assume
  `KeptOnEdit = {FALSE}`: an edit of a token drops the catalogue in the file. Without it
  the first fails, which is finding 4.
- `CataloguesNeverShared`: `CatalogIsolation`, image support included, if moreover
  `Overrides = {}`. With an overriding token it is false of the code, as the contradictions
  below say.

`SendRequestProofs`, of the images:

- `ImagesTyped` and `LimitsKept`: `WithinLimits` for all limits and all requests, and that
  the second look at the limits never refuses anything. `LimitsInv` adds that a fetch under
  way (`FetchInv`) was begun with room left for one more image; without it the step that
  ends a fetch could pass the limit on the number.
- `FetchesBounded`: `LoadsBounded`, from `LoadsInv`: a fetch is begun after the checks of
  model and roles, which no later step makes untrue, and as many were begun as images
  were taken, and at most the one under way besides.
- `LimitsAloneDecide`: `LimitsDecide`, from `DecideInv`: the messages given are the
  prepared forms of the first ones (`Prepares`), the running totals are those of the images
  in them (`Totalled`), and a refusal has its reason in the request (`Verdict`). The
  totals are folds over a concatenation; the lemmas about both are in `SequenceLemmas`.

of the names:

- `TypeCorrect`.
- `NamesRestored` and `NamesKept`, from the invariant that a name made is the
  key of its original in the reverse map (`MapsAgree`). A name is only made if
  that map does not have it, whichever of clean, hashed or numbered it is.
- `DistinctTools`, from the invariant that every tool sent is in the reverse
  map: a new name differs from those of all tools before it.
- `RequestKept`: `SentIsRequested` for all definitions, histories and choices, from
  `SentInv`: after `n` tools of the request the tools taken are the names made for the
  definitions among the first `n`, and the calls likewise.

and of the composition. A step of one part leaves the variables of the others alone
(`StepOfParts`), so each keeps its invariant in `PrepareInv`:

- `ImagesOfRequest`: the steps of the request refine those of `ImageBudget`.
- `PreparationTyped`, and `PreparationSafe`: the safety properties above together.
- `ResultsFound`: `ResultsReachCalls` for conversations of any length, from `ChatInv`: once
  built, the messages are the encoded forms of the spoken ones. The calls of all messages
  stand in one list of the history; the proof counts the calls before a message
  (`CallsBefore`) to find the name made for each.
- `PlainIdsKept`: `PlainIdsStable`, from `CatalogInv`: the tables are always some the code
  may build from the answer.
- `EffortsReachable`: `ResolvedAsPromised`, from the same.
- `TakersReached`: `ImagesReachTakers`, from `ServedInv`: the support a request was
  checked against is that of the tables consulted, and the wire id was resolved in
  tables built from the same answer. The property has hypotheses: what stands
  behind each id agrees on images, tables were there when the support was looked up, and
  the wire id sent is in a table. They are needed. A variant that another with its id and
  tier displaced is in no table, so that an image passes for its raw wire id as for an
  unknown model.

of the parameters of tools, for every schema, depth limit and validator:

- `SchemasKept`: `SchemaKeepsArguments`. The induction (`KeepsNode`) is on the levels
  left and speaks of every schema that is come to at that depth, under all
  definitions and for all values, not of the root and the arguments alone: the
  normal form takes the values the schema takes, whatever references name. Its step is one
  schema whose parts keep what they take (`KeepsKeywords`). That references name the same
  before and after (`SameTargets`) is where the hypothesis about ids is used: what the code
  comes to has none afterwards, and had none that a reference names. Definitions are sent
  as they were, ids included. The root comes last, because it is given a type
  and properties that say nothing more of an object (`RootTakesTheSame`).
- `SchemasLoosened`: `FallbackOnlyLoosens`, from `LoosensNode`: the value is judged with
  what the client's references name before and with nothing after, since the second
  attempt sends neither references nor definitions (`FallbackWithoutDefs`). A definition
  that refers to itself is unrolled to the limit, where the empty schema takes everything.

  Both rest on `NormalIs` and `VisitedIs`: that the recursive functions meet their
  equations is proved here from the choice their definition is, as the library's theorem
  would need an operator for a parameter.

and of a request that is sent, which is the specification the run checks:

- `SendPrepares`: it begins as `PrepareRequest` does and each of its steps is one of
  `PrepareRequest` or changes none of its variables. So the invariants above carry over:
  `SendSafe`, `SendResolves` and `SendStable` state the properties of the run of it.

A step that proves an induction over a sequence does so over the set of lengths for which
the claim holds (`InductionOnSet` in `SequenceLemmas`), because the library's theorems take
an operator, which the provers cannot instantiate. The fold and the flattening of the
community modules are characterised there once and used by what the lemmas say of them.

Only model-checked:

- every liveness property (`CallersReturn`, `CallbackAnswered`, `EventuallyClosed`, both
  `DisconnectCloses`, `RegistryCatchesUp`, `Decided`): fairness and `ENABLED` are out of
  the prover's reach. The theorems that a module implements an abstract one are about
  specifications without fairness on the abstract side.
- the properties of the runs that expect a violation, which are false of the code;
  `CancelNotShared` and `CatalogIsolation` are theorems under the hypotheses named above.

## Findings

1. **A disconnecting client fails other requests (plugin).** `getValidJWT`
   detaches the refresh from the request, "so one caller cancelling does not
   poison the shared refresh for others" (`plugin/auth.go:68-69`). The plugin's
   transport takes no notice of that context and passes on the leader's
   `host_callback_id`. Run `JwtCachePoison`.
2. **A response cut after a frame header is taken for complete.** Reading a body
   of which no byte came gives `io.EOF`, which `envelopeReader.read` passes on
   (`plugin/proto.go:219`). Run `HostStreamTruncated`.
3. **A background refresh undoes a token replacement.** It writes the record it
   was started with (`plugin/runtime.go:271`). Run `ModelCatalogReverted`.
4. **A token replaced in place keeps the old account's catalogue** until it is
   six hours old (`plugin/modelsfetch.go:126`). Run `ModelCatalogEdited`.
5. **The standalone program does not retry a rejection that comes as a status.**
   Both executors return the error of opening at once (`executor.go:190`,
   `executor.go:99`); the plugin retries it. Run `SdkStreamRejected`.

### Contradictions without a run of their own

Here too the code does what a text of the repository denies. The models have each case,
and the property that meets it leaves it aside by name:

- A request that waits for the refresh of another one is not promptly cancelled when its
  client disconnects, as `plugin/runtime.go:161-164` says of every request: nothing of it
  is at the host, and the call it waits for belongs to the other
  (`plugin/host_transport.go:133` and `148`). `DisconnectCloses` has the hypothesis
  `SharedRefreshesEnd`.
- With an overriding token in the attributes, a record persists the model list of the
  overriding account and, if it has them, the tables of its own. Restoring it rebuilds the
  image support of its token from that list (`plugin/modelsfetch.go:64-87`, `126-131`),
  although catalogues "must never be shared across credentials"
  (`plugin/modelsfetch.go:17-19`). `TablesIsolation` allows it; `CatalogIsolation`, checked
  on the instance of `ModelCatalog`, is violated by it.
- `$id`, `$anchor` and `$dynamicAnchor` are dropped in both attempts while the references
  that may name them are sent in the first (`tool_compat.go:406-416`): a constraint reached
  through such a reference is lost, although "local references ... are normalized while
  preserving argument constraints" (`README.md:66-67`). `SchemaKeepsArguments` leaves aside
  schemas whose ids are named (`Plain`).
- An image in a nested array or in a content that is one object counts for the checks of
  model and roles and is then rendered as text (`image_compat.go:180-185`), although
  unsupported image input "returns an explicit request error instead of silently dropping
  the image" (`README.md:32-33`). `LimitsDecide` is about the images that are parts of a
  message (`ImagesIn`).

### Observations

Behaviours the models have which no text of the repository decides:

- Validations refresh past the group, so an account may be refreshed by a
  validation and a request at once, although the comment of `getValidJWT` says
  that "only one refresh runs per account at a time". `CallersShareRefresh`
  says what holds: requests share.
- Under the host transport `CallersReturn` fails: a refresh whose host call never
  returns blocks every request of the account, and the background catalogue
  refresh with them, because `refreshGroup.Do` does not look at a context.
- `pollLogin` never looks at `loginLifetime`: a callback is taken however old its
  login is. The lifetime is only told to the host (`ExpiresAt`).
- Two polls of one login may read one callback. Both send its code, one is refused and
  answers "error" while the other answers "success" (`plugin/auth_provider.go:159-166`).
- A poll may remove a callback that was written after it read the one before, so that
  the newer is never looked at; while a poll exchanges a code, another answers "pending".
- An error of `os.Remove` is ignored: a callback that cannot be removed is read by
  every poll, which then all answer "error". The model has a directory one may write to.
- A code is spent if the exchange is answered and the answer or the validation is lost;
  the login has to be begun again.
- In the plugin a validation may write the cache after a newer token was stored
  and shorten the life of the cached token.
- A response that ends between two frames without an end-of-stream frame is
  taken for complete by both executors.
- If the upstream starts a call in one frame and names it in a later one, the
  completion has the name and the stream does not.
- A `tool_choice` that selects a function known only from the history sends all
  tools, possibly none, with the choice "required" (`tool_compat.go:121-137`).
- A background refresh that fails with a stale catalogue saves the record all
  the same, and saving makes the host reload it (`plugin/runtime.go:257`).
- `auth.refresh` and a background refresh of one token may interleave between
  storing tables and reading them back. The record then persists the models of
  one fetch with the tables of the other.
- The standalone program fetches a catalogue once per token and record, while README.md
  says that the list "always reflects what your account currently offers"
  (`README.md:278-279`): a change of the offer is seen after a restart or a new token.
- If a record is removed while its models are fetched, they are registered after the
  removal and stay (`main.go:130`).
- Both programs retry a rejection only if the client has seen no chunk; in the buffered
  mode of the plugin a chunk that was only gathered counts as seen
  (`plugin/execute.go:200`).
- The comment of `buildChatRequest` speaks of leading system messages; all system
  messages, wherever they stand, become the prompt.
- Calls on a message that is not an assistant's are dropped, although their names are
  registered; a result without an id cannot be correlated; and made-up ids repeat
  between messages, because each message counts its calls from 0 (`chat.go:194`).
- Parameters whose root is no object schema become those of a tool without
  parameters. `nullable` without a type becomes the type "object or null". Of a
  `const` and an `enum` in one schema the `const` wins.
- Beyond the depth limit a schema loses its constraints, and a list of schemas becomes
  an object (`tool_compat.go:296-299`), which is no JSON Schema. In the conservative
  attempt definitions that refer to themselves through a list always get there.
- In the conservative attempt a keyword left out below `not`, `if` or `oneOf` makes the
  schema stricter than the client's; a `dependencies` of draft 7 is copied as it is and
  may refer to definitions that were left out. In the first attempt definitions are sent
  as the client wrote them, without normalisation.
- An encoded image whose white space is longer than 1024 bytes is refused as too
  large if it is close to its limit, although the white space is removed
  afterwards (`image_compat.go:322`).
- The support of images of an id is that of its default variant, whatever effort
  is asked for (`modelsfetch.go:69`). If variants of one id differ, images are sent
  to a variant that takes none, or refused for one that does.
- The default of a sibling id without the featured tier may change with every
  refresh (`modelsfetch.go:286`); `PlainIdsStable` says for which ids it cannot.
- Two larger windows with one label, or a family named like a sibling of another
  (`glm-1m`), share an id, whose default is then that of the entry which came
  first.

## Not modelled

- The Protobuf reader and writer, metadata, fingerprints and static configuration,
  the merge of settings: conversions without state. Of the chat request the control is
  modelled (`ChatEncode`), not the field numbers nor the text of contents.
- Descriptions of tools: text that is cut and flattened.
- The pool of HTTP clients: a cache by proxy address in which losing an entry
  changes no result.
- The C entry points, JSON envelopes and HTML pages of the plugin: pure I/O.
- Compression of frames, except that a body may fail to decompress.
- The fetch of the catalogue at the end of a login, which changes no answer: its steps
  are those of `auth.refresh` in `ModelCatalog`, for a record the host does not yet have.

## Plan

Done, in this order: `JwtCache` and its proofs, `HostStream`, `PluginStream`,
`ModelCatalog`, `SdkStream` with `ChatStream`, `ToolNames` and its proofs,
`ImageBudget`, `PrepareRequest` and their proofs, `CatalogBuild`; then `Login`,
`CatalogPoller` and `Standalone`, the buffered and complete modes of `PluginStream` and
`Execute` in `SdkStream`, `ToolSchemas`, `ChatEncode` and `SendRequest`, and the proofs of
`Login`, `ModelCatalog` and `CatalogPoller`; then the proofs of the streams, of their step
simulations to `ChatStream` and `FrameSource`, of `LimitsDecide`, of conversations and of
catalogues, for which `PrepareRequest` took `ChatEncode` and `CatalogBuild`; and last the
proofs of `ToolSchemas`, whose recursion was made a function for them, and of `SendRequest`.

What is left that would add something:

1. `HostStream` and `PluginStream` in one module, with the frames of the first as those
   the second reads; today `FrameSource` states what the second assumes.
2. Two fetches of one token told apart in `ModelCatalog`, to state what mixing them
   may and may not do.
