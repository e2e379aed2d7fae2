# Mzigo: TLA+ models, checks and proofs

Mzigo puts data contracts in front of Kafka. This directory holds TLA+ models of
its concurrent core, TLC configurations that check them on small instances, and
TLAPS proofs of the properties that matter most, for every value of the
constants. Source paths below are relative to `src/`; `PROJECT.json` maps every
definition to the lines it stands for.

## 1. The system

A producer's SDK posts each message to a **gateway**, which looks up the topic's
active **contract** in a cache filled from the **contracts service**, validates
the message, writes it to Kafka and answers. A **CI gate** in the contracts
service classifies proposed schema changes. **Lineage workers** consume Kafka
topics and post lineage events to Marquez; an **analyzer** reads Marquez's graph
to report the blast radius of a change. A **masking service** transforms fields
by policy, and a **catalog UI** shows all of it.

    SDK --HTTP--> gateway --Kafka client--> brokers --> lineage workers --HTTP--> Marquez
                     |  cache fill (HTTP)                                             |
                     v                                                                v
           contracts service --SQL--> PostgreSQL <--edges-- gate          analyzer (reads)
           ^
           |  resolve (HTTP)                                     masking service
    SDK resolver                                                 (called by nothing here)

### Components

| Component | State it keeps | Operations | What is hard | What makes it correct |
|---|---|---|---|---|
| contract store `services/contracts/internal/store` | tables `contracts`, `contract_versions`, `approval_events` | `CreateVersion`, `ActivateVersion`, reads | transactions at READ COMMITTED, row locks in opposite orders, failure between two UPDATEs | a contract never loses its active version; an activation supersedes what it saw; calls end |
| internal API `contracts/internal/handler/internal.go` | none | `listActive`, `getByTopic` | the JSON it sends is not the JSON the gateway decodes | the gateway gets the contract it asked for |
| gate `contracts/internal/handler/gate.go` | none | `ServeHTTP` | three reads outside a transaction, a read that fails, a latest row that is a DRAFT | a breaking change with known consumers needs approval; what passes breaks nobody |
| evolution checker `contracts/internal/evolution` | none | `Check` (Avro, JSON Schema, Protobuf stub) | edge cases of the rules, modes and types | what it misses and where it overstates is known exactly |
| contract cache `gateway/internal/cache` | `entries` under an RWMutex | `Warm`, `Get` (with `refresh`) | concurrent refreshes, replies out of order, outages, restarts | bounded staleness, fail-closed unless `fail_open`, `Get` returns |
| produce handler `gateway/internal/handler/produce.go` | per request | `ServeHTTP` | a caller that left, contracts that change meanwhile | only validated messages are written; ACCEPTED only after the ack |
| Kafka producer `gateway/internal/kafka` | librdkafka's queue | `Produce`, `Close` | undecided writes, lost reports, death with a full queue | an accepted id is the caller's record |
| server, main `gateway/internal/server`, `cmd/gateway` | process life | start, shutdown | exit after the shutdown timeout | - |
| SDK producers `sdk/python/mzigo` | per call | `produce` (sync, async) | retries of attempts that still run | outcomes mean what the exceptions say; calls end |
| SDK resolver `sdk/python/mzigo/contract.py` | TTL cache without a lock | `resolve` | threads that fetch the same topic, replies out of order, outages | bounded staleness; "not found" is never an outage; `resolve` ends |
| lineage consumer `services/lineage/lineage/consumer.py` | `_messages_since_commit`, the group's offsets | `run`, `_process_message`, `_commit`, callbacks | evicted workers that go on, commits that fail, poison messages | nothing is skipped, nothing regresses, bounded reprocessing, progress |
| lineage emitter `lineage/emitter.py` | HTTP client | `emit_*`, `_send` | failures are swallowed | a committed event was recorded (only while Marquez answers: finding) |
| extractor `lineage/extractor.py` | none | `extract` | depth limit (finding) | not modelled |
| edge store `lineage/edge_store.py` | table `lineage_edges` | `upsert_edge` (no caller) | teams that are NULL | edges are never lost |
| analyzer `services/analyzer` | report cache | `compute_blast_radius`: `build_for_topic`, `find_reachable`, `score`, `assemble` | cycles and detours, an outage's report is cached, one thread that blocks | depths are distances; reports are exact and fresh; owners of exposed consumers are asked; analyses end |
| masking `services/masking` | none | `ServeHTTP`, `Mask` | policies for a field, its object and a part of it, in any order; one of several fails | all or nothing; no clear value left; nothing else changed; the audit is complete |
| catalog UI, terraform, helm, CI | none | - | - | not modelled |

### Interactions that matter

- The gateway calls the contracts service over HTTP; the only state they share
  is what a reply carried when it was served.
- One `ContractCache` is shared by all request goroutines of a process; `Get`
  drops the lock before it fetches and takes it again to store.
- An SDK attempt that times out leaves a handler, and perhaps a queued message,
  behind it. The next attempt may reach another process.
- The workers share nothing but the group's committed offsets, which the
  coordinator guards with the generation of their membership.
- The resolver's threads share one dictionary; no lock joins its lookup, its
  fetch and its assignment.
- The analyzer's handler never awaits, so requests do not interleave; they share
  the report cache and the one thread.

## 2. Modules

| Module | Models | Extends |
|---|---|---|
| `ControlPlane` | what the contracts service serves its clients: a set of ACTIVE rows per topic, one set after another (abstract) | - |
| `ContractStore` | `contract_versions` and the transactions on it | instantiates `ControlPlane` |
| `ContractView` | what the cache promises its readers (abstract) | `ControlPlane` |
| `ContractCache` | `contract_cache.go`, the contracts service's replies, restarts | `ContractView` |
| `Delivery` | what `produce()` promises its caller (abstract) | - |
| `ProducePath` | SDK transports, `ServeHTTP`, `Produce`, process deaths | `Delivery` |
| `LineageWorker` | `consumer.py`, `_send`, the consumer group | - |
| `Evolution` | `avro.go`, `jsonschema.go`, `checker.go` as operators, and what readers of the data need | - |
| `Gate` | `gate.go`, the table `lineage_edges`, the CI job's verdict, registration and activation | `Evolution` |
| `ContractResolver` | `contract.py` of the SDK, the service's replies, restarts | `ControlPlane`; instantiates `ContractView` |
| `BlastRadius` | the lineage graph, scoring and the report as operators, and distances as reference | - |
| `Analyzer` | the blast-radius handler: report cache, Marquez, breadth-first search | `BlastRadius`; instantiates `ContractView` |
| `Masking` | one request to the masking service, one policy at a time | - |
| `MC*` | constants for TLC | the module they name |
| `*_proofs` | theorems | the module they name, `TLAPS` |

The modules are joined by assumption and guarantee. `ControlPlane` is what the
clients of the contracts service assume of it: each topic has no ACTIVE row, then
a set of them, which other sets replace, never none again. One row is what it
should be, but `store_unique` shows that there can be more, and then the two reads
disagree: `GetActiveVersion` takes the `Newest`, while a client that walks through
`ListActiveVersions` and overwrites ends with the `Oldest`. `ContractStore`
implements it with the set of ACTIVE rows (`ActiveOn`) as refinement mapping, and
`ContractView`, `ContractCache` and `ContractResolver` extend it: their `Activate`
is its step `Supersede`. `ContractCache` shows that `Get` returns a row that was
ACTIVE recently, or a fail-open one that was ACTIVE once; `ProducePath` uses the weakest
part of that: `Lookup` takes any version that has been active. That this follows
from `ContractView` alone is the theorem `PromiseSuffices`. `ContractView` has
three implementations. `ContractCache` shares its variables, so its refinement mapping
is the identity, as is `ProducePath`'s to `Delivery`. `ContractResolver` and
`Analyzer` have other variables and instantiate `ContractView` WITH a mapping:
the resolver's two exceptions are both errors, nothing is fail-open; the
analyzer's "versions" are the things Marquez does for a topic, an outage being
one of them, and its reports are answers that carry the reply they were made of.
In each case the abstract specification is a PROPERTY of the run and proved of
every step. `Gate` keeps the rows of one contract and takes `CreateVersion` and
`ActivateVersion` as atomic steps; their insides are `ContractStore`'s subject.

### ContractStore

Rows are named by their rank in `created_at`; a row's `status` is its committed
value. A session runs one `ActivateVersion` at a time: `Begin` is `BEGIN` and
the snapshot of the first UPDATE (`Matching`); `DeprecateRow` visits one row of
it, taking the row's lock and re-reading its latest committed state, as
PostgreSQL does at READ COMMITTED; `ActivateRow` is the second UPDATE; `Commit`
publishes the writes. `Rollback` stands for every error, cancelled context, lost
connection and crash. `WaitForRow`, `Deadlocked` and `DeadlockVictim` are
PostgreSQL's locks and its deadlock detector. The session variables `saw`,
`overlapped` and `everActive` are history and guard nothing.
`StrictCallers` is the precondition that callers name an existing version of
that contract: the second UPDATE has `WHERE id = $1` alone, so a wrong id
deprecates the active version, changes nothing else and reports success.
`ActivateVersion` and `CreateVersion` have no caller in the repository, so
nothing there contradicts the precondition, and nothing enforces it.

### ContractCache

Time is an age per entry (stopped at `TTL`, the only value the code compares it
with) and an elapsed time per request (stopped at `FetchTimeout`, when the HTTP
client gives up); `Tick` advances all of them. A `Get` is `Hit`, or `Miss`
followed by `Serve` (the service reads the newest ACTIVE row), then `FetchOk` or
`FetchFails`. Between `Miss` and the end of the fetch the goroutine holds the
entry it read, as in `refresh(ctx, topic, e)`. `WarmFetch`, `WarmStore` and
`Stop` are start-up and exit: the list has every ACTIVE row of every topic, newest
first, and `Warm` writes them one over the other, so the oldest stays. `fullWire`
says whether the replies carry `topic` and `fail_open`. The struct the service encodes has neither, so `FALSE` is what
it really sends; `TRUE` is what the gateway was written for. All properties are
checked for both.

### ProducePath

A request `<<c, n>>` is the n-th attempt of call `c`. `Send`, `ConnectFails`,
`ReadReply`, `AttemptFails` and `Raise` are the SDK's loop; `Budget` is the
number of attempts of each transport (`max_retries = 0` differs between them).
The handler's exits are one action each, in the order of the code; `Answer`
drops the reply of an attempt that was given up. `Enqueue` hands the message to
the Kafka client, after which `BrokerWrites`, `BrokerAcks` and `ClientGivesUp`
happen when they like: a message "in doubt" may still be written after the
client gave up. `Die` ends a process with handlers running and messages queued,
for any reason. The data is abstract: a payload is a shape (object, scalar, bad
request) and the set of versions it conforms to.

### LineageWorker

The loop of `run()` is `Poll`, then `Emit`, `Drop` or `FailMessage`, then
`Count`, then `Commit` when due. `Revoked` is `_on_revoke` inside `poll()`,
`Close` the `finally` block. `position` is the offset librdkafka would commit.
A failed commit leaves the counter (`_messages_since_commit = 0` is inside the
`try`) and may have stored the offsets all the same. `Crash`, `Expire` and
`Evict` are the environment. An evicted worker goes on with its partitions, and
its commits are refused, until `poll()` tells it. A message whose handler
raises (a tombstone, a JSON list in the violations topic) is logged and passed
over without being counted.

### Evolution and Gate

A schema is what the checkers look at: per field name a type, or none, and
whether it is strict (no Avro default; listed in JSON Schema's "required").
`AvroChanges`, `JsonChanges` and `Worst` are the code's rules; `Reads` and
`Complete` are the reference, written from what Avro resolution and JSON Schema
validation do and not from the rules. `Unbroken` says which of it a change must
keep when it is not BREAKING; it is weaker than what the modes and JSON Schema
ask for. That is `Fits` (Avro: which of old and new schema must read the other's
data in each mode) and `KeepsDocuments` (every valid JSON document stays valid,
types included), both over `Accepts`, so that a value of a type that `Promotions`
names can be read although the types differ. The checker compares types as texts
and looks at one mode only, so it differs from this reference in both directions.
`AvroMiss` and `JsonMiss` are the breaks it lets through, exactly;
`AvroOverstates` and `JsonOverstates` bound its false alarms, promotions first
(`avro.go:101-105` accepts those). The format compared with is the request's, so a
row of another format parses to an empty schema (or to an error, `Fail`).

A pull request is `Ask`, then `Compare` (the second read and the checker) or
`AnswerNew`, then, for a BREAKING change, `ReadEdges` or `EdgesFail`; `Fail` is
each early return. Between these steps others register rows, activate them and
change edges. The first read, of the contract itself, is merged with the second
one: contracts are never deleted, so one that is missing answers as one without
versions does. `Passes` is the condition of the workflow's last step. A row of
`Register` is the DRAFT that becomes `GetLatestVersion`'s answer at once;
`Activate` may come later or never. A new run of a job after a push is `Close`
or `Fail` and another `Ask`. `count` and `known` are history.

### ContractResolver

Time and requests are as in `ContractCache`, but an expired entry is no help in
an outage, there is no lock and no warming. Threads that miss the same entry
fetch it each for themselves, and a late reply overwrites what another thread
has stored by then. `asked`, `elapsed`, `resp` are the locals of a `resolve` on
its way; `known` and `outcome` are history. `FetchTimeout` stands for what the
waits of `httpx` (connect, write, read and pool, 5 s each) add up to. A reply
that is no JSON object with the two keys raises an exception of another class; it
changes as little as `FetchFails` does.

### BlastRadius and Analyzer

`BlastRadius` has what `graph.py`, `scorer.py` and `report.py` compute, as
operators, and `Hops`, the least number of hops by sets of nodes within k hops,
as reference. `Analyzer` is the handler: `Hit`, or `Miss`, `Serve` and then
`Fails`, `NoNodes` or a search, and `Assemble`, which stores and answers. The
search visits one neighbour at a time, in any order of the neighbours: `Visit`
marks and queues it, `Leave` drops the front of the queue once `Unvisited` is
empty. `FetchFails` is every failure that `build_for_topic` turns into an empty
graph; it is counted as something Marquez does (`Outage`), so that freshness
covers it: a "no lineage" report from an outage is no older than any other. What
an entry was made from (`from`) is history. Only the request to Marquez takes
time; computing a report is taken to be faster than a tick. `Fails` may happen
for any reply, since a reply may have a shape that raises.

### Masking

A document maps each place a value may have (`Fields`) to the class of what is
found there: absent, null, a string longer than the kept suffix or not, a number
between two float64s or beyond all of them, another scalar, an object, an array,
or what an operation produced. `Paths` are the places a policy's path can lead to,
through objects and by keys without dots. The others lie in arrays (`Elements`) or
behind a key that has a dot in it, and have only the text that `collectPaths`
writes for them (`PathOf`), which may be the same as a policy's path. `Collected`
are the places that `collectPaths` comes to: none in an array.
`Skip`, `Transform` and `Block` are the body of the loop over policies; a value
written over an object takes what was inside it away (`Set`), so a later policy
for a part of it finds nothing, and a later policy for the object finds a
string. `Parse` rounds numbers between two float64s; a number beyond all
of them, in any field, fails it (`ParseFails`). `Answer` is the reply. The handler keeps
nothing between requests: one request at a time loses no behaviour.

## 3. Runs

| Run | Question | Answer |
|---|---|---|
| `store` | do racing, failing and deadlocking activations keep a version active, supersede what they saw, exclude others when alone, serve the clients as `ControlPlane` says, and return? | yes |
| `store_unique` | is there at most one active version per contract? | **no**: two concurrent activations leave two |
| `cache` | does `Get` implement `ContractView` with bound TTL + FetchTimeout, and return? | yes |
| `cache_ttl` | does `cache_ttl` bound the staleness, as `config.go` says? | **no**: a slow reply is stamped when it arrives |
| `produce` | does `produce()` implement `Delivery`, is only validated data written, do calls and handlers end? | yes |
| `produce_rejected` | is a message reported as rejected absent from the topic? | **no**: a timed-out attempt may have written it |
| `lineage` | are messages never skipped, events recorded before their offset is committed while Marquez answers, offsets never moved back, reprocessing bounded, and all messages dealt with? | yes |
| `gate` | does what the gate lets through break a known consumer of the row it was compared with, or of the ACTIVE one if no other request came in between; does a failed read open the gate? | no |
| `gate_race` | is every change that breaks known consumers of the ACTIVE version put before somebody? | **no**: a change compatible with another's DRAFT passes |
| `resolver` | does `resolve` implement `ContractView`, is "not found" said only when it is so, does every call end? | yes |
| `analyzer` | are depths distances, reports exact and fresh, exposed owners asked, and do analyses end, in graphs with cycles and through outages? | yes |
| `masking` | does what passes show nothing a policy covers, is nothing else changed, is the audit complete, is PII mentioned except in arrays and under a policy's name, and is a message blocked only for a reason? | yes |

The disagreements are in `PROJECT.json` under `findings`, with the text they
contradict. Some are found by reading alone and name no run. Four are worth
knowing when reading the models: with the JSON the contracts service really
sends, contracts have no fields and validate every object (`fullWire = FALSE`,
which `produce` includes), an event that Marquez refused is
committed all the same (`MarquezMayFail = TRUE`, under which
`CommittedWasRecorded` fails), `Warm` keeps the oldest of several ACTIVE rows
where `GetActiveVersion` answers the newest, and `collectPaths` neither enters
arrays nor tells a dotted key from a policy's path. `KeepsStalenessPromise` and
`PiiMentioned` are stated so that they hold with the last two in the models.

### Bounds

- `store`: two contracts, four versions (three of one contract, so that a race
  can start from an active version and have two rivals), two sessions. A race of
  two, a deadlock cycle and a stale snapshot need two sessions; a third only
  repeats them. Rows are created as DRAFT, in any order with activations.
- `cache`: one topic (entries of different topics share nothing but the key ""),
  two versions, either or both of them ACTIVE, any number of times, two readers,
  `TTL = 3` and `FetchTimeout = 2` in the passing run, so that a reply can be
  one tick late, two ticks late or time out within a TTL; `2` and `1` in
  `cache_ttl`. Ages are capped where the code stops telling them apart, so the
  runs are not bounded in length.
- `produce`: a call with two attempts and a call of an asynchronous producer
  with `max_retries = 0`, two versions (the message conforms to the first only),
  two processes. Two attempts are the least that overlap, two versions the least
  that disagree. Processes may die any number of times.
- `lineage`: two workers, two partitions, logs with an event, a poison message,
  an event and a message that is dropped; `CommitInterval = 2`, so that a commit
  comes due across partitions and behind a poison message; `MaxFaults = 2`
  signals, crashes, evictions and rebalances in all (a commit may fail any
  number of times). Two faults are enough for a worker to be evicted and another
  one to crash, or for the same worker twice. Deadlock is not checked: with all messages
  handled and the faults used up, workers idle in `poll()`.
- `gate`: two pull requests, so that one can register or activate between the
  other's steps, and three rows, the least with which the newest, the oldest and
  the ACTIVE row differ; requests come and go any number of times within that.
  One field in five forms: Avro with a default, without, missing, and of another
  type, and JSON Schema, so that formats change too. The checker's rules alone,
  with what they miss and overstate, are checked by `MCCheckerAssumption` on every
  pair of versions over one field of three types, one of which is promoted to
  another. One
  consumer that may be unknown, known, or known without a team. The requests are
  symmetric, and the run has no liveness property. `gate_race` has the three
  Avro forms of one type only. Safety only: the handler owes an answer to nobody who left.

- `resolver`: one topic (entries share nothing), two versions that replace each
  other any number of times, three threads, so that two late replies can arrive
  in either order while a third thread reads; `TTL = 3`, `FetchTimeout = 2`, as
  in `cache`.
- `analyzer`: one topic, four nodes, two fields, two teams, `MaxDepth = 2`, so
  that a node can be three hops away, and be found by a detour or not at all.
  One history for each subset of three edges next to a fourth one; one with
  cycles through the source and beside it; a topic under another node id, a
  missing one, no graph at all; one history in which Marquez's graph changes
  between two. `TTL = 2` and `FetchTimeout = 1` are the least with which an
  entry can be both older and younger than a request.
- `masking`: three nested paths, so that a policy can name an object, a part of it
  and a part of that; next to it a key whose text is the innermost path, and a
  field in the elements of the array the outermost place may hold instead; every
  document, and every list of up to three policies over three operations and an
  unknown one. Three is the least that lets one policy disturb what another left
  for a third.

### Fairness, and why the code justifies it

- `store`: statements that were sent are executed and PostgreSQL detects
  deadlocks (weak fairness); a session that waits for a row is not overtaken for
  ever, since waiters queue on the tuple lock (strong fairness of the two
  locking steps). Nobody is obliged to create, to activate or to fail.
- `cache`: time passes, and a request's client timeout fires when it is due. The
  service need not answer.
- `produce`: an SDK call that waits reads its reply or times out, one that does
  not wait goes on, and a handler that can move does. Kafka owes nothing: a
  handler ends because its caller hangs up, which is why
  `HandlersReturn` needs `Cancelled`.
- `lineage`: a worker's loop runs (its HTTP requests have timeouts, and `poll()`
  returns), Kubernetes restarts a worker that ended, the coordinator expires dead
  sessions, tells an evicted worker, and hands out free partitions. No fairness
  says that a commit succeeds or that Marquez answers.
- `resolver`: time passes, and `httpx` gives up when its timeout is due. The
  service need not answer.
- `analyzer`: the service's thread runs, time passes, and the client's timeout
  fires. Marquez need not answer.
- `masking` has no liveness property: its loop is over a finite list.

## 4. Proofs

All theorems hold for every value of the constants that the module's named
assumption allows (types and distinct null values; `Attempts`, `TTL`,
`FetchTimeout` and `CommitInterval` positive; for `Masking`, `Below` is a strict
partial order and a policy's path leads to the place it names; for `Evolution`,
there is a type and promotions are between types; for the clients of
`ControlPlane`, sets of rows have a newest and an oldest). A theorem with a
further condition has it as an ASSUME of its own: `StrictCallers` for five theorems about the store, which the repository
neither contradicts nor enforces (section 2); budgets of one attempt for
`SingleTriesAreRejectedUnwritten`, a setting a caller may choose. Each proof module defines an
inductive invariant `IInv` and proves `Init => IInv`, then
`IInv /\ [Next]_vars => IInv'` with one lemma per action or group of actions;
theorems follow with PTL.

| Theorem | States | Argument |
|---|---|---|
| `ContractStore_proofs!TypeCorrect` | types | inductive alone |
| `!NoGap` | `[]NoActiveGap`, if `StrictCallers` | a transaction that may deprecate the last active version activates its own target in the same commit. Needs the lock invariant: only the holder of a row's lock has written it, so no commit overwrites another's uncommitted row, and `CommitInv`: before `Commit` the target is written or absent |
| `!Supersedes` | `SupersedesWhatItSaw` | each row of the snapshot is, until commit, still to be visited or locked by the session; a locked row is not active behind its back |
| `!SoloExclusive` | `SoloActivationIsExclusive`, if `StrictCallers` and no version is created ACTIVE | while no other session works on the contract, its active rows are among those the session saw and its target |
| `!ServesControlPlane` | `ServesLikeControlPlane`, if `StrictCallers` | only `Commit` and a creation as ACTIVE change the ACTIVE rows, each those of one contract and so of one topic (`CommitOfContract`, `SameRows`); what a commit leaves of the topic is not empty, since its target or another row is ACTIVE (`ListedWhenActive`) |
| `!StaysFound` | `GetActiveVersion` never goes from a version to "not found", if `StrictCallers` | from `ServesControlPlane`'s step (`PlaneStep`): the rows of a topic are never none again, and the newest of a finite set of rows exists (`NewestIn`) |
| `!SerialCallsLeaveOneActive` | `[]AtMostOneActive` of every behaviour in which no two activations of one contract overlap, if `StrictCallers` and no version is created ACTIVE | a transaction that met no other sees every ACTIVE row of its contract (`SoloInv`), so its commit leaves one. With `store_unique`, which finds two when calls overlap, this says what exactly is missing: a serialisation of the calls, or a unique index |
| `!StuckOnlyInDeadlock` | whenever some session has a transaction open, one can lock, queue or commit, or a set of them is `Deadlocked` | `WaitInv`: a session waits only for its next row; `HolderInv`: the holder of a lock has a transaction open. If none can go on, the waiting ones are the set. This is the safety half of `CallsReturn`: nothing but a deadlock, which PostgreSQL detects, holds everybody up |
| `ContractCache_proofs!TypeCorrect` | types | part of `IInv` |
| `!KeepsPromise` | the cache implements `ContractView` | `EntryInv`: an entry's version was ACTIVE, as the newest row or another, at most FetchTimeout before the entry was stamped, and `FetchInv`/`WarmInv`: a reply was true when its request was sent or later. Adding the age gives TTL + FetchTimeout |
| `!PromiseSuffices` | `KeepsStalenessPromise => []AnswersBacked` | about `ContractView` alone: a row once ACTIVE never counts as never active again (`BackedStays`), so each answer stays backed |
| `!AnswersAreBacked` | `[]AnswersBacked` of the cache | from `KeepsPromise` and `PromiseSuffices` |
| `ProducePath_proofs!TypeCorrect` | types | part of `IInv` |
| `!LoggedValid` | `[]LoggedWasValidated` | `MessageInv`: a message in the client was validated against a version that had been active; payloads and the set of such versions never shrink |
| `!KeepsPromise` | the produce path implements `Delivery` | `OffsetInv`: at most one record per attempt, at its offset; `ReplyInv`: a waiting reply tells the truth about the last attempt; `RefusedInv`: a refused attempt has no message and never gets one |
| `!AcceptedIsDurable` | an accepted call names a record of its own, no attempt has two | not from `IInv` but from `Delivery`: `DInv` is inductive for `DeliverySpec`, and `KeepsPromise` carries it over |
| `!RefusedLeavesNothing` | a record of a rejected call is of an earlier attempt than the rejected one | as before, with `RefusalInv` |
| `!SingleTriesAreRejectedUnwritten` | `[]RejectedNotWritten`, if no call has more than one attempt | with one attempt there is no earlier one. With `produce_rejected`: retries are the only cause of a rejected message in the topic |
| `LineageWorker_proofs!TypeCorrect` | types | part of `IInv` |
| `!CommittedHandled` | `[]CommittedWasHandled` | `PositionInv`: all below a position is dealt with, except the message in hand, and no commit happens with a message in hand |
| `!NeverRegresses` | `CommittedNeverRegresses` | `AheadInv`: an accepted worker is not behind the group's offset, which needs `FencedInv`: no two accepted workers share a partition |
| `!Recorded` | `[]RecordedWhileMarquezAnswers` | while Marquez answers, handling an event records it in the same step, so with `CommittedHandled` a committed one was recorded |
| `!RedoIsBounded` | `[]RedoBounded` | `RedoInv`: what a worker would do again is at most its counter plus the message in hand, and the counter stays below the interval outside `_commit`. Cardinalities are handled as "at most n" facts that survive subsets and one more element; partitions need not be finite |
| `ContractResolver_proofs!TypeCorrect` | types | part of `IInv` |
| `!NotFoundIsTrue` | `NotFoundWasTrue` | `ReplyInv`: a topic that had a version when the request was sent has one when it is served, so its reply is no 404 |
| `!KeepsPromise` | the resolver implements `ContractView` | `EntryInv` and `ReplyInv` as in `ContractCache_proofs`, now for late replies that overwrite newer ones |
| `Analyzer_proofs!TypeCorrect` | types | needs that only nodes at less than `MaxDepth` are expanded |
| `!SearchIsLayered` | `[]Layered` | `TreeInv` (every node was found from one a hop nearer), `QueueInv` (the queue is in the order of depth and spans two depths) and `ExpandedInv` (what left the queue has all its neighbours found): with an empty queue the three give the distances |
| `!ReportsAreExact` | `[]ReportIsExact` | a report is made of a function that satisfies `AreHops`, a characterisation edge by edge, at the step that stores it (`Layered`); `AreHopsIsHops` shows that only `Hops` does, by induction over the depth |
| `!OwnersAreAsked` | `[]OwnersAsked` | from the same clause of `IInv`: a consumer that uses a changed field is CRITICAL at any depth (`OwnerInReport`), and every node within `MaxDepth` hops has a depth (`HopsHaveNodes`) |
| `!KeepsPromise` | the analyzer implements `ContractView` | `EntryInv` and `ReplyInv`, with an outage as one of the things Marquez does |
| `Masking_proofs!TypeCorrect` | types, and that documents stay trees | `SetFacts` |
| `!Enforced` | `[]PoliciesEnforced` | `PastInv`: at and inside the path of a policy whose turn is over nothing is clear, and no later policy brings a value back; `DocInv`: a suffix is there only where MASK was asked for |
| `!Untouched` | `[]OthersUntouched` | `DocInv`: a field that differs lies inside a transformed one |
| `!Audited` | `[]AuditComplete` | `PastInv` |
| `!Mentioned` | `[]PiiMentioned` | from `PastInv` for places a policy leads to, from `Detected` for the others; what is left are the two holes of the scan |
| `!BlockedRightly` | `[]BlockedForReason` | `StuckInv`: why a field is gone, null or a string by now, in terms of the earlier REDACTs alone; what cannot be decoded never reaches the loop |
| `Gate_proofs!TypeCorrect` | types | part of `IInv` |
| `!PassedUnbroken` | `[]PassedIsUnbroken` | `AvroUnbroken` and `JsonUnbroken`: a change that would break a reader is in the set of changes with severity BREAKING; with `WorstClass`, `Classify # "BREAKING"` implies `Unbroken` for all schemas. `AnswerInv` ties the answer to the row compared with |
| `!ClassifyMisses` | for two schemas of one format, a change that is not BREAKING violates `Fits` exactly when `AvroMiss`, `KeepsDocuments` exactly when `JsonMiss` | Avro: types were kept (`AvroKeepsTypes`) and removed fields had defaults, so only new strict fields are left. JSON: a document that has what is required, and one value of the type in question (`With`), is valid for one schema and not for the other |
| `!ClassifyOverstates` | a change that is BREAKING although `Fits` or `KeepsDocuments` holds is one of `AvroOverstates` or `JsonOverstates` | a change of severity BREAKING (`BreakingHasCause`) is a removed strict field, an added one or a changed type (`AvroCause`, `JsonCause`); each breaks what is asked for unless one of the listed circumstances excuses it |
| `!ChainsMayBreak` | for every name, type and mode there are three schemas whose two steps are not BREAKING and of which the first cannot read the third | a default is added, then the field is removed. No change of the two steps has severity BREAKING |
| `!SteadyChainsHold` | two steps that are not BREAKING keep the first reader going if no field gains a default and no removed name comes back | field by field, from `NotBreakingIsUnbroken` and `AvroKeepsTypes` |
| `!BreakingUnseen` | `[]BreakingPassesUnseenOnly` | consumers, once known, stay known, so a later read of the edges finds at least those of the comparison |
| `!UndisturbedUnbroken` | `UndisturbedMergeIsUnbroken` | rows are only appended, so the row compared with is still what it was when the request's own row replaces it |

Two remarks on the arguments. Induction over data (`Hops`, and the greatest of
a finite set of rows) is done with sets instead of the library's induction
rules, which take an operator: the instances at which a claim fails form a set,
a set of naturals has a least element (`LeastNat`, from `WFMin`), and the claim
below that element gives a contradiction. And where an abstract specification is
implemented, its consequences are proved of it and not of the implementation
(`DInv`, `AnswersBacked`), so they hold of any other implementation as well.

Only model-checked: every liveness property (`CallsReturn`, `GetReturns`,
`HandlersReturn`, `EveryMessageHandled`, `ResolveReturns`, `AnalysisReturns`),
since the prover handles neither fairness nor ENABLED. Every other property that
a passing run checks is stated by a theorem. Of the refuted ones,
`AtMostOneActive` and `RejectedNotWritten` are proved under the condition that
excludes the counterexample; `BreakingNeedsApproval` and `StaleWithinTTL` have
their weaker true forms in `UndisturbedUnbroken` and `KeepsPromise`.

## 5. What is not modelled

- Metrics, tracing, logging, health probes, configuration loading.
- The text of replies and events, and JSON itself, except for the missing
  members of the contracts service's JSON.
- `AppendApprovalEvent`, `GetFieldPolicies`: no writer reads what they touch,
  and the gate does not read approvals.
- `ParseVersion` and `BumpLevel`, which have no caller, and the script
  `run_gate.py`, which is not in the repository.
- The lineage extractor: a recursion over the keys of one message, with no state
  and nobody who depends on its result but the facets of an event. Its depth
  limit is a finding.
- The catalog UI: stateless pages, mostly over endpoints the contracts service
  does not serve.
- In masking: the values of tokens and the namespaces they are made with, the
  characters of strings, empty keys, and how the elements of an array differ. In the
  analyzer: the wording of the summary and the order of consumers. In the
  resolver: use after `close()`.
- Kafka's replication: a written message stays. PostgreSQL's storage: a commit
  stays. Crashes of either are lost connections.
- The rounds of a rebalance. `Revoked` and then `Assign` is the eager protocol the
  workers use; `Assign` alone lets a worker gain partitions without the
  revocation before it, which allows more than the protocol does.
- Components listed as `not_modelled` in `PROJECT.json`, with their reasons.

## 6. Plan

Done: `ControlPlane`, `ContractStore`, `ContractView`/`ContractCache`, `Delivery`/`ProducePath`,
`LineageWorker`, `Evolution`/`Gate`, `Masking`, `BlastRadius`/`Analyzer` and
`ContractResolver`, each with runs and proofs. What could follow:

1. `Gate` over the transactions of `ContractStore` instead of atomic steps. Both
   are checked on their own; joined, the bounds of both would have to shrink.
2. `ProducePath` over `ContractCache`, so that `Lookup` returns only what the
   cache may hold. It now assumes less of the cache than the cache guarantees
   (`PromiseSuffices`).
3. The extractor, as a function over trees of keys with a bounded reference.
