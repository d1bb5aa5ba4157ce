# TLA+ models of flaggy

Specifications of flaggy's store, handlers, evaluation engine, event broadcaster,
API keys, server process and migrations, with the TLC instances that check them
and the TLAPS proofs about them. `PROJECT.json` lists the components, the runs,
the hazards the properties are aimed at, the mutants that show each property can
fail, and, for every definition, the lines of the source it models.

    tlc -workers 2 -config catalog.cfg MCCatalog.tla     # any run of the table below
    tlapm CatalogProofs.tla                              # likewise every *Proofs module

## 1. Inventory

| component | state | operations | hard about it |
|---|---|---|---|
| **store** (`internal/store`) | one SQLite file in WAL mode (flags, rules, conditions, segments, segment_conditions, rule_segments, api_keys) behind a `database/sql` pool | create, get, list, update, delete, toggle of flags; create, update, delete of rules; create, get, list, update, delete of segments; `GetFlagForEvaluation` | no lock above SQLite: requests interleave between statements; reads and most writes are several statements outside a transaction; `foreign_keys` is on for one connection only; `SQLITE_BUSY` |
| **handlers** (`internal/api`) | none | decode, validate, call the store, publish an event, answer | what is validated against a read is used after it; errors of the store are mapped to one status; the event is published after the commit, outside any lock |
| **batch evaluation** (`api/batch.go`) | none | evaluate a list of flags, one after the other | other requests commit between two flags |
| **models** (`internal/models`) | none | validation of flags, rules, segments, values | which request may reach the store |
| **engine** (`internal/engine`) | none | `Evaluate`: rules by priority, inline conditions, segments, rollout; twelve operators over JSON values | early returns, fail closed, rollout boundaries 0 and 100, conversions between kinds |
| **broadcaster** (`internal/sse`, `api/stream.go`) | map of client channels under an RWMutex | Subscribe, unsub, Publish, Close, the stream's loop | close against send, a full channel, a client that does not read, waiting writers |
| **API keys** (`api/auth.go`, `store/apikeys.go`) | `api_keys`; master key | create, list, validate, revoke; two middlewares | `last_used_at` is written by a second statement; revocation against requests under way |
| **server lifecycle** (`cmd/flaggy/cli/serve.go`) | process | start, signal, Shutdown, deferred closes | open streams hold Shutdown for 5 s, then the broadcaster and the database close under handlers |
| **migrations** (`store/sqlite.go`, `migrations/*.sql`) | schema, `schema_migrations` | per file: count, execute, record | crash between two of these, upgrades, downgrades |
| CLI client, config, log and CORS middleware, Helm chart | none | | |

A request passes the middleware of its route, then its handler goes to the
store, statement by statement, on connections of the pool; a handler that
changed something then calls `Broadcaster.Publish`; `GET /stream` handlers
receive from their channel and write to their client. Evaluation reads through
the store and then runs the engine on what was read. On a signal, serveCmd shuts
the server down and closes the broadcaster and the database. Nothing else is
shared.

What makes each part correct:

- store and handlers: a request takes effect at one instant, entirely or not at
  all; no dangling rows; no rule or segment that nothing has to hold for (it
  would match everyone); defaults of the flag's type; every request answered.
- batch: results aligned with the request; a later flag is not read from an older
  database than an earlier one.
- engine: the first matching rule by priority decides; missing segments and
  attributes never match; a larger percentage never takes the value away; only a
  stored condition of the wrong shape fails; operators agree with one another.
- broadcaster: no panic, no leak, order, no loss without a full channel, and no
  call that waits for a client.
- process: a revoked key is refused; the row that an announced change leaves has
  been sent to every connected client; every request is answered; a signal ends the
  process.
- migrations: a serving program has its whole schema; restarts end in serving.

## 2. Modules

    Schema -- Requests -- Catalog ------------------------------ CatalogProofs
                |            ^ refined by (StoreProperties!Abstract)
    Engine -----+--- Store --+-- StoreProperties -- Snapshots
       |                              |`---------- Batch -------.
       |                              `-- StoreProofs -- RefinementProofs
       |                     CatalogProofs --------------------'
    Conditions -- Evaluation ---------------------------------- EvaluationProofs

    RWMutex -- Broadcaster -- Deliveries -------- DeliveriesProofs
                   |   `----------- BroadcasterProofs --' |
                   |                                      |
    APIKeys ---- Server -- ServerProperties -- ServerProofs
    Migrations ------------------------------------------------ MigrationsProofs

| module | models |
|---|---|
| `Schema` | the database as a record, the SQL statements as operators on it. `fk` is whether the connection enforces foreign keys. A segment has its description (`about`); the description of a flag, which is read and written with its other columns, and timestamps are left out; a segment key is its rank in `ORDER BY`. |
| `Engine` | what `Evaluate` returns, declaratively. A context is the set of conditions that hold, the set whose operator fails, and a rollout bucket. |
| `Conditions` | the twelve operators on JSON values (a kind and a content), `resolveAttribute`, `toString`, `toFloat64` and the entity a rollout asks for. A number is the text that `%g` prints of it, and `Amounts` says what that amounts to: only 0 has two texts, `0` and `-0`. What texts contain and match, and the bucket of an entity, are relations. |
| `Evaluation` | the evaluator's loops and early returns, step by step, on a flag and the JSON object a client sent. |
| `Requests` | request bodies, validation, rows and views, statuses. |
| `Catalog` | the abstract specification: each request of a session arrives, takes effect at one instant, and is answered as of that instant; or fails and changes nothing, but for a toggle, which may have taken effect when it fails to read back the flag. A crash loses the requests under way and nothing else. |
| `Store` | the code: `pc[s]` is the statement session `s` runs next, `view[s]` what it has read, `work[s]` its uncommitted writes, `conn[s]` its connection. One action per statement, with the handler's decisions between statements folded into the action that leads to them; a SELECT may fail instead (`ReadFails`). |
| `StoreProperties` | the refinement mapping to `Catalog`, where it holds (`Serial`, `Quiet`), and what holds of overlapping requests. |
| `Snapshots` | `Store` with a history of the answers the catalogue would have given during each read. |
| `Batch` | `EvaluateBatch`: the evaluations of `Store` in a row, with a history of the databases since each began. |
| `RWMutex` | Go's `sync.RWMutex` (external): a waiting writer keeps new readers out, and they enter before the next writer. |
| `Broadcaster` | Subscribe, unsub, Publish, Close and the stream's loop. Going to the next channel and sending to it are two steps; a locked section that only its holder sees is one. |
| `Deliveries` | `Broadcaster` with a history of calls, and what clients may rely on. |
| `APIKeys` | the table `api_keys` and what the two middlewares let through. |
| `Server` | the process: requests through middleware, store, Publish and answer, streams, and serveCmd from the signal to the exit, or to the exit that ListenAndServe's goroutine makes when it fails. It extends the whole `Broadcaster` and `APIKeys`. |
| `ServerProperties` | `Server` with a history of revocations, registrations, unannounced changes and dropped events. |
| `Migrations` | `migrate` across starts of any version, one action per query or statement. |
| `Workloads`, `MC*` | requests, stored databases, flags and files of the instances; `MCRefinement` assumes `Serial` or `Quiet`, and `MCBatch` assumes `Untorn`, as the theorems do, so that TLC evaluates the assumption on the instances of `serial`, `concurrent` and `snapshots`. |
| `*Proofs` | theorems; see section 4. |

`Store` maps to the code like this: `Validate` is the handler up to the first
store call; `Acquire` and `Release` are the pool's (two idle connections are
kept; a new one is always "plain"); `ReadFlagRow`, `ReadRules`, `ReadLinks`,
`ReadSegmentRow`, `ReadSegmentConds`, `CountLinks` are the SELECTs;
`Exec...` are the single-statement writes; `ValidateSegmentKeys`,
`WriteTransaction`, `Commit` are the three parts of a transaction. The writes of
a transaction are one action: no other connection sees them before the commit.
In WAL mode a transaction that has read cannot write once another has
committed, which is `stale`; `Busy` is any other `SQLITE_BUSY`.

`Server` takes statements as atomic, as `Store` has them in detail, and one flag:
`present` is whether its row is there, `commits` numbers the changes that hit it,
and an event is told by the number of the state it shows. `step[t]` is what the
handler that goroutine `t` runs does next, `pc[t]` what it does inside the
broadcaster. Update reads and then writes, toggle writes and then reads back, and
both may find the row gone in between, with what the code then publishes; an update
may also find another row, created since, whose type and creation time it does not
write, and then publishes a state that was never stored (`stale`).

Operators whose comment begins "Mutant:" are not part of a specification. Each
is a variant of the definition below it with a bug one could have written, and
makes one property fail; `PROJECT.json` says which.

## 3. Runs

| run | what it shows | instance |
|---|---|---|
| `catalog` | `Consistent`, `NeverUnguarded`, `DefaultsHaveType` of the catalogue | 2 sessions, every operation that changes something, with every refusal, 2 segments, 2 rule ids |
| `serial` | the store implements the catalogue for one request at a time, failing reads and crashes included | 1 session, every operation, from an empty database |
| `concurrent` | it still does for two overlapping creations, rule updates and segment updates that name both fields, and leaves a sound database on any connections | 2 sessions, `Transactions` |
| `segments` | with deletes, overlapping, on any connection: rules stay whole, a deleted one stays gone, no transaction links a dead segment, every request is answered | 2 sessions, `SegmentChurn`, 1 segment, 1 rule id |
| `snapshots` | a GetFlag or evaluation that at most one change overlaps answers from one instant; a batch is aligned with its request and reads forward in time | 2 sessions, `ReadsAndWrites`, and a batch of a flag, one that is not there, and the first again |
| `torn` (violation) | an evaluation overlapping an UpdateRule serves a value nothing matched for | 2 sessions, 2 requests |
| `cascade` (violation) | a delete on a second connection does not cascade | 2 sessions, 2 requests |
| `evaluation` | the loops compute `Evaluate`, terminate, fail closed, rollout grows monotonically, and operators agree with one another | flags of up to 2 rules, 2 conditions, an existing and a missing segment; and one-rule flags with every operator, 19 condition values, 15 attribute values of every kind |
| `disabled` (violation) | a boolean flag that no rule matches serves not its default but `false` when it is disabled, and `true` when it is enabled and has no rules | same |
| `broadcaster` | no panic, no leak, order, no silent loss | 2 publishers, 2 streams, shutdown, channel of 1, 2 events, 3 subscriptions |
| `server` | a revoked key is refused; the row left by the last change is sent to every connected client if its handler announces it; every request is answered though no client reads; a signal ends the process | 2 administration goroutines, 5 sequences of 2 or 3 requests (`MCPlans`), 1 client goroutine, 1 key, 1 subscription, channel of 1, 3 events, the signal or the listener's failure at any moment |
| `migrations` | the schema is whole whenever the program serves; restarts end in serving, but for one window | the real four files, 4 crashes |

**Bounds.** Two sessions are enough for every pairwise race; the runs' properties
relate a request to one other. One flag suffices because no statement
touches two; a batch asks for a second one, which need not be there. Two segments
and two rule ids let a rule name an existing and a missing segment, and a deleted
rule be followed by a new one. `MaxRule` bounds the creations, `MaxSegConds` what
leftover conditions may pile up under a segment key, `MaxCrashes`, `MaxEvents`,
and `MaxID` what their names say. A channel of capacity 1 is full
after one event, so that two events reach what 65 would with the real 64. In
`server` the administration's requests (`Plans`) are two changes that meet, a key
that is created and revoked, or the three changes it takes to write a row that is not
the one that was read; the client's requests are not bounded but for its subscription. What these bounds keep out of
the broadcaster and the process, the theorems of section 4 cover: they hold for
any number of everything. In `migrations` nothing is scaled down but the number of
crashes; four crashes hit every pair of adjacent steps in every file.

**Deadlock** is checked except where the system may really stop: an evaluation
that has returned, a broadcaster whose bounded events and subscriptions are used
up, a process that has exited, a program that serves.

**Fairness.** `Store`: weak fairness of each session's own steps; goroutines run,
and SQLite's busy timeout ends. Requests need not arrive and nothing need crash.
`Evaluation`: one call runs to its end. `Server`: weak fairness of every
goroutine's steps that are ready, in handlers, in the broadcaster and in
serveCmd, whose Shutdown has a timeout; none for the arrival of requests, for the
signal, for a failure of the listener, or for a stream's receive and end: its client may stop reading, and the
server has no write timeout. With bounded subscriptions weak fairness is enough
for those who wait in Lock, so nothing is assumed of the mutex's queue.
`Migrations`: the supervisor restarts the program and the program runs. The
`broadcaster` run checks safety only; that its calls return is part of `Answered`.

### What the violations say

- `torn`: `getRulesForFlag` reads rules and their segment keys in two statements
  outside a transaction. Start with a rule on a segment; the evaluation reads
  the rule (no conditions); an update replaces the segment by a condition; the
  evaluation reads the keys (none). The rule it evaluates has nothing to check
  and serves its value to everyone. README.md:151 says everything must match.
- `cascade`: `PRAGMA foreign_keys=ON` (sqlite.go:26, under the comment "Enable
  WAL mode and foreign keys") sets one connection. While a read holds it, the
  pool opens another one, and a DELETE there cascades nowhere.
- `disabled`: README.md:148 and evaluator.go:20 say that a disabled flag returns its
  default value; evaluator.go:31 returns the literal `false` for boolean flags.
  README.md:153 and evaluator.go:23 say the same of a flag that no rule matched;
  evaluator.go:41 returns the literal `true` for an enabled boolean flag without
  rules. `UnmatchedServesDefault` is both; TLC shows the first it meets, and each half
  alone is violated. With rules, none of which matches, the default is served.

### What does not refine the catalogue

`concurrent` leaves out, on purpose, the requests whose overlap breaks the
promise in the code:

- deletes: no cascade on other connections; the count and the DELETE of a segment are
  two statements (segments.go:165);
- UpdateFlag writes back every column it read, so a concurrent toggle is lost
  (store/flags.go:99);
- ToggleFlag answers with what it reads back after its UPDATE: two toggles may both
  answer the state that they left together (store/flags.go:130), and a flag created
  in between is answered 200 without having been toggled;
- UpdateSegment without a description writes back the one it read, and without
  conditions answers with those it read (segments.go:93-149): an update that commits
  in between is lost, or answered for;
- GetSegment reads the description in one statement and the conditions in another
  (segments.go:55, :65): one UpdateSegment in between tears its answer;
- GetFlag and evaluation read a flag's rules in several statements (below);
- rule creation on a flag that is deleted and created again between its reads.

The predicate `Quiet` of `StoreProperties` is this restriction: creations, UpdateRule,
and UpdateSegment that names both fields. The model has the behaviours that are left
out: the workload of `serial` has all these requests, and TLC finds `ImplementsCatalog`
violated when two of them overlap.

GetFlag and evaluation promise less (`SnapshotRead`): they answer from one instant when
one change overlaps them, and it deletes nothing and replaces no rule (`Untorn` of
`Batch`). A DELETE or an UpdateRule can tear them (`torn`), and so can two changes. An
evaluation reads segments as GetSegment does, but uses their conditions only, which
come from one statement. A read that fails answers 500, a batch as a whole; the
promise is about those that succeed. The hazards in `PROJECT.json` name the lines.

### What the process does not promise

- The last event a client receives may show an older state than the one stored:
  two requests may publish in the other order than they committed.
  `NobodyStaysBehind` says that the newest state has been sent, not that it came
  last.
- A change that its own handler does not announce is left out (`untold`): a toggle
  whose read back fails is answered 500 and published to nobody (api/flags.go:110),
  and an UPDATE that hits a row created since the flag was read publishes the type and
  creation time of the old one (store/flags.go:100), which no stored row has.
- A client that was sent nothing because its channel was full is not told.
- A stream goes on after its key is revoked; `RevokedIsRefused` is about requests
  that arrive afterwards.
- When ListenAndServe fails its goroutine ends the process at once (serve.go:64):
  handlers are cut off, and neither the broadcaster nor the database is closed. To the
  handlers' requests this is a crash, which `Store` has.
- Without a master key the administration is open (router.go:17), while the client
  routes still ask for an API key: `RequireMasterKey` and `RequireAPIKey` say so.

## 4. Proofs

Each theorem holds for every value of the constants. The assumptions are the
named ASSUMEs of the modules, which TLC evaluates in every run: what a constant
is, that names are distinct, that the workload consists of requests and the cases
of well-formed flags, and that the server is started on a database that satisfies
the properties. `RWMutex` is taken as modelled.

| theorem | statement |
|---|---|
| `CatalogProofs!TypeCorrect`, `AlwaysConsistent`, `AlwaysGuarded`, `AlwaysTyped` | `CatalogSpec => []` of `TypeOK`, `Consistent`, `NeverUnguarded`, `DefaultsHaveType` |
| `StoreProofs!StoreTyped`, `LiveLinks`, `DeletedRulesStayGone` | `Spec => []TypeOK`, `Spec => NewLinksAreLive`, `Spec => NoRuleReturns` of the store, for any workload |
| `StoreProofs!RulesStayWhole` | `Spec => []RulesAreWhole`, if the databases it is started on are so |
| `RefinementProofs!StoreImplementsCatalog` | `Spec => ImplementsCatalog`, for one request of any kind at a time (`Serial`), and for any number of sessions whose requests are `Quiet`: creations, rule updates, segment updates that name both fields |
| `RefinementProofs!StoreStaysSound` | `Spec => []StaysSound`, where the store implements the catalogue |
| `RefinementProofs!ReadsAreSnapshots` | `BatchSpec => []SnapshotRead` (of GetFlag and evaluation), where clients delete nothing and replace no rule (`Untorn`) |
| `RefinementProofs!BatchesReadForward` | `BatchSpec => []BatchReadsForward`, likewise |
| `EvaluationProofs!EngineComputesEvaluate`, `ServedIsMatched`, `RolloutOnlyGrows` | the loops compute `Evaluate`; what is served was matched; raising a percentage takes nothing away |
| `EvaluationProofs!FailuresAreMalformed`, `AbsentFailsClosed`, `OrderIsTotal`, `EqualsIsTextual` | the same of the operators: `OnlyMalformedFails`, `AbsentServesNone`, `OrderOperatorsAgree`, `TextOperatorsAgree` (0 and -0 aside, which are equal and print differently) |
| `BroadcasterProofs!NeverPanics`, `NeverLeaks` | `Spec => []NoPanic`, `Spec => []NoneLeaked` |
| `DeliveriesProofs!DeliveriesTyped`, `ReceivedInOrder`, `NothingIsLost` | `HistorySpec => []` of `TypeOK`, `InOrder`, `Delivered` |
| `ServerProofs!ServerUsesBroadcaster`, `ServerNeverPanics` | `ServerSpec => Spec` (of `Broadcaster`), hence `ServerSpec => []NoPanic` |
| `ServerProofs!RevocationHolds` | `HistorySpec => []RevokedIsRefused` |
| `ServerProofs!NobodyIsLeftBehind` | `HistorySpec => []NobodyStaysBehind`: of the changes that are announced |
| `ServerProofs!ServerTyped` | `HistorySpec => []TypeOK` of the process |
| `MigrationsProofs!MigrationsTyped`, `SchemaIsServed`, `RecordsAreComplete`, `StatementsInOrder` | `Spec => []` of `TypeOK`, `ServesItsSchema`, `RecordedIsComplete`, `InFileOrder` |

How they go:

- **Catalogue.** No property is inductive alone. Deleting a segment leaves every
  rule guarded because no rule is linked to it, which needs the links to be of the
  schema; a new rule overwrites no other because ids are fresh, and inherits no
  links because none dangle. `IInv` is their conjunction on the database (`Sound`)
  with the types of calls and replies. One lemma per statement of `Schema`, one
  per group of operations, one for `Perform`.
- **Store.** `StoreInv` speaks of the requests under way, whatever they are
  (`Requests`), so that it holds in batches too; `Sent` says that they are of the
  workload, and theorem `StoreInvariant` has both. `StoreInv` puts SQLite's isolation in
  four parts. `OneWriter`: at most one transaction has written. `Isolated`: what it
  has written is what its statements make of the database as it is now, since
  nobody else may change it; what a transaction has validated is still so, or the
  transaction is stale and cannot write. `Placed`: a session at a statement holds
  what the handler checked and what the reads before returned. `IdsSuffice`: the
  CreateRules under way have a rule id left. Every step then takes rules and
  links away or leaves them as they are, or puts one rule in place by a transaction
  that still sees its segments (`DatabaseStep`), from which the theorems follow. None of this needs foreign keys to be enforced.
- **Refinement.** A request takes effect at the statement that answers it, at the
  commit of its transaction or, for a toggle, at its UPDATE; every other step is a
  stutter of the catalogue, and an error, a read that fails or a crash is its failure
  (of a toggle that reads back, `ReadBackFails`). Until a toggle has read back, its
  answer is what the database shows now. `RefInv` adds
  to `StoreInv` what a session between two statements knows of the database as it
  is now (`Known`), the description and the conditions it is to write back or answer
  with included, and that one request at a time only meets the connection that
  enforces foreign keys (`OneConnection`). The step of a
  session is an effect, a failure or a stutter and keeps what that session knows
  (`Own`), statement by statement and operation by operation; for the other
  sessions it is nothing (`OthersKnow`), as there are none or quiet requests take
  no flag and no segment away, change no type (`QuietKeeps`), and rely on nothing
  else. `StoreStaysSound`
  then needs no new invariant: `CatalogProofs`, instantiated with the refinement
  mapping, shows that no request of the catalogue harms a sound database.
- **Reads and batches.** A read stands in a database `d` (`Stands`) when what it has
  read is so in `d` (`Knows`; the `Known` of the refinement is about the database as
  it is), and what it is still to read is in `d` what it is now (`Unread`); then it ends
  with the answer that `d` gives, unless a statement of it fails. A read begins standing in the database as it is.
  The change that overlaps it, if it deletes nothing and replaces no rule, alters one
  flag's row, adds one rule, or alters one segment (`StepMild`), and the read has
  either read that place or has not: it goes on standing where it stood or stands in
  the new database (`ChangeSplits`). The order of the reads matters here: flag,
  rules, links, segments; a rule that is added after the rules were read is not among
  those whose links are asked for. `Forward` puts this along a batch:
  the first `m` results are those of the database before the change, the rest those of
  the database after it, and the read under way stands in the latter, or in the former
  when there is no such rest yet. `BatchInv` is `StoreInv`, `Forward`, and that the
  results so far are as many as the flags asked for (`Counted`).
- **Broadcaster.** A publisher does not panic because the channel it is at is
  still in the map: `BroadcastInv` says that a publisher between two channels and
  its send is a reader, that no id is given out twice, that the map holds open
  channels only, and that each has its stream. `Calls` adds what a call of
  Publish keeps.
- **Deliveries.** `DeliveryInv` adds that an event is in a channel only if its
  Publish has been there (`OnlyOffered`), that one it has been at has it, or missed
  it (`HandedOut`), and what was returned and owed when it was called (`Past`).
  Order follows because an event is appended before its Publish returns.
- **Process.** Every step maps to a step of `Broadcaster` or a stutter, so what is
  proved there holds here. `RevocationInv` says that a request that came with a
  revoked key is idle or still in the middleware with that key. For
  `NobodyIsLeftBehind`, `AnnouncementInv` says where the last change is: its
  handler (or one that read it back) is on its way to Publish, or some event shows
  it and every client it is owed to has it, missed it or is still ahead in a range
  over the map, or the change is `untold`; an UPDATE that hits no row, or another one
  than was read, shows no stored state, and a read back
  that finds nothing was overtaken by a delete, which is announced itself. For the
  types, `Counted`: the changes made and the handlers that may still make one are
  no more than the requests.
- **Evaluator.** `LoopInv`: no rule that was tried decides, the rules still to be
  tried come later, and within the current rule everything before the place the
  loops have come to holds.
- **Migrations.** `MigrationInv`: the recorded files are a prefix and in effect,
  the files before the current one are recorded, the statements before the current
  one in effect.

Every invariant and action property that a passing run checks has its theorem, as
has the refinement. Only model-checked, because liveness under fairness is out of
the prover's reach: `Answered` of the store and of the process, `SignalEnds`,
`Terminates`, `ServesOrStuck`. The three expected violations are counterexamples,
which TLC finds. The assumptions `Serial`, `Quiet` and `Untorn` are what the code
needs: section 3 names, for each request they leave out, the overlap that breaks
the promise.

## 5. Not modelled

- ListFlags, ListSegments, ListAPIKeys: they only read, in one step; ClientCount
  is not called.
- A flag's description, and timestamps: columns read and written with the others of
  the row, so that what is said of `enabled` holds of them. Writes that fail for other
  reasons than SQLITE_BUSY or a constraint.
- JSON decoding, the key pattern, the type switch of validation: requests are
  well-formed; names and environments of keys.
- The murmur hash and the regular expressions: a function to buckets and a relation
  between texts, any such (the theorems hold for all of them).
- The log and CORS middleware, the buffering of responses, configuration, CLI
  client, Helm chart: no state of the system.
- `sort.Slice` is not stable in general; the rules it gets are sorted already,
  and are taken to stay in place.
- A flag that is deleted and created with another type between CreateRule's check
  of the value and its insert (api/rules.go:48): `Store` has the behaviour, no
  property is stated of it, as the code promises nothing there.

## 6. Plan

Done: `Schema`, `Requests`, `Catalog`, `Store` and the refinement; `Snapshots` and
`Batch`; `Conditions` and `Evaluation`; `Broadcaster` and `Deliveries`; `APIKeys`
and `Server`; `Migrations`; the proofs of section 4.

Left: larger instances of `segments`, with two segments; its invariants are proved at
any size, so that only `Answered` would gain from it.
