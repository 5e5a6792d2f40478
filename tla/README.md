# llm-guardrail-proxy in TLA+

A verification development kept beside the Python package
`src/llm_guardrail_proxy`: TLA+ modules translated from the code, TLC
configurations that model-check them on small instances, and theorems that
TLAPS proves for every instance. `PROJECT.json` maps each definition to the
lines it stands for and lists runs, mutants, hazards, findings and theorems.

## 1. The system

A client sends an LLM request to the proxy; the proxy parses it, runs it through
a chain of middlewares (secrets, personal data, cost), forwards what they let
through to the provider, writes an audit record and answers. All requests are
tasks of one asyncio event loop; CPU-bound scans and blocking writes run on
worker threads. So steps between two `await`s are atomic, and everything else
interleaves.

| Component (code) | State it keeps | Operations | Interacts by |
|---|---|---|---|
| Circuit breaker (`proxy/circuit_breaker.py`) | state, failures, time it opened | `call` = `_before_call`, await `fn`, `_record_success` / `_record_failure` | called by the forwarder, shared by all requests and both providers |
| Forwarder (`proxy/forwarder.py`) | none (a shared httpx client with its pool) | `forward`, `_send`, `_iter_body` | breaker, pool, response body streamed after the handler returned |
| Pipeline and middlewares (`proxy/pipeline.py`, `middlewares/`) | the envelope in flight | `run`, `_apply_mutate`, `process` | called by the handler; two middlewares await a worker thread |
| Handler (`proxy/handler.py`) | the request's local variables | `handle_proxied_request`, `_record_audit` | everything above, and the audit sink |
| Audit sinks (`proxy/audit/`) | ring, log, JSONL file, DuckDB table; one lock each | `record`, `aclose` | called by all requests; the ring is read by the stats router |
| Audit records (`audit/records.py`) | none | `build_audit_record` | handler |
| Provider adapters (`proxy/providers.py`) | none | `parse`, `redact`, `resolve_adapter` | handler, pipeline |
| Tokenomics (`core/`, `config/`) | a cache of encodings | `evaluate`, `enforce`, `resolve_pricing` | middleware, CLI |
| Scanners (`proxy/scanning/`) | compiled patterns, an NLP model | `scan` | middlewares, CLI |
| Stats (`proxy/stats/`) | in the page: what it shows, its status, `paused`, refreshes in flight | `summary`, `recent`, refresh loop | reads the ring |
| Settings and wiring (`settings.py`, `__main__.py`, `proxy/app.py`, `configure_logging` in `audit/logging_sink.py`) | process lifetime | `main`, `configure_logging`, `create_default_app`, `build_app`, lifespan | composes all |
| Scan CLI (`cli/`) | none | `main`, `load_inputs`, `build_pipeline`, `run_all` | adapters, pipeline, tokenomics, scanners |

What is hard here: answers recorded by the breaker after others changed its
state; first-come-first-served hand-over between locks that are released one by
one; a sink that fails half way down the fan-out; a process killed in the middle
of an append, and the next one that goes on in the same line; scans and appends
that share a pool of threads while the appends also share a lock; exceptions that
leave the handler between two steps; upstream connections held beyond the
handler's return; clients that choose the audit key; redaction half way down the
chain, on values located in a flattened copy of the body; a tokenizer that is
silently replaced; settings that are only looked at when what they configure is
built; a page whose refreshes overlap, fail and pause.

What makes each part correct:

* breaker: its fields agree; no call gets through a cooldown; no call is refused
  outside one; it never refuses for ever;
* sinks: one stream in one order for all; a fault stays in its sink; every
  `record` returns; the ring holds the most recent records;
* the JSONL file: who was answered is on it; it is in the order of the calls; a
  kill or a failed append costs two lines at most; a hung disk takes no thread
  from the scans;
* handler: nothing is sent that a middleware was not shown and let pass; ledger, answer
  and wire agree; every request is answered; every connection comes back;
* adapters and records: no detected value is left whole in what goes out, nothing
  but text changes, later middlewares screen what is shipped, and the record
  explains the difference without giving a value away;
* tokenomics and CLI: exit status 0 only for what the flags allow, rejection only
  for a cause, no unlisted model priced below a listed one, report and status
  never part;
* start-up: what is switched on is enforced or the process does not serve, and what is
  mounted reads the ledger;
* dashboard: it shows what the ring held while it asked; a tab that looks live is;
  a lost proxy is noticed; it comes to rest under the mouse and catches up without it.

## 2. The modules

| Module | Models | Read with |
|---|---|---|
| `BreakerContract` | what the breaker promises, without named states or a clock | `ProxyHandler_proofs` |
| `CircuitBreaker` | `circuit_breaker.py`, line by line; implements `BreakerContract` | `MCCircuitBreaker`, `CircuitBreaker_proofs` |
| `AuditStream` | what `composite.py` promises: one stream for all sinks | |
| `AuditSinks` | composite, ring, log, JSONL and DuckDB sinks; implements `AuditStream` | `MCAuditSinks`, `AuditSinks_proofs` |
| `JsonlFile` | the JSONL sink's file and the thread pool, through kills and restarts | `JsonlFile_proofs` |
| `ProxyContract` | what the handler promises upstream, ledger and client about a request | |
| `ProxyHandler` | handler, pipeline, middlewares, forwarder; composed with `BreakerContract`; implements `ProxyContract` | `MCProxyHandler`, `ProxyHandler_proofs` |
| `Redaction` | both adapters, the redact policy on real text structure, previews and the record | `MCRedaction`, `Redaction_proofs` |
| `Tokenomics` | prices, encodings and verdicts, as operators | used by `ScanCli` |
| `ScanCli` | one invocation of `llm-guardrail-scan`, report included | `MCScanCli`, `ScanCli_proofs` |
| `Startup` | settings, wiring and lifespan of one process | `MCStartup`, `Startup_proofs` |
| `Dashboard` | `summarise`, the two routes and the polling page | `MCDashboard`, `Dashboard_proofs` |

Operators that a comment calls a bug (`CoolingDownOneTickShort`, `JoinsAhead`, ...)
are mutated forms of the definition that follows them. No specification uses them;
substituting one must make TLC violate the property named beside it, which
shows that the property says something about that code.

### CircuitBreaker

`state`, `failures`, `openedAt` are the breaker's fields, `now` its clock,
`call[c]` how the latest `call()` of a caller stands. `Refuse` and `Admit` are
`_before_call`; `Succeed`, `Fail` the two `_record_*`; `Cancel` a task cancelled
in `await fn()` (`CancelledError` is no `Exception`, nothing is recorded). Each
`async with self._lock` body holds no `await`, so it is one action. `"sending"` and
`"probing"` tell whether a call in flight was let through in CLOSED or HALF_OPEN.

`BreakerContract` keeps what is compared with a constant, saturated at that
constant: the failures since the last success and the age of the latest of
them. That is enough to decide every admission, and it shows that
the OPEN/HALF_OPEN distinction never influences a caller.

### AuditSinks

anyio's lock hands itself to the task that has waited longest, so a lock and
its waiters are one sequence, `line[i]`, whose head is the owner. `Advance` is
what a task does between two awaits: it leaves one sink, runs through the
logging sink (which never awaits) and joins the next line. `AppendToRing` is the
ring's `record`; `Write`/`FailWrite` is the worker thread of the JSONL and DuckDB
sinks; `Resume` is the task coming back from it, with the composite swallowing
what the sink raised. `id` is the client-chosen request id, DuckDB's primary
key. `left` is history: the order in which tasks left each sink. `AuditStream`
is the promise: a sink takes records from the front of one stream, never ahead
of a sink declared before it.

### JsonlFile

The same sink seen from below, alone with the worker threads. `threads` and `queue`
are anyio's limiter (a released thread goes to whoever waited longest), `line` the
sink's lock as in `AuditSinks`; `file` is what the kernel has appended, a whole line
or the beginning of one. `StartScan`/`EndScan` are the middlewares that scan on a
thread, `Audit` the call of `record()`, `AskThread` its `run_sync` under the lock,
`Write`/`FailWrite` the append on the thread, `Resume` the task that gives back both and
answers its client. `Kill` takes everything but the file, cutting an append in
flight short or not; `Restart` opens the same file in append mode. `ticket` is
history: the order of the calls of `record()`.

### ProxyHandler

`stage[t]` is where the task of a request is; `step[t]` the index of the next
middleware; `received[t]` is the client's request and `body[t]` the in-flight envelope, as
sets of traits, one per verdict the code can reach on them; `sent[t]` what went out; `held` the connections taken
from the pool; `audited[t]` the records handed to the sink; `reply[t]` the status.
`Continue`, `Mutate`, `Reject`, `CrashScreening` are the outcomes of one middleware, the
last also that of a redacted body that cannot be encoded; `Unroutable` ... `FailRelay`
the ways through `forward`; `Audit` (or `CrashAudit`, when the record cannot be built) and
`Respond` the rest of the handler; `Drain`, `Break`, `Disconnect`, `Close` the response after it
returned. Breaker variables are driven by the actions of `BreakerContract`.

`Redacted` says what is certain of a rewritten text: the values found in it are gone. It
may hold a secret that the letters around a value had hidden from the patterns, values the
recogniser finds only now, or be longer. The middlewares before the redaction do not see it.
`UpstreamSeesScreened` is worded accordingly: each middleware let pass what it was *shown*,
the client's text up to the redaction and the text that goes out after it.

`ProxyContract` is the page a reader should start with: upstream, ledger and client each
hear of a request once at most, in that order; what ledger and client are told is true of
what went out; a request that fails on the way (`GiveUp`) is told to its client alone. Its
`sent` counts what `ProxyHandler` sends, a record maps to the decision it names
(`DecisionOf`).

### Redaction

A text is a sequence of symbols, a body a list of messages with their `content`
field as `_coerce_content` tells them apart (string, list of parts, other, absent),
and a system prompt. `Parse` flattens the body as the provider's adapter does,
`Scan` reports any spans of that content, overlapping and repeated ones
included, each with its `Preview`, and `Mutate` is `_apply_mutate`: replace in every
field, then parse again; `CrashMutate` is the same call for a body that holds what UTF-8
cannot encode. `Evaluate` is the tokenomics middleware on the envelope in
flight, and `Audit` builds the record from what the middlewares annotated, whether the
request was let through or not. A `[REDACTED:...]` tag is one symbol, so a value that
occurs inside a tag (a finding such as `PII`) is not modelled; a client may quote a tag it
got back, and a value detected around one is the exception `NoDetectedValueRemains` makes,
because replacing it may put such a value together again.

### Tokenomics and ScanCli

Prices are whole multiples of 1E-8 USD, so `Decimal` arithmetic is exact on both
sides. A prompt is the number of its tokens in each encoding, because the code may
count in one and report another (`EncodingUsed`, `EncodingOf`). What `tiktoken` does is
chosen anew at each call (`Possible`), except that an encoding in the cache is not
loaded again. In `ScanCli`, `LoadInput`, `RefuseInput` and `CrashOnInput` are
`load_inputs` input by input; `BuildPipeline`/`RefuseOptions` are `build_pipeline`;
`ScanInput` is one turn of `run_all`; `Finish` renders the report, an entry per input
and their counts, and computes the status. A status of 1 has two ways in, `Finish` and
what nothing catches (`CrashOnInput`, `CrashOnOptions` when the PII backend has no language
model, `CrashScan`, and `CrashReport` when the report cannot be written). What `CrashReport`
leaves to read is nothing, some of the entries or the whole report; `ReportAgrees` is about
all three.

### Startup

One process, phase by phase in the order of the code: `Main` validates the settings,
`ConfigureLogging`, `BuildPipeline`, `BuildForwarder`, `BuildSinks` and `BuildApp` are
`create_default_app`, `Bind` is the server, `Stop` the end of the lifespan. Of a number
the place is kept that it has with respect to the bounds of its field; a float may also be
infinite, which `gt` lets pass, or no number. The constructors that check their numbers
again (`ThresholdPolicy`, `CircuitBreaker`, `InMemoryAuditSink`) do so in the phase that
calls them. A path is unset, empty, usable, without a directory, or unwritable, which the
DuckDB sink notices when it connects and the JSONL sink only when it appends; and an extra
(Presidio, DuckDB) may be missing whenever it is asked for.

### Dashboard

`rings` are the contents the in-memory ring has had, its last element the current
one; `Return` may be a restart, which empties it. A refresh in flight keeps the
ring's index when it began and the answers that have arrived. `Refresh` is the timer calling
`refresh()` up to its `await`, at any moment the page is not paused, so refreshes overlap;
`AnswerSummary` and `AnswerRecent` are the two routes, each one atomic read of the
ring; `Reject` is a fetch that fails, while the proxy is away; `Render` and `Fail` are the
two ends of `refresh()`, each with the `updateStatus` it calls, and a `Fail` may come when
the proxy is long back; `Tick` a second and the status timer.

## 3. The runs

| Run | Instance | What it shows |
|---|---|---|
| `breaker_contract` | 3 callers, threshold 2, cooldown 3, time unbounded | `AdmitsAgain` |
| `circuit_breaker` | 3 callers, threshold 2, cooldown 2, 6 ticks, 5 failures | `FieldsAgree`, `NoCallDuringCooldown`, `RefusesOnlyInCooldown`, `CooldownEndsByTimeOrSuccess`, `ImplementsContract` |
| `single_probe` | same | violated: two probes at once |
| `audit_sinks` | 3 tasks, 4 sinks, ring of 2, 2 ids, all fallible sinks faulty | `OneStream`, `Isolated`, `RingIsRecent`, `ObservesOneStream`, `EveryRecordReturns` |
| `same_records` | same, no sink faulty | violated: a repeated id is lost in DuckDB only |
| `jsonl_file` | 3 requests of 2 scans, 2 threads, 2 kills | `AnsweredIsOnFile`, `InArrivalOrder`, `DamageIsBounded`, `ScansSurviveAHungDisk`, `EveryRequestEnds` |
| `proxy_handler` | 2 requests, 11 kinds of body, pool of 1, threshold 1, cooldown 2 | `UpstreamSeesScreened`, `LedgerMatchesWire`, `ConnectionsAccounted`, `KeepsPromise`, `EveryRequestAnswered`, `ConnectionsReturn` |
| `exactly_one_record` | 3 requests, threshold 2, cooldown 1 | violated: a middleware raises |
| `redaction` | 1 or 2 messages and a system prompt over 2 letters, 2 findings, both providers and policies | `NoDetectedValueRemains`, `RedactedAsScanned`, `OnlyTextChanges`, `ContentIsTheBody`, `LedgerExplainsTheBody` |
| `scan_cli` | batches of up to 3 inputs, all flags, 2 token and 5 cost bounds | `ZeroMeansClean`, `RejectedForCause`, `NeverUnderpriced`, `ReportAgrees` |
| `dashboard` | 3 records through a ring of 2, `limit` 1, 2 overlapping refreshes, restarts | `LiveMeansFresh`, `RendersItsOwnTime`, `LostServerIsNoticed`, `HoverSettles`, `CatchesUp` |
| `startup` | every combination of switches and paths, each number below, within and above its bounds, infinite and NaN | `EnabledMeansEnforced`, `StatsReadTheLedger` |

The type invariants are theorems (section 4); those of `Redaction` and `Dashboard` are
checked as a conjunct of `NoDetectedValueRemains` and `LiveMeansFresh`.

The bounds and why they are enough. Three callers are one to trip the breaker,
one whose answer is late and one to be refused or to probe. Threshold 2 separates
the first failure from the one that trips. Six ticks hold two cooldowns and
what follows. `MaxTime` and `MaxFailures` bound the breaker's counters; when
time is up, calls go on, so no deadlock is excused. The other bounds are `MaxKills`,
`MaxFindings`, `MaxBatch` and, in the page, `Overlap` and the length of `Traffic`. A ring of two overflows with three
records, and two ids for three tasks must collide. A pool of one is exhausted by
one client that reads slowly. Bodies are one for each outcome the chain and the
forwarder can have, with combinations where the order matters: `{secret, long}`
(which verdict comes first), `{pii, split_pii}` (what redaction removes and what it
leaves) and `{secret, unrecordable}` (a verdict that cannot be recorded). Two requests are
one that holds the only connection or the open breaker and one that meets it, and with
threshold 1 the first failure opens the breaker for two ticks; the properties are about
one request or the shared pool, and those that are safety are proved for any number of
requests. The run redacts; blocking is covered by the theorems, which hold
for both policies. Symmetry is used only in runs without liveness.

In `jsonl_file` two threads are the fewest with which a hung append leaves one to the
scans; with three requests one writes, one waits for the lock and one scans; two
kills let a fragment be left in a file that already holds one. In `redaction` two
findings may be equal, nested, overlapping, adjacent or across two fields, and each
value may occur in several fields; its system prompt of two symbols and two messages
make contents long enough for previews on both sides of six symbols. The inputs
of `scan_cli` lie at, below and above the bounds, in one encoding and not in the
other; with three, a rejected or unusable input may be first, in the middle and last.
Three records evict one from a ring of two; two refreshes are one that is overtaken and
one that overtakes.

Deadlock is checked in every passing run. A stopped process (`Stopped`, `Over`) and a
world where all requests are done (`AllDone`, `Quiet`) stutter explicitly.

Fairness. `BreakerContract!FairSpec`: the monotonic clock goes on; no caller is
assumed to do anything. `AuditSinks!FairSpec`: a task that can go on is run by the
event loop, a worker thread's write ends; no client is obliged to send.
`ProxyHandler!FairSpec`: the server's own steps happen, and httpx's time-outs
(`upstream_timeout_seconds`, which covers the wait for a connection too) end every
call. Clients and upstream bodies are assumed nothing: `EveryRequestAnswered` holds
with every connection in the hands of a client that never reads.
`ConnectionsReturn` therefore excepts a body being relayed, and it excepts a
response or a record that could not be built (`FailRelay`, `CrashAudit`): there the code
really leaks.

`JsonlFile!Spec`: scans, which only compute, end, and the event loop runs who can go on.
No append is obliged to end and nobody to restart the process: `ScansSurviveAHungDisk`
holds with a disk that never answers again. `EveryRequestEnds` is about locks and
threads, not about the disk, and states its assumption (`DiskAnswers`) itself.

`Dashboard!Spec`: the browser runs its timers and settles the oldest fetch; the proxy may
stay away, traffic may never stop within its bound, the mouse may stay. `CatchesUp`,
`HoverSettles` and `LostServerIsNoticed` therefore assume, in their statements, that the
proxy stays (and the mouse leaves), that the mouse stays, or that the proxy is gone for
good. Time is not tied to the refresh timer: five seconds may be any number of ticks,
which allows more behaviours than the page has.

## 4. What is proved

All theorems are for arbitrary constants, under the ASSUMEs of the modules only:
positive threshold, cooldown, capacity and pool; sinks that are distinct and of
the four kinds, a ring that never raises; a chain of distinct middlewares; more than one worker
thread; bodies of the declared shapes; symbols of a text that differ; records whose
verdict and rejecting middleware agree, as `build_audit_record` makes them. The bounds of numbers are those
of `settings.py`, checked again in the constructors; a cooldown is finite besides, which
neither of the two demands (section 5).

* **Breaker.** `BreakerInv` = `TypeOK` /\ `FieldsAgree` /\ `HalfOpenIsCooled` is
  inductive as it stands: the failure count decides the state and `openedAt`
  is the time of the latest failure. `NoCallDuringCooldown` and
  `RefusesOnlyInCooldown` follow from one equivalence,
  `CoolingDownIsTrippedRecently`; `CooldownOnlyEndsSo` goes through the actions: a failure
  restarts the cooldown, a refusal or a cancellation changes none of its
  fields. `BreakerImplementsContract` maps each action to the contract's action of the same
  name, `Tick` to `Tick` or a stutter.
* **Contract.** `ContractTypeCorrect` and the `CooldownOnlyEndsSo` of `ProxyHandler_proofs`
  are about `BreakerContract` alone; its callers there are the requests, which may be any set.
  `HandlerKeepsContract` proves that the handler drives the breaker only as the contract
  allows, so `ProxyCooldownOnlyEndsSo` holds of the breaker in the proxy.
* **Sinks.** `OneStream` needs `LinesMatchTasks`: a task that advances must be
  the head of the line it leaves, and the logging sink's line must be empty for
  a task to pass it. The sequence lemmas at the head of `AuditSinks_proofs` say what
  happens to `left[i-1] = left[i] \o line[i]` when a head leaves or a task joins.
  `SinksInv` adds that a task has been offered to exactly the sinks before its
  place (`OfferedInTurn`) and that the outcome of a record is known as soon as its write
  is over and not before (`OutcomesKnown`); `Isolated` is both at the end of the chain.
  `RingIsRecent` rests on `EvictKeepsLatest`: dropping the oldest record of a full ring
  after an append keeps the latest ones. `SinksImplementStream` is the refinement of
  `AuditStream`: every history is a prefix of `left[0]` (`Prefixes`), so the owner of a
  lock is the next record of the stream for its sink (`NextInLine`). `Advance` maps to a
  `Take` by the logging sink it passes, and by the ring it leaves; `Write` and
  `FailWrite` to a `Take` by one sink that accepts or not; `Resume` to a stutter
  unless a logging sink follows.
* **JSONL file.** `FileInv` says that nobody is in the pool twice (`Apart`), that an append
  on a thread belongs to the owner of the lock (`Owned`), that the line is in the order of
  the tickets (`Lined`) and that what is on the file came before all in line (`Filed`).
  It survives `Kill` because the file keeps its tickets and the line is emptied.
  `AnsweredAlwaysOnFile`, `FileAlwaysInArrivalOrder` and `OneWriterAtMost`, which is why a
  hung disk costs one thread, follow. `DamageAlwaysBounded` counts: by
  `DamageInv` the pieces of a line without an end (`Parts`) are at most the kills and the
  requests whose own append failed (`missed`), and only an append that is over is in
  `missed`, so that no request is charged twice.
* **Handler.** `HandlerInv` says of each request, stage by stage, what was told to
  ledger and client (`Told`), what went out (`Wired`), which middlewares have been passed
  and by which text (`Screened`) and what is held of breaker and pool (`Shares`). A
  step of one request leaves the others alone (`SameKeeps`), so each action is
  checked for its own request only. The heart is `MutateMoves`: at most one middleware of
  a chain rewrites (`OneMutates`), and it rejects nothing that it rewrites
  (`MutatorRejectsNothing`), so what the middlewares up to it passed is the client's text
  and stays so. From it come `OnlyScreenedIsSent`, `LedgerAlwaysMatchesReply`,
  `LedgerAlwaysMatchesWire` and `ConnectionsAlwaysAccounted`. `HandlerKeepsPromise` is the
  refinement of `ProxyContract`: `Connect` maps to `Forward`, `Audit` to `Record`,
  `Respond` to `Answer`, the exceptions and the early answers to `GiveUp`, all else
  to a stutter. `LedgerMatchesReply`, which follows from it state by state, is a theorem only.
* **Redaction, any text.** `RedactionInv` says that the body is the client's until the
  findings are decided about, and is changed once at most. `ShapesRoundTrip`,
  `ScreenedIsShipped` and `LedgerAlwaysExplains` hold whatever flattening and replacing
  compute. The last one needs `PreviewHides`, for a text of any length: at most six symbols
  of seven or more are shown.
* **Redaction, what it computes.** `Joined`, `Replaced` and `ApplyReplacements` are recursive
  functions, and a recursive function is the one CHOOSE finds for its equation. So what one
  computes takes two steps: some function satisfies the equation (`Computed`, and its
  counterpart from the end of a text), and every value of one that does is as wanted, by
  induction on the least number of a set of counterexamples (`LeastNumber`, `UpTo`,
  `DownFrom`; the library's induction theorems, which take a predicate, are not usable
  here). `TextsSafe` and `RedactionTypes` are the totality of the three.
  `NoDetectedValueEverRemains`: replacing leaves no copy of the value (`ReplacedIsGone`), and
  as a replacement puts only tags in, a value without a tag that occurs in its result
  occurred before (`TaglessCopy`, `NothingAppears`); so in the end all are gone (`AllAreGone`).
  `RedactionIsAsScanned`: a value without a newline is never matched across a joint
  (`NoMatchAcross`, `RightSplits`, `LeftSplits`), so replacing goes piece by piece
  (`ReplacedSplits`) and commutes with every step of the flattening (`AppliedJoined`,
  `PartTextsCommute`, and so on to `ParsedCommutes`).
* **Scan CLI.** `ScanInv` says which inputs have been vetted in which phase and that
  each decision is the one `Decide` makes of the input at its place, for some
  behaviour of the tokenizer. `ZeroAlwaysMeansClean`, `AlwaysRejectedForCause` and
  `ReportAlwaysAgrees` read the cause off that; `AlwaysPricedHighEnough` rests on
  `FallbackIsHighest`, which compares the fallback with every entry of the matrix.
* **Start-up.** `StartInv` says of each phase what has been built by then and from which
  settings; both properties are its last phase.
* **Dashboard.** `DashboardInv` says that every content of the ring is a piece of the
  traffic no longer than the ring, that what a refresh in flight holds was answered from a
  content the ring has had since the refresh began (`Told`), rejected or not, and that dot, title and age
  agree once something was rendered (`Truthful`). `LiveAlwaysMeansFresh` is its last part.
  `RenderingIsOfItsTime` needs that the cards of any ring add up: each key of a tally counts
  a set of its own, so the sums over sets of keys are the sizes of their unions, which
  satisfies the recursion of `Entries` (`EntriesAddUp`), and nothing else does.

Model-checked only: all liveness (`AdmitsAgain`, `EveryRecordReturns`,
`EveryRequestAnswered`, `ConnectionsReturn`, `ScansSurviveAHungDisk`, `EveryRequestEnds`,
`LostServerIsNoticed`, `HoverSettles`, `CatchesUp`), which is beyond TLAPS here. Every other
property of the passing runs is a theorem.

## 5. Disagreements with the documentation

Three, each with a run that shows it and an entry in `PROJECT.json`: more than one
probe in HALF_OPEN; records with a repeated `X-Request-Id` missing in DuckDB only;
requests without an audit record when a middleware raises.

Seen while modelling, and left to the reader:

* The CLI exits with 1, "rejected" in its documentation (`README.md:173`), for an input
  that is malformed: `adapter.parse` raises what `load_inputs` does not catch
  (`cli/inputs.py:82`), and a traceback ends the interpreter with 1.
* `encoding_used` is the encoding the model is listed with, also when another one was
  loaded in its place (`core/tokenomics.py:123`, `198-201`), although it is kept to tell
  exact measurements from approximations (`core/models.py:54-56`).
* structlog is configured with the level of the settings (`logging_sink.py:71`), so at
  WARNING no audit event, which is logged at INFO, is emitted; the documentation of
  `level` (`logging_sink.py:37-38`) says that structlog does not filter.
* A line cut short by a kill or a full disk takes the next record with it: the next
  append begins in the middle of that line. "Limited to the last in-flight line" is two
  lines; `DamageIsBounded` states that bound.
* A finding that lies in a joining newline only, or straddles one, is never in a
  field: `mutations_applied` is then true of a body that did not change.
* The settings are read twice, by `main` and by `create_default_app`; a change of
  the environment in between would give the server and the chain different ones.
* The httpx client of `create_default_app` (`app.py:218`) is closed by nobody.
* A redaction can uncover a secret. `secret_scan` runs before it and once; its patterns
  look behind for a word (`patterns.py:55`, `70`), so `JohnAKIA...` is no match, and
  `[REDACTED:PERSON]AKIA...`, which replacing the name makes of it (`providers.py:221`),
  would be one. No document claims otherwise; `UpstreamSeesScreened` does not either.
* A string with a lone surrogate, which JSON can spell, has no UTF-8: a body that is
  redacted (`providers.py:143`, `198`) or recorded (`handler.py:194`, where pydantic
  refuses it outside of the `try`) ends in a 500 without a record, in the second case with
  the upstream response neither relayed nor closed.
* An exception before anything was sent, such as a header httpx cannot encode, counts as a
  failure of the upstream at the shared breaker (`forwarder.py:85`, `circuit_breaker.py:94`).
* `reset_seconds` may be infinite (`settings.py:55`, `circuit_breaker.py:64`): a breaker
  that opens then stays so unless a call in flight succeeds.
* A `jsonl_path` that cannot be opened does not keep the proxy from serving: the sink
  makes the directory only (`sinks.py:122-125`), and every append fails in the log.
* A success admitted before the breaker opened takes it from OPEN straight to
  CLOSED (`circuit_breaker.py:118`), a step outside the cycle of the module's
  documentation; `CooldownEndsByTimeOrSuccess` states what holds instead.
* A finding that straddles two fields, found across the `\n` the adapter joins them
  with, occurs in neither and is not replaced; of two overlapping findings the
  second is often cut by the first replacement, and its rest stays.
  `NoDetectedValueRemains` claims no more than whole values in single fields.
* `redact` gives a message without `content` a `content` of null
  (`providers.py:135`).
* `paused` is read before the fetches only: a refresh in flight still repaints the
  table under the mouse (`dashboard.py:581-584` means to prevent it), and an older
  answer that arrives late replaces a newer one. `HoverSettles` states what holds.
* Before the first success `updateStatus` returns at once, so a page that has never
  loaded its data keeps a tab title that looks live (`dashboard.py:604-606`, `613`);
  `LiveMeansFresh` speaks of pages that rendered once.
* After a success, "refresh failed" is overwritten in the same task by "updated ...
  ago" (`dashboard.py:653`, `629`); only the dot and the title keep the failure.

## 6. Abstractions, and what is not modelled

* What a regular expression or the NLP model matches is not modelled: findings are
  any spans in `Redaction`, traits of a text in `ProxyHandler` and `ScanCli`. In
  `ProxyHandler` a redaction removes `pii` and may leave or bring about any of `secret`,
  `split_pii` and `long`.
* The handler sees a sink only as a `record()` that comes back; that it does is
  `EveryRecordReturns`. Conversely `AuditSinks` takes a request's id as arbitrary, and its
  JSONL sink always has a thread; that it gets one is `JsonlFile`.
* httpx, anyio, Starlette, uvicorn and the clock are external: modelled from how the code
  uses them (pool with a time-out, FIFO lock, FIFO limiter, background task after the body).
* A kill is modelled where something outlives it, the JSONL file. Whether the kernel's
  cache reaches the disk in a power failure is not, and DuckDB's own log is DuckDB's.
* A number that does not parse and a setting nobody knows fail as one out of bounds does.
* A rendering function of the page that throws would end a refresh as a failed one, with
  part of the page painted. It is left out: what those functions read without asking is in
  every answer of the two routes.
* Latency, rates and averages, and the wording and layout of records, answers, reports
  and the page are left out; `/stats/summary` is its counts and its sum of costs.
* Benchmarks, evals and smoke scripts are tools around the program and not modelled.

## 7. Plan

In the order of importance. Done: 1. `BreakerContract`, `CircuitBreaker`;
2. `AuditStream`, `AuditSinks`; 3. `ProxyHandler`; 4. `Redaction`; 5. `Tokenomics`, `ScanCli`;
6. `Dashboard`; 7. `JsonlFile`, with the limiter of worker threads; 8. `Startup`;
9. theorems for every property of a passing run that is not liveness; 10. `ProxyContract`,
the abstract specification that `ProxyHandler` implements. To do:

11. An abstract specification of one redaction (every value detected in a field is gone, all
    else is as it was) that `Redaction` implements, next to its invariants.
