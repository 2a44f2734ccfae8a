# SecureLLM Bridge in TLA+

A verification development kept beside the Rust workspace of
`securellm-bridge`: TLA+ models of the parts that keep state and run
concurrently, TLC runs over small instances, and TLAPS proofs for every
instance. Paths below are relative to the repository root (`src/`); `api/`
stands for `src/crates/api-server/src/`.

To check a run: `tlc -config MCBreaker.cfg MCBreaker`. To check the proofs:
`tlapm M.tla` with `BreakerProofs`, `TaskProofs`, `OAuthProofs`, `GatewayProofs`,
`ClientProofs`, `ChatProofs`, `SandboxProofs`, `TerminalProofs` for `M`.

## 1. Inventory

The program is a proxy in front of LLM providers (`api-server`, with
`providers` and `core` below it), and a set of tools beside it that share no
state with it at run time.

| Component | State | Operations | What is hard | What makes it correct |
|---|---|---|---|---|
| Provider manager and circuit breakers (`api/state.rs`) | one breaker per provider, under one `RwLock` | `get_provider`, `report_result` | callers wait for a provider between the two, report late, in any order or never | the breaker trips on a run of failures only, waits its full time, closes on a run of successes; its counters never disagree with its state |
| Chat completions (`api/routes/chat.rs`) | one handler future per request; shared breakers, statistics, metrics, audit table | receive, try candidates, answer or stream, count, audit | other requests run at every await; the timeout layer and disconnecting clients drop the future at any await | every request settles; nothing is started for a client that has its answer; metrics, audit rows and answers agree |
| Pricing, QoS statistics, routing (`crates/core/src/intelligence.rs`) | price tiers; counts per provider and model | `calculate_cost`, `observe_request`, `select_candidates` | statistics move while a request uses a ranking made from them | what is filtered and in which order the rest is tried |
| Audit logger (`crates/core/src/audit.rs`, `api/services/audit.rs`) | rows of `audit_logs` | `log_request_received`, `log_response_sent`, `log_request_failed` | the sink fails, the future is dropped while SQLite commits | at most one row per request, and a row only for what happened |
| Metrics (`api/state.rs`) | Prometheus counters | `inc` from the handlers | counted at a different moment than answered | counted at most once, under the name asked for |
| Rate limiter (`crates/core/src/rate_limit.rs`, `api/middleware/rate_limit.rs`) | a token bucket per provider name | `check_limit` in front of every `/v1` route | the bucket is chosen by a header, not by the provider called; requests of other routes take its tokens | a refused request leaves no trace on breakers, statistics or books |
| Provider clients (`crates/providers`) | none between calls; a stream keeps a buffer and a parser | `send_request`, `stream_request`, `health`, `models`, `capabilities` | eight hand-written conversions; a body arrives in reads cut anywhere; errors in the middle of a stream | the conversation arrives as it was said, the chunks come back as the model said them, a broken answer is not told as complete |
| Task manager (`crates/task-manager`) | map, priority queue, SQLite store, join handles | `submit`, `cancel`, `update_progress`, `spawn` | awaits of the store between the updates of map and queue; save failures; restarts | map, queue and store agree; a cancelled task stays cancelled |
| MCP gateway (`crates/gateway`) | audit file, GitHub, rate limiter | three tools with validate, act, audit, answer | the audit write fails after the effect, the process ends, GitHub's answer is lost, refused clients vanish | answers, effects and lines of the file agree |
| Gateway OAuth (`gateway/src/oauth.rs`, `auth.rs`) | a table of codes and one of tokens, each behind a mutex | consent, exchange, issue, validate | codes and tokens expire, requests race for a code, clients leave and the process ends between two critical sections; each insertion sweeps the table | a code yields at most one token; what a client was told it has stays for its lifetime |
| Sandbox (`crates/security/src/sandbox.rs`) | a cgroup directory named for the Sandbox; a launcher and its program | `execute_command`, `execute_with_input` | a failure at each await; programs that fork, block or outlive their launcher; calls of one Sandbox share the directory | calls that ended well leave no directory and no process; a directory is never removed around a process |
| Cgroup helper (`crates/security/src/cgroup_helper.rs`) | the cgroup file system | setup, cleanup, peak memory; a permission test at start | five file operations per setup, interleaved with other requests, failing or cut off by the daemon's end | a placed process is under all limits of one profile |
| Agent (`crates/agents/src`) | a conversation per turn, an LRU cache of tool results | `execute`; parse, look up, run | model answers are arbitrary, turns share the cache | the loop ends; a result belongs to its call |
| Context manager (`crates/context-manager`) | none kept | `truncate_messages`, `optimize`, `truncate_text` | budgets smaller than a notice or a system message | the newest part without a gap, within the budget |
| Terminal programs (`crates/cli`, `crates/tui`, `crates/agents/agent-tui`) | the state of a screen and a conversation | keys and lines | keys buffered while a model is awaited; requests that fail between two that do not | what is shown, remembered or run is what was asked for and answered |
| Not stateful or pure I/O | - | sanitizer, secrets, crypto, TLS, dashboard, NATS, voice | - | - |

How they interact. A request enters through the rate-limit middleware and
reaches `chat_completions`. The handler asks `SmartRoutingEngine` for a
ranking (a read of the price tiers and the statistics), and then, candidate by
candidate, `ProviderManager::get_provider`, the provider's HTTP API,
`QoSObservatory::observe_request` and `ProviderManager::report_result`. At the
end it moves the metrics and the statistics and awaits the audit sink. All of
these live in one `AppState` shared by all requests. A stream is handed to the
client while the provider's client still decodes it. The command line programs
call the same provider clients without the server. The task manager, the
gateway with its OAuth store, the sandbox, the cgroup helper, the agent and the
context manager are libraries or processes of their own.

## 2. Modules

```
CircuitBreaker          operators on one breaker
  ProviderManager       all breakers, concurrent callers        (state machine)
    BreakerHistory      + a history variable, properties, refinement
      MCBreaker         TLC instance
      BreakerProofs     TLAPS: all of its safety properties, refinement
BreakerContract         abstract breakers, without counters
Routing                 prices, statistics, ranking             (operators)
ChatCompletion          requests over breakers + routing + books (state machine)
  ChatProperties        properties, refinement of ProviderManager
    ApiServer           + RateLimiter: the routes behind the limiter
      MCChat            TLC instance
  ChatWire              + ProviderClients: the words that go through
    WireProperties      properties
      MCWire            TLC instance
      ChatProofs        TLAPS: ranking, books, refinement, words, streams
                        (EXTENDS ApiServer and ClientProofs as well)
Selection               what a filter keeps of a list           (operators)
SseDecoder              reads, characters, frames, chunks       (operators)
  ProviderClients       requests, answers, health, models, capabilities
                        of eight clients                        (operators)
    ClientProofs        TLAPS: conversions of a conversation, the decoder
TaskManager             map, queue, store, calls                (state machine)
  TaskProperties        properties
    MCTasks             TLC instance
    TaskProofs          TLAPS: all of its safety properties
JsonlSink               the audit file and its mutex            (actions)
  Gateway               tools, rate limiter, process            (state machine)
    GatewayProperties   properties
      MCGateway         TLC instance of this and of OAuthStore
      GatewayProofs     TLAPS: all of its safety properties
OneTimeCodes            abstract codes and tokens, without tables or clocks
  OAuthStore            the two tables, requests, clock         (state machine)
    OAuthProofs         TLAPS: invariants and refinement
Sandbox                 executions and their processes          (state machine)
CgroupHelper            the daemon and its file system          (state machine)
  MCSandbox             TLC instance of the two
  SandboxProofs         TLAPS: all of their safety properties
Tui, Repl, Cli          securellm's three faces                 (state machines)
Panes, Overlay          the multiplexer, agent-tui              (state machines)
Agent, Context          libraries                               (state machines)
  Terminal              one of these at a time
    MCTerminal          TLC instance
    TerminalProofs      TLAPS: all of their safety properties
```

**CircuitBreaker, ProviderManager** (`api/state.rs:120-391`). A breaker is the
record the code keeps. `get_provider` and `report_result` hold the write lock
from their first look at the breaker to their last change, so each is one
action: `Admit`/`Refuse` and `Report`. `inflight` is not in the code: it counts
the callers between the two, which is what bounds how many reports may still
come; `Abandon` is a caller whose future was dropped. Time: the code stores an
`Instant` and only asks whether `timeout_secs` have passed since, so the model
keeps the age of the stamp and stops it at `timeout_secs`. `Elapse` ages every
stamp by one unit; a real clock that jumps several seconds is several `Elapse`
steps. No bound on time or on the length of a behaviour is needed.

**BreakerContract, BreakerHistory**. The contract says what breakers are for in
terms of the reports themselves: a `gate`, the `window` of the last reports and
how long the gate has been open. It has no counters. BreakerHistory adds
`window` as a history variable to ProviderManager and states the refinement
(`gate` is the state, `wait` the stamp of an open breaker). The contract also
fixes behaviour the code leaves implicit: reports that reach an open breaker are
ignored and do not extend its wait, a half-open breaker lets everyone through,
and a threshold of 0 acts as 1.

**Routing** (`crates/core/src/intelligence.rs`). A key is a provider with a
model. The price tiers are a sequence; the model pattern is the set of keys it
matches. `Excluded` is the 50 % error filter in integers. The estimate of p95
latency feeds only log warnings and strategies no caller passes, so it is
left out.

**ChatCompletion** (`api/routes/chat.rs:110-556`). One action per stretch
between two awaits:

| Action | Code |
|---|---|
| `Receive` | parse the model, build and rank the candidates |
| `Call`, `Skip` | `get_provider` returned `Some`, `None` |
| `Answer` | the provider's result is there and is observed (complete responses only) |
| `ReportResult` | `report_result`; then the response, the stream or the next candidate |
| `CountSuccess`, `CountError` | metrics and statistics, before the audit sink is awaited |
| `RefuseStream` | the `?` on `create_completion_stream` |
| `Persist` | SQLite's worker thread runs the `INSERT`, or it fails, which is swallowed |
| `Respond` | the handler is polled again after the sink and returns its answer or error |
| `EndStream` | the provider's stream ends |
| `Drop` | the 30 s `TimeoutLayer` (`api/lib.rs:152`) or a disconnect drops the future |

`Drop` at the sink does not take the statement back: sqlx hands it to a worker
thread of the SQLite connection, and only the wait for it is dropped
(`api/services/audit.rs:53`). Such a request is `"orphaned"`: its client is gone,
and `Persist` may still commit its row, or not.
Token counts, costs, labels other than provider and status, message
conversion and the NATS events (fire and forget) are left out. The first part
of `chat_completions` logs `request_received` but writes no row. Requests named
`auto` are counted and observed under `auto`, which is no candidate's name, so
that second observation is never read; an explicit request is observed twice,
once per call and once per request. The model does both.

**TaskManager** (`crates/task-manager/src/lib.rs`, `persistence.rs`). The map is
a `DashMap`, whose shards are guarded by locks that block the *thread*.
`cancel` and `update_progress` keep the `RefMut` of their task across
`store.save_task(..).await`; `submit` inserts first and holds nothing while it
saves. So the model has, besides `tasks`, `queue` and `store`, the calls under
way with their phases, and the number of worker threads: a call that waits for a
shard sits on a worker, and a call whose save is over needs one to go on.

| Action | Code |
|---|---|
| `Start` | the call is polled for the first time |
| `EnterSubmit` | `tasks.insert`, then the save, or the queue when there is no store |
| `EnterCancel`, `EnterUpdate` | `get_mut` got its shard; the entry is changed; the save begins under the lock |
| `EnterIdly` | `get`; `cancel` and `update_progress` that find nothing to do |
| `Commit`, `SaveFails` | SQLite executes the upsert, or the `?` will see an error |
| `Resume` | the call goes on after its await: its `?`, and in `submit` the queue |
| `Drop` | the caller's future is dropped; its statement may still commit later |
| `Restart` | the process ends; `with_persistence` loads nothing |

A task's id is a fresh UUID, so an id is submitted at most once. `laggards` is a
history variable, not in the code: the ids whose row may be older than the map.
Names, priorities, timestamps and metadata are left out, and so is the order of
the queue: the manager only adds to it.

**JsonlSink, Gateway** (`crates/gateway/src`). The three handlers have one
shape, so one set of actions stands for all of them: a call arrives and passes
the limiter and its validators or not (`Arrive`, `Limit`), git or GitHub acts
(`Perform`), the result is there (`Learn`), the line is emitted (`TakeLock`,
`Write`, `Recorded` or `Unrecorded`) and the call answered. Three facts from
outside the handlers shape the model:

- rmcp runs each tool call in a task of its own
  (`vendor/rmcp-1.7.0/src/service.rs:963`) and the handlers ignore the
  cancellation token, so a client that leaves does not stop a call; only the end
  of the process does (`Stop`). The limiter, in front of it, runs in the
  connection's future and can be dropped (`Drop`).
- the file is a `tokio::fs::File`: `write_all` hands the bytes to a blocking
  thread and returns, and the error of a write reaches whoever uses the file
  next. After a dropped emit that is another call, which is then told of an error
  for a line it never handed over.
- a write can fail after some bytes were written. Nothing repairs the file, so
  the next line continues the broken one. A chunk of `log` with
  `whole = FALSE` is such a beginning.

GitHub may act on a call whose answer is lost (`Perform` stays enabled for a
failed call), and a `git push` whose parent process ended goes on. `git clone`,
`am` and the other commands before the push change nothing but a temporary
directory; their failure is a `Learn` of `"failed"`. On stdio there is no
limiter, which is the model with a large `Quota`.

**RateLimiter, ApiServer** (`crates/core/src/rate_limit.rs`,
`api/middleware/rate_limit.rs`, `api/lib.rs:122-166`). A bucket counts the
requests it lets through now; `Replenish` adds one at a time, at no particular
rate, so every rate is covered. The bucket is the one named by `X-Provider`,
which need not be the provider the request ends at, and a name nobody
configured gets a 500. `ApiServer` puts it in front of ChatCompletion: a request
takes a token when it is received, `Refuse` answers 429 or 500, and
`OtherRoute` are the requests of `/v1/models` and `/v1/completions`.

**SseDecoder, ProviderClients, Selection** (`crates/providers/src`). Pure
operators. A body is a sequence of symbols: line ends, `data:`, `[DONE]`, the
braces of a chunk, texts, and the two halves of a two-byte character. A read
ends between any two of them and is turned into UTF-8 by itself, which is where
`U+FFFD` comes from. `Body` is what an upstream sends: its events line by line,
each with its empty line. In a text the halves of a character come in pairs and
nothing is a mark (JSON escapes what would be one), which is `IsBody`. Each client is an operator from a request (roles, texts,
the system field) to what it sends, and from a reply (an answer, a refusal, a
body that does not parse, no connection) to a `Response`. `Selection` says what
the code's `filter` keeps: the elements at some places, each at its rank. It is
`SelectSeq` for TLC, but without the recursion, so that conversions and caches
that filter can be reasoned about, and so can `event_data` and what it keeps of
a frame.

**ChatWire**. ChatCompletion with these clients in it. Every step is one of
ChatCompletion's or, while a stream runs, `Read`, `TakeFrame`, `ReadEnds` or
`ReadFails`, which ChatCompletion does not see. A stream is pulled: nothing is
read while a frame is in the buffer. `torn` is a history variable: which reads
ended within a character or a CR LF.

**OAuthStore, OneTimeCodes** (`crates/gateway/src/oauth.rs`, `auth.rs`, `transport.rs`). One
action per critical section of the two mutexes; consents and requests can be
left by their clients between two of them, and `Restart` empties both tables.
Times are taken before the lock is waited for, as in the code. `request[r].got`
says how far a request's gain went (nothing, the code, a token); it is not
kept by the code but is what the refinement needs. Whether a request's
parameters (redirect, client, verifier) fit its code is one Boolean. The
abstract module has neither tables nor clocks: a code is fresh, open, void, or
the one request that got it; a token is none, valid or void.

**Sandbox** (`crates/security/src/sandbox.rs`). One action per await of
`execute_command` and `execute_with_input`, with its early returns. An
execution has a launcher (`unshare`), whose pid is known and which
`kill_on_drop` reaches, and the program it forks, which inherits the launcher's
cgroup of that moment and which nothing kills. The amounts of the limits are
left out; whether there is one is kept.

**CgroupHelper** (`crates/security/src/cgroup_helper.rs`). A task per
connection, one action per file operation. `undermined` is a history variable:
the cgroups a cleanup removed while a setup was at work in them. Who may call
the daemon is not modelled: it never looks at the credentials of its peer.

**Agent, Context** (`crates/agents/src`, `crates/context-manager/src`). An
answer of the model is whether XML reads it to its end and which calls are in
it, so the fallback from XML to the regular expression, which ends a call's
parameters at the first closing brace, is modelled by what it yields. In Context
a conversation is roles and token counts. The loops of the code are recursive
functions of the round, as in `Newest`, which goes from the newest message to
the oldest and stops for good at the first that does not fit.

**Tui, Repl, Cli, Panes, Overlay, Terminal**. Each program is a loop that takes
a key or a line and handles it to the end, and uses ProviderClients for what it
asks a provider. In Overlay the terminal keeps keys while nothing is taken
(`typed`), and `frame` is what was last drawn. `Terminal` starts as one of the
programs and stays it.

## 3. Runs

| Run | States | Shows |
|---|---|---|
| `breaker` (MCBreaker) | 2.7 thousand | breakers follow the contract under every interleaving of two callers per provider |
| `chat` (MCChat) | 191 thousand | the whole chat path behind the rate limiter, with two concurrent requests |
| `chat_audit` (MCChat, violation) | stops early | a streamed answer leaves no audit row |
| `wire` (MCWire) | 80 thousand | what arrives at each of eight providers, and what of their answers arrives back, for every way to cut a stream |
| `tasks` (MCTasks) | 238 thousand | how far map, queue and store agree under three concurrent calls, failing saves, dropped callers and restarts |
| `gateway` (MCGateway) | 762 thousand | what the audit file can be trusted for; the OAuth store keeps what it told its clients and implements one-time codes |
| `gateway_lines` (MCGateway, violation) | stops early | an answered call without a line |
| `sandbox` (MCSandbox) | 458 thousand | what executions leave behind, and what cgroups the daemon's answers vouch for |
| `terminal` (MCTerminal) | 627 thousand | seven programs and libraries, each by itself |
| `system_prompt` (MCTerminal, violation) | stops early | `chat --system` with openai or deepseek does not send the prompt |
| `truncation_notice` (MCTerminal, violation) | stops early | messages are dropped without the notice that is documented |
| `failed_lines` (MCTerminal, violation) | stops early | the REPL keeps a line whose sending failed |

Properties of `breaker`:
- `BreakerInv`: state, counters and stamp agree with the thresholds
  (the `None` branch of `can_attempt` is never taken, no closed breaker holds
  a count that should have opened it, successes are forgotten on reopening).
- `CountersTellHistory`: the counters are exactly what the reports were.
- `ImplementsContract`: the refinement.
- `RecoversUnderTraffic`: once a provider stops failing and is still asked for,
  its breaker closes, from whatever state its past left it in.

Properties of `chat`:
- `ImplementsProviderManager`: the handlers use `get_provider` and
  `report_result` in pairs, as ProviderManager assumes of its callers. Together
  with the refinement above, the breaker contract holds of the server.
- `BooksAgree`: metrics, audit rows and what clients were told agree, through
  failures of the sink and drops between the three, and a request the limiter
  refused is on none of them.
- `NoWorkAfterAnswer`: nothing is called, handed to the sink or switched for a
  request whose client has its answer, its stream or is gone
  (`api-server/README.md`: "after the stream starts, it does not switch
  providers midstream"). The one thing that may still happen is the commit of a
  row the sink had when the client left: that row, once, and nothing after it.
- `BanIsForever`: statistics are never aged. A key that half of its samples
  failed, and that nobody is using, is excluded for good: requests for it are
  refused before a provider is asked, and each refusal counts as one more
  error. This is a consequence of the code and not a promise of any document; it
  is stated because operators should know that a restart is the only way back.
- `EveryRequestSettles`: liveness.

`chat_audit` checks `README.md:27` ("Full audit trail of every input/output
token") and `README.md:95` ("Immutable record of all interactions") and is
violated: the streaming branch leaves the handler before any row is written.

Properties of `wire`:
- `ChunksAreTheModels`: wherever the network cuts a stream, the client has been
  given a beginning of what the model said, chunk by chunk; only a character
  that a read ended inside of is lost.
- `NothingLostQuietly`: a stream that ends without an error event has given
  every chunk that arrived whole, except that a read that ends between CR and LF
  can hide the end of a frame. `[DONE]` comes once and last, after an error event
  too.
- `ConversationArrives`: in every client, and along a fallback chain that mixes
  them, what the assistant said is shown as the assistant's and, in a chat
  without function results, what the user said as the user's, all of it and in
  order. With function results the user's part is no longer certain: the
  Anthropic client sends those as the user's (`anthropic.rs:88-96`). System
  messages are treated differently from client to client, and are not part of it.
- `CutIsTold`: an answer broken off at `max_tokens` is not reported as complete,
  except by llamacpp, which never says why it stopped, and by ml-ops for an
  answer without a choice.
- `StreamsEnd`: liveness.

Properties of `tasks`:
- `StoreKeepsUp`: once no save of a task is under way, its row is the map's
  entry, but for the tasks in `laggards`. There are three ways onto that list,
  each a consequence of the code: a save failed (memory has already changed, and
  a second `cancel` finds a terminal task and answers `Ok` without saving); a
  caller was dropped at the save; or the task was changed while `submit`, which
  holds no lock, was still saving the clone it was given. In the last case
  either row may win: a cancelled task can stay `Pending` in the store.
- `QueueIsKnown`, `AcknowledgedMeansAll`: what is queued is in the map and was
  saved; an `Ok` from `submit` means all three.
- `OverIsOver`: no calls, in whatever order, bring a finished or cancelled task
  back while the process lives; a late `update_progress` changes its progress
  only.
- `EveryCallReturns`: a call that waits for a shard gets it. This holds as long
  as the calls that wait at one time are fewer than the workers, and not
  otherwise. The run has two workers, and of its three calls at most one can
  wait for the lock of another (one had to submit the task, and no longer holds
  anything). With `Workers = 1` in `MCTasks.cfg`, TLC shows the manager stuck: a
  call waits on the only worker for a shard whose holder's save is done but
  cannot be resumed. On a runtime with n workers the same takes n waiting
  calls.

Properties of `gateway` (the tools and the OAuth store are in one process and
share nothing, so a behaviour of the run is of one of the two, chosen at its
start; the theorems are about each by itself):
- `AnswersMatchLog`: Ok means done and recorded, an audit error means that there
  is no line, and no call has two.
- `RefusedTouchesNothing`: the validators and the limiter fail closed, also when
  the refusal cannot be recorded.
- `NothingOnTheQuiet`: what GitHub did is on record as `ok` or `failed`, or the
  client knows the record is missing, or the process ended in the middle.
- `TornIsNoticed`: a broken line was reported to its writer, unless that is gone.
  It is the most the code gives: the line *after* a broken one may belong to a
  call that was told Ok, and no reader of the file can parse it.
- `BootFirst`: every line follows the `gateway_started` of its own process.
- `EmitsEnd`: nobody waits for ever for the mutex.
- `PromisesHold`: the code of a redirect is in the table until it is tried or
  old, and a token its client was told opens the gateway for its whole lifetime,
  whatever the sweeps of other requests take out in the meantime.
- `ImplementsOneTimeCodes`: the refinement of the OAuth store.

`gateway_lines` checks that every call answered has its line ("one per call",
`crates/gateway/tests/mission_compliance.rs:4`; `crates/gateway/DEPLOY.md:135`)
and is violated: `create_pr` and `comment_pr` leave by a `?` when the GitHub
client cannot be built, the one error path without an `emit`.

Properties of `sandbox`:
- `SandboxAccounts`: a directory that nobody uses any more is there only if a
  call of its Sandbox failed half way, lost its process or timed out; an exit
  code is the code of a program that has ended; a directory is never removed
  around a process. The first says where the code leaks: an error of `spawn` or
  `add_process_to_cgroup` leaves the directory, and a program that outlives its
  killed launcher keeps the directory from being removed.
- `GrantsHold`: no process is in a cgroup that lacks a limit or mixes two
  profiles (unless a cleanup removed the directory in the middle of a setup), a
  process somebody was told is placed stays placed, and the daemon does without
  cgroups it may make only after an earlier one died inside its permission test.
- `CallsReturn`: every call returns, except one with more input than a pipe
  takes for a program that never reads it.

Properties of `terminal`:
- `WhatIsShownIsTrue`: every message of the TUI is followed by its own answer or
  error; a command that ends well has printed what its provider said.
- `ReplRemembers`: each line is sent with the lines that were answered before
  it, each once and in their order, and every answer, errors in between or not.
  It leaves open whether a line whose sending failed is among them, which is
  what `failed_lines` asks. Excepted are the answers of Groq
  and NVIDIA, whose clients return no choices, and those of a session in which
  a provider answered without any text (`HadTexts`): where the client then
  returns no choice, the REPL remembers the error of `response.text()` as what
  the assistant said.
- `PanesAgree`: tabs, layouts and focus agree after any sequence of operations.
- `InjectedWasShown`: the command the overlay types into the user's shell is
  the one on the screen, made for the words on the screen, although keys pressed
  while the model is awaited are handled later.
- `AgentInv`: the model is asked at most `max_iterations` times a turn, and what
  it is told of a tool call is what that tool returned for those parameters, if
  perhaps in an earlier turn, under eviction and concurrent turns.
- `ContextKept`: what is kept is the newest part without a gap, within the
  budget, compared with a reference definition (the longest affordable suffix).
- `TurnsEnd`: liveness of the agent.

`system_prompt` checks `crates/cli/src/main.rs:50` ("System prompt") and
`supports_system_prompts: true` (`openai.rs:370`, `deepseek.rs:370`);
`truncation_notice` checks `crates/context-manager/src/tokenizer.rs:174`;
`failed_lines` checks `crates/cli/src/repl.rs:148` ("Don't add failed message to
history"): the history holds a line of the user's only with its answer after it.
All three are violated, as `findings` in `PROJECT.json` says in detail. The REPL
puts a line into its history before it sends it and never takes it out, so what
failed is sent again with every later line.

**Bounds.** `breaker`: two providers, whose configurations cover thresholds 1,
2 and 3 and waits of 1 and 2, an unknown name, `MaxInFlight` = 2. Two callers
are what a stale report needs (one trips the breaker, one reports late); every
breaker is independent, so more providers add no behaviour. `chat`: two
requests, each served once; four keys (two models of one provider, one without
a price, one without a provider), a three-candidate chain. Two requests
are enough for one to trip the breaker, change the statistics or fail while the
other is at any of its awaits. The limiter has one bucket of one token, so that
both requests in a row, or one after a request of another route, can be
refused. Thresholds are 1 and 2, so breakers open, probe
and close within two requests. Neither run bounds time. `Requests` bounds
all counters of `chat`. Chat may stop (all requests served) but `Elapse` is
always enabled, so deadlock checking stays on. `tasks`: two tasks on one shard
(the worst sharding: every call can block every other), three calls, each of any
operation: one to submit, one to hold the lock, one to wait or to interfere.
Progress is counted in whole units (`Full` = 1), and `update_progress` is asked
for a value below and one above the range. Tasks are submitted as `Pending`, as
`Task::new` makes them; the other states a caller could put in a task first are
a constant (`Submitted`), which the proofs leave open. The run is with a store;
without one every call is a single step, which the proofs cover. `gateway`: two
requests suffice for one emit to wait for, or inherit the error of, another; a
quota of one with refills lets both in or refuses either; two runs of the
process (`MaxRuns`) give one restart, or a start that fails and one that does
not. After the last run nothing is left to do, so deadlock checking is off
there. `wire`: one request over the eight providers, for words of two requests
never meet; "auto" stands for a chain of a local, an OpenAI-compatible and an
Anthropic client. Three bodies (a split character, comments and a usage chunk;
an error event; no `[DONE]`), each with both line ends, and reads that end at
any symbol. The OAuth store, within `gateway`: two consents and two requests,
which is what a race for a code and a sweep of another's entry need; `CodeTTL` 1 and `TokenTTL` 2 within
`MaxTime` 3, so each may expire while the other lives; one restart. `sandbox`:
two calls on one Sandbox with all limits or on two with and without, or three
requests of the daemon about one sandbox (one at work, one to undo it, one to
follow), two processes, two profiles and two starts. `terminal`: see the heads
of the modules; conversations of up to three messages of 0 to 3 tokens with
budgets up to 7, two turns of an agent whose cache holds one result, a REPL of
three lines with each provider. In these three, calls are made once, so
they may stop and deadlock checking is off.

**Fairness.** `breaker`: `Elapse` (time passes) and, per provider, a
report or the loss of its caller: every wait for a provider ends, with an answer
or with the 30 s TimeoutLayer. The recovery property assumes traffic
(weakly fair `Admit`) and health (no failures or losses from some point on) as
its premises and not as part of the specification. `chat`: a handler that can
take a step takes one; tokio polls it, SQLite's thread ends every statement, and
`Drop` covers a provider that never answers. Clients are not assumed to send anything, and time need not pass.
`tasks`: a call that can take its next step does (a waiting thread gets the
lock, a woken future is polled when a worker is free, SQLite ends every
statement); nothing is assumed of callers, drops and restarts. `gateway`: the disk
ends every write and an emit that can go on does (tokio's mutex is fair). Not
that GitHub answers: `run_git` has no timeout, so a call may stay `acting`.
`wire`: as `chat`; in addition a stream's reads end, because the clients that
stream are built with a timeout that counts the body in. `sandbox`: a call that
can take its next step takes it and timers fire (`WF` of `Step(e)`); `WaitFails`
is not part of it, and nothing is assumed of the programs. `terminal`: a turn of
an agent goes on while the model and its tools answer; nothing is assumed of
users. The OAuth store needs none.

## 4. Proofs

All theorems hold for every value of the constants. What they assume of them is
named where the constants are declared, and TLC evaluates it in the runs:

| Assumption | Says |
|---|---|
| `NoneAssumption`, `RegisteredAssumption`, `ConfigAssumption`, `MaxInFlightAssumption` | configurations are in `BreakerConfig` (thresholds of 0 included); any bound on callers |
| `TiersAssumption`, `ChatAssumption`, `LimiterAssumption` | finitely many requests, costs are numbers, `auto` is no provider, a bucket holds at least one |
| `WireAssumption` | the registered providers are the eight; a chat's messages are a list; a reply is of one of the four kinds; what is streamed is the events of an upstream, their lines ended all with LF or all with CR LF |
| `TaskAssumption` | finitely many calls, at least one worker; any sharding, with or without a store |
| `OAuthAssumption` | positive lifetimes; requests are not named like a status of a code |
| `GatewayAssumption`, `LineAssumption` | finitely many calls; any quota above 0, any number of starts |
| `SandboxAssumption`, `HelperAssumption` | configurations pass `validate`; names of nothing are no names |
| `ContextAssumption` | conversations are lists; lengths, token counts and budgets are numbers |
| `ReplAssumption`, `CliAssumption`, `AgentAssumption` | replies are of the four kinds; a cache holds at least one result, as `ResultCache::new` demands |

| Theorem | Statement |
|---|---|
| `BreakerProofs!TypeCorrect` | `Spec => []TypeOK` |
| `BreakerProofs!BreakersConsistent` | `Spec => []BreakerInv` |
| `BreakerProofs!CountersAgree` | `HSpec => []CountersTellHistory` |
| `BreakerProofs!Refinement` | `HSpec => ImplementsContract` |
| `TaskProofs!TypeCorrect` | `Spec => []TypeOK` |
| `TaskProofs!StoreCorrect` | `Spec => []StoreKeepsUp` |
| `TaskProofs!QueueCorrect` | `Spec => []QueueIsKnown` |
| `TaskProofs!SubmitCorrect` | `Spec => []AcknowledgedMeansAll` |
| `TaskProofs!TerminalIsFinal` | `Spec => OverIsOver` |
| `OAuthProofs!TypeCorrect` | `OAuthSpec => []OAuthTypeOK` |
| `OAuthProofs!PromisesKept` | `OAuthSpec => []PromisesHold` |
| `OAuthProofs!Refinement` | `OAuthSpec => ImplementsOneTimeCodes` |
| `GatewayProofs!TypeCorrect` | `Spec => []TypeOK` |
| `GatewayProofs!AnswersMatchTheLog` | `Spec => []AnswersMatchLog` |
| `GatewayProofs!RefusalsTouchNothing` | `Spec => []RefusedTouchesNothing` |
| `GatewayProofs!NothingIsOnTheQuiet` | `Spec => []NothingOnTheQuiet` |
| `GatewayProofs!TornLinesAreNoticed` | `Spec => []TornIsNoticed` |
| `GatewayProofs!BootComesFirst` | `Spec => []BootFirst` |
| `ChatProofs!CheapestFirst` | what `SelectCandidates` returns: the candidates the filter keeps, no others, sorted by cost |
| `ChatProofs!TypeCorrect` | `ApiSpec => []TypeOK` |
| `ChatProofs!TheBooksAgree` | `ApiSpec => []BooksAgree` |
| `ChatProofs!NothingAfterTheAnswer` | `ApiSpec => NoWorkAfterAnswer` |
| `ChatProofs!BansLast` | `ApiSpec => BanIsForever` |
| `ChatProofs!HandlersCallTheManager` | `ApiSpec => ImplementsProviderManager` |
| `ClientProofs!ConversationIsHeard` | each `SendRequest` says what the conversation says |
| `ChatProofs!WordsGoThroughTheRoute` | `WireSpec => Init /\ [][Next]_vars`, which is ChatCompletion |
| `ChatProofs!TheBooksAgreeOfWords` | `WireSpec => []BooksAgree` |
| `ChatProofs!ChatsArriveWhole` | `WireSpec => []ConversationArrives` |
| `ChatProofs!CutsAreTold` | `WireSpec => []CutIsTold` |
| `ChatProofs!StreamsAreHonest` | `WireSpec => []ChunksAreTheModels` |
| `ChatProofs!NothingIsLostQuietly` | `WireSpec => []NothingLostQuietly` |
| `SandboxProofs!CommandsAreAccountedFor` | `SandboxSpec => []SandboxAccounts` |
| `SandboxProofs!LimitsAreAsGranted` | `HelperSpec => []GrantsHold` |
| `TerminalProofs!TypesWhatItShowed` | `TerminalSpec => []InjectedWasShown` |
| `TerminalProofs!TabsAndPanesAgree` | `TerminalSpec => []PanesAgree` |
| `TerminalProofs!ToolsSaidSo` | `TerminalSpec => []AgentInv` |
| `TerminalProofs!AnswersAreShown` | `TerminalSpec => []WhatIsShownIsTrue` |
| `TerminalProofs!WholeConversationsAreSent` | `TerminalSpec => []ReplRemembers` |
| `TerminalProofs!NewestIsKept` | `TerminalSpec => []ContextKept` |

Together, `HandlersCallTheManager` and `BreakerProofs!Refinement` say that the
server's breakers follow the contract: the route implements ProviderManager,
and ProviderManager with its history the contract.

*BreakerProofs.* `TypeOK /\ BreakerInv` is inductive. Each breaker operation is
a function of one breaker and its configuration, so one lemma per operation says
that it keeps a good breaker good, and the actions of ProviderManager only
replace one breaker by the result (or age all of them). Without `BreakerInv`,
`TypeOK` is inductive too; `BreakerInv` needs the types for its arithmetic. A
corollary for the `u32` counters: a closed breaker's failure count stays below
its threshold or is 0, an open one's is at most the threshold or 1, so no
counter ever wraps.

Its second part is about the history. The invariant adds `CountersTellHistory` and the types of the
windows. It is needed for the refinement: that the contract's `Streak` holds
exactly when the counter reaches its threshold follows from the counter being
the length of the run of failures at the end of the window. The lemmas are about
appending to a bounded window; the step theorem has one case per action and
state of the breaker.

*TaskProofs.* One inductive invariant for all four state properties. It adds to
them `IdsAreFresh` (one submit per id, and the map has no entry before it, which
is why `submit` never overwrites a task) and `SavesAreCurrent` (a save under way
writes what the map holds unless its id is a laggard, and what has been saved
has a row). The heart is `ChangedIInv`: when `cancel` or `update_progress`
changes an entry, no other of the two can be saving the same task, because it
would hold the shard's lock, so only a `submit` can be overtaken. `OverIsOver`
follows from the same invariant: `submit` finds no entry, `cancel` no terminal
one.

*OAuthProofs.* The invariant adds to the types: a code in the table was sent and
nobody has won it, and a code somebody has won is in no table and will not
return to one, because `StoreCode` is done with it (`CodesAreSpent`); so a code
has one winner (`OneWinner`). What a request has got follows from how far it is
(`GainsFit`), and `CodesAreThere`, `TokensAreThere` are `PromisesHold` a step
earlier, for tokens that are in the table and not told yet. For the refinement,
most steps only take away or change nothing the abstract module sees, which
`NothingGiven` shows to be its `Lapse`; the others are one lemma each:
`StoreCode` opens, `ExchangeCode` gives or lapses, `IssueToken` issues,
`Present` serves. The sweeps disappear because what they take was already void.

*GatewayProofs.* The invariant follows each call to its line (`CallFits`,
`LineFits`). Nothing of a call is in the file until it has handed its line over;
the one line on its way belongs to the call that flushes, or to one that was
dropped (`SinkFits`); after that it is in the file once and whole, or an error
waits for whoever uses the file next, which while the call flushes can only be
the call itself, for it holds the mutex. `Booted` (a process that serves has
its first line in the file) is what makes `BootFirst` inductive.

*ChatProofs.* The ranking comes first, as the one fact about prices the route
depends on: `RankingIsAnOrder`, from which each kept candidate has a rank of its
own (`RankTellsApart`) and each rank a candidate (`RanksAreTaken`), whatever the
costs are, ties included. Then the requests: `Fits` says how far a request is
against what was written of it and told its client. `BooksAgree` compares
counters with rows and answers, and no step that changes one of them sees the
others; the inductive form `BooksFit` is that successes and errors counted are
together at most the requests that are past counting, each of which counts
once, and at least those with a row or an answer. `NoWorkAfterAnswer` and
`BanIsForever` are action properties from the same invariant: a step moves one
request (`StepOfOne`), and an excluded key is not in any new ranking
(`BanNotTakenUp`), so it is observed only as an error. An orphaned request has
no row yet and was counted before its row was handed over (`Pending`), so that
`BooksFit` does not depend on whether the row is committed. For the refinement
`InFlight` counts the requests between `get_provider` and `report_result`, and
a request comes and goes by one (`ComesAndGoes`).

The next part is about the words, over WireSpec. `WireIInv` adds to the
invariant of the requests what each was sent and what its answer became. The
steps of a stream change neither (`UnseenFits`), so the work is in `SentIs`,
`StreamedIs` and `CutIs`, which say it of each client, and these rest on
ClientProofs. That every client comes back with an answer or an error is what
makes each step of ChatWire one of the route's (`WordsGoThroughTheRoute`).

The last part is about the streams. Neither property is inductive: they speak of
what was given, and what will be given next is in the buffer. `Reads` is what
holds of a decoder at work: the buffer holds what arrived behind the end of the
k-th event and nothing else (`Held`); the k events before it are no end and no
error; what was given conveys their chunks, each once and in order (`Conveys`);
and a half of a character, or a CR without its LF, is there only if a read ended
inside of one (`TornAt`). k is not the number of frames taken: with a torn line
end two events may be found in one frame, and which k it is has to be chosen
anew. `StreamIs` adds what is left of that when the body has ended, broken off or
been hung up on: the decoder is gone, and what it had given stays a beginning of
what had arrived (`IsHonest`), all of it at the end of a body without a torn line
end (`IsComplete`). `StreamIInv` says it of every stream. The step that takes a
frame is the hard one (`FrameTaken`): the frame holds some whole events; if its
data are those of one event, all others are comments (`FrameMeans`), so the next
chunk and no later one is conveyed; if not, the client is told an error.

*ClientProofs.* Half of the clients filter the list of messages, so the proofs
need what a filter keeps. `Chosen` gives each chosen place its rank: `NthIs`
(each rank is of one place), `NthRises` (places keep their order), and, as the
steps need them, a filter of a filter (`NthOfChosen`), a filter that keeps the
same (`SameChosen`) and of a list with one more element (`ChosenOfAppended`).
`OnlyByRank` says that nothing else has these properties. With them the eight
conversions come down to two: the list as it is, or without its system
messages.

What a loop yields is proved with `Iteration` (a recursive function on `0 .. N`
has its equations) and `Induction` over its rounds, a set of numbers instead of a
predicate, so that no operator has to be passed to a theorem; it rests on the
least number of a set, which the library states of sets.

Of the decoder, the first part is how a body lies on the wire (`BodyLayout`, an
induction over its events): each event's line and its two line ends fill the
places up to its end, and a mark tells where in a line it stands (`Spelling`).
The second is what is `Held` of it: a read appends what has arrived, with
replacements only at torn characters and torn line ends (`ReadIs`,
`HeldJoined`); two LF in a row are the end of an event (`FrameEndsAt`), so what
is behind a frame is held again (`RestHeld`). The third is what `event_data` finds
in a frame: exactly the data of the events it was received from (`DataIsCarried`,
by `DataComesFrom` and `DataIsKept`), hence what `Decoded` makes of it
(`NoDataMeans`, `DoneMeans`, `ChunkMeans`).

*SandboxProofs.* A call that is done well has no process left, so whoever is in
a cgroup when it is to be removed belongs to a call that uses it or to one that
ended badly: `DirectoryFits` names, for each directory, a call that accounts
for it, and `ProcessFits` bounds where processes can be. For the daemon,
`Undisturbed` says that what a setup has written is what it finds: `mkdir` of an
existing directory fails, so there is one setup per sandbox (`OneSetup`) until a
cleanup undermines it, and its directory is empty of processes until its last
step.

*TerminalProofs.* The programs share no state, so each invariant is proved of its
own program's steps and the others leave it alone. Overlay: a command is ready
only for the words in the input line, and keys are taken right after a frame is
drawn. Panes: the layout of a tab holds its panes once each (`TabFits`), and no
pane is in two tabs. Agent: `TurnFits` keeps results aligned with the calls they
answer, and `CacheFits` is kept by the LRU operations whatever the turns
interleave; the count is that a round in the conversation costs an iteration
(`Counted`). TUI: the panel alternates messages and answers. REPL: the history
is, role by role, the lines typed and the answers given (`ReplFits`), which
`ConversationIsHeard` carries to what is sent. Context: no state to speak of, but
loops. `NewestIs` is the induction over the rounds of `Newest`: until it is full
it has kept all so far and paid for it, and then the next one was too dear; that
this is the most that can be paid for (`MostOf`) needs that costs only grow
(`CostOfLast`). For `truncate_messages` the cost of two parts is the sum
(`CostOfBoth`), and where no message is empty a list costs at least its length
(`CostAtLeast`), so the notice, guessed at one token each, never tells of too
many.

Left to TLC:
- every liveness property: `RecoversUnderTraffic`, `EveryRequestSettles`,
  `EveryCallReturns`, `EmitsEnd`, `StreamsEnd`, `CallsReturn`, `TurnsEnd`. They
  rest on fairness, hence on ENABLED, which the prover does not treat.

Every other property of the passing runs is the statement of a theorem. The
mutants of those properties, and the reachability of every action, are TLC's.

## 5. Not modelled

- Sanitizer, secrets, crypto, TLS: functions of their arguments, over regular
  expressions and cryptographic libraries. Dashboard, voice agents: file-system
  and audio I/O. NATS: fire and forget. Model list, health and text completion
  routes: read-only or a mock, except for the rate limiter's token they take.
- Numbers that only feed dashboards (durations, tokens, dollars, p95), and the
  two routing strategies nobody asks for.
- HTTP, JSON and SQL as formats, authentication headers, URLs.
- `max_retries` and `rate_limit_per_minute` of the provider configuration: the
  code reads them and never uses them.
- Code without a caller: `check_would_allow` and `get_remaining` of the limiter,
  `parse_streaming` of the agent, `TaskExecutor`, the queue's order, the
  compressed cache of the context manager.
- The gateway's configuration, and which namespaces a sandbox enters.

Things the models make plain that no run is spent on, because no document says
otherwise or because one run of the kind is enough:

- `health` of Groq and NVIDIA says Healthy whatever happens, and Gemini's of any
  response. Anthropic and NVIDIA claim `streaming: true` and have no
  `stream_request`. The NVIDIA and llamacpp clients have no timeout.
- Requests that a client rejects before sending count against the breaker.
- A buffered answer says `contentfilter` where a stream says `content_filter`.
- The agent sends its tool instructions both as a message and in the system
  field. The CLI offers `ollama`, which `build_provider` rejects.
- The REPL does not stop at the end of its input. In the TUI's command mode Esc
  is not handled.
- The notice of `SlidingWindow` is not counted in its budget; `truncate_text` may
  exceed it by the beginning of a sentence.
- `unshare -f` without `--kill-child`: a program whose call timed out goes on,
  although `sandbox.rs:171` says it is killed; what it forks before
  `add_process_to_cgroup` stays outside the limits.
- The cgroup daemon answers ok to a cleanup that removed nothing; a setup that
  failed leaves its directory, so that setup of that sandbox never succeeds
  until a cleanup.
- The rate limiter takes the name in `X-Provider` at its word, and counts
  nothing in `rate_limited_total`.
- OAuth tokens do not survive a restart of the gateway.

## 6. Plan

Every safety property of the passing runs is proved, and so are the
refinements. In order of what is most worth knowing next:

1. Safety premises of the liveness properties: that a request, an emit or a call
   of the task manager that is not over always has a step of its own whose
   guard holds or waits for one that does, stated without ENABLED.
2. Upstreams that write an event as several `data:` lines or a chunk with
   several choices: `IsEvent` allows neither.
3. The token bucket with time in it, and an abstract allowance of burst plus
   elapsed; the task queue's priority order.
