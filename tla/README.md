# TechMart voice agent: models and proofs

TLA+ models of the TechMart voice agent (`src/src`), the TLC runs that check
them on small instances, and TLAPS proofs of their main invariants for every
value of the constants. Paths below are relative to the repository.

## 1. The system

A caller's audio reaches `main.py` over a WebSocket. `handle_websocket` looks
the caller up, builds a Pipecat pipeline (`bot/pipeline.py`) and runs it until
the call ends:

    transport in -> sentiment -> STT -> language detector -> user aggregator
                 -> LangGraph adapter -> TTS -> transport out -> assistant aggregator

The adapter runs a LangGraph workflow once per user turn: a router LLM chooses
intents, one worker per intent retrieves a context from ClickHouse in a thread,
a synthesizer LLM streams the reply. Separately an admin CMS edits the three
ClickHouse tables that the workers read.

| Component | State | Operations | Interacts with |
|---|---|---|---|
| Agent graph (`graph/workflow.py`, `state.py`, `nodes.py`) | the state of one run: intents, contexts, status, memory, attempt | router, four workers, join, synthesizer, retry | adapter (caller of the stream), tools, the shared customer profile |
| LangGraph adapter (`bot/adapter.py`) | hand-off status, emotion, the turn in progress | `_process_context`, `process_frame`, hand-off | frames from the aggregator, frames to the TTS, Vobiz API |
| Input language detector (`bot/input_language_detector.py`) | `customer_profile["detected_language"]` | one transcript | profile read by adapter and synthesizer; settings frames to the TTS |
| Voice pipeline (`bot/pipeline.py`) | Pipecat's queues and tasks, open user turn, bot-speaking flag | greeting, barge-in, disconnection | everything above |
| Call session (`main.py`) | `active_calls`, background tickets | webhook, connection, end of call | pipeline, ClickHouse |
| Voice sentiment (`bot/sentiment.py`) | audio buffer, process pool | VAD frames, audio, inference | user aggregator (which sends the VAD frames up), adapter (meant to get the emotion) |
| Retrieval tools (`graph/tools.py`) | none of their own; an activation per call | support, catalog, orders, history | embedding model, ClickHouse, LLM |
| Embedding model, clients (`model_loader.py`, `db/clickhouse_client.py`) | one model, one client per thread | lazy creation | executor threads |
| Admin API (`admin/router.py`) | the table and its shadow table | `get_data`, `save_data` | admin pages, ClickHouse |
| Admin page (`admin/templates/index.html`) | the rows a browser shows | load, add, delete, save | admin API |
| Data loading (`db/ingest.py`, `migrate_specs.py`, `schema.py`) | the tables, a data file | one-shot scripts | ClickHouse, LLM |
| Web call client (`web_call_client/`) | media stream, socket | start and end of a call | call session |

### What is hard

* *Interleaving and cancellation.* The adapter is an asyncio task that a
  barge-in cancels at any `await`, while frames it has pushed are still queued
  and the detector writes the profile it reads twice.
* *Ordering.* Settings frames come from three sources (greeting, detector,
  adapter) and must take effect before the right text.
* *Failure.* Tools, LLM calls, the transfer request and each ClickHouse command
  can raise; a command may have taken effect although it raised.
* *Fork and join.* Up to four workers feed one list.
* *Stale state.* An admin page edits what it loaded earlier; keys are numbered
  from what is stored now.
* *Crash and restart.* A save that stops half-way leaves its shadow table; the
  loading scripts rewrite a file in place and fill tables without a marker.
* *Threads and limits.* Retrieval runs in executor threads that a cancelled turn
  cannot stop; they share one lazily built model and make a client each.
* *Shared processes.* One classifier process serves all calls, and a pool that
  lost it stays broken.
* *Late events.* A browser delivers the close event of one socket, or the answer
  to a microphone prompt, when another call is current.

`PROJECT.json` lists each hazard at its line with the properties that cover it.

### What makes each component correct

* Graph: the synthesizer works on exactly the requested contexts; a run ends;
  the retry bound holds; an accepted hand-off calls no LLM.
* Adapter and pipeline: no stale speech after a barge-in; a reply is spoken in
  the language set for it; every finished turn is dealt with; a call is hung up
  on exactly for an accepted hand-off; what a turn decided reaches the next.
* Admin CMS: a save is one atomic replacement or nothing; an acknowledged save
  has happened; keys stay unique; a later save stays possible.
* Call session: the ticket of each finished conversation, and of no other, is
  attempted; the registry names no ended connection as active.
* Tools: an answer is bounded and cut where it should be; a failing call stays
  in its tool wherever the tool handles it.
* Threads: the model is built once; nothing waits for a thread on behalf of a
  cancelled run; every run ends.
* Sentiment: no audio of an earlier utterance is classified with a later one,
  emotions come in order, no analysis is left waiting, and the adapter learns the
  emotion.
* Loading scripts: the specifications of two migrations are never mixed; each
  load adds its rows at most once, and a reset forgets the interrupted ones.
* Web call client: one conversation at a time, the microphone off after it, and
  always a way to start the next.

## 2. Modules

### `AgentGraph`

One run of the workflow. `run` is `AgentState` with the position in the graph;
`language` is the shared profile entry. An action per node outcome: the router
replies (any subset of intents, any action, any memory) or crashes and falls
back to an offer; a worker returns or raises; the synthesizer returns early for
an accepted hand-off, calls its LLM, finishes, or raises and is retried up to
`MaxAttempts`. LangGraph applies the writes of a superstep together (`Joined`),
which is why a raised worker discards the contexts of the others. The adapter
passes neither `rag_contexts` nor `structured_memory` and every run has a fresh
thread id, so `FreshRun` starts both empty.

Abstracted: prompts and texts (token counts), contexts (a count per worker),
the query. Not modelled: Langfuse tracing.

### `VoiceTurn` (extends `AgentGraph`)

One call as its frames see it. `inq` is what waits for the adapter, `ttsq` what
waits for the speech output. Pipecat sends an `InterruptionFrame` ahead of
queued frames; each stage cancels its process task, drops what it has queued
except uninterruptible frames (TTS settings, EndFrame), then passes the
interruption on. The model writes this without moving the interruption through
the queues: each frame carries the number of interruptions its sender had
passed on (`epoch`), a stage counts the interruptions it has handled (`aEpoch`,
`tEpoch`), and a frame with a smaller epoch is dropped when its turn comes.
A frame with a larger epoch waits until the stage has handled that
interruption (`Ready`).

`Hear` is a final transcript: the detector (at least `LangWords` words) and the
turn-start strategy (`MinWords` words while the bot speaks, one otherwise).
`UserStops` pushes the context. `StartTurn` is `_process_context` up to the
first `await` of the stream; `RunGraph` and `StreamToken` are the graph's steps
while the adapter awaits it; `FinishTurn`, `PostReturns` and `FailTurn` are its
ways out; `AdapterInterrupted` is the cancellation, whose `CancelledError` is
swallowed. `push_frame` does not suspend in practice, so what lies between two
awaits is one action.

Pipecat is a package the program imports. The repository keeps a copy of its
source under `docs/pipecat`, and what the model says of frames, queues,
interruptions and turn starts is translated from that copy: which frames survive
an interruption (`frames/frames.py`), how a processor's input and process tasks
share a queue and what an interruption resets (`processors/frame_processor.py`),
the minimum number of words that interrupts
(`turns/user_start/min_words_user_turn_start_strategy.py`), the aggregator's
push of the context, and how the TTS service and the output transport treat
text, settings, interruptions and the end of playback. The TTS service pauses
its frames while audio plays; the model leaves the pause to the fairness
assumption of `TtsStep`, under which playback ends.

### `CallHistory` (extends `VoiceTurn`) and `Dialogue`

A history variable (which turns were accepted or offered, the last turn heard)
for the properties that compare turns. It restricts no step.

`Dialogue` is the abstract specification of a call, without frames, queues or
graph runs: the caller opens turns, the output falls silent for them one after
the other, a reply is heard only for the turn it last fell silent for and in
which no hand-off was agreed on, a hand-off is agreed on at most once per turn
and before anything of the turn was heard, and the agent hangs up only after
agreeing on one. `CallHistory!ImplementsDialogue` maps `opened` to the turns the
aggregator opened (`said`), `silenced` to the interruptions the speech output
has handled (`tEpoch`), the history to `heard` and `accepted`, and `outcome` to
`call`. The graph, the adapter's task and both queues are stutters, except where
an accepted run finishes (`Agrees`).

### `CallSession`

One server process: the webhook that announces a call, the connection handlers,
the registry `active_calls` that both write, and the ticket task that outlives
its handler. A handler goes from `new` through `starting` (waiting for the start
frame), `lookup` (the profile query in a thread) and `running` to `ended`; it is
`broken` when an exception or early return leaves it before its `finally` block.
What lies between two awaits is one action, so claiming the entry and creating
the pipeline are one, and so are starting the ticket task and deleting the
entry. `write_call_ticket` is three steps (summary, insert, report), each of
which may fail; an insert may raise after it took effect. `Restart` ends the
process at any point. The conversation is a number of messages.

### `CatalogAdmin` and `CatalogStore`

`CatalogAdmin` is the admin page, `save_data` and the two tables. `save_data`
awaits nothing, so one process handles one save at a time, but the router is
mounted in `main.py` and in the stand-alone `admin/app.py`: `Servers` are
processes. Each ClickHouse command is a step (`Command`) that may raise with or
without effect (`CommandFails`, which also stands for the death of the process
in it). A row is the record an admin entered and the number at the end of its
key; numbers are compared, prefixes left out, as for FAQs and terms, whose
tables have one prefix each.

`CatalogStore` is the abstract specification: a save replaces the content in one
step or not at all, at most once, and is acknowledged only after it did.
`CatalogAdmin!ImplementsStore` maps the request of a server to an abstract save
(`Abstracted`): working until its EXCHANGE or TRUNCATE, published until its
DROP, acknowledged while its answer is under way.

`MCCatalogAdmin` gives the constants a definition for TLC.

### `RagTools`

The four tools as programs of one thread. A task is the activation record of a
tool (turn, tool, position, attempt, length of its answer), and each operator is
the set of records a blocking call can leave: `Faq` for the FAQ query and the
terms it refers to, `Filter`, `Hybrid`, `Semantic` and `Fallback` for the
catalog's hierarchy of searches, `Sql` and `Run` with `FailedAttempt` for the
generated query and its second attempt, `Tickets` for the history. A row is its
length and a result a sequence of rows, so that `Clip`, the loop that cuts an
answer at 2000 characters, is the code's own arithmetic, with the newline it
does not count and the `strip()` that takes one off. An exception of the LLM in
`get_catalog_context` gives the clause `1=1`, one of `encode()` leads to the
handler that reads an unbound variable and returns nothing.

### `Retrieval` (extends `AgentGraph` and `RagTools`)

The graph run with the threads of the default executor. The four worker nodes of
`AgentGraph` are split in two: `Routes` submits their tools in the order of
`route_workers`, `Arrives` and `Fails` are the node's return on the event loop.
Between them lie `Takes` (a free thread takes the head of the queue), `Connects`
(`get_client` in thread-local state), `SeesModel`, `Locks` and `Loads` (the
double-checked lock of `model_loader.py` around a constructor that may raise)
and `Calls` (a step of `RagTools`). A run that is cancelled, or that fails
because one worker raised, takes its waiting tools out of the queue (`Withdraw`,
the cancelled futures of `asyncio.to_thread`), but a tool that has begun keeps
its thread, and its result is then of no run. Without a `customer_id` two of the
workers answer without a thread. The queue and the threads of the executor are
Python's and external; a client is only whether a thread has one.

### `Sentiment`

All live calls with their `VoiceSentimentProcessor` and the one pool they share.
The caller speaks and pauses; `Audio` passes the processor and reaches the
detector in the user aggregator later (`Detects`), whose start and stop frames
travel back up (`up`) and arrive as `Started` and `Stopped`. A chunk carries the
number of its utterance, so that the model tells audio of an earlier utterance
from later audio.
`Stopped` creates a task, `Analyze` submits its job, `Takes`, `Classifies` and
`Breaks` (the process dies, busy or idle) are the pool, and `Resumes` pushes the emotion in the direction the
stop frame had. `preload_classifier` runs before any call and has no action.

### `DataLoading`

The scripts of `db/`, run by hand one at a time in any order: `migrate_specs`
(`Read`, `Truncate`, `Dump`, `Extract`), `schema` (`Deploy`, `Drop`, `Create`)
and `ingest` (`Ingest`, `Insert`). `Stop` ends a script anywhere, also between
the `open(..., 'w')` that empties the product file and the end of `json.dump`.
The specifications of a product are the number of the migration that made them;
a batch that raises keeps those of the products before the one that raised.
The repository's file is the result of an earlier migration in which some
batches failed, which is what `Init` allows.

### `WebCallClient`

The globals of `app.js`, its two buttons, and for each call the state of its
socket and microphone prompt. `OnOpen` runs to the `await` of `getUserMedia`,
`Granted` and `Denied` are the two ways on. `ws.onopen` is asynchronous, so the
`try` of `startCall` does not catch what it throws: both `OnOpen` (no
`AudioContext`, no `navigator.mediaDevices`) and `Granted` (no audio context, or
nodes that cannot be made for this stream) may stop where the code throws, with
what they have assigned by then, and `failed` remembers it. `OnClose` runs
`endCall` on whatever the globals hold by then, which is the close event of an
earlier call as well. What `startCall` itself throws it undoes in one step.

### The modules with proofs

`AgentGraphProofs`, `CallSessionProofs`, `CatalogAdminProofs`,
`RetrievalProofs`, `SentimentProofs`, `DataLoadingProofs` and
`WebCallClientProofs` extend the module they are named after; `RetrievalProofs`
begins with the lemmas about the loops of `RagTools`. `CallProofs` extends
`CallHistory`, and first proves what concerns `VoiceTurn` alone. See section 4.
`MCRetrieval` and `MCSentiment` give constants a definition for TLC.

## 3. Runs

Deadlock is not checked where the system may stop: a call ends, an admin stops
saving, the bound on turns is reached. It is checked for `CallSession`, where the
process can always be restarted, and for `DataLoading`, where an operator can
always start `schema`.

| Run | Question | Bounds and why they are enough |
|---|---|---|
| `voice_turn` | stale speech, language of speech, types | two user turns, so one turn interrupts another at every point; three languages; three words, the detector's threshold; two queued frames before a language switch is held back |
| `call_history` | the call is a `Dialogue`; only an accepted hand-off hangs up; turns are dealt with, hand-offs and EndFrames end the call | two turns, one language (languages influence neither) |
| `handoff_barge_in` | the comment of `adapter.py:186-187` | counterexample in two turns |
| `offer_forgotten` | the prompt of `nodes.py:75` | counterexample in two turns |
| `call_session` | registry and tickets | two calls, three connections, so that two connections of one call overlap while another call goes on; two messages, the number a ticket needs |
| `catalog_admin` | exclusive swap, refinement of `CatalogStore`, keys | two servers, two pages, two saves: two saves meet in every pair of commands, a save meets a leftover shadow table, and a page is stale when it saves; one record stored with key 2, so that numbering does not start at one, and one new |
| `locked_out` | `plan.txt:47` | counterexample with one failed save |
| `retrieval` | join, retry bound and termination of a run with its threads; model, queue, answers and failures of the tools | two turns, so that tools of a cancelled run meet those of the next; four tools on two threads, so that tools wait, two threads ask for the model at once and both threads can be held by a run that is over; limit 5 and rows of 9, 5 and 1 characters, so that an answer is empty, fits exactly, or is cut at its first or at a later row; both outcomes of every call |
| `sentiment` | audio of an utterance, order of emotions, end of analyses | two calls, of two utterances and one, and one process, as in the code; one chunk or frame under way in each direction, the least that lets the detector be late |
| `emotion_lost` | `README.md:17` | counterexample with one utterance |
| `data_loading` | stops and repetitions of the scripts | three products in batches of two, so that the last batch is short; three migrations (one before the run), two ingests |
| `web_client` | sockets, microphone and buttons of a page | three calls: an old close event, an old prompt and a current call at the same time |

`AgentGraph` has no run of its own: `retrieval` checks its properties with all
four workers and both attempts and with the threads behind them, and
`ImplementsGraph` below proves that it allows nothing the graph does not.
Disagreements that the source shows in two lines have no run either; see
"Divergences without a run".

### What the violated runs show

* `handoff_barge_in`: the caller talks while the transfer request is posted.
  The adapter's task is cancelled before the ringback tone and the EndFrame are
  pushed. The comment speaks of a `finally` block that is not there.
* `offer_forgotten`: the caller answers an offer before it has been streamed to
  its end. `_handoff_status` is never assigned, the next router reads `None`.
* `emotion_lost`: the frame that ends an utterance comes up from the user
  aggregator, `_analyze_sentiment` pushes its result in the same direction, and
  the result leaves the pipeline at the transport input. The adapter, which is
  below, never assigns `_user_emotion`, and no turn has an emotion.
* `locked_out`: INSERT fails after CREATE; the shadow table stays and every
  later CREATE raises, until somebody drops it by hand. (A save of no rows
  truncates the table and still works: it needs no shadow table.)

### Divergences without a run

* `nodes.py:82` tells the router that it sees the memory "from previous turns".
  The adapter's state has no `structured_memory` and every run has a fresh
  thread id (`adapter.py:88`, `workflow.py:68`), so it always starts empty.
* `README.md:20` promises a "universal" truncation. The exception handler of the
  catalog tool (`tools.py:155`) joins its rows without a limit, and its `LIMIT 3`
  bounds their number, not their length. `AnswersBounded` says that it is the only
  such path.
* The synthesizer skips the emotion "neutral" (`nodes.py:208`); the labels of the
  classifier are abbreviations ("neu"), so a neutral caller would be mentioned.
* `plan.txt:48` has the backend "increment primary keys". Keys in a payload that
  the table has lost meanwhile are not counted (`router.py:66`), so a stale page
  can bring two rows with one key; `DuplicateOnlyIfStale` shows that nothing else
  can.

### Fairness

`AgentGraph`: weak fairness of the graph's own steps. The Groq client has a
timeout of its own (60 s, with retries), ClickHouse queries end or time out
(300 s), so every node ends. No fairness is assumed of tokens, languages or
answers. `VoiceTurn`: weak fairness of the adapter's steps, of the graph, of
the speech output's steps and of the handling of interruptions: they are tasks
of one asyncio event loop, none blocks it, and what they await has a timeout
(aiohttp 300 s for the transfer). The speech output takes its next frame once
the audio before it has been played, which ends. Nothing is assumed of the
caller, of the greeting's timer or of the report that the bot has stopped
speaking (`BotStops`). `CallSession`: weak fairness of the
ticket task of each connection, which waits for an LLM call and an insert with
the timeouts above. Nothing is assumed of connections.
`Retrieval`: weak fairness of the graph's own steps on the event loop and of each
thread (the executor's threads are scheduled, and each call they make has a
timeout as above); none of cancellations. Weak fairness is enough for the lock,
because the turns are bounded: it is taken finitely often and then stays free.
`Sentiment`: weak fairness of the tasks of the event loop and of the pool
(classifying a buffer is finite work, unless the process dies, which breaks the
pool); none of callers, audio, detector or of the death of the process. `WebCallClient`: weak fairness of each
socket's close event, which a browser always delivers; none of users, prompts or
servers. `DataLoading` and `CatalogAdmin` state no liveness: a person runs them.

### Abstractions a reader should know of

* `Hear` is one step. In the code the detector's write to the profile, its
  settings frame, and the turn start with its interruption in the aggregator
  follow one another over several queues of one event loop. An adapter that read
  the language within that moment would show a mismatch that
  `MismatchOnlyWhenSuperseded` does not see, in a turn superseded right after.
* A profile has no `detected_language` before the first transcript of three
  words, which therefore pushes a settings frame also when it is English;
  `VoiceTurn` starts from `DefaultLang` and leaves this redundant frame out.
* An interruption that finds the adapter in a call which swallows the
  cancellation delays it by at most a second in Pipecat; the model cancels at
  once.
* A retried synthesizer speaks its reply from the beginning after the tokens of
  the failed attempt; both are text of the same turn.
* The registry keeps entries of calls that never connected or whose connection
  broke off early; nothing reads it, so no property is stated about that.
* `write_call_ticket` swallows its failures, so `_save_ticket_bg` reports success
  for a ticket that is not stored and its own `except` cannot run. `CallSession`
  has both facts (`reported`, `stored`); no property is stated about them.
* The ticket task is held only by the event loop; that it could be collected as
  garbage while it waits is not modelled.
* The order of messages inside the LLM context is not modelled.
* In `Retrieval` the executor has all its threads from the start; Python makes
  them on demand, which only lets an early tool begin earlier. The result of a
  tool that ends as its run is cancelled is dropped at once.
* The hysteresis of the voice activity detector and its idle timeout, which ends
  an utterance without a chunk of audio (`vad_controller.py:194-215`) and lets
  the rest of it begin anew, are not modelled: in `Sentiment` a chunk of speech
  begins an utterance and one of silence ends it.
* In `CatalogAdmin` keys are their numbers. `product_catalog` has several
  prefixes with the same numbers (TK-LAP-001, TK-PHN-001), to which the
  assumption of distinct numbers does not apply; what is said of keys is of
  tables with one prefix.
* A second ingest without a reset loads the first tables again, the handler of
  one connection deletes the registry entry of another, and an old close event
  ends the current call in the page. The models have these steps; no document
  promises otherwise, so the hazards say so and no property does.
* In `Sentiment` `emotion` is what the adapter would keep; it does not feed the
  graph, whose prompts are abstracted.
* An exception of `print` or of the logger is not modelled anywhere.
* On the admin page a second save before the first is answered, a save before
  loading (which empties the table) and a reload that discards edits are
  possible steps. Lost updates between pages and re-use of the number of a
  deleted last row follow; no document promises otherwise. Changing the table
  selector without loading is not modelled.

## 4. Proofs

All are for arbitrary constants under the named assumptions
(`GraphAssumption`, `VoiceAssumption`, `SessionAssumption`,
`AdminAssumption`, `ToolsAssumption`, `RetrievalAssumption`,
`SentimentAssumption`, `LoadingAssumption`, `MaxCallsAssumption`), which TLC
evaluates in the runs. Every invariant and every action property of a passing
run is proved; the table below says where.

| Module | Properties proved |
|---|---|
| `VoiceTurn` | `TypeOK`, `NoStaleSpeech`, `SpokenInTurnLanguage`, `MismatchOnlyWhenSuperseded` |
| `CallHistory` | `HangUpOnlyOnAcceptance`, `ImplementsDialogue` |
| `CatalogAdmin` | `TypeOK`, `SwapExclusive`, `DuplicateOnlyIfStale`, `ImplementsStore` |
| `CallSession` | `TypeOK`, `ActiveEntryHasOwner`, `TicketOnlyAfterConversation` |
| `Retrieval` (with `AgentGraph`, `RagTools`) | `TypeOK`, `SynthesizerSeesEveryContext`, `AttemptsBounded`, `OneModel`, `QueueIsCurrent`, `FailuresContained`, `AnswersBounded`, `ClipKeepsWhatFits` |
| `Sentiment` | `TypeOK`, `NoOlderAudio`, `EmotionsInOrder` |
| `DataLoading` | `TypeOK`, `SpecsOfOneRun`, `RowsOncePerIngest` |
| `WebCallClient` | `TypeOK`, `SocketIsCurrent`, `MicrophoneOff`, `NotStranded` |

The arguments:

* `AgentGraphProofs`: `GraphSafety`. The three invariants are proved together:
  `SynthesizerSeesEveryContext` needs that, while workers wait, nothing is in
  `rag` yet and the waiting workers are among the intents.
* `CallProofs`, of `VoiceTurn`: `TypeCorrect`, `Silence` (`NoStaleSpeech`) and
  `SpeechLanguage` (`SpokenInTurnLanguage`, `MismatchOnlyWhenSuperseded`).
  The inductive invariant says, of each queue, that epochs never decrease and
  never exceed what the sender has handled; that a text frame's turn is its
  epoch; and, for the language, what `ttsLang` will be when the frames ahead of
  a text frame have been taken: the last settings frame before a text frame
  that can still be spoken carries its turn's language. `NoStaleSpeech` alone is
  not inductive because it only looks at the first frame.
* `CallSessionProofs`: `Sessions`. The two invariants are inductive together
  with the types: a connection that ends deletes the entry of its call, and
  `ActiveEntryHasOwner` says that it can be the owner of no other.
* `CatalogAdminProofs`: `TypeCorrect`, `Swap`, `Keys`, `Refinement`. `Swap`
  needs that the shadow table is empty until its server inserts; `Keys` that,
  before a stale save, all stored and about-to-be-stored rows have distinct keys
  and pages and requests hold distinct keys apart from rows without one;
  `Refinement` uses `Swap` (what is exchanged is the server's own rows) and that
  a save that truncates carries no rows. Each step is then a step of
  `CatalogStore` or a stutter.
* `CallProofs`, of `CallHistory`: `CallIsDialogue` (the refinement of `Dialogue`)
  and `HangUps`. To the invariant of `VoiceTurn` it adds that turns are
  processed in order and each once (`TurnsInv`), that a run that has asked the
  LLM for a reply has not accepted a hand-off (`AnswerInv`), that nothing heard,
  queued or being streamed is of an accepted turn (`HeardInv`), and that an
  EndFrame or a pending transfer implies an accepted turn (`EndInv`). The third is
  why a turn is agreed on only before it is heard.
* `RetrievalProofs`: `ImplementsGraph` (every step is a step of the graph or
  leaves it alone), hence `GraphSafetyHolds` from `AgentGraphProofs`; and
  `RetrievalSafety` (`TypeOK`, `OneModel`, `QueueIsCurrent`,
  `FailuresContained`). The invariant says that a thread about to build the model
  holds the lock and that the model is not there yet, that a queued tool is at
  its first step and within its attempts, that nobody is waited for outside the
  workers' superstep, and that a tool of the current run is in one place only
  (queued, on a thread, or ended), without which a result could arrive for a
  tool that is still queued.
* `RetrievalProofs`, the texts: `TextsAreClipped` (`AnswersBounded`,
  `ClipKeepsWhatFits`), from `ClipIsReference`, which says for every sequence of
  rows that the loop of `tools.py` computes `ClipReference`. The loop is a fold of
  the library, a recursive function; `FoldExists` shows that the function exists
  and how it steps, by induction over the length of a prefix (`NatSetInduction`,
  from the well-foundedness of `<` on the naturals: the induction is about a set,
  so no operator has to be instantiated). What the loop has after each prefix is
  then either the whole of it or cut where the first row did not fit (`LoopText`),
  and only one prefix is the longest that fits (`OneFit`). `OutcomeText` bounds
  what each call of a tool answers, given that the tool has no text yet, and
  `TextInv`, kept by every step, is that no queued or running tool has one.
* `SentimentProofs`: `SentimentTypes`, `SentimentAudio` (`NoOlderAudio`) and
  `SentimentOrder` (`EmotionsInOrder`), for any number of calls and any lag
  between processor and detector. Of each call the invariant says that the chunks
  under way stand in the order of their utterances (`ChunksInOrder`), so do the
  detector's frames and none is later than what the detector has still to finish
  (`FramesInOrder`); that those frames alternate, from what the processor has
  heard of to what the detector is in (`Alternates`); and that the buffer of an
  utterance being heard has nothing older than it (`BufferIsCurrent`), by which a
  stop frame finds no audio of an earlier utterance. (It may find a beginning of
  the next one: the processor hears of the end late.) Of the pool it says that the
  results, the running job, the waiting jobs and the tasks, read in this order,
  never put a later utterance of a call before an earlier one (`WorkInOrder`), and
  that everything on its way lies between the last emotion pushed and what is
  still to come (`WorkBefore`, `PushedBefore`). That there is one process
  (`SentimentAssumption`, `sentiment.py:33`) is needed here: with two, results
  overtake each other.
* `DataLoadingProofs`: `LoadingSafety`. While a migration has stripped its data
  and works on its batches, what is in memory is of this migration only; a table
  has at most as many copies as ingests were begun, one that the running ingest has
  still to fill at most one less and one it has filled at least one; and a reset that has reached a table has
  dropped those before it, so that none has copies when the count starts again.
* `WebCallClientProofs`: `PageSafety`. `SocketIsCurrent` needs that the start
  button is there only without a current socket. `MicrophoneOff` counts: each end
  of a call takes one stream off, which is the call's own or stands for it, since
  `mediaStream` holds a live stream whenever the current call has one; so only a
  stream that comes late adds to those left on. `NotStranded` needs that the
  current call's prompt has an audio context, so that a granted microphone shows
  the end button unless the nodes cannot be made.

What stays with TLC is liveness, which TLAPS does not prove:
`FinishedTurnIsHandled`, `HandoffEndsCall`, `EndFrameEndsCall`,
`ConversationIsTicketed`, `RunTerminates`, `AnalysisEnds` and `LostCallIsOver`;
and the violated properties, which are counterexamples.

## 5. Not modelled, and why

* Serializers, audio codecs, sample rates, prompts, wording, metrics, tracing:
  data the properties do not tell apart.
* `recording_ready` and `transfer_to_human` in `main.py`: one request, no state.
* `create_indexes` in `db/schema.py`: idempotent statements whose failures are
  logged and ignored; nothing depends on them but speed.
* Playback of audio in `web_call_client/app.js`: arithmetic on a clock.
* The admin page's choice of table and its input widgets, the conversion of
  columns and the embeddings in `admin/router.py`.
* Configuration, static data, tests and manual scripts.
* `docs/pipecat` and the other framework copies: over 99 % of the repository's
  lines, none of them imported by the program. What the call depends on of them
  (frames, queues, interruptions, the turn-start strategy, VAD frames, the TTS
  service's frame handling) is modelled in `VoiceTurn` and `Sentiment` and mapped
  there; transports, service clients and other frameworks' features are not
  behaviour of this program. A share of the map counted over all lines is small
  for this reason; of `src/src` it covers the code that keeps state.

What could follow: the queues between language detector and aggregator in
`VoiceTurn`; the detector's idle timeout in `Sentiment`; and a composition of
`CallSession` with `VoiceTurn`, in which the end of a call is what starts its
ticket.
