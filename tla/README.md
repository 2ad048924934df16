# ppiclaw: TLA+ models and proofs

ppiclaw is a TypeScript monorepo: a runtime for coding agents (`packages/agent`,
`packages/ai`), an application around it that keeps sessions on disk
(`packages/coding-agent`), and bots that put the same agent behind a chat
(`packages/channel-core`, `packages/feishu`, `packages/mom`). It is one process
of cooperative JavaScript in which almost everything is asynchronous: a run of
an agent, its tools, the listeners of its events, the retries and compactions of
a session and the calls of the user interleave at every `await`, the session
file and the credentials are shared with other processes, and the chat servers
of the bots repeat, delay and lose what they are asked.

This directory models the parts where those interleavings decide correctness,
checks them with TLC and proves the central invariants with TLAPS.

Contents: [inventory](#inventory) · [modules](#modules) ·
[correspondence with the code](#correspondence-with-the-code) ·
[what the runs show](#what-the-runs-show) · [findings](#findings) ·
[proofs](#proofs) · [limits](#limits) · [plan](#plan) · [running it](#running-it)

Paths below are relative to `src/packages/`.

## Inventory

### Agent runtime (`agent/src/agent.ts`, `agent/src/agent-loop.ts`)

- *State.* `Agent` owns the transcript `_state.messages`, the flags
  `isStreaming`, `streamingMessage`, `pendingToolCalls`, `errorMessage`, two
  queues (steering, follow-up) and `activeRun`. The loop has a private copy of
  the transcript, `currentContext.messages`, its list `newMessages`, and the
  prompts and messages it still has in hand.
- *Operations.* `prompt`, `continue`, `steer`, `followUp`, `clearAllQueues`,
  `abort`, `reset`, `waitForIdle`; in the loop: announcing prompts, polling the
  queues, streaming a response, preparing and executing tool calls one after the
  other or in parallel, emitting results, `agent_end`.
- *Interactions.* Every event is awaited by the loop while all listeners handle
  it; tools call back with updates; hooks (`transformContext`, `getApiKey`,
  `beforeToolCall`, `afterToolCall`) run inside the loop.
- *Hard.* Callers between any two polls; an exception of a listener or hook with
  parallel tools in flight; `reset()` in the middle of a run; the two copies of
  the transcript maintained by two pieces of code.
- *Correct if* the copies agree whenever the model is asked, every call of a
  response is answered, no queued message is lost, doubled or delivered out of
  turn, and every run ends in an idle agent.

### Agent session (`coding-agent/src/core/agent-session.ts`)

- *State.* Copies of the agent's queues for display, the event queue
  (`_agentEventQueue`, a promise chain), the retry promise and counter, the last
  assistant message, the overflow flag, an automatic compaction in progress,
  bash results held back during a run.
- *Operations.* Handling each event (extensions, listeners, persistence), retry
  with backoff after `agent_end`, automatic compaction by threshold or overflow,
  `prompt`, `steer`, `followUp`, `clearQueue`, `abort`, `recordBashResult`,
  manual `compact`, navigation in the tree, models and thinking levels.
- *Interactions.* The agent does **not** wait for the session: the listener that
  feeds the event queue returns at once. The session edits the agent's
  transcript (removing a failed answer, replacing it after a compaction) while
  the agent may already run again, and calls `agent.continue()` from timers.
- *Hard.* The session is any number of events behind; `prompt()` returns only
  when a promise is resolved that the handling of another event resolves; aborts
  meet sleeping retries; compactions finish under a new run.
- *Correct if* everything emitted is persisted once and in order, the transcript
  is what reopening the session would show, prompts return, retries are awaited,
  and overflow recovery does not loop.

### Session tree (`coding-agent/src/core/session-manager.ts`, `agent-session-runtime.ts`)

- *State.* A file of JSON lines (header, entries with ids and parents); in
  memory the same lines, the leaf, the labels, and whether the file is flushed.
- *Operations.* Open, append, set a label, move the leaf, branch with a summary,
  fork into a new file.
- *Hard.* Nothing is written before the first answer, then everything at once; a
  write may stop half way; a process may die; two processes append to one file;
  a label is itself an entry on the path.
- *Correct if* what was answered is on disk, once, with parents before children;
  nothing loadable is lost; a fork has the history it was asked for.

### Compaction (`coding-agent/src/core/compaction/`)

- *State.* None of its own: it reads a path, asks for summaries, and appends an
  entry that names the first entry kept.
- *Hard.* The cut must not separate a tool result from its call; successive
  spans must meet; the path has grown, or the user has gone to another branch,
  by the time the summaries arrive.
- *Correct if* no result is orphaned, nothing is skipped, and what earlier
  summaries covered survives.

### Queues (`channel-core/src/queue.ts`, `coding-agent/src/core/tools/file-mutation-queue.ts`)

- `ConversationQueue`: one task of a conversation at a time; `enqueue`, `clear`.
- `withFileMutationQueue`: promise chains per file under the `write` and `edit`
  tools, whose bodies can be aborted between file operations.
- *Correct if* each is a serial executor that never stalls, the map of chains
  does not leak, and parallel edits of a file all survive.

### Credential store (`coding-agent/src/core/auth-storage.ts`, `ai/src/utils/oauth/index.ts`)

- *State.* `auth.json` and its lock directory, shared by every running process;
  in each process a copy in memory and whether it could be read.
- *Operations.* Creating the file, reading it, `set`, `remove`, `reload`, and
  `getApiKey`, which exchanges an expired refresh token for a new one.
- *Hard.* A login locks, writes and unlocks in one turn of the event loop, but a
  refresh holds the lock while it waits for the provider; a lock goes stale and
  is taken from a live process; a process dies with the lock or while it writes;
  a refresh token may be used once.
- *Correct if* the file holds what was last saved for each provider, no token is
  presented twice, and no process goes back to an older credential.

### Feishu bot (`feishu/src/feishu.ts`, `pi.ts`, `openapi.ts`, `stream-updater.ts`, `working-pulse.ts`)

- *State.* The filter of duplicates, a queue per conversation, and for a message
  being answered its card with a queue of writes and a sequence number, the
  typing reaction, the chains of the stream and of the pulse.
- *Operations.* A delivery is filtered, logged and queued; a run opens a
  session, prompts, streams into a card, replies, sends files, cleans up.
- *Hard.* The server delivers again and answers late or not at all; a restart
  forgets everything in memory; three chains of promises write to one card.
- *Correct if* a message is run once, in turn, its answer can be read whole, no
  card loses text, and the run ends so that the queue goes on.

### Slack bot (`mom/src/slack.ts`, `main.ts`, `agent.ts`, `context.ts`, `events.ts`)

- *State.* Per channel a queue, the handler's flags, the log and the context of
  the model; for the scheduler a directory of event files with a timer or a cron
  job per name.
- *Operations.* Mentions, remarks, "stop", synthetic messages; watching,
  debouncing, reading with retries, executing and deleting event files.
- *Hard.* A mention during a run is refused, an event waits; the log is the only
  way from what was refused or overheard into the context, and it is compared by
  text; files are written by other programs while they are read.
- *Correct if* nothing but events waits, nothing said is missing from the
  context or told twice, and each event is executed once, in time.

### Everything else

`PROJECT.json` lists the remaining components with the reason each is not
modelled. The providers, model tables, tools that only do I/O, extensions, user
interfaces, web components and pod scripts have no protocol of their own, or one
that ends at a wire format. See [limits](#limits).

## Modules

| module | of | role |
|---|---|---|
| `AgentLoop` | agent.ts, agent-loop.ts | the agent and its loop, one step per await |
| `AgentSession` | agent-session.ts | the session behind its agent |
| `SessionTree` | session-manager.ts, fork of agent-session-runtime.ts | processes, memory and files |
| `Compaction` | compaction.ts, `buildSessionContext` | cut points, spans, late appends |
| `ConversationQueue` | queue.ts, and the queue of slack.ts | the conversation queue |
| `FeishuBot` | feishu.ts, log of store.ts | extends `ConversationQueue`: filter, log, queue, restarts |
| `FeishuReply` | pi.ts, openapi.ts, stream-updater.ts, working-pulse.ts | one answer: run, stream, pulse and card |
| `SlackChannel` | slack.ts, main.ts, agent.ts, context.ts | extends `ConversationQueue`: a channel, its log and its context |
| `SlackEvents` | events.ts | an event file and its watcher |
| `AuthStorage` | auth-storage.ts, oauth/index.ts | processes, the file and its lock |
| `FileMutationQueue` | file-mutation-queue.ts, write.ts, edit.ts | promise chains and tool bodies |
| `SerialExecutor` | what both queues promise | abstract specification |
| `MC...` | | bounds and instances for TLC |
| `...Proofs` | | theorems of the module named; `BotProofs` has those of `ConversationQueue`, `FeishuBot`, `SlackChannel` and `SlackEvents` |

The bots are compositions: `FeishuBot` and `SlackChannel` extend
`ConversationQueue` and take its actions `Enqueue`, `Settle`, `Resume` or its
`ProcessNext` as they are, with their own state around them, so that the queue
is checked under the callers it has. That a task settles is an assumption there;
`FeishuReply` shows it of the task the Feishu bot enqueues (`RunSettles`) unless
that awaits `session.prompt()` for ever, `AgentLoop` of the run of the agent inside
it (`RunEnds`), and `AgentSession` says when a prompt returns (`PromptReturns`).

`AgentSession` contains its own reduced agent rather than an instance of
`AgentLoop`: the product of the two is far beyond TLC, and the session sees of
the agent only which messages it appends and emits, its queues, and when a run
ends. `AgentLoop` is where that reduced behaviour is justified: messages are
appended in the order of their events (`ContextInSync`, `AgentEndReport`), a
queue is polled where the reduced agent polls it (`DeliveredInTurn`), and every run ends with `agent_end` (`RunEnds`).
`Compaction` in turn is what `AgentSession` abstracts to "some cut that is not
on a tool result and not before what was kept last", which its properties
`CutsWell` and `NothingSkipped` support.

In every module an operator marked `mutant` is a deliberate bug, kept beside the
definition it would replace: each property is known to fail for one of them.

## Correspondence with the code

### AgentLoop

One step is the code between two awaits. `pc` names the await the loop is
suspended at (an emission, a request, a stream event, a tool); each action is the
code from that await to the next one, with every assignment to the agent's state
that `processEvents` and the loop make on the way. Actions of callers (`Prompt`,
`Continue`, `Steer`, `FollowUp`, `Abort`, `Reset`, `ClearAllQueues`), of tools
(`ToolSettles`, `ToolUpdate`) and of streams interleave anywhere. `throws`
counts exceptions, which may come from a listener or hook at any emission and
lead into `handleRunFailure`; tools already running stay in `running` and may
report after the run is over (`late`).

Messages are records of a role and of what the loop looks at: user messages are
numbers in the order of acceptance, assistant messages carry their turn, the
number of their calls and the stop reason. Contents, token usage and the text of
errors are left out.

### AgentSession

| code | model |
|---|---|
| `_handleAgentEvent`, `_createRetryPromiseForAgentEnd` (437-472) | `EmitMessages`, `End`, `Throw`, `CreateRetryPromise` |
| `_processAgentEvent` (484-571) | `BeginEvent`, `FinishMessage`, `FinishAgentEnd` |
| `_handleRetryableError`, `_resolveRetry`, `abortRetry`, `waitForRetry` (573-579, 2399-2495) | `SleepBeforeRetry`, `SleepOver`, `GiveUp`, `ResolveRetry` |
| `_checkCompaction`, `_runAutoCompaction` (1739-1990) | `CheckCompaction`, `BeginCompaction`, `CompactionPrepared`, `CompactionSaved`, `CompactionDone`, `CompactionFails` |
| `setTimeout(() => agent.continue())` | `timers`, `TimerFires` |
| `prompt`, `steer`, `followUp`, `clearQueue`, `abort` | `Prompt`, `Send`, `Return`, `QueueSteer`, `QueueFollowUp`, `ClearQueue`, `Abort` |
| `recordBashResult`, `_flushPendingBashMessages` | `RecordBashResult`, `Flushed` |

The agent's queues are in mode one-at-a-time, the default of the settings. The
start and the end of a message are handled as one event, because nothing else
separates them. Texts of messages are distinct. A response fails as an `error`
(worth a retry), a `failed` (not worth one), an `overflow` (the context is too
long) or is `aborted`; an `overlong` answer is a success whose input was above the
window, which `isContextOverflow` counts as an overflow too (the silent overflow of
`overflow.ts:122-128`). Whether the model is still the one that answered, and
whether the messages after the last usage take the estimate above the threshold,
are free choices of each `CheckCompaction`. `prompt()` may throw after it has
flushed the bash results (no model, no credentials). The agent's wait for the event
queue in `beforeToolCall` (only when an extension intercepts tool calls) is left
out, which only adds interleavings. Six ghosts serve the properties: `emitted`
(every message of a `message_end`), `raced` (the transcript was edited while
events were unhandled, or an answer other than the intended one was removed),
`released` (the retry promise was resolved with a retryable failure still ahead),
`early` (a caller of `prompt()` began a compaction with events unhandled, or the
session reset the overflow flag under it),
`back` (a compaction put an answer back at the end of the transcript of an agent
that was about to ask the model, or whose failure was still to be retried) and
`unanswered` (a run failed before the model had given it an answer).

### SessionTree

`mem[p]` is the `SessionManager` of a process, `disk[f]` a file: its lines and
what it ends with (`end`): `whole` lines, a last line that is complete but for its
newline (`open`), or a `part` of a line. `AppendEntry` is `_appendEntry` up to the
first line it writes, with the entry in memory whatever becomes of the write;
`AppendLine` writes one line of `_persist`, so that other processes read and append
between two lines of the first flush, and `WriteFails` is a write that throws
after any of its bytes. `Extended` is what a write does to the end of the file: an
open line can be loaded, but the next line is appended right behind it, and then
neither can. `Open` is `setSessionFile`; nothing keeps two processes from starting
on the same path before it is there, and each then writes a header of its own.
The rewrite of a file without a loadable entry is a step apart (`WriteAnew`),
because others may have appended since it was read. `Fork` is
`AgentSessionRuntime.fork` with `createBranchedSession` on the file, not the
memory, of the source. `note` stands for every entry that needs no answer. Three
ghosts of a file say which entries were not written whole or are gone (`lost`), that
it was opened without an answer (`bare`), that several processes began it (`shared`).
Migration of old versions, `forkFrom`, sessions that are not persisted, and a crash
in the middle of the `writeFileSync` of a rewrite or a fork are left out. `Branch`
follows parents as `getBranch` does; since a parent is older than its child, the path
sorted by id (`InSequence`) is the path from the root.

### Compaction

`FindCutPoint`, `BoundaryStart` and `Prepare` are `findCutPoint`, the search for
the boundary and `prepareCompaction`, over entries with a kind and a token
estimate. A summary is abstracted to the set of entries it was made from
(`Summary` is `compact()`, with its treatment of split turns). `Branch` is a move
in the tree; `pending` holds a compaction between reading the path and appending
its entry. A summary or a first kept entry supplied by an extension
(`agent-session.ts:1637-1642`, `1901-1906`) is left out: it is not computed here.

### ConversationQueue, FileMutationQueue

`ProcessNext` is `processNext()` up to its await and is called by `Enqueue` and
from the `finally` in `Resume`, in the same step, as the code does. `Call` is
`withFileMutationQueue` up to its await, `Start`, `Release` and the steps of the
two tool bodies follow the awaits of `write.ts` and `edit.ts`; `Abort` rejects
the promise of a body at once and leaves the body itself running to its next
check. The key of a call is computed from the files that exist at that moment,
which is synchronous in the code (`realpathSync.native`). A file's content is the
set of calls whose text is in it.

### FeishuBot

| code | model |
|---|---|
| `handleEvent` up to its first await, `markIfDuplicate`, `pruneProcessedMessages` | `Deliver`, `Marked`, `Prunes` |
| `await logMessage(...)` | `LogLands`, `LogFails` |
| the rest of `handleEvent`: `queue.enqueue` | `GoesOn` |
| the queue's task and `processNext` | `Runs` (`Settle`, `Resume`) |
| the process ends and starts again | `Crash` |

A delivery is a message of the conversation followed, or of another
(`Strangers`), which matters only to the filter that all share. Each delivery of
a message is a task of its own, so that "run twice" can be said. `handled` is the
history of what passed the filter.

### FeishuReply

`pc` is where `run()` is: opening the session, prompting, waiting for the stream,
deciding on the text, a second prompt, patching the card, posting chunks, files,
closing, done. `job` is the `reply()` in progress and what follows it. `pulses`
and `chain` are the two promise chains as queues whose heads are in flight; the
`links` of a card are the queue of writes to it, each of which merges its text
with what the card has when its turn comes and takes the next sequence number. A
request is answered, refused, or done and its answer lost (`Outcomes`). A text is
a sequence of tokens, and `MergeStreamingText` is computed on it as in the code,
with the longest overlap.

Left out: the direct command to send a file, pruning of the maps by age and size,
`lastSentText` of a reply handle, `sendWorkingCancel = false`, the rules where a
long text may be split (a chunk is a prefix of bounded length), and
`sanitizeMarkdownForFeishuCard` (`openapi.ts:697-735`), which rewrites markup that a
card cannot show: "the final text" is the text before it. A write whose
number the server has seen is taken as refused. The run goes on after each of its
requests, but nothing is assumed of `session.prompt()`.

### SlackChannel

`Mention`, `Hears`, `EnqueueEvent` and `Stop` are the socket handlers and
`enqueueEvent`; `Syncs`, `Prompts`, `Answers` and `Ends` are the stages of
`handleEvent` between its awaits: the context is brought up to date from the log,
the model is prompted, it answers, the `finally` runs and the queue goes on. The
end of a run and the start of the next are microtasks of one turn: one step. A
message saying "stop" is logged like any other. `synced` and `prompted` count how
often each message entered the session on its two ways. On the one it has the text
of the log (`Text`), on the other that of the prompt (`PromptText`); they differ for
a user whose name is not loaded, of whom `context.ts:113` writes the id and
`agent.ts:743` the word "unknown" (`Unknown`). What a run posts to Slack is left out.

### SlackEvents

One event file. `HandleFileChange` is the debounced handler, `Reads`, `GivesUp`,
`HandleImmediate`, `HandleOneShot` and `HandlePeriodic` are `handleFile` between
its awaits, `reading` the calls of it in flight; `live` are the timers and cron
jobs that can still fire and `timer`, `cron` the handles in the maps, which is
what cancelling goes by. `Writes`, `Completes` and `Removes` are the program that
writes the file, `Due` is `setTimeout()` with its longest delay. Two more
histories, `crossed` and `clean`, say when the promises of the properties start.

### AuthStorage

A credential is the number of the login or refresh that made it. `Takes` and
`Releases` are the lock of `proper-lockfile` (external), which is taken from a
process that died, and from a live one that did not renew it, as a mishap.
`FindsNoFile` and `CreatesFile` are the look and the write of `ensureFileExists`,
`Reload`, `Set` and `Remove` the synchronous operations; a refresh is `Asks`
(take the lock, read), `Exchange` (the provider's side), `Answered`, `Refused` or
`AnswerIsLost`, and `Recovers` (the second look after a failure). `IsTold` is
`onCompromised`. `CrashWriting` dies between the truncation and the write. Logins
lock the path as given (`realpath: false`, `auth-storage.ts:69`), refreshes the
resolved one (124): of an `auth.json` that is a symbolic link these are two locks.
The model takes it for a regular file, of which they are one.


## What the runs show

Every run but `session_hang` ends with no state left to explore, with two workers
in at most a few minutes; `session_hang` stops at its counterexample.

| run | bounds | distinct states | shows |
|---|---|---|---|
| `agent_run` | 2 user messages, 1 turn with up to 2 parallel calls, 1 exception, 1 reset, 1 continue | 189 118 | idle is quiet, the copies of the transcript agree, `agent_end` reports the run, calls are answered, every run ends |
| `agent_queues` | 3 messages by any route, sequential tools, one-at-a-time queues, 1 exception, 1 reset | 2 185 820 | nothing lost or doubled; delivery in order, one steering message per turn, follow-ups only when the agent would stop |
| `file_queue` | 3 calls, 2 paths to a file, 1 abort | 320 181 | serial per key, edits preserved |
| `compaction` | 5 entries, 2 compactors, 1 move, 2 sizes of user messages and replies | 1 612 662 | cuts well (no orphaned result, on the path, in the budget), no gap, forgetting only at split turns |
| `session_tree` | 2 processes, 2 files, 4 entries, 3 incidents | 1 272 281 | reopens as it is, the file is a tree, forks complete, nothing lost from a file but an open line and what a rewrite crosses |
| `agent_session` | 5 of: 2 prompts, 2 failures or overflows, 2 compactions, one each of a steered or queued message, bash result, tool call, large or overlong answer, exception before or after the answer, abort, clear | 1 355 017 | persistence, transcript, queues, overflow recovery, retry promise, and that a prompt returns |
| `feishu_bot` | 2 messages and a stranger, 4 deliveries, filter of 2 marks that live 1, 1 restart, 1 failed append | 400 175 | no early replay, a serial executor per conversation, whatever passed the filter is run |
| `feishu_reply` | texts of 2 messages with an overlap, one asked for again, 2 stream updates, 1 tick of each timer, 2 failed requests | 1 272 115 | the final text is shown, cards only grow, typing is cleared, open cards are those lost, the run settles unless a prompt does not return |
| `slack_channel` | 2 mentions, one of an unknown user, 1 remark with the text of the other, 3 events for a queue of 1, 1 redelivery, 1 stop | 1 616 699 | only events wait, the context is complete, nothing but what the unknown user said is told twice |
| `slack_events` | a file with 2 of 5 contents, written at once or in two steps, 1 removal, 1 restart | 677 444 | what is scheduled is what the file asks for, an event is executed once and in time, an undisturbed one is executed |
| `auth_storage` | 2 processes with a call each, 2 providers, 3 credentials, 1 crash or lost lock | 3 464 215 | nothing saved is lost, tokens are spent once, never back to an older credential |

### Why the bounds suffice

- *Agent.* The interference is between one run and what comes in from outside:
  two calls are the fewest for which the order of execution, results and
  failures differ, two messages the fewest for a queue to hold one while another
  is delivered, and three the fewest for which both queues and a prompt are
  involved. The second message also starts a second run, in which the tools of
  the first can still report.
- *Files.* Three calls are a holder, a waiter and one more that arrives when the
  entry is replaced or deleted; two paths are the file and an alias of it.
- *Compaction.* Five entries allow a compaction, entries after it and a second
  one prepared before the first is appended, and a second that splits the turn the
  first one kept, which is where a summary is forgotten.
- *Session tree.* Two processes, one file in common and one for a fork; four
  entries are a conversation with an answer, a label and a message after it. Three
  incidents are two processes that begin a file and a write that fails in it.
- *Session.* Every hazard of the inventory needs at most five external events:
  the shared total of `Bounds` picks any five of them.

- *Feishu bot.* Two messages and a stranger fill a filter of two; four deliveries
  repeat a message after an expiry, an eviction and a restart. `NoReplay` and
  `Serial` remove the bounds.
- *Feishu reply.* Two failures are the fewest for a write and its retry, or a
  write and its fallback, to fail both; two updates of the stream are the fewest
  of which the second merges; two texts with an overlap are the case where merging
  and replacing differ.
- *Slack channel.* One running task, one waiting and one event that finds the
  queue full; one user whose name is known and one whose is not. `OnlyEventsWait`, `NobodyIsIgnored` and
  `EachMessageOnce` remove the bounds.
- *Slack events.* The second content meets each stage of the first: unread, being
  read, scheduled, executed; one call of `handleFile` is caught in flight by
  another.
- *Credentials.* Two processes race for one lock; the second provider is what a
  writer of the first can overwrite; the third credential is a login or refresh
  after an exchange. `Saved`, `Spent` and `NeverOlder` remove the bounds.

### Fairness

- `AgentLoop`: weak fairness of the loop and of each running tool. The event
  loop resumes a settled await, a stream ends (the providers end it on abort and
  on errors too), a tool settles. `MCSpec` adds a stuttering step of an *idle*
  agent to the relation, so that a deadlock reported by TLC is a loop stuck in
  the middle of a run.
- `FeishuBot`: an append to the log lands or fails, a handler whose append is done
  goes on, a settled task resumes the queue and a task settles. The last is an
  assumption, which a prompt that never returns would break: the messages behind it
  are then never served. Nothing is assumed about deliveries, time or crashes.
- `FeishuReply`: the run, the pulse, the stream and the writes of a card go on
  (a request has an outcome, be it a timeout); timers need not fire. Nothing is
  assumed of `session.prompt()` (`pi.ts:132`, `144`), which `session_hang` shows may
  not return: the fairness of the run excludes its step there.
- `SlackChannel`: the stages of a run follow each other. Nobody has to say
  anything.
- `SlackEvents`: the loop of a process that is up goes on and time passes; the
  writer does as it likes.
- `AgentSession`: the agent answers, the handler of events goes on (extensions
  return), summaries arrive or fail, sleeps and timers end, and callers that can
  return do. No external event is fair: nobody is assumed to abort or prompt.
- Nothing is assumed in the other modules, whose properties are safety.

`CHECK_DEADLOCK FALSE` is set where the bounded system really may stop: a session
with no event left, a compaction or session file that has used its entries. The
other instances add a stuttering step to their quiet states only (`Silent`,
`Quiet`, `Finished`), so that a deadlock is a process stuck in the middle.

### Exceptions the properties name

Some properties hold only up to a known race, and name it so that everything else
is still checked:

- `TranscriptMatchesSession`, `RetryInProgress` and `PromptReturns` except `raced`:
  a compaction that finishes under a new run replaces the transcript by what has
  been persisted so far; a retry may then find an older answer at the end and
  give up silently (`agent-session.ts` 2466-2470) with nobody resolving the
  promise; a failed answer is removed by position.
- `TranscriptMatchesSession` leaves out failed and overlong answers, which retries
  and recoveries take from the transcript and not from the session. An overlong
  one, a success, stays out if the compaction then fails.
- `RetryInProgress` and `PromptReturns` also except `Revived`: the failed answer
  that a retry has removed from the transcript stays in the session, and a
  compaction that another `prompt()` begins meanwhile shows it again. `raced` does not
  cover it, because no event is behind. It was found in the attempt to prove
  `RetryInProgress`: the invariant that the proof needs is false without it. And
  they except `unanswered`, the case of the finding below.
- `RetryIsAwaited` excepts `released`: with the ends of two runs in the event
  queue, handling the first resolves the promise of the second.
- `RecoversOnce` excepts `early`: a prompt that finds an overflow at the end of
  the transcript before the session has handled its events recovers from it; the
  late start of the user message before it resets the flag, and the end of that
  run recovers from the same overflow once more. So does a
  recovery that `prompt()` still awaits when the session comes to a later message.
- `ReopensAsItIs` and `FileIsATree` except files with a failed write or a lost
  entry (`lost`), which the code does not repair; `FileIsATree` also a file that
  was opened before it had an answer (`bare`), whose header is then written again,
  the headers of a file that several processes began (`shared`), and parents that
  are label entries a fork has left out.
- `EntriesStay` excepts a last line without its newline (`Unended`), which the next
  append destroys, and what others append to a file between the moment a process
  finds nothing in it and the moment it writes it anew (`WrittenAnew`).
- `NothingLostOrDoubled` allows a loss only after an exception: messages drained
  from a queue are in the loop's hands when a listener throws.
- `EditsPreserved` is for files that existed, and ends with an abort.
- `ForgetsOnlyAtSplitTurns` and `ForkKeepsUnlabelledHistory` name in their
  premises the two losses listed below.
- `NoEarlyReplay` allows what the filter cannot know: a restart, its lifetime,
  its size. `EveryMessageIsServed` excepts a message whose log line failed (its
  redelivery is dropped) and what a crash took.
- `RunSettles` excepts a run that awaits `session.prompt()` for ever.
- `TypingIsCleared` and `OpenCardsAreLost` are for a server that answers every
  request; `FinalTextShown`, `CardTextGrows` and `RunSettles` are not. A lost card
  is one that pulse and run both made, or that the pulse made after the run had
  looked.
- `ToldOnce` excepts a message that Slack delivers a second time, and what an
  unknown user said, which may be both copied from the log and prompted.
- `ScheduledAsOnDisk`, `RunOnceInTime` and `EventIsRun` except `crossed`: a change
  handled while an earlier `handleFile` awaits its next try, or made between the
  scan of the directory and the start of the watch. `RunOnceInTime` also excepts
  an execution by a timer that was set farther ahead than `setTimeout()` can wait
  (`TooFar`), `EventIsRun` an event written
  while something of an older one of that name was left.
- The properties of `AuthStorage` except `blind` (a process that did not notice
  that its lock was taken went on) and `torn` (the file was truncated by a crash
  or by the creation of a file another process had created), `SpentOnce` a token
  whose successor was lost on its way, and `NeverBackToOlder` what a process could
  not save.

## Findings

One run checks what comments of the repository say and finds the code doing
something else.

| run | what is said | what happens |
|---|---|---|
| `session_hang` (`WaitsForRetryOnly`) | `agent-session.ts:2486`: `waitForRetry` returns at once if no retry is in progress | a run that fails outside the model's response, with a text that reads like a retryable error, creates the promise; no handler resolves it, and `prompt()` never returns |

`sdk.ts:302` throws there when the shell command configured for an API key fails (its
text is quoted in the error, and may well have "timeout" in it); `streamSimple()` and
the hooks on a request can throw too. A failed OAuth refresh does not: it only leaves
the key undefined.

What else was noticed, with the property that allows for it:

- `agent/src/agent.ts:213` calls `agent_end` the final event of a run. After an
  exception with parallel tools, a tool of the dead run still emits updates, even
  to the listeners of the next run (`throws` in `IdleIsQuiet`).
- `coding-agent/docs/compaction.md:43` says the previous summary is passed on.
  When the second compaction splits the turn that the first one kept, the history
  summary is the literal "No prior history." and the earlier summary is dropped
  (`ForgetsOnlyAtSplitTurns`).
- `coding-agent/README.md:249` says a fork copies history up to the selected
  point. `createBranchedSession` leaves out label entries without relinking their
  children, so the history before a label is gone
  (`ForkKeepsUnlabelledHistory`).
- `file-mutation-queue.ts:16` says operations on the same file are serialized. An
  abort releases the queue while `writeFile` is in flight, and the next call opens
  the file beside it (`EditsPreserved`).
- `feishu/README.md:15` promises that the placeholder is replaced by the final
  content. A card that was created twice, or by a request whose response was lost,
  is left with the placeholder (`OpenCardsAreLost`).
- `mom/docs/events.md:23` says a one-shot executes once at a specific date. One
  that is more than 24.8 days away is executed at once, because `setTimeout()`
  takes such a delay as 1 ms; and a change met by two calls of `handleFile` is
  executed twice (`RunOnceInTime`).
- `mom/src/slack.ts:324` tells the user to say "stop". A stop while the run is
  still preparing its prompt finds nothing to abort: the run goes on to its end, and
  the "Stopping" it posted stays (`aborted` in `SlackChannel`).
- `agent/src/types.ts:33` says tool results are emitted in the order of the
  calls. In parallel mode a vetoed or unknown call is answered during
  preparation, before an earlier call that executes.
- `agent-session.ts:2574` says a deferred bash result is flushed on `agent_end`;
  it is flushed by the next prompt.
- An abort between the end of a run and its handling, or between a sleep and its
  timer, finds no sleep to cancel, and the retry starts after `abort()` has
  returned (`docs/rpc.md:409`).
- The comment at `agent-session.ts:2467` says that an error of the retried run is
  caught in `agent_end`. A retry that finds its failed answer back at the end of the
  transcript starts no run: `continue()` rejects, there is no `agent_end`, and
  `prompt()` waits for ever (`Revived` in `RetryInProgress`).
- Some providers accept an overflow silently (`overflow.ts:91-92`). An answer above the
  window is taken for one and removed from the transcript before the compaction
  (`agent-session.ts:1783-1786`); if that fails, it stays out, although it was a
  success and is shown when the session is reopened (`TranscriptMatchesSession`).
- Two processes started on the same new `--session` path write a header each, so
  that the file has "exactly one header" no more (`shared` in `FileIsATree`).
- A last line without its newline is loaded, but the next append glues the next line
  to it, and both are skipped from then on (`Unended` in `EntriesStay`). A process
  that opens a file without a loadable entry overwrites what another has appended
  to it since (`WrittenAnew`).
- What a Slack user says whose name is not loaded has one text in the log and
  another in the prompt, and is told to the model twice (`Unknown` in `ToldOnce`).
- One overflow can be compacted for twice, see `RecoversOnce` above
  (`CHANGELOG.md:663`: "a single overflow does not trigger repeated compaction
  loops").
- `compact()` detaches the session from the agent before it aborts the run, so
  that the events of the aborted run are not persisted (`agent-session.ts:1585`).
- Two queued messages with the same text are confused in the display.
- The chain of promises of `ConversationQueue` is as long as its backlog
  (`queue.ts:43`), which matters for memory only.

## Proofs

Each theorem holds for all values of the constants allowed by the assumption of
its module (`ModesAssumption`, `BoundsAssumption`, `PathsAssumption`,
`SessionAssumption`, `CompactionAssumption`, `BotAssumption`, `ChannelAssumption`,
`EventsAssumption`, `AuthAssumption`, `ReplyAssumption`), which TLC evaluates in the
runs. One of them is about the world and not only about types: `ReplyAssumption`
says that the model's texts are not empty and that it does not write the
placeholder of a card (`streamThinkingText`) itself. The code takes a card that
shows exactly the placeholder for an empty one (`shouldReplacePlaceholder`), so an
answer that is that very text may be written over by a later one.

| module | theorem | property |
|---|---|---|
| `AgentLoopProofs` | `TypeCorrect`, `IdleCorrect`, `QuietCorrect` | `TypeOK`, `IdleIsClean`, `IdleIsQuiet` |
| | `ContextCorrect`, `ReportCorrect`, `AnswersCorrect` | `ContextInSync`, `AgentEndReport`, `CallsAnswered` |
| | `NothingLost`, `DeliveryCorrect` | `NothingLostOrDoubled`, `DeliveredInTurn` |
| `AgentSessionProofs` | `RetryAwaited`, `Persisted` | `RetryIsAwaited`, `PersistedInOrder` |
| | `RecoveredOnce`, `QueuesCorrect`, `RetryProgresses` | `RecoversOnce`, `QueuesAgree`, `RetryInProgress` |
| `SessionTreeProofs` | `Reopened`, `TreeHolds`, `EntriesKept` | `ReopensAsItIs`, `FileIsATree`, `EntriesStay` |
| `CompactionProofs` | `NoGap`, `Remembered`, `CutsRight` | `NothingSkipped`, `ForgetsOnlyAtSplitTurns`, `CutsWell` |
| `BotProofs` | `NoStall`, `Refinement` | `NeverStalls`, `ImplementsSerialExecutor` |
| | `Serial`, `NoReplay` | `ServesInTurn`, `NoEarlyReplay` |
| | `OnlyEventsWait`, `NobodyIsIgnored`, `EachMessageOnce` | `WaitingAreEvents`, `ContextIsComplete`, `ToldOnce` |
| | `FollowsTheFile`, `OnceInTime` | `ScheduledAsOnDisk`, `RunOnceInTime` |
| `FeishuReplyProofs` | `FinalText`, `CardsGrow` | `FinalTextShown`, `CardTextGrows` |
| | `TypingCleared`, `OpenCardsLost` | `TypingIsCleared`, `OpenCardsAreLost` |
| `FileMutationQueueProofs` | `KeyExclusive`, `NoLeak`, `NoEditLost`, `Refinement` | `OnePerKey`, `EntriesArePending`, `EditsPreserved`, `EachKeyIsSerial` |
| `AuthStorageProofs` | `Saved`, `Spent`, `NeverOlder` | `NothingSavedIsLost`, `SpentOnce`, `NeverBackToOlder` |

- *AgentLoop.* The invariant is built in layers. `TypeOK` alone is not inductive:
  the loop takes heads of sequences, so `Control` says which sequences are not
  empty at which await. `Sync` relates the two copies of the transcript at every
  await of a run that was not reset: they are equal, or differ by exactly what
  has been added to one and is about to be added to the other (the prompts
  still to be announced, the response being streamed, the results of a turn). At the
  request to the model it says they are equal. `Report` says the same of
  `newMessages`: the context is what the run began with followed by them.
  `Tooling` accounts for the calls of a turn (each prepared call has a result,
  waits, or is being reported), and `Unanswered` places the results behind the
  message that asked for them. `Ordered` compares what was delivered, what the loop
  has in hand and what is queued: within a kind, in that order; `Accounted` says
  that nothing else exists without an exception. `OneByOne` and `Stopped` say
  where the loop may be while a steering message is unanswered, and that a
  follow-up is in hand only where the agent would have stopped. The step lemmas
  have one case per action.
- *AgentSession.* A retryable failure that is still ahead is in the event queue,
  in `_lastAssistantMessage`, or slept upon. It enters the queue only with the
  `agent_end` that makes the promise, and from then on it only moves; whoever
  resolves the promise either removes it or is recorded in `released`. What the
  proof needs besides: queued messages are user messages (so that polls emit no
  failures), and the event the handler came from its await with is still the
  first of the queue (`InHand`).
  `Persisted` needs only types and what `Emission` says of one step: an
  emission adds the same messages to the record and to the queue, an event leaves
  the queue as it enters the session, everything else adds summaries and bash
  results, which are not counted. `RecoveredOnce` needs where a recovery can be
  besides the session: under way, of which there is one (`Pending`), and
  whether the flag was reset for a user message that is not persisted yet
  (`ResetAhead`). `QueuesCorrect` needs that no message is in two places it could
  be taken from (`Apart`), and that a user message given to the extensions is no
  longer shown (`Announced`). `RetryProgresses` is about what the transcript ends
  with, although the property does not mention it: a timer starts a run only if
  that is not an answer. `Events` says how the events are nested (an `agent_end`
  follows an answer, and is last when the agent is idle), `Transcript` what may be
  asked of the model in each phase: a run that is about to ask has something to
  ask; the failure of the last run, as long as it is not handled, is all that is in
  the way; after that nothing is, and a sleep or a timer is there. Every edit of the
  transcript (`Editing`) keeps that, whatever it removes, flushes or shows anew,
  unless it is one of those the property names. Runs may throw anywhere: the property
  excepts what follows a run that failed without an answer (`unanswered`), not the
  failures themselves, and `session_hang` shows that it must.
- *SessionTree.* The invariant ties each file to the processes that have it open. Of
  the lines of a process the first are stored (`Stored`): it has read or written them,
  and they are in the file (`OnDisk`). Those still to be written are nobody else's and
  not in the file (`OnceOnly`, `ApartFrom`), and two processes that have stored nothing
  of a file share it; this holds at every line of a flush. Parents are older than their
  children (`Dated`). What a line does to the end of a file is proved once for every
  end and for every place where the write may stop. The fork is the case apart:
  the walk to the root ends and is closed under parents (`BranchIs`), a set of ids
  can be sorted (`CanBeSorted`), and the ids made for the labels are new.
- *Compaction.* The invariant says what a compaction entry means for the path
  before it (`CompactionSound`): where it keeps from, that what it does not keep was
  given to it or to an earlier one, and that the first message it keeps is not a tool
  result. It speaks of every entry, not of the last one, so that it survives a move to
  an ancestor. A compaction under way was prepared on a beginning of the path, or the
  entry it was prepared at has left for good, since ids only grow (`PreparedOn`); so
  it does not matter what was appended meanwhile. `NewCompaction` is the step: what
  the new span does not cover lies before its start, where the previous compaction
  did not keep either. `KeptWithinBudget` is a fact about `prepareCompaction` alone;
  that the sums of tokens exist at all is proved with it (`SumsExist`).
- *ConversationQueue.* `OneActivation` (the flag is set exactly while one
  activation is suspended) makes `NeverStalls` inductive; the refinement maps the
  suspended activation to the abstract `active`, a settled promise to a stutter.
- *FileMutationQueue.* The code knows a chain only link by link. The invariant
  `Chain` says that the pending calls of a key form a line in which each awaits
  the one before it, the first awaits nobody, and the map holds the last one.
  The head of the line is then the one call that may run, which gives exclusion,
  the absence of leaks and the refinement, key by key. `NoEditLost` adds what the
  bodies do to the disk: without an abort a body is at work only while its call
  runs, so what an edit has read is what the file is due to hold when it is
  written (`Undisturbed`).
- *FeishuBot.* To the queue every step is one of its own or a crash (`BotStep`), so
  its invariant and its refinement carry over (`Serial`). For `NoReplay` the marks
  are shown to be the latest entries of the history, one by one, and what has been
  forgotten since the process started is old or outnumbered; a message the filter
  passes is then not among the marks, so its earlier entry is among the forgotten.
- *FeishuReply.* First what merging does to texts: the result has both parts whole
  (`MergeIncludes`), which rests on the longest overlap, the well-founded choice of
  it, and `Includes` being transitive. From this every change a card can undergo is
  one of a few: a text joins its queue, a write starts, a write ends, it is closed.
  The invariant `Base` says of each card that server and client agree on its text, or
  the response to a write was lost and the server refuses what the client sends next
  (`CardInv`); that is why a write, which is merged with the client's text,
  never takes text from the server's (`CardsGrow`). `ReplyInv` follows the
  text of a reply: queued on the card or already in it while the card is closing, in it
  while it is patched, and chunk after chunk in the chat while messages are posted.
  `FinalText` adds that what is told was shown and that cards grow. `TypingCleared`
  needs the order of the pulse's chain (`PulseChain`): the removal is
  the last link, there is one as soon as the pulse is closed, and no creation is in
  flight beside it. `OpenCardsLost` needs, while no request has failed, which card is
  on its way to be closed (`Open`): the one in the map, or the one of the
  reply under way, on which no link of the stream is left when its text is queued,
  because the run has awaited the stream (`OpenStream`).
- *SlackChannel.* `WaitingAreEvents` needs that the handler's flag and the queue's
  agree, and `NeverStalls` of the queue: a queue that is not processing is empty,
  so a mention that finds `running` down is started in the same step.
  `NobodyIsIgnored` needs that between the synchronization and the prompt the
  context has every text of the log the run began with. `EachMessageOnce` counts a
  message that is about to be prompted as told (`Ahead` in `CountsOf`), so that neither
  order of copy and prompt is left out: a run copies what it does not have yet but
  its own message, and a message is prompted again only if it was delivered again. It
  needs where a message can be: the events that wait are distinct and not yet in
  the context, events are never logged, and the context has only what was logged or
  enqueued.
- *SlackEvents.* As long as no change crossed a call of `handleFile`, one call or one
  timer is all there is, the maps know the timer, and what was read is still on disk
  or a change of it is reported (`Calm`). A content that was executed is on disk no
  more, since executing it deleted the file, and in no call or timer (`Spent`).
- *AuthStorage.* Whoever asks the provider holds the lock unless it was robbed
  (`AskerHolds`), and what it read under the lock is what the file still has
  (`ReadIsCurrent`): nobody else writes without the lock. So what is written back
  differs from the file in one provider only, and the token asked with is the one
  saved; a saved token was spent only if its successor was lost
  (`TokensAreFresh`). `NeverOlder` adds `MemoryIsPast`: what a process has in
  memory, unless it could not save it, is no newer than what is saved.

## Limits

*Only model-checked*: liveness (`RunEnds`, `PromptReturns`,
`EveryMessageIsServed`, `EventIsRun`, `RunSettles`), which the prover does not
reach; `ForkKeepsUnlabelledHistory`, which needs that an id is used once over all
files; and `TranscriptMatchesSession`, which is stated with a filter over the session
(`SelectSeq`), whose meaning is recursive.

*Not modelled* inside the modelled components:

- agent: the streaming protocol of the providers (a response ends in stop, error
  or aborted), `subscribe` during an emission, the wrappers `agentLoop()` and
  `agentLoopContinue()`;
- session: token estimation and settings (retries and automatic compaction are
  taken as enabled), listeners of the *session* that throw, models and thinking
  levels, messages of extensions; manual compaction and tree navigation are in
  `Compaction`; migrations of session files, `forkFrom` and sessions in memory;
- files: matching and rendering of edits;
- Feishu: contents of messages, downloads, the web socket, the tenant token, the
  other omissions listed under [FeishuReply](#feishureply);
- Slack: what a run posts, attachments, backfill before the start, memory files;
- credentials: API keys and their sources, the flows of the logins.

*Not modelled* at all, and why:

- *Providers, model catalogue, proxy*: one reader parses one response; what the
  rest of the system sees of it is in `AgentLoop`. The catalogue is generated.
- *Tools, extensions, resources*: processes, files and user code; what runs
  concurrently and shares state is the file mutation queue.
- *Interactive, print and RPC modes, terminal and web UI*: adapters and rendering
  over the session's events.
- *Settings*: two processes meet under the lock `AuthStorage` models; what is
  their own, the chain of writes that merge changed fields, is the next candidate.
- *Session switching*: `switchSession`, `newSession` and `importFromJsonl` leave
  one session and build another in sequence, sharing nothing but the file, whose
  interleavings are in `SessionTree`.
- *GPU pods, scripts, configuration files*: command lines over SSH, parsing.

Most lines of the repository are of these kinds, so the share of lines that
`PROJECT.json` maps is small although it covers the state machines.

## Plan

Done: the agent and its session, the session file and compaction, the queues, the
Feishu bot with its replies, the Slack bot with its events, the credential store;
proofs for all of them. What would come next, in this order:

1. *Settings*: a setter while `reload()` waits for the chain of writes, and a write
   that fails after an earlier one has cleared the marks of what was changed.
2. *Proofs*: `ForkKeepsUnlabelledHistory` of `SessionTree`,
   `TranscriptMatchesSession` of `AgentSession`.
3. *Abstract specification of the session*: a log that receives every emitted
   message once, which `AgentSession` implements.

## Running it

    tlc -workers 4 -config agent_run.cfg MCAgentLoop.tla
    tlapm AgentLoopProofs.tla

Each `.cfg` belongs to the `MC` module named for it in `PROJECT.json`, which also
maps every definition to the lines it models and lists the hazards of the code
with the properties that watch them.
