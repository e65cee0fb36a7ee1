# TLA+ models of claude-server

claude-server is a daemon that runs an agent: events (user messages, process
results, timers, messages of other agents) become items of a work queue, each
turn renders the state for a language model, runs the Python script the model
answers with as a transaction on that state, and saves the state in SQLite.
Agents can fork children, which run in the same daemon.

The modules here model the core of that program, TLC checks them on small
instances and TLAPS proves the central results for every instance.  Paths such
as `src/src/agent_loop.rs` are relative to the directory above this one.

## Inventory

| component | state | operations | what is hard about it |
|---|---|---|---|
| agent loop (`agent_loop.rs`, `core_loop.rs`) | `HarnessState`, `idle`, `killed`, `turn_counter`, the event channel | drain_events, check_timers, the checks before a turn, the idle wait, run_turn, apply_side_effects, perform_deferred_ops, save | every await is a place where events, time and a shutdown come in; a turn is committed before it is recorded |
| work queue (`types.rs`, `python.rs`) | items in order | push, remove, pop_front | order under equal and non-monotonic times; 16-bit ids |
| id generator (`types.rs`) | a counter | next | cloned by scripts, hooks, compaction and forks, and put back |
| timers (`types.rs`) | schedule, `pending_ack` | add, cancel, check_and_fire, acknowledge, next_deadline | a recurring timer waits for an acknowledgement that may be lost |
| hooks (`python.rs`, `agent_loop.rs`) | hooks, their counters | run on every pushed item; register, remove, `!hooks` | an item can be consumed, passed on or wrapped in a HookException, each with effects |
| compaction (`compaction.rs`) | `active`, the script | trigger, compact(), complete | the flag is not saved and the item is; the trigger reads an old token count |
| script execution (`python.rs`) | a clone of the state, external effects | execute_with_timeout | all or nothing |
| persistence (`db.rs`, `main.rs`) | the state row, outbound messages, process output, pins | save_state, load_state, append, restart | what is saved when, and what a crash undoes |
| event history (`types.rs`) | entries, the modification window | push, remove, replace_with_summary, cache_splits | what may still change decides what the prompt cache may hold |
| registry and child agents (`types.rs`, `agent_loop.rs`) | name to channel, `completed`, `active_children` | fork, message_agent, kill_child, register_batch, deregister, send_to, ChildCompleted | names are reused, forks fail half way, parents end before children |
| process supervisor (`process.rs`) | `running`, `stdins`, the process manager's entries, the output table | spawn, kill, send_stdin, close_stdin, the insert, writer, reader, monitor and alert tasks | five tasks per process race on two maps, and with the agent |
| API client (`api_client.rs`, `model_capabilities.rs`) | attempts, the capability cache, the trace | call with retries, the probe, build_request, extract_code | the limit depends on the kind of failure; agents share the cache |
| token accounting (`types.rs`) | the accumulator, the usage log, a child's own counts | record, ChildCompleted | a child's tokens travel with its end |
| renderer (`renderer.rs`) | none | render_context: segments, tiers, breakpoints | what is cached must be settled, and stay where it is |
| HTTP server (`http_server.rs`) | subscribers, the broadcast channel | SSE streams, send_message, wait_for | a late or slow subscriber; check and wait |
| bridges (`bridges/`) | connections to services | relay_loop, one `run` per service | streams end at any time |
| feedback and chat relay (`feedback.rs`) | feedback rows, `chat_connections` | chat_session, chat_auth; submit, list, delete | sessions replace each other while they run; both ends block on writes |
| watchers, webhook proxy, TLS, configuration, docs, `chat.rs` | external services | | I/O |

How they interact: the HTTP server, the bridges behind it, the process
supervisor and other agents send `HarnessEvent`s into an agent's channel; only
the agent's own task touches its `HarnessState`.  The registry is shared and
locked for each call.  The shutdown flag is a watch channel read by every task.

## Modules

`AgentLoop` is one agent.  `st` is `self.state` reduced to what steers the loop:
the queue, the history, the timers, the id counter, whether the last token
count exceeds the threshold, whether hooks are registered and whether their
counters are non-zero.  `disk` is the state row, `chan` the event channel, `pc`
the place in `AgentLoop::run`:

| `pc` | place in `agent_loop.rs` |
|---|---|
| top, firing | drain_events, check_timers, then the checks (`Drain`, `CheckTimers`, `PushFired`, `Gate`) |
| idle, waking | the `select!` on an empty queue (`IdleReceive`, `IdleTimer`, `IdleShutdown`, `Continue`) |
| turn | in run_turn, at the API call (`ApiError`, `FailedScript`, `AppliedScript`, `ShutdownMidTurn`) |
| blocked, draining, settling | perform_deferred_ops (`WaitOver`, `DeferredDrain`, `Drained`, `Settled`, `ShutdownMidTurn`) |
| record, backoff, save | the history entry, the sleep after an error, save_state |
| finished, exited, crashed | `run` has returned, the final save is done, the process has died |

A script is a record that says what it does (`ScriptType`); the model's answer
is any script of the constant `Scripts`.  A pass through the hooks is one of
`HookRuns`.  Code between two awaits is one step, except that the loops over
events and over fired timers take a step per element.  A duplicate of an event
is a different event: an event is a value of `Works`, sent at most once.

A child starts from a `ForkType`: with its parent's history, which one entry stands
for, or an alert that it has none; with the parent's hooks or without; with a View
item for attached files or without.  A script takes an id for its timer, for what
it adds to the history during a compaction, and for its processes.

Abstractions: memory, pins, priorities and texts are left out; all timers have
the same period; one compaction script adds one summary; an effect that makes
apply_side_effects push an item itself (a failed spawn, a view, a failed fork)
is the script's `notice`.  A hook's `commit` is `None` only when the Python
objects cannot be made, which is not modelled, nor is `ChannelClosed`: the loop
holds a sender of its own channel, so it cannot close.

`WorkQueue` is the queue itself with its order and the id generator with its
width (`IdSpace`, 2^16 in the code).  `PriorityBag` says what it promises.

`ChildAgents` is the tree of agents: the registry, a fork as the sequence of
steps it is (register all names, then per name decline, fail or spawn), sends,
and the end of a child in its three steps (return, deregister, report).  The
root's own exit is not modelled: the daemon ends with it.

`ProcessSupervisor` is what happens to the processes of one agent.  `task` has
the state of the five tasks `spawn` starts, `running` and `stdins` are the maps,
`lock` says that `kill` holds `running` across its await, `ops` are the deferred
operations of a turn, `chan` is the channel of process events.  The process
itself is external: it writes lines to two pipes of capacity `PipeCap`, may read
its input to the end, may leave the pipes to a descendant (`heirs`) that ends or
does not, exits by itself, after a signal or when it writes to a pipe the reader
has closed.  Output is a sequence of lines, of which the first `good` of a stream
are UTF-8: at the next one the reader's loop ends.  A line read that the database
fails to append is counted in `lost`.  `load_output_preview` shows the last 500
bytes, which is left out.
The timeout of an alert and of `block_for` may pass at any time.

`ApiCalls` is the calls of a family of agents: the shared capability cache, the
probe, the attempts with the limit of the latest kind of failure, the root's
trace, and the accounting of `run_turn`, `ChildCompleted` and the usage log,
where a turn counts for one token.  What the service answers is arbitrary.
`answered` has every answer in order; those without an execute block, which leave
`run_turn` before the accounting, are in `discarded`.

`PromptCache` is the history of one agent and the requests made of it.  A text
is a sequence of pieces that have a size, so that lengths of strings become
lengths of sequences and `MIN_CACHE_CHARS` a sum of sizes; `CacheSplits`,
`Segments`, `CachedSegments`, `RenderContext`, `UncachedTail` and `BuildRequest`
are the functions of `types.rs`, `renderer.rs` and `api_client.rs`.  Scripts
edit a clone within the window; while a compaction is `active`, from its trigger
until `compact()` has succeeded, the window does not bind them (`IsCompaction`),
neither the compaction script nor the script of any turn in between.

`Gateway` is the way of a message from a script to a service: the registry of
subscribers with `wait_for` (arm, check, wait), `send_message`, the stored row,
the broadcast, the SSE stream with its lag, and the bridge's `relay_loop`.

`ChatServer` is the chat relay between deployments with the bridge at the other
end of each connection.  The two directions of a WebSocket are queues of `Cap`
frames; a writer blocks when its queue is full.  Each arm of a `select!` is an
action.  A session stands for its session id.  The blocking writes of the ping and
of the bridge's Pong are left out: they could only block where `SinkSends` and the
bridge's own writes do.  So are, in `Gateway`, messages sent by a hook and replies
to `!hooks`: each stores its row and broadcasts it as a script's does.

How the modules compose: `AgentLoop` takes the end of a process, a failed call
and a message as single outcomes of a turn; the four modules after it say how
these come about, with the same places in the loop (`pc`) and the same rule that
a script's effects are applied after it has ended without an error.  They share
no variables and are checked one by one.

`MC*` instantiate the modules for TLC.  `WorkQueueProofs`, `ChildAgentsProofs`,
`AgentLoopProofs`, `ProcessSupervisorProofs`, `ApiCallsProofs`,
`PromptCacheProofs`, `GatewayProofs` and `ChatServerProofs` hold the theorems.
Definitions whose comment begins with "Mutant" are variants of the definition
after them with a plausible error, used to see that the properties notice it.

## Runs

| run | question | instance |
|---|---|---|
| events | is every event in exactly one place, answered once per life, and kept once saved? Is every committed turn recorded unless a shutdown cut it off? | two events and a `!hooks` command, every outcome of a hook, failing and deferring scripts, one restart |
| timers | are ids unique, does a timer that waits for an acknowledgement have its firing in the queue, how many Compaction items are there? | three ticks, recurring and one-shot timers, compaction, edits of the history with window 1, one restart |
| child | does a shutdown complete, does every event and every due timer reach the model, does a killed child with work exit? | two events, a kill signal, two turns, two ways to be forked, fairness |
| queue | is the queue a priority bag, in order, whatever the times? | two priorities, two times, eight ids, four pushes |
| children | does the registry lead to the running agent, is active_children exact, do completions and messages arrive? | three names, four agents, two levels, limit two, batches of three, fairness |
| processes | is a process reported once, with the output that could be read and stored and the status the manager has? Does accepted input precede the end of input? Is every end, and a hang, noticed, unless a descendant keeps the pipes? | four kinds of process with any order of kill, write and close; three more whose output is garbled or held by a descendant, with one failed append; a second process after a restart, pid reused or not; pipes of one line; fairness |
| api | is the retry budget kept, does a request ask for what the model supports, is every answer booked once or discarded, are trace and log exact, does every call end? | root and child on one model, limits 4 and 2, failing probes, three answers, fairness |
| cache | are requests sound (four breakpoints, the blocks are the text, nothing modifiable is cached), is the uncached part bounded, do breakpoints stay, do frozen entries change only while a compaction is active? | nine entries, window 1, four configurations, three edits, alerts, forks or changes from outside |
| gateway | are waits right about the streams, do services get rows in order, is the root heard? | root and child, two streams with one pattern, one that names its chat, a ring of one, one fault, fairness |
| chat | can the newest session be reached, is each frame delivered once, in order, or answered, is the rate bounded, do sessions end? | two users, three sessions, queue of 2, rate 2, wires of 1; five plays, among them a replaced session, a flood within a minute and one over several; fairness |
| dupids, unheard | does the program do what its documentation says? It does not: see Findings | as small as the counterexample needs |

Why these bounds are enough: two events show every order between an event that
is in the queue and one that is in the channel; one restart shows every
relation of `st` and `disk`, since a second restart begins from the same kind of
pair; `MaxId` leaves room for two to three turns after the items; four pushes
give two equal items between two different ones; ten ids of eight make the
generator wrap; four agents let a name be used, released and used again while a
batch of three is pending at a limit of two.

Two processes can be live in the code at once; the run has one per life of the
daemon, because liveness with two takes too long.  Processes meet only in the
lock of `running`, which the kill of one holds against the tasks of the same
one as it would against another's, and in a shared pid, which the restart shows.
Pipes, wires and rings of one show what blocks; a `play` (`Plays`, `Casts`)
groups the inputs that belong to one situation, instead of their product.
Histories of nine entries let the coldest of three tiers with stride 2 advance,
the one with the longest alignment.  Limits of 4 and 2 stand for 20 and 8, 5 and
8: a call may meet the larger, then the smaller, past it or not.  A child's child
is possible in the constants of `ApiCalls` and not in the run.

Fairness.  `AgentLoop` assumes weak fairness of the loop's own steps and of the
clock: the runtime schedules the task, and every wait in it ends (a script by
its timeout, a `block_for` by its duration, an API call by its retries).  It
assumes nothing of the environment, and not that the API ever answers.
`ChildAgents` assumes weak fairness of the steps of each agent's task, and not
that an agent ever forks, sends or returns.  `ProcessSupervisor` assumes weak
fairness of agent, writer, reader and process, and strong fairness of the tasks
that need the lock of `running`, which kills may take again and again: a tokio
Mutex serves its waiters in order.  `ApiCalls`: weak fairness of a call's steps,
since an attempt is answered or times out and a sleep ends.  `Gateway`: of the
streams' tasks, of waits, which have a deadline, of applying effects, and of the
end of a script, which has limited time; not of clients coming or leaving.
`ChatServer`: of each arm of each `select!` that stays ready, since tokio picks
among ready arms at random; not of bridges sending or stopping.

Deadlock is not checked: an agent that waits for events with none left to come,
or that has exited, is a state the program may stay in, and the bounds end the
behaviours besides.

## Findings

Two runs check what the documentation says and find the program doing otherwise;
`PROJECT.json` quotes the lines.

* dupids: after a hook raises, the HookException's id is handed out again,
  because `apply_hook_commit` puts back the generator the hook was given.
* unheard: a child's `send_message` is accepted and stored, and never broadcast.

In other places, too, the models follow the code where a document says more or
something else.  No run states the document's claim; four of them shape what a
property can promise, and the property is exact about it:

* The reader stops at the first line that is not UTF-8 and ignores a failure to
  append (`process.rs:140`, `141`), so output can be missing when the event is
  sent (INTERPRETER.md:193 "guarantees that all stdout/stderr is flushed").
  `PreviewExact` says that the item shows what was read and stored.
* The monitor awaits the reader, whose end needs every holder of the pipes to
  close them, and a kill signals the direct process only (`process.rs:170`,
  `225`): a descendant that stays, such as the background part of a `bash -c`
  pipeline, keeps the report away for ever (system_prompt.txt:209).
  `ProcessesReported` says whose end is reported.
* An answer without an execute block is billed, and the `?` of
  `agent_loop.rs:581` leaves the turn before the accumulator and the usage log
  (the comment at `agent_loop.rs:643` says "the log covers all API calls").
  `BooksTrue` says that such answers are all that is missing.
* `run_turn` passes `compaction.active` as `is_compaction` to the turn's own
  script (`agent_loop.rs:668`), so from the trigger until `compact()` succeeds any
  script may change frozen entries (README.md:1289 "in a single script execution
  rather than doing gradual cleanup").  `FrozenPrefixKept` says that they change
  at no other time.

The rest:

* A hook that consumes the firing of a recurring timer silences it, since nobody
  can acknowledge it (`agent_loop.rs:810`; README.md:448 "Recurring timers keep
  firing until cancelled").  `FiringPending` is checked without such hooks.
* The token count of the compacting turn triggers a second compaction at once
  (`agent_loop.rs:363`; README.md:1219).
* A shutdown while a turn waits for a process leaves the committed turn without
  its history entry (`agent_loop.rs:711`; README.md:142).
  `UnrecordedOnlyByShutdown` says that nothing else does.
* An idle child neither obeys a kill nor ends at its turn limit
  (`agent_loop.rs:382`, `450`; system_prompt.txt:570, 592).
* Input written in the turn that starts an interactive process is dropped when
  its writer has not registered yet (`process.rs:56`, where the comment names
  only exited and non-interactive processes).
* A pid can be given out again after a crash before the save (types.rs:49), and
  the output of both processes is then under it.
* A hook's process that cannot be spawned stays "running" without an item
  (`agent_loop.rs:859`; README.md:1328); an alert can fire after the process
  ended, when the process ended before the insert task ran (README.md:1325).
* Tokens of grandchildren never reach the accumulator (`agent_loop.rs:1060`;
  types.rs:781), and children's calls are not in the API trace.
* Removing entries of the window brings frozen ones back into it
  (types.rs:311; README.md:223-227 "permanently frozen").  `FrozenPrefixKept`
  says how far.
* A batch of the agentchat bridge is dropped when its stream closes
  (agentchat.rs:113); session and bridge can block each other for ever with both
  wires full (`Jammed`); the rate limit starts anew with each session.
* An event for an agent that has ended goes to the root without its data
  (http_server.rs:396).

Hazards without a property, beside those that `PROJECT.json` lists with a note:

* `next_deadline` includes timers that wait for an acknowledgement
  (`types.rs:508`), so an idle agent with one wakes again and again; the model
  lets it wake and counts no wake-ups.
* A slow stream skips messages (`http_server.rs:455`); `RootHeard` excuses a
  stream that has lagged.
* A stale entry of `running` (`process.rs:103`) makes a late alert possible, which
  no property forbids, and a kill of a reused OS pid, which is not modelled.
* The preview is cut at a byte offset (`agent_loop.rs:1153`), which may fall
  inside a character; output is abstracted to lines.

## Proofs

All theorems are of the form `Spec => []P`, or an implementation or action
property, for every value of the constants that satisfies the named assumptions
of the modules.

`WorkQueueProofs`.  `Ordered` alone is not inductive: that a new item goes
behind its equals needs the numbers of the queued items to be below the next
one.  The invariant is `OrderInv == TypeOK /\ Ordered /\ NumbersBelow`.  Sorted
items are partitioned by the predicate of `push`, so the place the binary search
finds is the boundary, and inserting there keeps the order.  That items are
numbered differently makes the stripped queue a set without loss, which gives
the refinement: an insertion adds one element and a removal takes one.
`SameIdOnlyAfterWrap` becomes inductive when each queued id is known to come from
a counter that is passed (`IdInv`); a new id is then different because the
shuffle does not confuse counters less than `IdSpace` apart
(`ShuffleInjective`): a multiple of `IdSpace` stays one when the multiplier is
cancelled by its inverse, and the difference of two such counters is too small
to be a multiple other than 0.  The assumptions on the constants are those of
the module: `IdSpace` positive, priorities and times natural numbers, and a
multiplier that has an inverse modulo `IdSpace`, as the odd one of the code has
modulo 2^16.

`ChildAgentsProofs`.  `RunningReachable` is not inductive either: a step of a
fork spawns the head of the list of channels under the head of the list of
names, and that these belong together has to be carried along from the
registration on.  `ReachInv` adds that agents from `next` on are untouched
(`Numbered`), that no two names lead to the same agent (`OneName`), and that for
a fork in progress every name left awaits its channel and the channels, unless
the limit is reached, are those of the names, in order (`ForksInProgress`).
The last part is why a declined name may leave its channel in the list: once the
limit is reached inside a fork it stays reached.  `ChildrenCounted` rests on it:
the agent that Spawn starts is a child of the forking agent that was not running
before.  `CountInv` says the count of agents that are not started yet as well,
and that the root runs.  A report moves a child from the living to the completions in
the queue; taking an event from the queue moves the others up, which the
cardinality does not notice (`CompletedTail`, by a bijection).

`AgentLoopProofs`.  `TypeOK` of the agent loop needs one addition: `check_and_fire`
takes as many ids as timers are due, and that this is a number needs the timers,
in memory and on disk, to be finitely many (`TypeInv`).  The operators that make
a new harness state (push_item, a firing, a commit, a compaction) are shown to
return one, each in a lemma of its own, and the step lemma has one case per
action.  `TurnsWithinLimit` becomes inductive with "an agent in a turn has turns
left" (`TurnsInv`).  `UnrecordedOnlyByShutdown` needs that a turn that is not
recorded yet is still in one of the places between commit and record.

Where events are is proved in two stages.  Lemmas say what each operation does
to the queue (`PushItemQueue`, `CommitTurnQueue`, `ReceiveQueue`), and
`StepQueue` puts every step of the loop into one of a few forms: plain items are
added, an event is received, a script is committed, the process dies or starts
again.  `KindsInv` says that firings and Compaction items are about no event.
`EventsInv` then has for each event its place, that it is there once, in the
channel, in the queue and in the saved queue, and how often it may have been
answered.  What makes it inductive is the saved row, which a restart brings back: an event in it is still
in the queue, or handled since, so that a restart doubles nothing; and an event
that can still be answered has been answered in earlier lives only.
`SavedUntilHandled` follows, since the row changes only when the state is saved.
`CompactionInv` counts the Compaction items of the saved row too, which may have
one more than a restart accounts for: that of the compaction that was active.

The ids of an agent.  `IdsUnique` under the hypothesis `HooksDoNotRaise`, which
the run dupids shows to be needed.  The inductive invariant `IdInv` says that
the ids of queue (with the firings on their way to it), history and timers are
unique within and apart between the three, and that all are below the counter;
and the same of the saved row, because a restart brings it back.  The firings of
several timers get different ids because the timers have different ids: the
number of due timers before one of them grows with its id, a strict inclusion of
finite sets.  An id is the counter before it is shuffled; the shuffle is
bijective on 16 bits, so the theorem is about the first 2^16 ids of an agent.
`WorkQueue` has the repetition after that.

The firings.  `FiringPending` under the hypothesis `FiringsAnswered`: scripts
acknowledge what they remove and hooks consume no firing.  This is what the code
asks of an agent and cannot enforce: a removed or consumed firing can no longer be
acknowledged (see Findings).  `WaitInv` gives every recurring timer that waits
exactly one firing, in the queue or among those `check_and_fire` has returned and
the loop has not pushed yet, and every other one none.  It adds that the timers
named by firings got their ids before, so that a new timer finds no firing about
it, and says the same of the saved row, with nothing on the way, since that is
where a restart begins.

`ApiCallsProofs`.  `RetryBudget` speaks of calls that sleep or have given up.
`RetryInv` adds where they come from: a call about to send has made no attempt
yet, or is below the limit of a failure it has met.  `KindsAssumption` keeps the
kinds of failure apart from the ways a call ends, which share a variable.
`RequestSupported` needs that what an agent holds is what the probe parsed or
the fallback (`CapsInv`); a failed probe puts nothing in the cache.  `BooksTrue`
speaks of all answers: those to the root and its children are as many as the
tokens in the accumulator, in the counts still to be reported, and the answers
discarded.  It takes the tokens of several agents as a set of pairs, whose
cardinality is their sum: `TokensInv` adds that only an ended child has reported,
so that its count no longer changes when the report takes its pairs out of one
term and adds them to another.  `TraceInv` says for every place of the trace
how many of the root's answers came later, and that an answer that is missing is
earlier than a full trace; `LogInv` that the log is the end of all that was
logged, and `EntriesInv` that every answer was logged, in order, or discarded.

`ProcessSupervisorProofs`.  `TypeInv` adds to the types that no pid exceeds the
number of calls that have one (`PidsInv`), so that there is a row for the output
of each; this needs the calls to be finitely many.  `FreshInv` says that a call
that has not happened has left nothing behind.  On these rest three invariants,
each about one race of the tasks.  `InputInv`: what was accepted is what was
written and what is still in the channel of a live process, and only the last
text in the channel can be the end, after which the channel is no longer
registered.  `StatusInv`: the monitor has sent its event or will, never both,
and whoever waits for it has an entry that says running.  `OutputInv`: the rows
under a pid that one process has are some lines of its stdout followed by some
of its stderr, in number what was taken less what could not be stored (`Read`);
the reader's place says which of the two are complete, that is, reach the first
line that is not UTF-8 or the end; a stream the reader has left is `Settled`,
since such a line was written or nobody is left to write, so what a descendant
writes later does not change what the item should show; and the monitor goes on
only after the reader (`Ended`, `Told`).

`GatewayProofs`.  `ServiceInRowOrder`: rows are numbered as they are stored and
the root broadcasts before it stores the next, so the log of the channel is in
order and so is every part of it a stream carries (`OrderInv`, which has the row
the root has stored and not yet broadcast beyond the log).  `WaitsRightly` needs
that the counters of the registry are the numbers of streams that hold a count
(`CountsInv`, by cardinalities), and that a script that waits, and has not been
notified since it armed, has no stream to find (`WaitInv`): this is the order of
arm and check in `wait_for`.

`ChatServerProofs`.  `NewestHolds` is inductive with the types of the two maps
and `OwnSessions`: the newest session of a user is one of that user's, so the
cleanup of a replaced session finds another session's entry and leaves it.
`RateBound` is about any two frames that twice the limit lies between; `RateInv`
has the present bucket: its `count` frames are the last ones, those before them
came no later than its start, and those a whole limit further back came more than
a window before its start.

`Delivery` speaks of the frames of a session in five sequences: those posted, in
the batch, on the wire, being written and in the channel.  `Lined` says that
they are in order within each and from one to the next, so that a step that
moves a frame along, adds one at the end or drops a batch keeps the order.  The rest of
`DeliveryInv` follows a message: until the server takes it, it is later than all
of its sender's that were taken (`Fresh`, `OnTheWay`); every frame a session holds
is an answer to its login or about a message that went to it (`KnownFrames`); and
the session a message went to holds a frame about it or is excused (`Kept`).

`PromptCacheProofs`.  The model defines sizes, powers, merged segments and
concatenated texts by recursion.  The library's induction theorems have an
operator as a parameter, which the provers cannot instantiate; `SetInduction`
has a set instead and follows from the least element of a well-founded order.
With it the functions are shown to exist and to be unique (`RecursionExists`,
`SameRecursion`), and the texts of sequences of segments to be concatenations.

* `FrozenPrefixKept`: the ids of a history ascend, so an id is in one place;
  the clone of a turn's script agrees with the history on what was frozen when the
  script began, up to what it has removed, unless a compaction is active
  (`FrozenInv`, `Agrees`); and whoever is in compact() has it active.  Every entry the window has
  moved down by was removed, which an injection into the removed ones shows
  (`GoneCount`).
* `RequestSound`: splits ascend, because each alignment divides the one before
  (`SplitsSound`); what is merged, what is pending and what is left are the text
  (`MergedTo`); `Shape` says of the blocks which are files, which carry
  breakpoints, and what text ends at each.  No more segments come out than tiers
  go in, which with the tier budget gives the four breakpoints.
* `UncachedBounded`: what is pending after the last split is less than
  `MinChars`, or it would have been a segment, and fewer than a stride of settled
  entries follow the last split.
* `CacheHolds`: the invariant (`MadeInv`) says which blocks the latest request
  has, as a function of the history it was made of and the version of the files
  then.  A tier that has not advanced keeps its split and all colder ones
  (`SplitsSame`), so both histories have the same segments up to it
  (`SegmentsSame`), merged alike (`MergedSame`).  What comes out of the merge
  later reaches beyond that split (`MergedLater`), so a breakpoint that covers
  nothing after it is among the blocks both requests share (`BreakpointKept`,
  `BlocksKept`).

The assumptions are that the configurations and sizes are natural numbers, that
`MinChars` is positive, and that descriptions are finitely many and none is the
name of another form (`DescriptionsAssumption`), which is how the model tells
forms apart.

Not proved, only checked by TLC:

* the liveness properties `ShutdownCompletes`, `EventReachesModel`,
  `TimerReachesModel`, `KilledWithWorkStops`, `CompletionArrives`,
  `MessageArrives`, `ProcessesReported`, `CallEnds`, `SessionsEnd`, and `RootHeard`:
  fairness is out of the prover's reach.

## Plan

1. Done: `AgentLoop`, `WorkQueue` with `PriorityBag`, `ChildAgents`,
   `ProcessSupervisor`, `ApiCalls`, `PromptCache`, `Gateway`, `ChatServer`.
2. Done: proofs of the safety properties named above.

## Not modelled

* The request handlers of the HTTP server that pass one event on or show a
  snapshot, the terminal client, and the feedback store's own three statements:
  one call each, without state between them.
* The bridges other than agentchat, the watchers, webhook signatures, TLS and
  the proxy: protocols of services that are not here.
* Memory, pins' contents, match expressions of hooks, and the wording of the
  prompt: data that steers nothing in the models.
* Configuration, docs and source dump: no state.
