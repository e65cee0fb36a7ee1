----------------------------- MODULE AgentLoop -----------------------------
(***************************************************************************)
(* One agent of the harness: AgentLoop::run of src/src/agent_loop.rs with  *)
(* everything it calls (run_turn, push_item, apply_event, check_timers,    *)
(* apply_side_effects, perform_deferred_ops), the compaction manager, and, *)
(* for the root agent, the state row in SQLite, a crash of the daemon and  *)
(* its restart (run_daemon of src/src/main.rs).                            *)
(*                                                                         *)
(* The loop is one tokio task.  Code between two awaits is one step here,  *)
(* except where the code loops over events or fired timers: those take one *)
(* step per element, because other tasks send meanwhile.                   *)
(*                                                                         *)
(* The work queue is a set: what is in it decides how the loop behaves,    *)
(* and module WorkQueue is about its order.  An id is the value of the     *)
(* generator's counter: IdGenerator::next shuffles the counter bijectively *)
(* below 2^16, and MaxId stays below that.                                 *)
(***************************************************************************)
EXTENDS Integers, Sequences, FiniteSets

CONSTANTS
  Works,       \* events that become work items: messages, process events ...
  KillSignal,  \* HarnessEvent::KillSignal
  HooksMessage,\* a user message "!hooks ..."
  Inputs,      \* the events the environment may send, each at most once
  Scripts,     \* the scripts the model may answer with
  HookRuns,    \* what one pass through the registered hooks may do
  Forks,       \* how a child may have been forked
  IsRoot,      \* the root agent persists its state, a child does not
  CanCompact,  \* permissions.can_compact
  MaxTurns,    \* permissions.max_turns, or NoLimit
  NoLimit,
  None,        \* the source of an item that wraps no event and no timer
  Period,      \* every / at - now of a timer, in ticks
  Window,      \* EventHistory::modification_window
  MaxId,       \* bound on the ids generated: no turn starts beyond it
  MaxTime,     \* bound on the clock
  MaxRestarts  \* bound on the restarts of the daemon

(***************************************************************************)
(* A script is described by what it does to its transaction and by the     *)
(* external effects it leaves behind (ExternalEffects in python.rs):       *)
(*   raises   it raises, or is timed out                                   *)
(*   badmsg   it calls message_agent with an unknown recipient             *)
(*   pops     which work items it removes: none, all, or any subset        *)
(*   replies  it calls send_message once for each event it removes         *)
(*   acks     it acknowledges the timers whose firings it removes          *)
(*   timer    it adds a one-shot or recurring timer, or cancels them all   *)
(*   hooks    it registers or removes a hook                               *)
(*   edits    it removes history entries or replaces them by descriptions  *)
(*   adds     it calls history.add, which needs an active compaction       *)
(*   ids      how many ids its calls of shell_exec take                    *)
(*   notice   one of its effects makes apply_side_effects push an item:    *)
(*            a failed spawn, a view, a failed fork                        *)
(*   request  request_compaction(),  compact  compact(),  done  done()     *)
(*   defer    it leaves a block_for wait, or a kill, for afterwards        *)
(***************************************************************************)
ScriptType ==
  [raises: BOOLEAN, badmsg: BOOLEAN, pops: {"none", "all", "any"},
   replies: BOOLEAN, acks: BOOLEAN, timer: {"keep", "once", "every", "cancel"},
   hooks: {"keep", "register", "remove"}, edits: BOOLEAN, adds: BOOLEAN,
   ids: 0..1, notice: BOOLEAN,
   request: BOOLEAN, compact: BOOLEAN, done: BOOLEAN, defer: {"no", "wait", "kill"}]

\* A fork: the parent has hooks, its history is inherited, files are attached.
ForkType == [hooked: BOOLEAN, inherits: BOOLEAN, attach: BOOLEAN]

\* A hook pass: the outcome, and the ids the hook's shell_exec calls took.
HookRunType == [out: {"nomatch", "consumed", "passed", "failed"}, ids: 0..1]

ASSUME InputsAssumption ==
  /\ None \notin Works /\ KillSignal \notin Works /\ HooksMessage \notin Works
  /\ KillSignal # HooksMessage
  /\ Works \cap Nat = {} /\ None \notin Nat
  /\ Inputs \subseteq Works \cup {KillSignal, HooksMessage}
ASSUME ScriptsAssumption == Scripts \subseteq ScriptType
ASSUME HookRunsAssumption == HookRuns \subseteq HookRunType /\ HookRuns # {}
ASSUME ForksAssumption == Forks \subseteq ForkType
ASSUME FlagsAssumption == IsRoot \in BOOLEAN /\ CanCompact \in BOOLEAN
ASSUME LimitsAssumption ==
  /\ MaxTurns \in Nat \cup {NoLimit} /\ NoLimit \notin Nat
  /\ Period \in Nat \ {0} /\ Window \in Nat
  /\ MaxTime \in Nat /\ MaxRestarts \in Nat
ASSUME IdsAssumption == MaxId \in 0..65535

VARIABLES
  st,        \* self.state, the HarnessState in memory
  disk,      \* the state row in SQLite
  chan,      \* event_rx
  pc,        \* where the loop is
  fired,     \* items of check_and_fire not yet pushed
  active,    \* self.compaction.active
  idle,      \* the local variable idle of run
  killed,    \* self.killed
  turns,     \* self.turn_counter
  ending,    \* done_called of the turn in progress
  shutdown,  \* the shutdown watch
  now,       \* the clock
  unsent,    \* inputs not sent yet
  restarts,
  \* What has become of the events, for the properties only:
  handled,   \* events removed from the queue by a committed script
  consumed,  \* events a hook consumed
  lost,      \* events accepted and then lost with the process
  replies,   \* outbound messages saved, by event
  unrecorded \* the turn in progress is committed, its history entry missing

loopVars  == <<pc, fired, active, idle, killed, turns, ending>>
envVars   == <<shutdown, now, unsent, restarts>>
ghostVars == <<handled, consumed, lost, replies, unrecorded>>
vars == <<st, disk, chan, loopVars, envVars, ghostVars>>

-----------------------------------------------------------------------------
(* The harness state.                                                      *)

Item(id, type, of) == [id |-> id, type |-> type, of |-> of]
Entry(id, type) == [id |-> id, type |-> type]
ItemType == [id: Nat, of: Works \cup Nat \cup {None},
             type: {"event", "timer", "notice", "compaction", "startup",
                    "exception"}]
EntryType == [id: Nat, type: {"execution", "summary", "alert"}]
TimerType == [id: Nat, every: BOOLEAN, at: Nat, pending: BOOLEAN]

StateType ==
  [queue: SUBSET ItemType, hist: SUBSET EntryType, timers: SUBSET TimerType,
   idc: Nat, over: BOOLEAN, hooked: BOOLEAN, stats: BOOLEAN]

\* HarnessState::new.  over: last_total_input_tokens exceeds compact_at.
FreshState ==
  [queue |-> {}, hist |-> {}, timers |-> {}, idc |-> 0, over |-> FALSE,
   hooked |-> FALSE, stats |-> FALSE]

\* The event or timer an item, or the item a HookException wraps, is about.
Sources(items) == {it.of : it \in items} \ {None}
Compactions(items) == {it \in items : it.type = "compaction"}

(***************************************************************************)
(* push_item: the first matching hook decides.  A hook works on a clone of *)
(* the id generator, which replaces the agent's own afterwards; after a    *)
(* failure that is after the HookException has taken its id.               *)
(***************************************************************************)
PushItem(s, item, h) ==
  IF ~s.hooked \/ h.out = "nomatch"
  THEN [s EXCEPT !.queue = @ \cup {item}]
  ELSE [s EXCEPT
          !.stats = TRUE,
          !.idc = @ + h.ids,
          !.queue = @ \cup
             (CASE h.out = "consumed" -> {}
                [] h.out = "passed" -> {item}
                [] h.out = "failed" -> {Item(s.idc, "exception", item.of)})]

\* handle_hooks_command: list, disable (the counters stay) or clear.
HooksCommand(s) ==
  LET t == [s EXCEPT !.idc = @ + 1]
  IN  {t, [t EXCEPT !.hooked = FALSE], [t EXCEPT !.hooked = FALSE, !.stats = FALSE]}

\* Mutant: a !hooks command is queued like any other message.
ApplyEventNoHatch(ev, h) ==
  IF ev = KillSignal
  THEN killed' = TRUE /\ UNCHANGED <<st, consumed>>
  ELSE /\ st' = PushItem([st EXCEPT !.idc = @ + 1], Item(st.idc, "event", ev), h)
       /\ consumed' = IF st.hooked /\ h.out = "consumed"
                      THEN consumed \cup {ev} ELSE consumed
       /\ UNCHANGED killed

(***************************************************************************)
(* apply_event for the event at the head of the channel.                   *)
(***************************************************************************)
ApplyEvent(ev, h) ==
  CASE ev = KillSignal ->
         /\ killed' = TRUE
         /\ UNCHANGED <<st, consumed>>
    [] ev = HooksMessage ->
         /\ st' \in HooksCommand(st)
         /\ UNCHANGED <<killed, consumed>>
    [] OTHER ->
         /\ st' = PushItem([st EXCEPT !.idc = @ + 1],
                           Item(st.idc, "event", ev), h)
         /\ consumed' = IF st.hooked /\ h.out = "consumed"
                        THEN consumed \cup {ev} ELSE consumed
         /\ UNCHANGED killed

\* Mutant: one event stands for everything waiting in the channel.
ReceiveCoalesced ==
  /\ chan # <<>>
  /\ \E h \in HookRuns : ApplyEvent(Head(chan), h)
  /\ chan' = <<>>
  /\ UNCHANGED <<disk, active, turns, ending, envVars, handled, lost, replies,
                 unrecorded>>

\* Take the event at the head of the channel and apply it.
Receive ==
  /\ chan # <<>>
  /\ \E h \in HookRuns : ApplyEvent(Head(chan), h)
  /\ chan' = Tail(chan)
  /\ UNCHANGED <<disk, active, turns, ending, envVars, handled, lost, replies,
                 unrecorded>>

(***************************************************************************)
(* check_and_fire.  A recurring timer waits for its acknowledgement; a     *)
(* one-shot timer goes.  The timers are in the order of their ids, and the *)
(* items get theirs in that order.                                         *)
(***************************************************************************)
Due(s) == {t \in s.timers : now >= t.at /\ ~(t.every /\ t.pending)}

\* Mutant: the id is taken once, outside the loop over the timers.
FiringsSameId(s) == {Item(s.idc, "timer", t.id) : t \in Due(s)}

Firings(s) ==
  {Item(s.idc + Cardinality({u \in Due(s) : u.id < t.id}), "timer", t.id) :
     t \in Due(s)}

\* Mutant: a recurring timer is re-armed without waiting for the agent.
AfterFiringNotPending(s) ==
  [s EXCEPT !.idc = @ + Cardinality(Due(s)),
            !.timers = {t \in @ : t.every \/ t \notin Due(s)}]

AfterFiring(s) ==
  [s EXCEPT !.idc = @ + Cardinality(Due(s)),
            !.timers = (@ \ Due(s)) \cup
                       {[t EXCEPT !.pending = TRUE] : t \in {u \in Due(s) : u.every}}]

\* CompactionManager::trigger
TriggerCompaction(s) ==
  [s EXCEPT !.queue = @ \cup {Item(s.idc, "compaction", None)}, !.idc = @ + 1]

\* flush_hook_telemetry, on the way from idle to active
FlushTelemetry(s) ==
  IF s.stats
  THEN [s EXCEPT !.hist = @ \cup {Entry(s.idc, "alert")}, !.idc = @ + 1,
                 !.stats = FALSE]
  ELSE s

-----------------------------------------------------------------------------
(* The transaction of a turn.                                              *)

\* The script fails as a whole: compact() only exists, and history.add only works,
\* in compaction mode.
Fails(sc) == sc.raises \/ sc.badmsg \/ ((sc.compact \/ sc.adds) /\ ~active)

\* The sets of items a script may leave in the queue.
Leaves(sc) ==
  CASE sc.pops = "none" -> {st.queue}
    [] sc.pops = "all" -> {{}}
    [] sc.pops = "any" -> SUBSET st.queue

\* TimerManager::acknowledge: re-armed from now on.
Acknowledge(t) == [t EXCEPT !.pending = FALSE, !.at = now + Period]

TimersAfter(s, sc, popped) ==
  LET acked == IF sc.acks THEN {t \in s.timers : t.every /\ t.id \in Sources(popped)}
               ELSE {}
      kept == (s.timers \ acked) \cup {Acknowledge(t) : t \in acked}
  IN  CASE sc.timer = "keep" -> kept
        [] sc.timer = "cancel" -> {}
        [] OTHER -> kept \cup {[id |-> s.idc, every |-> sc.timer = "every",
                                at |-> now + Period, pending |-> FALSE]}

\* The entries a script may touch: the last ones, or all during compaction.
Modifiable ==
  {e \in st.hist : active \/ Cardinality({f \in st.hist : f.id > e.id}) < Window}

\* Histories with some of these entries removed, others replaced.
Edited(hist, entries) ==
  UNION {{(hist \ (gone \cup told)) \cup {Entry(e.id, "summary") : e \in told} :
            told \in SUBSET (entries \ gone)} : gone \in SUBSET entries}

Histories(sc) == IF sc.edits THEN Edited(st.hist, Modifiable) ELSE {st.hist}

\* The ids a script takes: for its timer, what it adds to the history and its
\* processes.
TimerIds(sc) == IF sc.timer \in {"once", "every"} THEN 1 ELSE 0
Added(s, sc) == IF sc.adds THEN {Entry(s.idc + TimerIds(sc), "summary")} ELSE {}
IdsTaken(sc) == TimerIds(sc) + (IF sc.adds THEN 1 ELSE 0) + sc.ids

\* Mutant: the queue of the script's clone is not installed.
CommitKeepsQueue(s, sc, left, hist) ==
  [s EXCEPT !.timers = TimersAfter(s, sc, s.queue \ left), !.idc = @ + IdsTaken(sc)]

(***************************************************************************)
(* The committed clone: what execute_inner hands back for a script that    *)
(* did not raise, as apply_side_effects installs it.                       *)
(***************************************************************************)
Commit(s, sc, left, hist) ==
  [s EXCEPT
     !.queue = left,
     !.hist = hist \cup Added(s, sc),
     !.timers = TimersAfter(s, sc, s.queue \ left),
     !.idc = @ + IdsTaken(sc),
     !.hooked = CASE sc.hooks = "keep" -> @
                  [] sc.hooks = "register" -> TRUE
                  [] sc.hooks = "remove" -> FALSE,
     !.stats = @ /\ ~(sc.hooks = "remove" /\ s.hooked)]

\* The item apply_side_effects pushes itself, through the hooks.
Notice(s, sc, h) ==
  IF sc.notice
  THEN PushItem([s EXCEPT !.idc = @ + 1], Item(s.idc, "notice", None), h)
  ELSE s

Requested(sc) == sc.request /\ CanCompact /\ ~active

\* Mutant: the Compaction items are left for the agent to remove.
CompactedKeepsItems(s, keptHist) ==
  [s EXCEPT !.hist = keptHist \cup {Entry(s.idc, "summary")}, !.idc = @ + 1]

(***************************************************************************)
(* compact(): the accumulated script runs on a clone.  If it raises, the   *)
(* error goes to the history and compaction stays active; otherwise its    *)
(* history and its id generator are taken over and the Compaction items    *)
(* leave the queue.                                                        *)
(***************************************************************************)
Compacted(s, keptHist) ==
  [s EXCEPT !.hist = keptHist \cup {Entry(s.idc, "summary")}, !.idc = @ + 1,
            !.queue = @ \ Compactions(@)]

CompactFailed(s) ==
  [s EXCEPT !.hist = @ \cup {Entry(s.idc, "execution")}, !.idc = @ + 1]

\* The rest of apply_side_effects, after the commit and the pushed item.
FinishEffects(s, sc) ==
  LET s1 == IF Requested(sc) THEN TriggerCompaction(s) ELSE s
  IN  IF sc.compact
      THEN \/ st' = CompactFailed(s1) /\ active' = active
           \/ /\ \E keptHist \in Edited(s1.hist, s1.hist) :
                   st' = Compacted(s1, keptHist)
              /\ active' = FALSE
      ELSE /\ st' = s1
           /\ active' = (active \/ Requested(sc))

\* send_message for each event the script removes
ReplyTo(events) ==
  replies' = [w \in Works |-> IF w \in events THEN replies[w] + 1 ELSE replies[w]]

-----------------------------------------------------------------------------
(* The loop.                                                               *)

Goto(from, to) == pc = from /\ pc' = to

\* drain_events at the head of the loop
Drain ==
  /\ Goto("top", "top")
  /\ Receive
  /\ UNCHANGED <<fired, idle>>

\* check_timers, once the channel is found empty
CheckTimers ==
  /\ Goto("top", "firing")
  /\ chan = <<>>
  /\ fired' = Firings(st)
  /\ st' = AfterFiring(st)
  /\ UNCHANGED <<disk, chan, active, idle, killed, turns, ending, envVars,
                 ghostVars>>

\* the for loop of check_timers
PushFired ==
  /\ pc \in {"firing", "waking"} /\ pc' = pc
  /\ \E item \in fired, h \in HookRuns :
       /\ \A other \in fired : item.id <= other.id
       /\ st' = PushItem(st, item, h)
       /\ fired' = fired \ {item}
  /\ UNCHANGED <<disk, chan, active, idle, killed, turns, ending, envVars,
                 ghostVars>>

(***************************************************************************)
(* The checks before a turn: the compaction trigger, shutdown, an empty    *)
(* queue, a kill signal and the turn limit, in this order.                 *)
(***************************************************************************)
Triggers == CanCompact /\ ~active /\ st.over

TurnLimit == MaxTurns # NoLimit /\ turns >= MaxTurns

\* Mutant: a shutdown is only noticed while a turn runs or the agent is idle.
GateIgnoresShutdown ==
  /\ pc = "firing" /\ fired = {}
  /\ pc' = IF st.queue = {} THEN "idle" ELSE "turn"
  /\ idle' = (st.queue = {})
  /\ UNCHANGED <<st, disk, chan, fired, active, killed, turns, ending, envVars,
                 ghostVars>>

\* Mutant: a kill signal is not looked at.
GateIgnoresKill ==
  /\ pc = "firing" /\ fired = {}
  /\ pc' = CASE shutdown -> "finished"
             [] ~shutdown /\ st.queue = {} -> "idle"
             [] ~shutdown /\ st.queue # {} /\ TurnLimit -> "finished"
             [] OTHER -> "turn"
  /\ idle' = (st.queue = {})
  /\ UNCHANGED <<st, disk, chan, fired, active, killed, turns, ending, envVars,
                 ghostVars>>

Gate ==
  LET s1 == IF Triggers THEN TriggerCompaction(st) ELSE st
      empty == s1.queue = {}
  IN  /\ pc = "firing"
      /\ fired = {}
      /\ active' = (active \/ Triggers)
      /\ pc' = CASE shutdown -> "finished"
                 [] ~shutdown /\ empty -> "idle"
                 [] ~shutdown /\ ~empty /\ (killed \/ TurnLimit) -> "finished"
                 [] OTHER -> "turn"
      /\ idle' = IF shutdown THEN idle ELSE empty
      /\ st' = IF ~shutdown /\ ~empty /\ idle THEN FlushTelemetry(s1) ELSE s1
      /\ UNCHANGED <<disk, chan, fired, killed, turns, ending, envVars, ghostVars>>

\* Mutant: the idle wait swallows the event and goes on waiting.
IdleReceiveWaits ==
  /\ Goto("idle", "idle")
  /\ Receive
  /\ UNCHANGED <<fired, idle>>

\* Mutant: the deadline of the timers is not part of the wait.
IdleTimerNever == FALSE /\ UNCHANGED vars

(* The three branches of the select! of an idle agent.                     *)
IdleReceive ==
  /\ Goto("idle", "top")
  /\ Receive
  /\ UNCHANGED <<fired, idle>>

IdleTimer ==
  /\ Goto("idle", "waking")
  /\ \E t \in st.timers : now >= t.at
  /\ fired' = Firings(st)
  /\ st' = AfterFiring(st)
  /\ UNCHANGED <<disk, chan, active, idle, killed, turns, ending, envVars,
                 ghostVars>>

IdleShutdown ==
  /\ Goto("idle", "top")
  /\ shutdown
  /\ UNCHANGED <<st, disk, chan, fired, active, idle, killed, turns, ending,
                 envVars, ghostVars>>

\* the rest of the timer branch: continue
Continue ==
  /\ Goto("waking", "top")
  /\ fired = {}
  /\ UNCHANGED <<st, disk, chan, fired, active, idle, killed, turns, ending,
                 envVars, ghostVars>>

(***************************************************************************)
(* run_turn.  The API call fails, and the turn with it, after the retries  *)
(* of the client are used up.                                              *)
(***************************************************************************)
ApiError ==
  /\ Goto("turn", "backoff")
  /\ UNCHANGED <<st, disk, chan, fired, active, idle, killed, turns, ending,
                 envVars, ghostVars>>

\* The answer arrived and its script failed: only the token count is kept.
FailedScript ==
  /\ Goto("turn", "record")
  /\ st.idc < MaxId
  /\ \E sc \in Scripts, over \in BOOLEAN :
       /\ Fails(sc)
       /\ st' = [st EXCEPT !.over = over]
  /\ turns' = turns + 1
  /\ ending' = FALSE
  /\ UNCHANGED <<disk, chan, fired, active, idle, killed, envVars, handled,
                 consumed, lost, replies, unrecorded>>

\* Mutant: done() leaves the loop at once.
CommitTurnDoneLeaves(sc, left, hist, over, h) ==
  /\ ~Fails(sc)
  /\ LET s == Commit([st EXCEPT !.over = over], sc, left, hist)
     IN  FinishEffects(Notice(s, sc, h), sc)
  /\ handled' = handled \cup (Sources(st.queue \ left) \cap Works)
  /\ IF sc.replies
     THEN ReplyTo(Sources(st.queue \ left))
     ELSE UNCHANGED replies
  /\ ending' = sc.done
  /\ pc' = IF sc.done THEN "finished" ELSE "record"

\* The answer arrived, its script ran and its effects were applied.
CommitTurn(sc, left, hist, over, h) ==
  /\ ~Fails(sc)
  /\ LET s == Commit([st EXCEPT !.over = over], sc, left, hist)
     IN  FinishEffects(Notice(s, sc, h), sc)
  /\ handled' = handled \cup (Sources(st.queue \ left) \cap Works)
  /\ IF sc.replies
     THEN ReplyTo(Sources(st.queue \ left))
     ELSE UNCHANGED replies
  /\ ending' = sc.done
  /\ pc' = CASE sc.defer = "no" -> "record"
             [] sc.defer = "wait" -> "blocked"
             [] sc.defer = "kill" -> "settling"

AppliedScript ==
  /\ pc = "turn"
  /\ st.idc < MaxId
  /\ \E sc \in Scripts, over \in BOOLEAN, h \in HookRuns :
       \E left \in Leaves(sc), hist \in Histories(sc) :
         CommitTurn(sc, left, hist, over, h)
  /\ turns' = turns + 1
  /\ unrecorded' = TRUE
  /\ UNCHANGED <<disk, chan, fired, idle, killed, envVars, consumed, lost>>

(* perform_deferred_ops: a block_for wait is followed by drain_events.     *)
WaitOver ==
  /\ Goto("blocked", "draining")
  /\ UNCHANGED <<st, disk, chan, fired, active, idle, killed, turns, ending,
                 envVars, ghostVars>>

DeferredDrain ==
  /\ Goto("draining", "draining")
  /\ Receive
  /\ UNCHANGED <<fired, idle>>

\* Then the kills and stdin writes, if there are any
Drained ==
  /\ pc = "draining" /\ pc' \in {"settling", "record"}
  /\ chan = <<>>
  /\ UNCHANGED <<st, disk, chan, fired, active, idle, killed, turns, ending,
                 envVars, ghostVars>>

Settled ==
  /\ Goto("settling", "record")
  /\ UNCHANGED <<st, disk, chan, fired, active, idle, killed, turns, ending,
                 envVars, ghostVars>>

\* The history entry of the turn; done() leaves the loop.
Record ==
  /\ pc = "record"
  /\ st' = [st EXCEPT !.hist = @ \cup {Entry(st.idc, "execution")}, !.idc = @ + 1]
  /\ unrecorded' = FALSE
  /\ pc' = IF ending THEN "finished" ELSE "save"
  /\ UNCHANGED <<disk, chan, fired, active, idle, killed, turns, ending, envVars,
                 handled, consumed, lost, replies>>

\* The sleep after a failed turn
BackoffOver ==
  /\ Goto("backoff", "save")
  /\ UNCHANGED <<st, disk, chan, fired, active, idle, killed, turns, ending,
                 envVars, ghostVars>>

\* save_state; an error is only logged.
Save ==
  /\ Goto("save", "top")
  /\ IF IsRoot THEN disk' \in {st, disk} ELSE UNCHANGED disk
  /\ UNCHANGED <<st, chan, fired, active, idle, killed, turns, ending, envVars,
                 ghostVars>>

\* The select! around run_turn drops the turn at the await it has reached.
ShutdownMidTurn ==
  /\ pc \in {"turn", "blocked", "settling"}
  /\ shutdown
  /\ pc' = "finished"
  /\ UNCHANGED <<st, disk, chan, fired, active, idle, killed, turns, ending,
                 envVars, ghostVars>>

\* run has returned: run_daemon saves the final state.
Exit ==
  /\ Goto("finished", "exited")
  /\ IF IsRoot THEN disk' \in {st, disk} ELSE UNCHANGED disk
  /\ UNCHANGED <<st, chan, fired, active, idle, killed, turns, ending, envVars,
                 ghostVars>>

-----------------------------------------------------------------------------
(* The environment, a crash of the daemon and its restart.                 *)

Send(ev) ==
  /\ ev \in unsent
  /\ pc \notin {"exited", "crashed"}
  /\ chan' = Append(chan, ev)
  /\ unsent' = unsent \ {ev}
  /\ UNCHANGED <<st, disk, loopVars, shutdown, now, restarts, ghostVars>>

Tick ==
  /\ now < MaxTime
  /\ now' = now + 1
  /\ UNCHANGED <<st, disk, chan, loopVars, shutdown, unsent, restarts, ghostVars>>

RequestShutdown ==
  /\ ~shutdown
  /\ shutdown' = TRUE
  /\ UNCHANGED <<st, disk, chan, loopVars, now, unsent, restarts, ghostVars>>

\* kill -9, power loss, a second Ctrl-C
Crash ==
  /\ IsRoot /\ restarts < MaxRestarts
  /\ pc \notin {"exited", "crashed"}
  /\ pc' = "crashed"
  /\ UNCHANGED <<st, disk, chan, fired, active, idle, killed, turns, ending,
                 envVars, ghostVars>>

\* Mutant: the restarted daemon begins with the startup item alone.
RestartEmpty ==
  /\ IsRoot /\ restarts < MaxRestarts
  /\ pc \in {"exited", "crashed"}
  /\ st' = [disk EXCEPT !.queue = {Item(disk.idc, "startup", None)}, !.idc = @ + 1]
  /\ lost' = lost \cup (({chan[i] : i \in DOMAIN chan} \cup Sources(st.queue)
                          \cup Sources(disk.queue)) \cap Works)
  /\ restarts' = restarts + 1
  /\ chan' = <<>> /\ pc' = "top" /\ fired' = {} /\ active' = FALSE
  /\ idle' = FALSE /\ killed' = FALSE /\ turns' = 0 /\ ending' = FALSE
  /\ shutdown' = FALSE /\ unrecorded' = FALSE
  /\ UNCHANGED <<disk, now, unsent, replies, handled, consumed>>

\* Events accepted and not on disk are gone; those on disk are back.
Restart ==
  LET saved == Sources(disk.queue) \cap Works
      known == ({chan[i] : i \in DOMAIN chan} \cup Sources(st.queue)) \cap Works
  IN  /\ IsRoot /\ restarts < MaxRestarts
      /\ pc \in {"exited", "crashed"}
      /\ st' = [disk EXCEPT !.queue = @ \cup {Item(disk.idc, "startup", None)},
                            !.idc = @ + 1]
      /\ lost' = lost \cup (known \ saved)
      /\ handled' = handled \ saved
      /\ consumed' = consumed \ saved
      /\ restarts' = restarts + 1
      /\ chan' = <<>> /\ pc' = "top" /\ fired' = {} /\ active' = FALSE
      /\ idle' = FALSE /\ killed' = FALSE /\ turns' = 0 /\ ending' = FALSE
      /\ shutdown' = FALSE /\ unrecorded' = FALSE
      /\ UNCHANGED <<disk, now, unsent, replies>>

-----------------------------------------------------------------------------
(***************************************************************************)
(* The root starts fresh.  A child starts from a clone of its parent's     *)
(* state with an empty queue and no timers: with its parent's history (one *)
(* entry stands for it) or an alert that it has none, with its parent's    *)
(* hooks, with its task in the queue and, if files are attached, a View.   *)
(***************************************************************************)
ChildState(f) ==
  [FreshState EXCEPT
     !.queue = {Item(1, "event", None)} \cup (IF f.attach THEN {Item(2, "notice", None)} ELSE {}),
     !.hist = {Entry(0, IF f.inherits THEN "execution" ELSE "alert")},
     !.idc = IF f.attach THEN 3 ELSE 2,
     !.hooked = f.hooked]

Init ==
  /\ IF IsRoot THEN st = FreshState ELSE \E f \in Forks : st = ChildState(f)
  /\ disk = FreshState /\ chan = <<>>
  /\ pc = "top" /\ fired = {} /\ active = FALSE /\ idle = FALSE
  /\ killed = FALSE /\ turns = 0 /\ ending = FALSE
  /\ shutdown = FALSE /\ now = 0 /\ unsent = Inputs /\ restarts = 0
  /\ handled = {} /\ consumed = {} /\ lost = {}
  /\ unrecorded = FALSE
  /\ replies = [w \in Works |-> 0]

\* The steps of the loop's task
Loop ==
  \/ Drain \/ CheckTimers \/ PushFired \/ Gate
  \/ IdleReceive \/ IdleTimer \/ IdleShutdown \/ Continue
  \/ ApiError \/ FailedScript \/ AppliedScript
  \/ WaitOver \/ DeferredDrain \/ Drained \/ Settled
  \/ Record \/ BackoffOver \/ Save \/ ShutdownMidTurn \/ Exit

Next ==
  \/ Loop
  \/ \E ev \in Inputs : Send(ev)
  \/ Tick \/ RequestShutdown \/ Crash \/ Restart

Spec == Init /\ [][Next]_vars

(***************************************************************************)
(* The runtime schedules the loop's task, a script is cut off after        *)
(* python_timeout_secs, a block_for wait after its duration and an API     *)
(* call after the client's retries: the loop always takes another step     *)
(* when it has one.  Time passes.  Nothing is assumed of the environment,  *)
(* nor that the API ever answers.                                          *)
(***************************************************************************)
Fairness == WF_vars(Loop) /\ WF_vars(Tick)

FairSpec == Spec /\ Fairness

-----------------------------------------------------------------------------
(* Properties.                                                             *)

PC == {"top", "firing", "idle", "waking", "turn", "blocked", "draining",
       "settling", "record", "backoff", "save", "finished", "exited", "crashed"}

\* Every variable has its type.
TypeOK ==
  /\ st \in StateType /\ disk \in StateType
  /\ chan \in Seq(Inputs)
  /\ pc \in PC /\ fired \in SUBSET ItemType
  /\ active \in BOOLEAN /\ idle \in BOOLEAN /\ killed \in BOOLEAN
  /\ turns \in Nat /\ ending \in BOOLEAN /\ shutdown \in BOOLEAN
  /\ now \in Nat /\ unsent \subseteq Inputs /\ restarts \in Nat
  /\ handled \subseteq Works /\ consumed \subseteq Works /\ lost \subseteq Works
  /\ replies \in [Works -> Nat] /\ unrecorded \in BOOLEAN

InChannel == {chan[i] : i \in DOMAIN chan}

Accepted == (Inputs \cap Works) \ unsent

(***************************************************************************)
(* An event the harness accepted is in exactly one place: in the channel,  *)
(* in the queue (as itself or inside a HookException), removed by a        *)
(* committed script, consumed by a hook, or lost with a process that died  *)
(* before saving it.  No turn that fails, is cut off by a shutdown or is   *)
(* repeated after a restart loses or doubles one.                          *)
(***************************************************************************)
ExactlyOnePlace ==
  \A w \in Accepted :
    LET places == <<InChannel, Sources(st.queue), handled, consumed, lost>>
    IN  /\ \E i \in 1..5 : w \in places[i]
        /\ \A i, j \in 1..5 : w \in places[i] \cap places[j] => i = j
        /\ \A it1, it2 \in st.queue : it1.of = w /\ it2.of = w => it1 = it2

(***************************************************************************)
(* An event is answered at most once for each life of the daemon: removing *)
(* its item and sending the reply commit together.                         *)
(***************************************************************************)
AnsweredOncePerLife == \A w \in Works : replies[w] <= 1 + restarts

(***************************************************************************)
(* An event saved in the state row leaves it only when a committed script  *)
(* has removed it: neither a crash nor a restart nor a hook can drop it.   *)
(***************************************************************************)
SavedUntilHandled ==
  [][\A w \in Works : w \in Sources(disk.queue) \ Sources(disk'.queue)
                        => w \in handled']_vars

(***************************************************************************)
(* Ids are unique among everything the agent can name: queued items,       *)
(* history entries and timers (types.rs: "IDs remain unique across daemon  *)
(* restarts").                                                             *)
(***************************************************************************)
Named == st.queue \cup fired \cup st.hist \cup st.timers

IdsUnique == \A x, y \in Named : x.id = y.id => x = y

(***************************************************************************)
(* A recurring timer that waits for its acknowledgement has its firing in  *)
(* front of the agent, once: it will be acknowledged and fire again        *)
(* (README: "Recurring timers keep firing until cancelled").               *)
(***************************************************************************)
FiringPending ==
  \A t \in st.timers : t.every =>
    Cardinality({it \in st.queue \cup fired : it.of = t.id})
      = (IF t.pending THEN 1 ELSE 0)

(***************************************************************************)
(* The queue holds one Compaction item at most while compaction is active, *)
(* none otherwise, and besides at most one left over by each restart,      *)
(* because the flag is not saved and the queue is.                         *)
(***************************************************************************)
CompactionItems ==
  Cardinality(Compactions(st.queue)) <= restarts + (IF active THEN 1 ELSE 0)

(***************************************************************************)
(* Whichever way the agent leaves its loop, a turn whose effects were      *)
(* applied is in its history, unless a shutdown cut the turn off between   *)
(* the two (README, core loop: "Record code + output in event history").   *)
(***************************************************************************)
UnrecordedOnlyByShutdown == pc = "exited" /\ unrecorded => shutdown

Stopped == pc \in {"exited", "crashed"}

\* A requested shutdown ends the agent, whatever it is doing.
ShutdownCompletes == shutdown ~> Stopped

(***************************************************************************)
(* An event that reaches the channel is put before the model, unless a     *)
(* hook consumes it or the agent stops.                                    *)
(***************************************************************************)
EventReachesModel ==
  \A w \in Works : w \in InChannel ~>
    (pc = "turn" /\ w \in Sources(st.queue)) \/ w \in consumed \/ Stopped

\* A timer that is due is put before the model, unless the agent stops.
TimerReachesModel ==
  \A id \in 0..MaxId :
    (\E t \in st.timers : t.id = id /\ now >= t.at /\ ~t.pending) ~>
      (pc = "turn" /\ id \in Sources(st.queue)) \/ Stopped

(***************************************************************************)
(* A child that got a kill signal while its queue is not empty exits, even *)
(* if the API never answers again (system_prompt.txt: "The child exits at  *)
(* its next turn boundary"; one with an empty queue goes on waiting).      *)
(***************************************************************************)
KilledWithWorkStops == killed /\ st.queue # {} ~> Stopped

\* No child takes more turns than its permissions allow.
TurnsWithinLimit == MaxTurns # NoLimit => turns <= MaxTurns

=============================================================================
