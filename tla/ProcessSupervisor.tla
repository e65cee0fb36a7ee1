------------------------- MODULE ProcessSupervisor -------------------------
(***************************************************************************)
(* ProcessSupervisor of src/src/process.rs with its callers: shell_exec    *)
(* and its companions (src/src/python.rs), the part of apply_side_effects, *)
(* apply_hook_commit, perform_deferred_ops and apply_event that is about   *)
(* processes (src/src/agent_loop.rs), the output table (src/src/db.rs) and *)
(* what a restart does to all of it (src/src/main.rs).                     *)
(*                                                                         *)
(* spawn starts up to five tasks for a process.  They share the maps       *)
(* running and stdins with each other and with the agent, which calls kill,*)
(* send_stdin and close_stdin at the end of a turn.  Every await and every *)
(* use of a lock is a step.  The operating system's process is external: a *)
(* program that writes lines to two pipes of limited capacity, may read its*)
(* input to the end, may leave the pipes to a descendant, and exits.       *)
(***************************************************************************)
EXTENDS Integers, Sequences, FiniteSets

CONSTANTS
  Procs,        \* the calls of shell_exec that may happen
  NoProc,
  PipeCap,      \* lines a pipe holds before a writer blocks
  Plays         \* the bounds of the behaviours

(***************************************************************************)
(* A request and the program behind it: out and err are the lines it       *)
(* writes, good how many of them come before the first one that is not     *)
(* UTF-8, reads says that it waits for the end of its input, ok that it    *)
(* exits with status 0; heir whether it starts a descendant that holds its *)
(* pipes too, and whether that one ever ends; hook that a hook asked, where*)
(* block_for raises.                                                       *)
(***************************************************************************)
Counts == [out : Nat, err : Nat]

RequestType ==
  [interactive : BOOLEAN, block : BOOLEAN, hook : BOOLEAN,
   out : Nat, err : Nat, good : Counts, reads : BOOLEAN, ok : BOOLEAN,
   heir : {"none", "ends", "stays"}]

ASSUME ProcsAssumption == NoProc \notin Procs /\ IsFiniteSet(Procs)
ASSUME CapsAssumption == PipeCap \in Nat \ {0}

(***************************************************************************)
(* Which calls of shell_exec happen and what they ask for, how many of the *)
(* processes there are in one life of the daemon, what is done to them, how*)
(* often shell_input is called for one, how many lines of one the database *)
(* fails to append and how often the daemon restarts.                      *)
(***************************************************************************)
ASSUME PlaysAssumption ==
  \A b \in Plays :
    /\ b.procs \subseteq Procs /\ b.requests \subseteq RequestType
    /\ \A r \in b.requests : r.hook => ~r.block
    /\ b.ops \subseteq {"kill", "write", "close"}
    /\ b.live \in Nat /\ b.inputs \in Nat /\ b.lost \in Nat /\ b.restarts \in Nat

VARIABLES
  play,      \* the bounds of this behaviour
  \* the agent
  pc,        \* where its loop is
  ops,       \* deferred kills, writes and closes, in this order
  waiting,   \* the process a block_for waits for
  entry,     \* status of each process in the process manager
  report,    \* for each process the work items about it, in order
  idc,       \* id_generator, counting the pids given
  saved,     \* the counter in the state row
  restarts,
  \* the supervisor
  req,       \* the request of each process
  pid,       \* the pid shell_exec returned, 0 before that
  task,      \* the tasks of each process
  running,   \* running: the processes that kill and the alert can see
  stdins,    \* stdins: the processes that have a stdin channel registered
  inbox,     \* the stdin channel of each process
  accepted,  \* inputs put into that channel
  lock,      \* the process being killed while running is locked
  chan,      \* the channel of process events, in the order of sending
  stored,    \* the table process_output: the lines under each pid
  lost,      \* lines of each process that were read and could not be stored
  \* the operating system
  os,        \* none, live, its exit status, or gone with an earlier daemon
  heirs,     \* processes with a descendant that holds their pipes
  wrote,     \* lines written to the two pipes, by the process or that descendant
  given,     \* inputs written to the stdin pipe
  term       \* processes that were sent a signal

agentVars == <<pc, ops, waiting, entry, report, idc, saved, restarts>>
osVars == <<os, heirs, wrote, given, term>>
vars == <<agentVars, play, req, pid, task, running, stdins, inbox, accepted, lock,
          chan, stored, lost, osVars>>

-----------------------------------------------------------------------------
Zeros == [out |-> 0, err |-> 0]

NoRequest ==
  [interactive |-> FALSE, block |-> FALSE, hook |-> FALSE, out |-> 0, err |-> 0,
   good |-> Zeros, reads |-> FALSE, ok |-> FALSE, heir |-> "none"]

Nothing == [insert |-> "none", writer |-> "none", reader |-> "none",
            monitor |-> "none", alert |-> "none"]

\* The tasks that spawn starts.
Tasks(r) ==
  [insert |-> "pending", writer |-> IF r.interactive THEN "pending" ELSE "none",
   reader |-> "out", monitor |-> "wait", alert |-> "armed"]

TaskType ==
  [insert : {"none", "pending", "done"},
   writer : {"none", "pending", "open", "closing", "done"},
   reader : {"none", "out", "err", "done"},
   monitor : {"none", "wait", "signal", "send", "done"},
   alert : {"none", "armed", "fire", "done"}]

\* ProcessEvent.
Event(k, p) == [kind |-> k, proc |-> p]
Terminal == {"completed", "failed"}

Line(p, s) == [proc |-> p, stream |-> s]
LineType == [proc : Procs, stream : {"out", "err"}]

\* What append_process_output has stored under the pid of p.
Output(p) == stored[pid[p]]

\* How many lines of a stream of p a sequence of lines has.
Lines(p, s, lines) == Cardinality({i \in DOMAIN lines : lines[i] = Line(p, s)})

\* The lines of a stream of p that the reader has taken, and those that wait.
Taken(p, s) == Lines(p, s, Output(p)) + lost[p][s]
InPipe(p, s) == wrote[p][s] - Taken(p, s)

\* Somebody holds the writing ends of the pipes of p.
Alive(p) == os[p] = "live" \/ p \in heirs

Init ==
  /\ play \in Plays
  /\ pc = "loop" /\ ops = <<>> /\ waiting = NoProc
  /\ entry = [p \in Procs |-> "absent"] /\ report = [p \in Procs |-> <<>>]
  /\ idc = 0 /\ saved = 0 /\ restarts = 0
  /\ req = [p \in Procs |-> NoRequest] /\ pid = [p \in Procs |-> 0]
  /\ task = [p \in Procs |-> Nothing]
  /\ running = {} /\ stdins = {} /\ lock = NoProc /\ chan = <<>>
  /\ inbox = [p \in Procs |-> <<>>] /\ accepted = [p \in Procs |-> 0]
  /\ stored = [n \in 0..Cardinality(Procs) |-> <<>>]
  /\ os = [p \in Procs |-> "none"] /\ given = [p \in Procs |-> 0]
  /\ lost = [p \in Procs |-> Zeros] /\ wrote = [p \in Procs |-> Zeros]
  /\ heirs = {} /\ term = {}

-----------------------------------------------------------------------------
\* shell_exec: the id and the entry are made while the script or hook runs.
ShellExec(p, r) ==
  /\ pid[p] = 0 /\ p \in play.procs
  /\ Cardinality({q \in Procs : task[q] # Nothing}) < play.live
  /\ idc' = idc + 1
  /\ pid' = [pid EXCEPT ![p] = idc + 1]
  /\ req' = [req EXCEPT ![p] = r]

\* spawn: the process is there and its tasks are started.
Spawn(p, r) ==
  /\ os' = [os EXCEPT ![p] = "live"]
  /\ heirs' = IF r.heir = "none" THEN heirs ELSE heirs \cup {p}
  /\ task' = [task EXCEPT ![p] = Tasks(r)]
  /\ entry' = [entry EXCEPT ![p] = "running"]
  /\ UNCHANGED report

\* spawn fails in apply_side_effects: the entry and a ProcessFailed item say so.
SpawnFails(p) ==
  /\ entry' = [entry EXCEPT ![p] = "failed"]
  /\ report' = [report EXCEPT ![p] = Append(@, [kind |-> "failed", preview |-> <<>>])]
  /\ UNCHANGED <<os, heirs, task>>

\* The deferred operations of a script: kills, then writes, then closes.
Batches ==
  LET Known == {p \in Procs : pid'[p] # 0}
      Inputs == {p \in Known : accepted[p] < play.inputs}
      All == {<<>>} \cup {<<<<c, p>>>> : c \in {"kill", "close"}, p \in Known}
               \cup {<<<<"write", p>>>> : p \in Inputs}
               \cup {<<<<"write", p>>, <<"close", p>>>> : p \in Inputs}
  IN  {b \in All : \A k \in DOMAIN b : b[k][1] \in play.ops}

\* A script that starts no process.
ScriptWithoutStart ==
  /\ pc = "turn" /\ pc' = "ops"
  /\ UNCHANGED <<waiting, entry, report, idc, saved, restarts, play, req, pid, task, running,
                 stdins, inbox, accepted, lock, chan, stored, lost, osVars>>
  /\ \E b \in Batches : ops' = b

\* A script with a shell_exec; with block_for the agent then waits.
ScriptWithStart(p, r) ==
  /\ pc = "turn" /\ ~r.hook
  /\ ShellExec(p, r)
  /\ \/ /\ Spawn(p, r)
        /\ waiting' = IF r.block THEN p ELSE NoProc
        /\ pc' = IF r.block THEN "wait" ELSE "ops"
     \/ /\ SpawnFails(p)
        /\ waiting' = NoProc /\ pc' = "ops"
  /\ \E b \in Batches : ops' = b
  /\ UNCHANGED <<play, saved, restarts, running, stdins, inbox, accepted, lock,
                 chan, stored, lost, wrote, given, term>>

\* A hook's shell_exec, in apply_hook_commit: a failure to spawn is only logged.
HookStart(p, r) ==
  /\ pc \in {"loop", "drain"} /\ r.hook
  /\ ShellExec(p, r)
  /\ \/ Spawn(p, r)
     \/ entry' = [entry EXCEPT ![p] = "running"] /\ UNCHANGED <<os, heirs, task, report>>
  /\ UNCHANGED <<play, pc, ops, waiting, saved, restarts, running, stdins, inbox,
                 accepted, lock, chan, stored, lost, wrote, given, term>>

\* Mutant: a Timeout marks the process as failed.
ApplyEventTimeoutFails ==
  /\ pc \in {"loop", "drain"} /\ chan # <<>>
  /\ LET e == Head(chan)
     IN  /\ entry' = [entry EXCEPT ![e.proc] = IF e.kind = "completed" THEN "completed" ELSE "failed"]
         /\ report' = [report EXCEPT ![e.proc] = Append(@, [kind |-> e.kind, preview |-> Output(e.proc)])]
  /\ chan' = Tail(chan)
  /\ UNCHANGED <<pc, ops, waiting, idc, saved, restarts, play, req, pid, task, running,
                 stdins, inbox, accepted, lock, stored, lost, osVars>>

\* apply_event: the status is set and an item pushed, with the output so far.
ApplyEvent ==
  /\ pc \in {"loop", "drain"} /\ chan # <<>>
  /\ LET e == Head(chan)
         seen == IF e.kind = "timeout" THEN <<>> ELSE Output(e.proc)
     IN  /\ entry' = IF e.kind \in Terminal /\ entry[e.proc] # "absent"
                       THEN [entry EXCEPT ![e.proc] = e.kind] ELSE entry
         /\ report' = [report EXCEPT ![e.proc] = Append(@, [kind |-> e.kind, preview |-> seen])]
  /\ chan' = Tail(chan)
  /\ UNCHANGED <<pc, ops, waiting, idc, saved, restarts, play, req, pid, task, running,
                 stdins, inbox, accepted, lock, stored, lost, osVars>>

\* drain_events finds the channel empty.
Drained ==
  /\ chan = <<>>
  /\ \/ pc = "loop" /\ pc' = "turn"
     \/ pc = "drain" /\ pc' = "ops"
  /\ UNCHANGED <<ops, waiting, entry, report, idc, saved, restarts, play, req, pid, task,
                 running, stdins, inbox, accepted, lock, chan, stored, lost, osVars>>

\* The wait of block_for ends with the monitor's signal, or with its duration,
\* which may be over at any time.
WaitOver ==
  /\ pc = "wait" /\ pc' = "drain"
  /\ waiting' = NoProc
  /\ UNCHANGED <<ops, entry, report, idc, saved, restarts, play, req, pid, task, running,
                 stdins, inbox, accepted, lock, chan, stored, lost, osVars>>

\* save_state at the end of a pass.
Save ==
  /\ pc = "ops" /\ ops = <<>> /\ pc' = "loop"
  /\ saved' = idc
  /\ UNCHANGED <<ops, waiting, entry, report, idc, restarts, play, req, pid, task, running,
                 stdins, inbox, accepted, lock, chan, stored, lost, osVars>>

-----------------------------------------------------------------------------
\* Only kill holds the lock of running across an await.
Unlocked == lock = NoProc

\* What an operation at the head of ops leaves alone.
OpFrame == UNCHANGED <<pc, waiting, entry, report, idc, saved, restarts, play, req,
                       pid, task, running, chan, stored, lost, os, heirs, wrote,
                       given>>

\* kill: a no-op for a process that is not in running, else the lock is held
\* until the command kill has ended.
Kill(p) ==
  /\ pc = "ops" /\ ops # <<>> /\ Head(ops) = <<"kill", p>>
  /\ Unlocked
  /\ \/ p \in running /\ lock' = p /\ UNCHANGED ops
        /\ term' = IF os[p] = "live" THEN term \cup {p} ELSE term
     \/ p \notin running /\ ops' = Tail(ops) /\ UNCHANGED <<lock, term>>
  /\ UNCHANGED <<stdins, inbox, accepted>> /\ OpFrame

KillDone ==
  /\ lock # NoProc /\ lock' = NoProc
  /\ ops' = Tail(ops)
  /\ UNCHANGED <<stdins, inbox, accepted, term>> /\ OpFrame

\* send_stdin: queued when the channel is registered, else dropped.  A writer
\* that has left its loop keeps the channel until it has taken it out of stdins,
\* so the send itself never fails.
SendStdin(p) ==
  /\ pc = "ops" /\ ops # <<>> /\ Head(ops) = <<"write", p>>
  /\ ops' = Tail(ops)
  /\ IF p \in stdins
       THEN /\ inbox' = [inbox EXCEPT ![p] = Append(@, "data")]
            /\ accepted' = [accepted EXCEPT ![p] = @ + 1]
       ELSE UNCHANGED <<inbox, accepted>>
  /\ UNCHANGED <<stdins, lock, term>> /\ OpFrame

\* Mutant: the channel stays registered after the end of the input.
CloseStdinKeeps(p) ==
  /\ pc = "ops" /\ ops # <<>> /\ Head(ops) = <<"close", p>>
  /\ ops' = Tail(ops)
  /\ inbox' = IF p \in stdins THEN [inbox EXCEPT ![p] = Append(@, "close")] ELSE inbox
  /\ UNCHANGED <<stdins, accepted, lock, term>> /\ OpFrame

\* close_stdin: the channel is taken out of stdins and told to end.
CloseStdin(p) ==
  /\ pc = "ops" /\ ops # <<>> /\ Head(ops) = <<"close", p>>
  /\ ops' = Tail(ops)
  /\ stdins' = stdins \ {p}
  /\ inbox' = IF p \in stdins THEN [inbox EXCEPT ![p] = Append(@, "close")] ELSE inbox
  /\ UNCHANGED <<accepted, lock, term>> /\ OpFrame

-----------------------------------------------------------------------------
\* The process has exited.
Dead(p) == os[p] \in {"zero", "nonzero"}

\* What the tasks of a process leave alone.
TaskFrame == UNCHANGED <<agentVars, play, req, pid, accepted, lock, os, heirs, wrote, term>>

\* The task that puts the process into running.
InsertRunning(p) ==
  /\ task[p].insert = "pending" /\ Unlocked
  /\ task' = [task EXCEPT ![p].insert = "done"]
  /\ running' = running \cup {p}
  /\ UNCHANGED <<stdins, inbox, chan, stored, lost, given>> /\ TaskFrame

\* The stdin writer registers its channel,
RegisterStdin(p) ==
  /\ task[p].writer = "pending"
  /\ task' = [task EXCEPT ![p].writer = "open"]
  /\ stdins' = stdins \cup {p}
  /\ UNCHANGED <<running, inbox, chan, stored, lost, given>> /\ TaskFrame

\* writes what arrives until it is told to end or the pipe is broken,
WriteStdin(p) ==
  /\ task[p].writer = "open" /\ inbox[p] # <<>>
  /\ inbox' = [inbox EXCEPT ![p] = Tail(@)]
  /\ IF Head(inbox[p]) = "data" /\ Alive(p)
       THEN given' = [given EXCEPT ![p] = @ + 1] /\ UNCHANGED task
       ELSE task' = [task EXCEPT ![p].writer = "closing"] /\ UNCHANGED given
  /\ UNCHANGED <<running, stdins, chan, stored, lost>> /\ TaskFrame

\* and drops the pipe and the channel.
EndWriter(p) ==
  /\ task[p].writer = "closing"
  /\ task' = [task EXCEPT ![p].writer = "done"]
  /\ stdins' = stdins \ {p}
  /\ UNCHANGED <<running, inbox, chan, stored, lost, given>> /\ TaskFrame

\* The reader takes a line and appends it to the output of its pid; a failure to
\* append is ignored.
ReadLine(p, s) ==
  /\ task[p].reader = s /\ InPipe(p, s) > 0 /\ Taken(p, s) < req[p].good[s]
  /\ \/ /\ stored' = [stored EXCEPT ![pid[p]] = Append(@, Line(p, s))]
        /\ UNCHANGED lost
     \/ /\ lost[p].out + lost[p].err < play.lost
        /\ lost' = [lost EXCEPT ![p][s] = @ + 1]
        /\ UNCHANGED stored
  /\ UNCHANGED <<task, running, stdins, inbox, chan, given>> /\ TaskFrame

\* A stream is over when nobody can write to it any more, or at the first line
\* that is not UTF-8: next_line is an error, and what follows stays unread.
StreamOver(p, s) ==
  \/ InPipe(p, s) = 0 /\ ~Alive(p)
  \/ InPipe(p, s) > 0 /\ Taken(p, s) >= req[p].good[s]

\* The end of stdout leads to stderr, the end of stderr ends the reader; the pipe
\* is closed.
EndOfStream(p, s) ==
  /\ task[p].reader = s /\ StreamOver(p, s)
  /\ task' = [task EXCEPT ![p].reader = IF s = "out" THEN "err" ELSE "done"]
  /\ UNCHANGED <<running, stdins, inbox, chan, stored, lost, given>> /\ TaskFrame

\* Mutant: the monitor does not wait for the reader.
MonitorRemovesUnflushed(p) ==
  /\ task[p].monitor = "wait" /\ Dead(p) /\ Unlocked
  /\ task' = [task EXCEPT ![p].monitor = IF req[p].block THEN "signal" ELSE "send"]
  /\ running' = running \ {p}
  /\ UNCHANGED <<stdins, inbox, chan, stored, lost, given>> /\ TaskFrame

\* The completion monitor: the process has exited, the reader has ended and the
\* lock is free;
MonitorRemoves(p) ==
  /\ task[p].monitor = "wait" /\ Dead(p) /\ task[p].reader = "done" /\ Unlocked
  /\ task' = [task EXCEPT ![p].monitor = IF req[p].block THEN "signal" ELSE "send"]
  /\ running' = running \ {p}
  /\ UNCHANGED <<stdins, inbox, chan, stored, lost, given>> /\ TaskFrame

\* then the signal for block_for,
MonitorSignals(p) ==
  /\ task[p].monitor = "signal"
  /\ task' = [task EXCEPT ![p].monitor = "send"]
  /\ UNCHANGED <<running, stdins, inbox, chan, stored, lost, given>> /\ TaskFrame

\* Mutant: whoever waits with block_for is told by the signal only.
MonitorSendsOnce(p) ==
  /\ task[p].monitor = "send"
  /\ task' = [task EXCEPT ![p].monitor = "done"]
  /\ chan' = IF req[p].block THEN chan
              ELSE Append(chan, Event(IF os[p] = "zero" THEN "completed" ELSE "failed", p))
  /\ UNCHANGED <<running, stdins, inbox, stored, lost, given>> /\ TaskFrame

\* then the event.
MonitorSends(p) ==
  /\ task[p].monitor = "send"
  /\ task' = [task EXCEPT ![p].monitor = "done"]
  /\ chan' = Append(chan, Event(IF os[p] = "zero" THEN "completed" ELSE "failed", p))
  /\ UNCHANGED <<running, stdins, inbox, stored, lost, given>> /\ TaskFrame

\* The alert timer is over: it looks into running,
AlertChecks(p) ==
  /\ task[p].alert = "armed" /\ Unlocked
  /\ task' = [task EXCEPT ![p].alert = IF p \in running THEN "fire" ELSE "done"]
  /\ UNCHANGED <<running, stdins, inbox, chan, stored, lost, given>> /\ TaskFrame

\* and, with the lock released, reports a timeout.
AlertSends(p) ==
  /\ task[p].alert = "fire"
  /\ task' = [task EXCEPT ![p].alert = "done"]
  /\ chan' = Append(chan, Event("timeout", p))
  /\ UNCHANGED <<running, stdins, inbox, stored, lost, given>> /\ TaskFrame

-----------------------------------------------------------------------------
OsFrame == UNCHANGED <<agentVars, play, req, pid, task, running, stdins, inbox,
                       accepted, lock, chan, stored, lost, given, term>>

\* The reader has dropped its end of a pipe.
PipeClosed(p, s) == task[p].reader \in IF s = "out" THEN {"err", "done"} ELSE {"done"}

\* The process or its descendant writes a line, unless the pipe is full.  A write
\* to a closed pipe is lost,
ProcessWrites(p, s) ==
  /\ Alive(p) /\ wrote[p][s] < req[p][s]
  /\ PipeClosed(p, s) \/ InPipe(p, s) < PipeCap
  /\ wrote' = [wrote EXCEPT ![p][s] = @ + 1]
  /\ UNCHANGED <<os, heirs>> /\ OsFrame

\* or kills the writer, with SIGPIPE.
BrokenPipe(p, s) ==
  /\ wrote[p][s] < req[p][s] /\ PipeClosed(p, s)
  /\ \/ os[p] = "live" /\ os' = [os EXCEPT ![p] = "nonzero"] /\ UNCHANGED heirs
     \/ p \in heirs /\ heirs' = heirs \ {p} /\ UNCHANGED os
  /\ UNCHANGED wrote /\ OsFrame

\* Its input has ended: it is /dev/null or the writer has dropped the pipe.
EndOfInput(p) == task[p].writer \in {"none", "closing", "done"}

\* All the output is written.
AllWritten(p) == \A s \in {"out", "err"} : wrote[p][s] = req[p][s]

\* The process exits, by itself when its output is written, or left to its
\* descendant, and its input read, or by a signal.
ProcessExits(p) ==
  /\ os[p] = "live"
  /\ \/ /\ AllWritten(p) \/ p \in heirs
        /\ req[p].reads => EndOfInput(p)
        /\ os' = [os EXCEPT ![p] = IF req[p].ok THEN "zero" ELSE "nonzero"]
     \/ p \in term /\ os' = [os EXCEPT ![p] = "nonzero"]
  /\ UNCHANGED <<heirs, wrote>> /\ OsFrame

\* The descendant ends: what is not written yet is left to the process.
HeirEnds(p) ==
  /\ p \in heirs /\ req[p].heir = "ends"
  /\ AllWritten(p) \/ os[p] = "live"
  /\ heirs' = heirs \ {p}
  /\ UNCHANGED <<os, wrote>> /\ OsFrame

\* The daemon dies and starts again: the tasks are gone, the entries are wiped,
\* the counter is the saved one; the output table stays.
Restart ==
  /\ restarts < play.restarts /\ restarts' = restarts + 1
  /\ pc' = "loop" /\ ops' = <<>> /\ waiting' = NoProc
  /\ entry' = [p \in Procs |-> "absent"] /\ idc' = saved
  /\ task' = [p \in Procs |-> Nothing]
  /\ running' = {} /\ stdins' = {} /\ lock' = NoProc /\ chan' = <<>>
  /\ inbox' = [p \in Procs |-> <<>>]
  /\ os' = [p \in Procs |-> IF os[p] = "none" THEN "none" ELSE "gone"]
  /\ heirs' = {}
  /\ UNCHANGED <<report, saved, play, req, pid, accepted, stored, lost, wrote, given, term>>

AgentStep ==
  \/ ScriptWithoutStart
  \/ \E p \in Procs, r \in play.requests : ScriptWithStart(p, r)
  \/ ApplyEvent \/ Drained \/ WaitOver \/ Save \/ KillDone
  \/ \E p \in Procs : Kill(p) \/ SendStdin(p) \/ CloseStdin(p)

Writer(p) == RegisterStdin(p) \/ WriteStdin(p) \/ EndWriter(p)
Reader(p) == \E s \in {"out", "err"} : ReadLine(p, s) \/ EndOfStream(p, s)
Monitor(p) == MonitorRemoves(p) \/ MonitorSignals(p) \/ MonitorSends(p)
Alert(p) == AlertChecks(p) \/ AlertSends(p)

ProcessStep(p) ==
  \/ \E s \in {"out", "err"} : ProcessWrites(p, s) \/ BrokenPipe(p, s)
  \/ ProcessExits(p) \/ HeirEnds(p)

Next ==
  \/ AgentStep
  \/ \E p \in Procs, r \in play.requests : HookStart(p, r)
  \/ \E p \in Procs :
       InsertRunning(p) \/ Writer(p) \/ Reader(p) \/ Monitor(p) \/ Alert(p) \/ ProcessStep(p)
  \/ Restart

(***************************************************************************)
(* The runtime schedules the agent's task and every task of a process, the *)
(* duration of a wait and of an alert passes, and a process that is neither*)
(* blocked on a pipe nor waiting for input goes on.  Steps that need the   *)
(* lock of running get their turn although kill may take it again and      *)
(* again: a tokio Mutex serves its waiters in order.                       *)
(***************************************************************************)
Fairness ==
  /\ WF_vars(AgentStep)
  /\ \A p \in Procs :
       /\ SF_vars(InsertRunning(p)) /\ SF_vars(Monitor(p)) /\ SF_vars(Alert(p))
       /\ WF_vars(Writer(p)) /\ WF_vars(Reader(p)) /\ WF_vars(ProcessStep(p))

Spec == Init /\ [][Next]_vars
FairSpec == Spec /\ Fairness

-----------------------------------------------------------------------------
\* The places of the items about the end of p, and of the events on their way.
Ends(p) == {k \in DOMAIN report[p] : report[p][k].kind \in Terminal}
Coming(p) == {k \in DOMAIN chan : chan[k].proc = p /\ chan[k].kind \in Terminal}
Reported(p) == Ends(p) # {}

\* Nobody else was given the pid of p.
OwnPid(p) == \A q \in Procs \ {p} : pid[q] # pid[p]

\* a lines of stdout, then b lines of stderr.
Text(p, a, b) == [i \in 1..(a + b) |-> Line(p, IF i <= a THEN "out" ELSE "err")]

\* The lines of a stream before the first that is not UTF-8, and those of them that
\* the database did not fail to append.
Readable(p, s) == IF wrote[p][s] <= req[p].good[s] THEN wrote[p][s] ELSE req[p].good[s]
Kept(p, s) == Readable(p, s) - lost[p][s]

\* The preview of a ProcessCompleted or ProcessFailed item is stdout before stderr,
\* each up to its first line that is not UTF-8, and lacks only lines that the
\* database failed to append; no line that comes later, from a descendant either,
\* belongs to it: the monitor sends its event after the reader has ended.  Unless
\* the pid was given to another process too.
PreviewExact ==
  \A p \in Procs :
    OwnPid(p) => \A k \in Ends(p) : report[p][k].preview = Text(p, Kept(p, "out"), Kept(p, "err"))

\* shell_status says completed or failed exactly when one item has told the
\* agent so, with the same outcome, and a second one can never come: no event
\* about the end of a reported process is on its way.
StatusMatchesReport ==
  \A p \in Procs :
    /\ \A k, l \in Ends(p) : k = l
    /\ \A k, l \in Coming(p) : k = l /\ ~Reported(p)
    /\ entry[p] \in Terminal <=> (Reported(p) /\ entry[p] # "absent")
    /\ entry[p] \in Terminal => \A k \in Ends(p) : report[p][k].kind = entry[p]

\* An interactive process sees the end of its input only after every input that
\* send_stdin accepted.
InputBeforeEnd ==
  \A p \in Procs :
    (os[p] = "live" /\ task[p].writer \in {"closing", "done"}) => given[p] = accepted[p]

\* A program that ends by itself with its descendant, and fits its errors into a
\* pipe; one that is signalled, and whose descendant ends by itself.
EndsByItself(p) ==
  req[p].err <= PipeCap /\ (req[p].reads => ~req[p].interactive) /\ req[p].heir # "stays"
EndsBySignal(p) ==
  p \in term /\ (req[p].heir = "none" \/ (req[p].heir = "ends" /\ req[p].err <= PipeCap))

\* Every process that ends by itself is reported, unless the daemon restarts:
\* no order of the tasks loses the event.  So is every process that was
\* signalled, even one that hangs on a full stderr pipe or waits for input.  Both
\* need that no descendant holds the pipes for ever: the signal goes to the
\* process only, and the monitor waits for the reader.  One that hangs unsignalled
\* is heard of too: once it is in running before its alert is over, some item
\* about it reaches the queue.
ProcessesReported ==
  \A p \in Procs :
    /\ (task[p].monitor = "wait" /\ (EndsByItself(p) \/ EndsBySignal(p)))
         ~> (Reported(p) \/ task[p].monitor = "none")
    /\ (task[p].alert = "armed" /\ p \in running) ~> (report[p] # <<>> \/ task[p].monitor = "none")
=============================================================================
