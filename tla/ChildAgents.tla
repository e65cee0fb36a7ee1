---------------------------- MODULE ChildAgents ----------------------------
(***************************************************************************)
(* The agents of one daemon as a tree: AgentRegistry of src/src/types.rs,  *)
(* fork, message_agent and kill_child as apply_side_effects of             *)
(* src/src/agent_loop.rs carries them out, and run_child_agent_loop, the   *)
(* task around a child's loop.  What a loop does between these calls is    *)
(* module AgentLoop.                                                       *)
(*                                                                         *)
(* Each agent runs as a task of its own; the registry is behind a mutex,   *)
(* so each call to it is one step.  An agent is the channel that fork made *)
(* for it, numbered from 1 for the root; names are reused, numbers are     *)
(* not.  The root runs for as long as the daemon.                          *)
(***************************************************************************)
EXTENDS Integers, Sequences, FiniteSets

CONSTANTS
  Root,         \* the name "root"
  Names,        \* the names of children (AgentName::new_child refuses "root")
  MaxChildren,  \* CLAUDE_SERVER_MAX_CHILDREN
  MaxDepth,     \* child_depth_remaining of the root
  MaxBatch,     \* bound on the children of one fork
  MaxAgents,    \* bound on the agents ever registered
  MaxSends      \* bound on the messages

ASSUME NamesAssumption == Root \notin Names
ASSUME ChildrenAssumption ==
  /\ MaxChildren \in Nat /\ MaxDepth \in Nat /\ MaxBatch \in Nat
  /\ MaxAgents \in Nat \ {0} /\ MaxSends \in Nat

Agents == 1..MaxAgents

VARIABLES
  registry,  \* for each name its entry: the channel, and the flag completed
  next,      \* the number of the next channel
  status,    \* where each agent's task is
  name,      \* the name each agent runs under
  parent,
  depth,     \* permissions.child_depth_remaining
  children,  \* active_children
  queue,     \* event_rx of each agent
  forking,   \* names a fork has registered and not yet spawned
  channels,  \* child_channels of that fork
  told,      \* how often each child's completion reached its parent's queue
  accepted,  \* for each message the agent it was sent to, 0 before that
  seen       \* the messages an agent has taken from its channel

vars == <<registry, next, status, name, parent, depth, children, queue,
          forking, channels, told, accepted, seen>>

(***************************************************************************)
(* free         not made yet                                               *)
(* registered   its channel is in the registry, its task is not spawned    *)
(* declined     registered and then given up, with a failure item for the  *)
(*              parent                                                     *)
(* running      its loop runs                                              *)
(* returned     AgentLoop::run has returned                                *)
(* deregistered it has left the registry                                   *)
(* gone         its task has ended and its receiver is dropped             *)
(***************************************************************************)
Status == {"free", "registered", "declined", "running", "returned",
           "deregistered", "gone"}

Entry(to, completed) == [to |-> to, completed |-> completed]
NoEntry == Entry(0, TRUE)
EntryType == [to: 0..MaxAgents, completed: BOOLEAN]

Sends == 1..MaxSends
Message(m) == [type |-> "message", of |-> m]
Completed(c) == [type |-> "completed", of |-> c]
EventType == [type: {"message", "completed"}, of: Nat]

\* The agent's task is at a turn of its own, not inside a fork.
Free(a) == status[a] = "running" /\ forking[a] = <<>>

-----------------------------------------------------------------------------
(* The registry.                                                           *)

\* Mutant: names are only compared with the registry, not with each other.
CollidesWithRunning(batch) == \E i \in DOMAIN batch : ~registry[batch[i]].completed

\* register_batch refuses the whole batch
Collides(batch) ==
  \/ \E i \in DOMAIN batch : ~registry[batch[i]].completed
  \/ \E i, j \in DOMAIN batch : i # j /\ batch[i] = batch[j]

\* deregister: the name stays, so that messages to it do not fail.
Deregistered(n) == [registry EXCEPT ![n].completed = TRUE]

-----------------------------------------------------------------------------
(* fork.                                                                   *)

(***************************************************************************)
(* A fork request: the channels are made and all names registered, or none *)
(* and the parent gets one failure item (a "notice" of AgentLoop).         *)
(***************************************************************************)
Fork(p, batch) ==
  LET ids == [i \in DOMAIN batch |-> next + i - 1]
      index(n) == CHOOSE i \in DOMAIN batch : batch[i] = n
      new == {ids[i] : i \in DOMAIN batch}
  IN  /\ Free(p)
      /\ depth[p] > 0
      /\ batch # <<>>
      /\ next + Len(batch) <= MaxAgents + 1
      /\ ~Collides(batch)
      /\ registry' = [n \in DOMAIN registry |->
                        IF \E i \in DOMAIN batch : batch[i] = n
                        THEN Entry(ids[index(n)], FALSE) ELSE registry[n]]
      /\ next' = next + Len(batch)
      /\ status' = [a \in Agents |-> IF a \in new THEN "registered" ELSE status[a]]
      /\ parent' = [a \in Agents |-> IF a \in new THEN p ELSE parent[a]]
      /\ forking' = [forking EXCEPT ![p] = batch]
      /\ channels' = [channels EXCEPT ![p] = ids]
      /\ UNCHANGED <<name, depth, children, queue, told, accepted, seen>>

\* Mutant: a child too many.
FullOffByOne(p) == children[p] > MaxChildren

Full(p) == children[p] >= MaxChildren

\* The limit is reached: the next name is given up; its channel stays in the list.
Decline(p) ==
  LET n == Head(forking[p])
  IN  /\ forking[p] # <<>>
      /\ Full(p)
      /\ registry' = Deregistered(n)
      /\ status' = [status EXCEPT ![registry[n].to] = "declined"]
      /\ forking' = [forking EXCEPT ![p] = Tail(@)]
      /\ UNCHANGED <<next, name, parent, depth, children, queue, channels, told,
                     accepted, seen>>

\* Mutant: the channel is taken only after the API client was made.
ApiClientFailsEarly(p) ==
  LET n == Head(forking[p])
  IN  /\ forking[p] # <<>>
      /\ ~Full(p)
      /\ registry' = Deregistered(n)
      /\ status' = [status EXCEPT ![Head(channels[p])] = "declined"]
      /\ forking' = [forking EXCEPT ![p] = Tail(@)]
      /\ UNCHANGED <<next, name, parent, depth, children, queue, channels, told,
                     accepted, seen>>

\* ApiClient::new_with_prompt fails: active_children goes up and down again.
ApiClientFails(p) ==
  LET n == Head(forking[p])
  IN  /\ forking[p] # <<>>
      /\ ~Full(p)
      /\ registry' = Deregistered(n)
      /\ status' = [status EXCEPT ![Head(channels[p])] = "declined"]
      /\ forking' = [forking EXCEPT ![p] = Tail(@)]
      /\ channels' = [channels EXCEPT ![p] = Tail(@)]
      /\ UNCHANGED <<next, name, parent, depth, children, queue, told, accepted,
                     seen>>

\* The next child's task is spawned with the next channel of the list.
Spawn(p) ==
  LET c == Head(channels[p])
  IN  /\ forking[p] # <<>>
      /\ ~Full(p)
      /\ children' = [children EXCEPT ![p] = @ + 1]
      /\ status' = [status EXCEPT ![c] = "running"]
      /\ name' = [name EXCEPT ![c] = Head(forking[p])]
      /\ depth' = [depth EXCEPT ![c] = IF depth[p] = 0 THEN 0 ELSE depth[p] - 1]
      /\ forking' = [forking EXCEPT ![p] = Tail(@)]
      /\ channels' = [channels EXCEPT ![p] = Tail(@)]
      /\ UNCHANGED <<registry, next, parent, queue, told, accepted, seen>>

-----------------------------------------------------------------------------
(* Messages and the end of a child.                                        *)

(***************************************************************************)
(* send_to, for message_agent and kill_child.  An unknown name fails the   *)
(* turn (message_agent) or is logged (kill_child); a completed agent's     *)
(* message is dropped; otherwise it goes to the channel in the registry.   *)
(***************************************************************************)
Send(a, n, m) ==
  /\ Free(a)
  /\ accepted[m] = 0 /\ \A k \in 1..(m - 1) : accepted[k] # 0
  /\ ~registry[n].completed
  /\ queue' = [queue EXCEPT ![registry[n].to] = Append(@, Message(m))]
  /\ accepted' = [accepted EXCEPT ![m] = registry[n].to]
  /\ UNCHANGED <<registry, next, status, name, parent, depth, children, forking,
                 channels, told, seen>>

\* Mutant: every event counts as the completion of a child.
ReceiveCountsAll(a) ==
  LET ev == Head(queue[a])
  IN  /\ Free(a)
      /\ queue[a] # <<>>
      /\ queue' = [queue EXCEPT ![a] = Tail(@)]
      /\ children' = [children EXCEPT ![a] = @ - 1]
      /\ UNCHANGED <<registry, next, status, name, parent, depth, forking,
                     channels, accepted, told, seen>>

\* drain_events: apply_event for the event at the head
Receive(a) ==
  LET ev == Head(queue[a])
  IN  /\ Free(a)
      /\ queue[a] # <<>>
      /\ queue' = [queue EXCEPT ![a] = Tail(@)]
      /\ IF ev.type = "completed"
         THEN /\ children' = [children EXCEPT ![a] = IF @ = 0 THEN 0 ELSE @ - 1]
              /\ told' = [told EXCEPT ![ev.of] = @ + 1]
              /\ UNCHANGED seen
         ELSE /\ seen' = seen \cup {ev.of}
              /\ UNCHANGED <<children, told>>
      /\ UNCHANGED <<registry, next, status, name, parent, depth, forking,
                     channels, accepted>>

\* The child's loop returns: done(), a kill signal, its turn limit, a shutdown.
Return(a) ==
  /\ a # 1
  /\ Free(a)
  /\ status' = [status EXCEPT ![a] = "returned"]
  /\ UNCHANGED <<registry, next, name, parent, depth, children, queue, forking,
                 channels, told, accepted, seen>>

Deregister(a) ==
  /\ status[a] = "returned"
  /\ registry' = Deregistered(name[a])
  /\ status' = [status EXCEPT ![a] = "deregistered"]
  /\ UNCHANGED <<next, name, parent, depth, children, queue, forking, channels,
                 told, accepted, seen>>

\* Mutant: the task ends without telling the parent.
ReportNever(a) ==
  /\ status[a] = "deregistered"
  /\ status' = [status EXCEPT ![a] = "gone"]
  /\ UNCHANGED <<registry, next, name, parent, depth, children, queue, forking,
                 channels, told, accepted, seen>>

\* ChildCompleted goes to the parent, if it still has a receiver; the task ends.
Report(a) ==
  /\ status[a] = "deregistered"
  /\ status' = [status EXCEPT ![a] = "gone"]
  /\ queue' = IF status[parent[a]] = "gone" THEN queue
              ELSE [queue EXCEPT ![parent[a]] = Append(@, Completed(a))]
  /\ UNCHANGED <<registry, next, name, parent, depth, children, forking, channels,
                 told, accepted, seen>>

-----------------------------------------------------------------------------
Init ==
  /\ registry = [n \in Names \cup {Root} |->
                   IF n = Root THEN Entry(1, FALSE) ELSE NoEntry]
  /\ next = 2
  /\ status = [a \in Agents |-> IF a = 1 THEN "running" ELSE "free"]
  /\ name = [a \in Agents |-> Root]
  /\ parent = [a \in Agents |-> 1]
  /\ depth = [a \in Agents |-> IF a = 1 THEN MaxDepth ELSE 0]
  /\ children = [a \in Agents |-> 0]
  /\ queue = [a \in Agents |-> <<>>]
  /\ forking = [a \in Agents |-> <<>>]
  /\ channels = [a \in Agents |-> <<>>]
  /\ told = [a \in Agents |-> 0]
  /\ accepted = [m \in Sends |-> 0]
  /\ seen = {}

Batches == UNION {[1..k -> Names] : k \in 1..MaxBatch}

\* The steps an agent's task takes by itself once they are due
Step(a) ==
  \/ Decline(a) \/ ApiClientFails(a) \/ Spawn(a)
  \/ Receive(a) \/ Deregister(a) \/ Report(a)

Next ==
  \E a \in Agents :
    \/ \E batch \in Batches : Fork(a, batch)
    \/ \E n \in Names \cup {Root}, m \in Sends : Send(a, n, m)
    \/ Return(a)
    \/ Step(a)

Spec == Init /\ [][Next]_vars

(***************************************************************************)
(* Every task is scheduled, and a loop drains its channel before each turn *)
(* and while it is idle.  No agent has to fork, send or return.            *)
(***************************************************************************)
FairSpec == Spec /\ \A a \in Agents : WF_vars(Step(a))

-----------------------------------------------------------------------------
(* Properties.                                                             *)

\* Every variable has its type.
TypeOK ==
  /\ registry \in [Names \cup {Root} -> EntryType]
  /\ next \in 2..(MaxAgents + 1)
  /\ status \in [Agents -> Status] /\ name \in [Agents -> Names \cup {Root}]
  /\ parent \in [Agents -> Agents] /\ depth \in [Agents -> Nat]
  /\ children \in [Agents -> Nat] /\ queue \in [Agents -> Seq(EventType)]
  /\ forking \in [Agents -> Seq(Names)] /\ channels \in [Agents -> Seq(Agents)]
  /\ told \in [Agents -> Nat] /\ accepted \in [Sends -> 0..MaxAgents]
  /\ seen \subseteq Nat

(***************************************************************************)
(* An agent whose loop runs is the one that the registry has under its     *)
(* name, with the channel the loop reads: no message for it goes to a      *)
(* namesake, and no two running agents share a name, however forks, ends   *)
(* of children and reuses of their names interleave.                       *)
(***************************************************************************)
RunningReachable ==
  \A a \in Agents : status[a] \in {"running", "returned"}
    => registry[name[a]] = Entry(a, FALSE)

(***************************************************************************)
(* active_children counts exactly the children that were spawned and whose *)
(* completion the parent has not applied yet, so saturating_sub never      *)
(* saturates, and it never exceeds the limit (system_prompt.txt: "Max 3    *)
(* concurrent children").                                                  *)
(***************************************************************************)
Living(p) == {c \in Agents : parent[c] = p /\ c # 1 /\
                status[c] \in {"running", "returned", "deregistered"}}

Reports(p) == {i \in DOMAIN queue[p] : queue[p][i].type = "completed"}

ChildrenCounted ==
  \A p \in Agents : status[p] = "running" =>
    /\ children[p] = Cardinality(Living(p)) + Cardinality(Reports(p))
    /\ children[p] <= MaxChildren

(***************************************************************************)
(* A child that has ended is reported to its parent, unless the parent has *)
(* ended too (system_prompt.txt: "When a child finishes, the parent        *)
(* receives a ChildAgentCompleted work item").                             *)
(***************************************************************************)
CompletionArrives ==
  \A a \in Agents : status[a] = "returned" ~>
    told[a] = 1 \/ status[parent[a]] # "running"

(***************************************************************************)
(* A message for which send_to returned Ok(true) is applied by the agent   *)
(* it was sent to, unless that agent ends or is never started.             *)
(***************************************************************************)
MessageArrives ==
  \A m \in Sends, a \in Agents : accepted[m] = a ~>
    m \in seen \/ status[a] \notin {"registered", "running"}

=============================================================================
