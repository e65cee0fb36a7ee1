------------------------------ MODULE Gateway -------------------------------
(***************************************************************************)
(* Messages between the agents of a daemon and the outside world: the      *)
(* SubscriberRegistry and the SSE streams of src/src/http_server.rs,       *)
(* send_message and wait_for_message_channel of src/src/python.rs, the     *)
(* outbound half of apply_side_effects of src/src/agent_loop.rs, and       *)
(* relay_loop of src/src/bridges/mod.rs.                                   *)
(*                                                                         *)
(* Streams come and go while the scripts of several agents run.  A script  *)
(* holds its messages back until it ends; they are then stored and         *)
(* broadcast one after the other.  A chat id is a sequence, so that a      *)
(* pattern ending in * is a prefix of the ids it matches.  The broadcast   *)
(* channel is external: a log of which a receiver finds the latest Ring    *)
(* messages.  Scripts that wait do so as if each had an interpreter of     *)
(* its own.                                                                *)
(***************************************************************************)
EXTENDS Integers, Sequences, FiniteSets, SequencesExt

CONSTANTS
  Agents,
  Root,
  Chats,      \* the chat ids
  Streams,    \* the SSE streams, each opened at most once, by one bridge each
  Pattern,    \* the pattern of each stream: [key, prefix]
  Ring,       \* capacity of the broadcast channel
  MaxSends,   \* bound on the messages the scripts hand over
  MaxScripts, \* bound on the scripts of an agent
  MaxWaits,   \* bound on the waits of the scripts
  MaxFaults,  \* bound on the failures of the database and of the services
  Casts       \* which agents and streams may take part in a behaviour together

Keys == {Pattern[s].key : s \in Streams}

ASSUME AgentsAssumption == Root \in Agents
ASSUME ChatsAssumption == \A c \in Chats : c \in Seq(STRING)
ASSUME PatternAssumption ==
  /\ DOMAIN Pattern = Streams
  /\ \A s \in Streams : Pattern[s].key \in Seq(STRING) /\ Pattern[s].prefix \in BOOLEAN
ASSUME BoundsAssumption ==
  /\ Ring \in Nat \ {0} /\ MaxSends \in Nat /\ MaxScripts \in Nat
  /\ MaxWaits \in Nat /\ MaxFaults \in Nat
  /\ \A c \in Casts : c \subseteq Agents \cup Streams

VARIABLES
  sse,       \* the phase of each stream
  exact,     \* SubscriberInner::exact: the counts, 0 when absent
  prefix,    \* SubscriberInner::prefix
  notified,  \* calls of notify_waiters so far
  log,       \* everything broadcast so far
  pos,       \* the place of each stream's receiver in the log
  carried,   \* the messages each stream has carried
  lagged,    \* whether a receiver has fallen behind the ring
  faults,    \* failures so far
  rows,      \* rows of the table of outbound messages
  script,    \* the phase of each agent's script
  scripts,   \* scripts run by each agent
  chat,      \* the chat id a script waits for
  waits,     \* waits so far
  armed,     \* notify_waiters calls when the wait was armed
  effects,   \* ExternalEffects::messages of each agent
  row,       \* the row id of the message being broadcast
  sends,     \* messages handed over so far, with the streams counted at that time
  dropped,   \* those of scripts that raised
  service    \* the row ids each bridge has given its service

streamVars == <<sse, exact, prefix, notified>>
relayVars == <<pos, carried, lagged>>
scriptVars == <<script, scripts, waits, chat, armed, effects, row, sends, dropped>>
vars == <<streamVars, relayVars, scriptVars, service, log, rows, faults>>

-----------------------------------------------------------------------------
(* SubscriberRegistry *)

\* What a stream's closure and would_reach ask of a pattern and a chat id.
Match(p, c) == IF p.prefix THEN IsPrefix(p.key, c) ELSE p.key = c

WouldReach(c) ==
  \/ c \in Keys /\ exact[c] > 0
  \/ \E k \in Keys : prefix[k] > 0 /\ IsPrefix(k, c)

Counted(p, n) ==
  IF p.prefix THEN prefix' = [prefix EXCEPT ![p.key] = @ + n] /\ UNCHANGED exact
  ELSE exact' = [exact EXCEPT ![p.key] = @ + n] /\ UNCHANGED prefix

\* SubscriberGuard::drop, when the server notices that the client has left.
DropGuard(s) ==
  /\ sse[s] = "gone"
  /\ sse' = [sse EXCEPT ![s] = "closed"]
  /\ Counted(Pattern[s], -1)
  /\ UNCHANGED <<notified, relayVars, scriptVars, service, log, rows, faults>>

-----------------------------------------------------------------------------
(* handle_sse *)

\* broadcast_tx.subscribe()
Subscribe(s) ==
  /\ sse[s] = "off"
  /\ sse' = [sse EXCEPT ![s] = "subscribed"]
  /\ pos' = [pos EXCEPT ![s] = Len(log)]
  /\ UNCHANGED <<exact, prefix, notified, carried, lagged, scriptVars, service, log, rows, faults>>

\* Mutant: waiters are told before the pattern is counted.
RegisterNotifiesFirst(s) ==
  /\ \/ /\ sse[s] = "subscribed" /\ sse' = [sse EXCEPT ![s] = "counted"]
        /\ notified' = notified + 1 /\ UNCHANGED <<exact, prefix>>
     \/ /\ sse[s] = "counted" /\ sse' = [sse EXCEPT ![s] = "open"]
        /\ Counted(Pattern[s], 1) /\ UNCHANGED notified
  /\ UNCHANGED <<relayVars, scriptVars, service, log, rows, faults>>

\* Mutant: the receiver is made after the pattern was registered.
RegisterSubscribesLast(s) ==
  /\ \/ /\ sse[s] = "subscribed" /\ sse' = [sse EXCEPT ![s] = "counted"]
        /\ Counted(Pattern[s], 1) /\ UNCHANGED <<notified, pos>>
     \/ /\ sse[s] = "counted" /\ sse' = [sse EXCEPT ![s] = "open"]
        /\ notified' = notified + 1 /\ pos' = [pos EXCEPT ![s] = Len(log)]
        /\ UNCHANGED <<exact, prefix>>
  /\ UNCHANGED <<carried, lagged, scriptVars, service, log, rows, faults>>

\* SubscriberRegistry::register: the pattern is counted under the lock, then
\* the waiters are told.
Register(s) ==
  /\ \/ /\ sse[s] = "subscribed" /\ sse' = [sse EXCEPT ![s] = "counted"]
        /\ Counted(Pattern[s], 1) /\ UNCHANGED notified
     \/ /\ sse[s] = "counted" /\ sse' = [sse EXCEPT ![s] = "open"]
        /\ notified' = notified + 1 /\ UNCHANGED <<exact, prefix>>
  /\ UNCHANGED <<relayVars, scriptVars, service, log, rows, faults>>

Fault == faults < MaxFaults /\ faults' = faults + 1

Behind(s) == Len(log) - pos[s] > Ring

\* The receiver has been overtaken: Lagged is skipped without a trace.
StreamLags(s) ==
  /\ sse[s] \in {"open", "gone"} /\ Behind(s)
  /\ pos' = [pos EXCEPT ![s] = Len(log) - Ring]
  /\ lagged' = [lagged EXCEPT ![s] = TRUE]
  /\ UNCHANGED <<streamVars, carried, scriptVars, service, log, rows, faults>>

\* The stream filters the next message and carries it to the bridge, which
\* hands messages to its service: the service may refuse.  A status goes to
\* every stream, and relay_loop ignores it.
StreamNext(s) ==
  /\ sse[s] \in {"open", "gone"} /\ ~Behind(s) /\ pos[s] < Len(log)
  /\ pos' = [pos EXCEPT ![s] = @ + 1]
  /\ LET m == log[pos[s] + 1] IN
       IF ~m.status /\ Match(Pattern[s], m.chat)
       THEN /\ carried' = [carried EXCEPT ![s] = @ \cup {m.n}]
            /\ \/ sse[s] = "open" /\ service' = [service EXCEPT ![s] = Append(@, m.id)] /\ UNCHANGED faults
               \/ sse[s] = "open" /\ Fault /\ UNCHANGED service
               \/ sse[s] = "gone" /\ UNCHANGED <<service, faults>>
       ELSE UNCHANGED <<carried, service, faults>>
  /\ UNCHANGED <<streamVars, lagged, scriptVars, log, rows>>

-----------------------------------------------------------------------------
(* Scripts *)

\* The root broadcasts that it is thinking and executing: one status stands
\* for both.
StartScript(a) ==
  /\ script[a] = "idle" /\ scripts[a] < MaxScripts
  /\ log' = IF a = Root THEN Append(log, [n |-> 0, chat |-> <<>>, id |-> 0, status |-> TRUE]) ELSE log
  /\ script' = [script EXCEPT ![a] = "running"]
  /\ scripts' = [scripts EXCEPT ![a] = @ + 1]
  /\ UNCHANGED <<waits, chat, armed, effects, row, sends, dropped, streamVars, relayVars, service, rows, faults>>

\* wait_for_message_channel(c): wait_for arms first ...
WaitArms(a, c) ==
  /\ script[a] = "running" /\ waits < MaxWaits /\ waits' = waits + 1
  /\ script' = [script EXCEPT ![a] = "armed"]
  /\ chat' = [chat EXCEPT ![a] = c] /\ armed' = [armed EXCEPT ![a] = notified]
  /\ UNCHANGED <<scripts, effects, row, sends, dropped, streamVars, relayVars, service, log, rows, faults>>

\* ... then checks ...
WaitChecks(a) ==
  /\ script[a] = "armed"
  /\ IF WouldReach(chat[a])
     THEN script' = [script EXCEPT ![a] = "running"] /\ armed' = [armed EXCEPT ![a] = 0]
     ELSE script' = [script EXCEPT ![a] = "waiting"] /\ UNCHANGED armed
  /\ UNCHANGED <<scripts, waits, chat, effects, row, sends, dropped, streamVars, relayVars, service, log, rows, faults>>

\* ... and starts again when a registration has woken it.
WaitWakes(a) ==
  /\ script[a] = "waiting" /\ notified > armed[a]
  /\ script' = [script EXCEPT ![a] = "armed"]
  /\ armed' = [armed EXCEPT ![a] = notified]
  /\ UNCHANGED <<scripts, waits, chat, effects, row, sends, dropped, streamVars, relayVars, service, log, rows, faults>>

\* The deadline passes without a wakeup; the script catches the TimeoutError.
WaitTimesOut(a) ==
  /\ script[a] = "waiting" /\ notified = armed[a]
  /\ script' = [script EXCEPT ![a] = "running"] /\ armed' = [armed EXCEPT ![a] = 0]
  /\ UNCHANGED <<scripts, waits, chat, effects, row, sends, dropped, streamVars, relayVars, service, log, rows, faults>>

Dropped(a) == dropped \cup {effects[a][k].n : k \in DOMAIN effects[a]}

\* send_message to a chat id that some stream matches.
SendAccepted(a, c) ==
  /\ script[a] = "running" /\ Len(sends) < MaxSends
  /\ WouldReach(c)
  /\ sends' = Append(sends, [from |-> a, to |-> {s \in Streams : sse[s] \in {"counted", "open"} /\ Match(Pattern[s], c)}])
  /\ effects' = [effects EXCEPT ![a] = Append(@, [n |-> Len(sends) + 1, chat |-> c])]
  /\ UNCHANGED <<script, scripts, waits, chat, armed, row, dropped, streamVars, relayVars, service, log, rows, faults>>

\* The script raises, of itself or because send_message found no stream, or it
\* exceeds its time: its effects are dropped.
ScriptRaises(a) ==
  /\ script[a] \in {"running", "armed", "waiting"}
  /\ dropped' = Dropped(a)
  /\ effects' = [effects EXCEPT ![a] = <<>>] /\ armed' = [armed EXCEPT ![a] = 0]
  /\ script' = [script EXCEPT ![a] = "idle"]
  /\ UNCHANGED <<scripts, waits, chat, row, sends, streamVars, relayVars, service, log, rows, faults>>

ScriptEnds(a) ==
  /\ script[a] = "running"
  /\ script' = [script EXCEPT ![a] = "applying"]
  /\ UNCHANGED <<scripts, waits, chat, armed, effects, row, sends, dropped, streamVars, relayVars, service, log, rows, faults>>

-----------------------------------------------------------------------------
(* apply_side_effects, outbound messages *)

\* save_outbound_message returns the row id, or 0 when the insert fails.
SaveOutbound(a) ==
  /\ script[a] = "applying" /\ effects[a] # <<>>
  /\ \/ rows' = rows + 1 /\ row' = [row EXCEPT ![a] = rows + 1] /\ UNCHANGED faults
     \/ Fault /\ row' = [row EXCEPT ![a] = 0] /\ UNCHANGED rows
  /\ script' = [script EXCEPT ![a] = "saved"]
  /\ UNCHANGED <<scripts, waits, chat, armed, effects, sends, dropped, streamVars, relayVars, service, log>>

Message(m, id) == [n |-> m.n, chat |-> m.chat, id |-> id, status |-> FALSE]

\* Mutant: children broadcast too.
BroadcastFromAll(a) ==
  /\ script[a] = "saved"
  /\ log' = Append(log, Message(Head(effects[a]), row[a]))
  /\ effects' = [effects EXCEPT ![a] = Tail(@)] /\ row' = [row EXCEPT ![a] = 0]
  /\ script' = [script EXCEPT ![a] = "applying"]
  /\ UNCHANGED <<scripts, waits, chat, armed, sends, dropped, streamVars, relayVars, service, rows, faults>>

\* broadcast: only the root has a broadcast_tx.
Broadcast(a) ==
  /\ script[a] = "saved"
  /\ log' = IF a = Root THEN Append(log, Message(Head(effects[a]), row[a])) ELSE log
  /\ effects' = [effects EXCEPT ![a] = Tail(@)] /\ row' = [row EXCEPT ![a] = 0]
  /\ script' = [script EXCEPT ![a] = "applying"]
  /\ UNCHANGED <<scripts, waits, chat, armed, sends, dropped, streamVars, relayVars, service, rows, faults>>

Applied(a) ==
  /\ script[a] = "applying" /\ effects[a] = <<>>
  /\ script' = [script EXCEPT ![a] = "idle"]
  /\ UNCHANGED <<scripts, waits, chat, armed, effects, row, sends, dropped, streamVars, relayVars, service, log, rows, faults>>

\* relay_loop ends; the server has yet to notice.
BridgeExits(s) ==
  /\ sse[s] = "open"
  /\ sse' = [sse EXCEPT ![s] = "gone"]
  /\ UNCHANGED <<exact, prefix, notified, relayVars, service, scriptVars, log, rows, faults>>

-----------------------------------------------------------------------------

Init ==
  /\ \E cast \in Casts :
       /\ sse = [s \in Streams |-> IF s \in cast THEN "off" ELSE "closed"]
       /\ scripts = [a \in Agents |-> IF a \in cast THEN 0 ELSE MaxScripts]
  /\ exact = [k \in Keys |-> 0] /\ prefix = [k \in Keys |-> 0] /\ notified = 0
  /\ log = <<>> /\ rows = 0 /\ faults = 0 /\ pos = [s \in Streams |-> 0]
  /\ carried = [s \in Streams |-> {}]
  /\ lagged = [s \in Streams |-> FALSE]
  /\ script = [a \in Agents |-> "idle"] /\ waits = 0
  /\ chat = [a \in Agents |-> CHOOSE c \in Chats : TRUE] /\ armed = [a \in Agents |-> 0]
  /\ effects = [a \in Agents |-> <<>>] /\ row = [a \in Agents |-> 0]
  /\ sends = <<>> /\ dropped = {}
  /\ service = [s \in Streams |-> <<>>]

StreamStep(s) == Register(s) \/ StreamLags(s) \/ StreamNext(s) \/ DropGuard(s)
ScriptStep(a) ==
  \/ StartScript(a) \/ (\E c \in Chats : WaitArms(a, c) \/ SendAccepted(a, c))
  \/ ScriptRaises(a) \/ ScriptEnds(a)
WaitStep(a) == WaitChecks(a) \/ WaitWakes(a) \/ WaitTimesOut(a)
ApplyStep(a) == SaveOutbound(a) \/ Broadcast(a) \/ Applied(a)

Next ==
  \/ \E s \in Streams : Subscribe(s) \/ StreamStep(s) \/ BridgeExits(s)
  \/ \E a \in Agents : ScriptStep(a) \/ WaitStep(a) \/ ApplyStep(a)

Spec == Init /\ [][Next]_vars

\* The server's tasks and the agents' loops go on; a script has limited time.
Fairness ==
  /\ \A s \in Streams : WF_vars(StreamStep(s))
  /\ \A a \in Agents : WF_vars(WaitStep(a)) /\ WF_vars(ApplyStep(a))
                       /\ WF_vars(ScriptEnds(a) \/ ScriptRaises(a))
FairSpec == Spec /\ Fairness

-----------------------------------------------------------------------------
(* Properties *)

\* The streams for a chat id in one of some phases.
Listening(c, phases) == {s \in Streams : sse[s] \in phases /\ Match(Pattern[s], c)}

\* wait_for is right about the streams themselves, however many share a pattern
\* and come and go meanwhile: it gives up only when none is connected, except
\* one whose registration is still under way, and returns only when one is.
WaitsRightly ==
  [][ \A a \in Agents :
        /\ WaitTimesOut(a) => Listening(chat[a], {"open", "gone"}) = {}
        /\ WaitChecks(a) /\ script'[a] = "running"
             => Listening(chat[a], {"counted", "open", "gone"}) # {} ]_vars

\* A service gets messages in the order of the stored rows, without
\* repetition, although agents store rows concurrently; a message whose insert
\* failed has no row.
ServiceInRowOrder ==
  \A s \in Streams : \A k, l \in DOMAIN service[s] :
    k < l /\ service[s][k] > 0 /\ service[s][l] > 0 => service[s][k] < service[s][l]

\* What is outstanding of the messages send_message accepted from an agent: a
\* stream that was counted has yet to carry one, although the script has not
\* raised later and the stream has neither closed nor fallen behind.
Outstanding(a) ==
  {e \in (DOMAIN sends) \X Streams :
     LET n == e[1]
         s == e[2]
     IN /\ sends[n].from = a /\ s \in sends[n].to
        /\ n \notin carried[s] \cup dropped
        /\ ~lagged[s] /\ sse[s] \notin {"gone", "closed"}}

\* What the root sends is heard in the end (sends are finitely many, and what
\* has been heard is never outstanding again).
RootHeard == []<>(Outstanding(Root) = {})

\* "Children have full access to ... send_message()": what a child sends is
\* heard as well.
AllHeard == []<>(\A a \in Agents : Outstanding(a) = {})
=============================================================================
