--------------------------- MODULE GatewayProofs ----------------------------
(***************************************************************************)
(* Proofs about Gateway, for any agents, streams, patterns and capacity of *)
(* the broadcast channel: the order in which a bridge's service gets its   *)
(* messages, and that wait_for is right about the streams.                 *)
(***************************************************************************)
EXTENDS Gateway, FiniteSetTheorems, TLAPS

Phases == {"off", "subscribed", "counted", "open", "gone", "closed"}
ScriptPhases == {"idle", "running", "armed", "waiting", "applying", "saved"}
EffectType == [n : Nat, chat : Chats]
LogType == [n : Nat, chat : Chats \cup {<<>>}, id : Nat, status : BOOLEAN]

\* The types of the variables the proofs are about
TypeOK ==
  /\ sse \in [Streams -> Phases] /\ exact \in [Keys -> Int] /\ prefix \in [Keys -> Int]
  /\ notified \in Nat /\ log \in Seq(LogType) /\ pos \in [Streams -> Nat]
  /\ rows \in Nat /\ row \in [Agents -> Nat] /\ script \in [Agents -> ScriptPhases]
  /\ armed \in [Agents -> Nat] /\ chat \in [Agents -> Chats \cup {CHOOSE c \in Chats : TRUE}]
  /\ effects \in [Agents -> Seq(EffectType)] /\ sends \in Seq([from : Agents, to : SUBSET Streams])
  /\ service \in [Streams -> Seq(Nat)]

\* A message is being broadcast only when there is one.
Saving == \A a \in Agents : script[a] = "saved" => effects[a] # <<>>

TypeInv == TypeOK /\ Saving

LEMMA KeyOfStream ==
  ASSUME NEW s \in Streams
  PROVE  Pattern[s].key \in Keys /\ Pattern[s].prefix \in BOOLEAN
BY PatternAssumption DEF Keys

LEMMA CountedTyped ==
  ASSUME TypeOK, NEW s \in Streams, NEW n \in Int, Counted(Pattern[s], n)
  PROVE  exact' \in [Keys -> Int] /\ prefix' \in [Keys -> Int]
<1>1. Pattern[s].key \in Keys
  BY KeyOfStream
<1>2. CASE Pattern[s].prefix
  BY <1>1, <1>2 DEF Counted, TypeOK
<1>3. CASE ~Pattern[s].prefix
  BY <1>1, <1>3 DEF Counted, TypeOK
<1> QED BY <1>2, <1>3

\* One step per action.
LEMMA StepTyped ==
  ASSUME TypeInv, [Next]_vars
  PROVE  TypeInv'
<1> USE DEF TypeInv, Phases, ScriptPhases
<1>1. ASSUME NEW s \in Streams, Subscribe(s) PROVE TypeInv'
  BY <1>1 DEF Subscribe, TypeOK, Saving, scriptVars
<1>2. ASSUME NEW s \in Streams, Register(s) PROVE TypeInv'
  <2>1. /\ sse' \in [Streams -> Phases] /\ notified' \in Nat
        /\ UNCHANGED <<relayVars, scriptVars, service, log, rows, faults>>
    <3>1. sse' \in [Streams -> Phases]
      BY <1>2 DEF Register, TypeOK
    <3>2. notified' = notified \/ notified' = notified + 1
      BY <1>2 DEF Register
    <3>3. UNCHANGED <<relayVars, scriptVars, service, log, rows, faults>>
      BY <1>2 DEF Register
    <3> QED BY <3>1, <3>2, <3>3 DEF TypeOK
  <2>2. exact' \in [Keys -> Int] /\ prefix' \in [Keys -> Int]
    <3>1. CASE Counted(Pattern[s], 1)
      BY <3>1, CountedTyped
    <3>2. CASE UNCHANGED <<exact, prefix>>
      BY <3>2 DEF TypeOK
    <3> QED BY <1>2, <3>1, <3>2 DEF Register
  <2> QED BY <2>1, <2>2 DEF TypeOK, Saving, relayVars, scriptVars
<1>3. ASSUME NEW s \in Streams, StreamLags(s) PROVE TypeInv'
  <2>1. Len(log) - Ring \in Nat
    BY <1>3, BoundsAssumption DEF StreamLags, Behind, TypeOK
  <2>2. pos' \in [Streams -> Nat]
    BY <1>3, <2>1 DEF StreamLags, TypeOK
  <2> QED BY <1>3, <2>2 DEF StreamLags, TypeOK, Saving, streamVars, scriptVars
<1>4. ASSUME NEW s \in Streams, StreamNext(s) PROVE TypeInv'
  <2>1. pos[s] \in Nat /\ pos[s] + 1 \in DOMAIN log
    BY <1>4 DEF StreamNext, TypeOK
  <2>2. log[pos[s] + 1] \in LogType
    BY <2>1 DEF TypeOK
  <2>3. log[pos[s] + 1].id \in Nat
    BY <2>2 DEF LogType
  <2>4. pos' \in [Streams -> Nat] /\ UNCHANGED <<streamVars, lagged, scriptVars, log, rows>>
    BY <1>4, <2>1 DEF StreamNext, TypeOK
  <2>5. service' \in {service, [service EXCEPT ![s] = Append(service[s], log[pos[s] + 1].id)]}
    BY <1>4 DEF StreamNext
  <2>6. service' \in [Streams -> Seq(Nat)]
    <3>1. Append(service[s], log[pos[s] + 1].id) \in Seq(Nat)
      BY <2>3 DEF TypeOK
    <3> QED BY <2>5, <3>1 DEF TypeOK
  <2> QED BY <2>4, <2>6 DEF TypeOK, Saving, streamVars, scriptVars
<1>5. ASSUME NEW s \in Streams, DropGuard(s) PROVE TypeInv'
  <2>1. exact' \in [Keys -> Int] /\ prefix' \in [Keys -> Int]
    BY <1>5, CountedTyped DEF DropGuard
  <2> QED BY <1>5, <2>1 DEF DropGuard, TypeOK, Saving, relayVars, scriptVars
<1>6. ASSUME NEW s \in Streams, BridgeExits(s) PROVE TypeInv'
  BY <1>6 DEF BridgeExits, TypeOK, Saving, relayVars, scriptVars
<1>7. ASSUME NEW a \in Agents, StartScript(a) PROVE TypeInv'
  <2>1. [n |-> 0, chat |-> <<>>, id |-> 0, status |-> TRUE] \in LogType
    BY DEF LogType
  <2>2. log' \in Seq(LogType)
    BY <1>7, <2>1 DEF StartScript, TypeOK
  <2> QED BY <1>7, <2>2 DEF StartScript, TypeOK, Saving, streamVars, relayVars
<1>8. ASSUME NEW a \in Agents, NEW c \in Chats, WaitArms(a, c) PROVE TypeInv'
  BY <1>8 DEF WaitArms, TypeOK, Saving, streamVars, relayVars
<1>9. ASSUME NEW a \in Agents, NEW c \in Chats, SendAccepted(a, c) PROVE TypeInv'
  <2> DEFINE to == {s \in Streams : sse[s] \in {"counted", "open"} /\ Match(Pattern[s], c)}
  <2>1. [from |-> a, to |-> to] \in [from : Agents, to : SUBSET Streams]
    OBVIOUS
  <2>2. sends' \in Seq([from : Agents, to : SUBSET Streams])
    BY <1>9, <2>1 DEF SendAccepted, TypeOK
  <2>3. [n |-> Len(sends) + 1, chat |-> c] \in EffectType
    BY DEF EffectType, TypeOK
  <2>4. effects' = [effects EXCEPT ![a] = Append(effects[a], [n |-> Len(sends) + 1, chat |-> c])]
    BY <1>9 DEF SendAccepted
  <2>5. effects' \in [Agents -> Seq(EffectType)] /\ \A b \in Agents : b # a => effects'[b] = effects[b]
    BY <2>3, <2>4 DEF TypeOK
  <2>6. script[a] # "saved" /\ UNCHANGED <<script, scripts, waits, chat, armed, row, dropped,
                                           streamVars, relayVars, service, log, rows, faults>>
    BY <1>9 DEF SendAccepted
  <2> QED BY <2>2, <2>5, <2>6 DEF TypeOK, Saving, streamVars, relayVars
<1>10. ASSUME NEW a \in Agents, ScriptRaises(a) PROVE TypeInv'
  BY <1>10 DEF ScriptRaises, TypeOK, Saving, streamVars, relayVars
<1>11. ASSUME NEW a \in Agents, ScriptEnds(a) PROVE TypeInv'
  BY <1>11 DEF ScriptEnds, TypeOK, Saving, streamVars, relayVars
<1>12. ASSUME NEW a \in Agents, WaitStep(a) PROVE TypeInv'
  <2>1. /\ script' \in [Agents -> ScriptPhases] /\ armed' \in [Agents -> Nat]
        /\ \A b \in Agents : script'[b] = "saved" => script[b] = "saved"
    <3>1. /\ script' = [script EXCEPT ![a] = "running"]
             \/ script' = [script EXCEPT ![a] = "waiting"]
             \/ script' = [script EXCEPT ![a] = "armed"]
          /\ armed' = armed \/ armed' = [armed EXCEPT ![a] = 0]
             \/ armed' = [armed EXCEPT ![a] = notified]
      BY <1>12 DEF WaitStep, WaitChecks, WaitWakes, WaitTimesOut
    <3>2. armed' \in [Agents -> Nat]
      <4>1. armed \in [Agents -> Nat] /\ notified \in Nat
        BY DEF TypeOK
      <4> QED BY <3>1, <4>1
    <3> QED BY <3>1, <3>2 DEF TypeOK
  <2>2. UNCHANGED <<scripts, waits, chat, effects, row, sends, dropped, streamVars, relayVars,
                    service, log, rows, faults>>
    BY <1>12 DEF WaitStep, WaitChecks, WaitWakes, WaitTimesOut
  <2> QED BY <2>1, <2>2 DEF TypeOK, Saving, streamVars, relayVars
<1>13. ASSUME NEW a \in Agents, SaveOutbound(a) PROVE TypeInv'
  <2>1. rows' \in Nat /\ row' \in [Agents -> Nat]
    <3>1. rows \in Nat /\ row \in [Agents -> Nat]
      BY DEF TypeOK
    <3>2. \/ rows' = rows + 1 /\ row' = [row EXCEPT ![a] = rows + 1]
          \/ rows' = rows /\ row' = [row EXCEPT ![a] = 0]
      BY <1>13 DEF SaveOutbound
    <3> QED BY <3>1, <3>2
  <2>2. /\ effects[a] # <<>> /\ script' = [script EXCEPT ![a] = "saved"]
        /\ UNCHANGED <<scripts, waits, chat, armed, effects, sends, dropped, streamVars,
                       relayVars, service, log>>
    BY <1>13 DEF SaveOutbound
  <2> QED BY <2>1, <2>2 DEF TypeOK, Saving, streamVars, relayVars
<1>14. ASSUME NEW a \in Agents, Broadcast(a) PROVE TypeInv'
  <2>1. effects[a] \in Seq(EffectType) /\ effects[a] # <<>>
    BY <1>14 DEF Broadcast, TypeOK, Saving
  <2>2. Head(effects[a]) \in EffectType /\ Tail(effects[a]) \in Seq(EffectType)
    BY <2>1
  <2>3. Message(Head(effects[a]), row[a]) \in LogType
    BY <2>2 DEF Message, LogType, EffectType, TypeOK
  <2>4. log' \in Seq(LogType)
    BY <1>14, <2>3 DEF Broadcast, TypeOK
  <2>5. /\ effects' \in [Agents -> Seq(EffectType)]
        /\ \A b \in Agents : b # a => effects'[b] = effects[b]
    BY <1>14, <2>2 DEF Broadcast, TypeOK
  <2> QED BY <1>14, <2>4, <2>5 DEF Broadcast, TypeOK, Saving, streamVars, relayVars
<1>15. ASSUME NEW a \in Agents, Applied(a) PROVE TypeInv'
  BY <1>15 DEF Applied, TypeOK, Saving, streamVars, relayVars
<1>16. CASE UNCHANGED vars
  BY <1>16 DEF vars, TypeOK, Saving, streamVars, relayVars, scriptVars
<1> QED
  BY <1>1, <1>2, <1>3, <1>4, <1>5, <1>6, <1>7, <1>8, <1>9, <1>10, <1>11, <1>12, <1>13,
     <1>14, <1>15, <1>16 DEF Next, StreamStep, ScriptStep, ApplyStep

LEMMA InitTyped ==
  ASSUME Init
  PROVE  TypeInv
BY DEF Init, TypeInv, TypeOK, Saving, Phases, ScriptPhases

-----------------------------------------------------------------------------
(* The order of the rows.                                                  *)

(***************************************************************************)
(* The rows of the broadcast messages increase along the log, the row of   *)
(* the message the root is about to broadcast is beyond them, and what a   *)
(* bridge has given its service lies before its receiver's place.          *)
(***************************************************************************)
LogOrdered ==
  \A i, j \in DOMAIN log : i < j /\ log[i].id > 0 /\ log[j].id > 0 => log[i].id < log[j].id

LogStored == \A i \in DOMAIN log : log[i].id <= rows

RootNext ==
  script[Root] = "saved" /\ row[Root] > 0 =>
    row[Root] <= rows /\ \A i \in DOMAIN log : log[i].id < row[Root]

Behindhand ==
  \A s \in Streams :
    /\ pos[s] <= Len(log)
    /\ \A k \in DOMAIN service[s] : service[s][k] > 0 =>
         \E i \in DOMAIN log : i <= pos[s] /\ log[i].id = service[s][k]

OrderInv == LogOrdered /\ LogStored /\ RootNext /\ Behindhand /\ ServiceInRowOrder

LEMMA LogIds ==
  ASSUME TypeInv
  PROVE  \A i \in DOMAIN log : log[i].id \in Nat
<1>1. log \in Seq(LogType)
  BY DEF TypeInv, TypeOK
<1>2. \A i \in DOMAIN log : log[i] \in LogType
  BY <1>1
<1> QED BY <1>2 DEF LogType

\* What a message at the end of the log does, when its row is beyond the others
LEMMA LogGrows ==
  ASSUME TypeInv, OrderInv, NEW m \in LogType, log' = Append(log, m),
         m.id > 0 => (m.id <= rows /\ \A i \in DOMAIN log : log[i].id < m.id),
         rows' = rows, UNCHANGED <<pos, service>>
  PROVE  /\ LogOrdered' /\ LogStored' /\ Behindhand' /\ ServiceInRowOrder'
         /\ \A i \in DOMAIN log' : log'[i].id = m.id \/ \E j \in DOMAIN log : log'[i].id = log[j].id
<1>1. /\ Len(log) \in Nat /\ DOMAIN log = 1..Len(log) /\ DOMAIN log' = 1..(Len(log) + 1)
      /\ Len(log') = Len(log) + 1
      /\ \A i \in DOMAIN log : log'[i] = log[i] /\ i \in DOMAIN log'
      /\ log'[Len(log) + 1] = m /\ m.id \in Nat /\ rows \in Nat
  BY DEF TypeInv, TypeOK, LogType
<1>2. \A i \in DOMAIN log' : i \in DOMAIN log \/ i = Len(log) + 1
  BY <1>1
<1>3. \A i \in DOMAIN log : log[i].id \in Nat
  BY LogIds
<1>4. LogStored'
  BY <1>1, <1>2, <1>3 DEF OrderInv, LogStored
<1>5. LogOrdered'
  <2> SUFFICES ASSUME NEW i \in DOMAIN log', NEW j \in DOMAIN log', i < j,
                      log'[i].id > 0, log'[j].id > 0
               PROVE  log'[i].id < log'[j].id
    BY DEF LogOrdered
  <2>1. i \in DOMAIN log /\ i \in Nat /\ j \in Nat
    BY <1>1
  <2>2. CASE j \in DOMAIN log
    BY <1>1, <2>1, <2>2 DEF OrderInv, LogOrdered
  <2>3. CASE j = Len(log) + 1
    BY <1>1, <2>1, <2>3
  <2> QED BY <1>2, <2>2, <2>3
<1>6. Behindhand'
  <2> SUFFICES ASSUME NEW s \in Streams
               PROVE  /\ pos[s] <= Len(log')
                      /\ \A k \in DOMAIN service[s] : service[s][k] > 0 =>
                           \E i \in DOMAIN log' : i <= pos[s] /\ log'[i].id = service[s][k]
    BY DEF Behindhand
  <2>1. pos[s] \in Nat
    BY DEF TypeInv, TypeOK
  <2> QED BY <1>1, <2>1 DEF OrderInv, Behindhand
<1>7. ServiceInRowOrder'
  BY DEF OrderInv, ServiceInRowOrder
<1> QED BY <1>1, <1>2, <1>4, <1>5, <1>6, <1>7

LEMMA OrderStep ==
  ASSUME TypeInv, OrderInv, [Next]_vars
  PROVE  OrderInv'
<1>0. /\ rows \in Nat /\ row[Root] \in Nat /\ row \in [Agents -> Nat] /\ Len(log) \in Nat
      /\ \A i \in DOMAIN log : log[i].id \in Nat
      /\ pos \in [Streams -> Nat] /\ DOMAIN log = 1..Len(log)
      /\ script \in [Agents -> ScriptPhases] /\ Root \in Agents
  BY AgentsAssumption, LogIds DEF TypeInv, TypeOK
<1> DEFINE Kept == UNCHANGED <<log, rows, pos, service>>
<1>1. ASSUME Kept, script'[Root] = "saved" => script[Root] = "saved" /\ row'[Root] = row[Root]
      PROVE  OrderInv'
  <2>1. RootNext'
    BY <1>1 DEF OrderInv, RootNext
  <2> QED BY <1>1, <2>1 DEF OrderInv, LogOrdered, LogStored, Behindhand, ServiceInRowOrder
<1>2. ASSUME NEW s \in Streams, Subscribe(s) \/ StreamLags(s) PROVE OrderInv'
  <2>1. UNCHANGED <<log, rows, service, script, row>>
    BY <1>2 DEF Subscribe, StreamLags, scriptVars
  <2>2. \A t \in Streams : pos[t] <= pos'[t] /\ pos'[t] <= Len(log)
    <3>1. \A t \in Streams : pos[t] \in Nat /\ pos[t] <= Len(log)
      BY <1>0 DEF OrderInv, Behindhand
    <3>2. CASE Subscribe(s)
      BY <1>0, <3>1, <3>2 DEF Subscribe
    <3>3. CASE StreamLags(s)
      <4>1. Len(log) - Ring \in Int /\ Len(log) - Ring > pos[s] /\ Len(log) - Ring <= Len(log)
        BY <1>0, <3>1, <3>3, BoundsAssumption DEF StreamLags, Behind
      <4> QED BY <1>0, <3>1, <3>3, <4>1 DEF StreamLags
    <3> QED BY <1>2, <3>2, <3>3
  <2>3. Behindhand'
    <3>1. ASSUME NEW t \in Streams, NEW k \in DOMAIN service[t], service[t][k] > 0
          PROVE  \E i \in DOMAIN log : i <= pos'[t] /\ log[i].id = service[t][k]
      <4>1. PICK i \in DOMAIN log : i <= pos[t] /\ log[i].id = service[t][k]
        BY <3>1 DEF OrderInv, Behindhand
      <4>2. i \in Nat /\ pos[t] \in Nat /\ pos[t] <= pos'[t] /\ pos'[t] \in Nat
        <5>1. pos' \in [Streams -> Nat]
          BY StepTyped DEF TypeInv, TypeOK
        <5> QED BY <1>0, <2>2, <5>1
      <4> QED BY <4>1, <4>2
    <3> QED BY <2>1, <2>2, <3>1 DEF Behindhand
  <2> QED BY <2>1, <2>3 DEF OrderInv, LogOrdered, LogStored, RootNext, ServiceInRowOrder
<1>3. ASSUME NEW s \in Streams, StreamNext(s) PROVE OrderInv'
  <2> DEFINE n == pos[s] + 1
             m == log[n]
  <2>1. /\ pos[s] \in Nat /\ n \in DOMAIN log /\ n \in Nat /\ m.id \in Nat
        /\ pos' = [pos EXCEPT ![s] = n]
        /\ UNCHANGED <<log, rows, script, row>>
    BY <1>0, <1>3 DEF StreamNext, scriptVars
  <2>2. \/ service' = service
        \/ service' = [service EXCEPT ![s] = Append(service[s], m.id)]
    BY <1>3 DEF StreamNext
  <2>3. /\ service \in [Streams -> Seq(Nat)] /\ service[s] \in Seq(Nat)
        /\ \A t \in Streams : t # s => pos'[t] = pos[t] /\ service'[t] = service[t]
        /\ pos'[s] = n
    BY <1>0, <2>1, <2>2 DEF TypeInv, TypeOK
  <2> HIDE DEF m
  <2>4. \A k \in DOMAIN service'[s] :
          \/ k \in DOMAIN service[s] /\ service'[s][k] = service[s][k]
          \/ k = Len(service[s]) + 1 /\ service'[s][k] = m.id
    <3>1. service'[s] = service[s] \/ service'[s] = Append(service[s], m.id)
      BY <2>2, <2>3
    <3>2. CASE service'[s] = Append(service[s], m.id)
      <4>1. service[s] \in Seq(Nat) /\ Len(service[s]) \in Nat /\ m.id \in Nat
        BY <2>1, <2>3
      <4>2. DOMAIN Append(service[s], m.id) = 1..(Len(service[s]) + 1)
        BY <4>1
      <4>3. \A k \in 1..(Len(service[s]) + 1) :
              \/ k \in DOMAIN service[s] /\ Append(service[s], m.id)[k] = service[s][k]
              \/ k = Len(service[s]) + 1 /\ Append(service[s], m.id)[k] = m.id
        BY <4>1
      <4> QED BY <3>2, <4>2, <4>3
    <3> QED BY <3>1, <3>2
  <2>5. Behindhand'
    <3>1. \A t \in Streams : t # s => /\ pos'[t] <= Len(log)
            /\ \A k \in DOMAIN service'[t] : service'[t][k] > 0 =>
                 \E i \in DOMAIN log : i <= pos'[t] /\ log[i].id = service'[t][k]
      <4> SUFFICES ASSUME NEW t \in Streams, t # s
                   PROVE  /\ pos'[t] <= Len(log)
                          /\ \A k \in DOMAIN service'[t] : service'[t][k] > 0 =>
                               \E i \in DOMAIN log : i <= pos'[t] /\ log[i].id = service'[t][k]
        OBVIOUS
      <4>1. pos'[t] = pos[t] /\ service'[t] = service[t]
        BY <2>3
      <4>2. /\ pos[t] <= Len(log)
            /\ \A k \in DOMAIN service[t] : service[t][k] > 0 =>
                 \E i \in DOMAIN log : i <= pos[t] /\ log[i].id = service[t][k]
        BY DEF OrderInv, Behindhand
      <4> HIDE DEF OrderInv
      <4> QED BY <4>1, <4>2
    <3>2. pos'[s] <= Len(log)
      BY <1>0, <2>1, <2>3
    <3>3. ASSUME NEW k \in DOMAIN service'[s], service'[s][k] > 0
          PROVE  \E i \in DOMAIN log : i <= pos'[s] /\ log[i].id = service'[s][k]
      <4>1. CASE k \in DOMAIN service[s] /\ service'[s][k] = service[s][k]
        <5>1. PICK i \in DOMAIN log : i <= pos[s] /\ log[i].id = service[s][k]
          BY <3>3, <4>1 DEF OrderInv, Behindhand
        <5>2. i \in Nat /\ i <= n
          BY <1>0, <2>1, <5>1
        <5> QED BY <2>3, <4>1, <5>1, <5>2
      <4>2. CASE service'[s][k] = m.id
        BY <2>1, <2>3, <4>2 DEF m
      <4> QED BY <2>4, <4>1, <4>2
    <3> QED BY <2>1, <3>1, <3>2, <3>3 DEF Behindhand
  <2>6. ServiceInRowOrder'
    <3>1. \A t \in Streams : t # s => \A k, l \in DOMAIN service'[t] :
            k < l /\ service'[t][k] > 0 /\ service'[t][l] > 0 => service'[t][k] < service'[t][l]
      BY <2>3 DEF OrderInv, ServiceInRowOrder
    <3>2. ASSUME NEW k \in DOMAIN service'[s], NEW l \in DOMAIN service'[s], k < l,
                 service'[s][k] > 0, service'[s][l] > 0
          PROVE  service'[s][k] < service'[s][l]
      <4>1. Len(service[s]) \in Nat /\ DOMAIN service[s] = 1..Len(service[s])
        BY <2>3
      <4>2. k \in DOMAIN service[s] /\ service'[s][k] = service[s][k]
        BY <2>4, <3>2, <4>1
      <4>3. CASE l \in DOMAIN service[s] /\ service'[s][l] = service[s][l]
        BY <3>2, <4>2, <4>3 DEF OrderInv, ServiceInRowOrder
      <4>4. CASE service'[s][l] = m.id
        <5>1. PICK i \in DOMAIN log : i <= pos[s] /\ log[i].id = service[s][k]
          BY <3>2, <4>2 DEF OrderInv, Behindhand
        <5>2. i < n
          BY <1>0, <2>1, <5>1
        <5>3. log[i].id > 0 /\ m.id > 0
          BY <3>2, <4>2, <4>4, <5>1
        <5> QED BY <2>1, <4>2, <4>4, <5>1, <5>2, <5>3 DEF OrderInv, LogOrdered, m
      <4> QED BY <2>4, <4>3, <4>4
    <3> QED BY <3>1, <3>2 DEF ServiceInRowOrder
  <2> QED BY <2>1, <2>5, <2>6 DEF OrderInv, LogOrdered, LogStored, RootNext
<1>4. ASSUME NEW s \in Streams, Register(s) \/ DropGuard(s) \/ BridgeExits(s) PROVE OrderInv'
  <2>1. Kept /\ UNCHANGED <<script, row>>
    BY <1>4 DEF Register, DropGuard, BridgeExits, relayVars, scriptVars
  <2> QED BY <1>1, <2>1
<1>5. ASSUME NEW a \in Agents, StartScript(a) PROVE OrderInv'
  <2> DEFINE m == [n |-> 0, chat |-> <<>>, id |-> 0, status |-> TRUE]
  <2>1. /\ UNCHANGED <<rows, pos, service, row>> /\ script[a] = "idle"
        /\ script' = [script EXCEPT ![a] = "running"]
    BY <1>5 DEF StartScript, relayVars
  <2>2. CASE a = Root
    <3>1. log' = Append(log, m) /\ m \in LogType /\ m.id = 0
      BY <1>5, <2>2 DEF StartScript, LogType
    <3> HIDE DEF m
    <3>2. LogOrdered' /\ LogStored' /\ Behindhand' /\ ServiceInRowOrder'
      BY <2>1, <3>1, LogGrows
    <3>3. RootNext'
      BY <1>0, <2>1, <2>2 DEF RootNext
    <3> QED BY <3>2, <3>3 DEF OrderInv
  <2>3. CASE a # Root
    <3>1. log' = log /\ script'[Root] = script[Root]
      BY <1>0, <1>5, <2>1, <2>3 DEF StartScript
    <3> QED BY <1>1, <2>1, <3>1
  <2> QED BY <2>2, <2>3
<1>6. ASSUME NEW a \in Agents, NEW c \in Chats, WaitArms(a, c) \/ SendAccepted(a, c) PROVE OrderInv'
  <2>1. Kept /\ UNCHANGED row /\ (script' = script \/ script' = [script EXCEPT ![a] = "armed"])
    BY <1>6 DEF WaitArms, SendAccepted, relayVars
  <2>2. script'[Root] = "saved" => script[Root] = "saved"
    BY <1>0, <2>1
  <2> QED BY <1>1, <2>1, <2>2
<1>7. ASSUME NEW a \in Agents, ScriptRaises(a) \/ ScriptEnds(a) \/ WaitStep(a) \/ Applied(a)
      PROVE  OrderInv'
  <2>1. /\ Kept /\ UNCHANGED row
        /\ \E ph \in {"idle", "applying", "running", "waiting", "armed"} :
             script' = [script EXCEPT ![a] = ph]
    BY <1>7 DEF ScriptRaises, ScriptEnds, WaitStep, WaitChecks, WaitWakes, WaitTimesOut,
                Applied, relayVars
  <2>2. script'[Root] = "saved" => script[Root] = "saved"
    BY <1>0, <2>1
  <2> QED BY <1>1, <2>1, <2>2
<1>8. ASSUME NEW a \in Agents, SaveOutbound(a) PROVE OrderInv'
  <2>1. UNCHANGED <<pos, service, log>> /\ script' = [script EXCEPT ![a] = "saved"]
    BY <1>8 DEF SaveOutbound, relayVars
  <2>2. \/ rows' = rows + 1 /\ row' = [row EXCEPT ![a] = rows + 1]
        \/ rows' = rows /\ row' = [row EXCEPT ![a] = 0]
    BY <1>8 DEF SaveOutbound
  <2>3. rows <= rows' /\ rows' \in Nat
    BY <1>0, <2>2
  <2>4. LogStored'
    <3>1. \A i \in DOMAIN log : log[i].id <= rows
      BY DEF OrderInv, LogStored
    <3> QED BY <1>0, <2>1, <2>3, <3>1 DEF LogStored
  <2>5. RootNext'
    <3>1. CASE a = Root
      <4>1. CASE rows' = rows + 1 /\ row' = [row EXCEPT ![a] = rows + 1]
        <5>1. row'[Root] = rows + 1
          BY <1>0, <3>1, <4>1
        <5>2. \A i \in DOMAIN log : log[i].id < rows + 1
          BY <1>0 DEF OrderInv, LogStored
        <5> QED BY <1>0, <2>1, <4>1, <5>1, <5>2 DEF RootNext
      <4>2. CASE row' = [row EXCEPT ![a] = 0]
        BY <1>0, <3>1, <4>2 DEF RootNext
      <4> QED BY <2>2, <4>1, <4>2
    <3>2. CASE a # Root
      <4>1. script'[Root] = script[Root] /\ row'[Root] = row[Root]
        BY <1>0, <2>1, <2>2, <3>2
      <4> QED BY <1>0, <2>1, <2>3, <4>1 DEF OrderInv, RootNext
    <3> QED BY <3>1, <3>2
  <2> QED BY <2>1, <2>4, <2>5 DEF OrderInv, LogOrdered, Behindhand, ServiceInRowOrder
<1>9. ASSUME NEW a \in Agents, Broadcast(a) PROVE OrderInv'
  <2> DEFINE m == Message(Head(effects[a]), row[a])
  <2>1. /\ UNCHANGED <<rows, pos, service>> /\ script[a] = "saved"
        /\ row' = [row EXCEPT ![a] = 0] /\ script' = [script EXCEPT ![a] = "applying"]
    BY <1>9 DEF Broadcast, relayVars
  <2>2. CASE a = Root
    <3>1. log' = Append(log, m)
      BY <1>9, <2>2 DEF Broadcast
    <3>2. effects[a] \in Seq(EffectType) /\ effects[a] # <<>>
      BY <2>1 DEF TypeInv, TypeOK, Saving
    <3>3. Head(effects[a]) \in EffectType
      BY <3>2
    <3>4. m \in LogType /\ m.id = row[Root]
      BY <1>0, <2>2, <3>3 DEF Message, LogType, EffectType
    <3> HIDE DEF m
    <3>5. m.id > 0 => (m.id <= rows /\ \A i \in DOMAIN log : log[i].id < m.id)
      BY <2>1, <2>2, <3>4 DEF OrderInv, RootNext
    <3>6. LogOrdered' /\ LogStored' /\ Behindhand' /\ ServiceInRowOrder'
      BY <2>1, <3>1, <3>4, <3>5, LogGrows
    <3>7. RootNext'
      BY <1>0, <2>1, <2>2 DEF RootNext
    <3> QED BY <3>6, <3>7 DEF OrderInv
  <2>3. CASE a # Root
    <3>1. log' = log /\ script'[Root] = script[Root] /\ row'[Root] = row[Root]
      BY <1>0, <1>9, <2>1, <2>3 DEF Broadcast
    <3> QED BY <1>1, <2>1, <3>1
  <2> QED BY <2>2, <2>3
<1>10. CASE UNCHANGED vars
  <2>1. Kept /\ UNCHANGED <<script, row>>
    BY <1>10 DEF vars, relayVars, scriptVars
  <2> QED BY <1>1, <2>1
<1> QED
  BY <1>2, <1>3, <1>4, <1>5, <1>6, <1>7, <1>8, <1>9, <1>10
     DEF Next, StreamStep, ScriptStep, ApplyStep

(***************************************************************************)
(* Whatever agents, bridges and failures there are, a bridge's service     *)
(* gets the messages that have a row in the order of their rows, and none  *)
(* twice: the root stores and broadcasts one message after the other, and  *)
(* a receiver goes through the channel in its order.                       *)
(***************************************************************************)
THEOREM ServedInRowOrder == Spec => []ServiceInRowOrder
<1>1. Init => TypeInv
  BY InitTyped
<1>2. Init => OrderInv
  BY AgentsAssumption DEF Init, OrderInv, LogOrdered, LogStored, RootNext, Behindhand, ServiceInRowOrder
<1>3. TypeInv /\ OrderInv /\ [Next]_vars => TypeInv' /\ OrderInv'
  BY StepTyped, OrderStep
<1>4. OrderInv => ServiceInRowOrder
  BY DEF OrderInv
<1> QED
  BY <1>1, <1>2, <1>3, <1>4, PTL DEF Spec

-----------------------------------------------------------------------------
(* The counts of the registry and the waits.                               *)

Connected == {"counted", "open", "gone"}

\* The streams that register has counted under a key and drop not yet uncounted
Holders(k, b) ==
  {s \in Streams : sse[s] \in Connected /\ Pattern[s].prefix = b /\ Pattern[s].key = k}

\* The two maps count them.
CountsInv ==
  \A k \in Keys :
    /\ IsFiniteSet(Holders(k, FALSE)) /\ exact[k] = Cardinality(Holders(k, FALSE))
    /\ IsFiniteSet(Holders(k, TRUE)) /\ prefix[k] = Cardinality(Holders(k, TRUE))

\* A script that waits has been notified since it armed, or there is no stream
\* it could miss: the check came after the arming.
WaitInv ==
  \A a \in Agents :
    /\ armed[a] <= notified
    /\ script[a] = "waiting" /\ notified = armed[a]
         => Listening(chat[a], {"open", "gone"}) = {}

LEMMA PositiveCount ==
  ASSUME NEW S, IsFiniteSet(S)
  PROVE  Cardinality(S) > 0 <=> S # {}
<1>1. Cardinality(S) \in Nat /\ (Cardinality(S) = 0 <=> S = {})
  BY FS_CardinalityType, FS_EmptySet
<1> QED BY <1>1

\* would_reach is about the streams, not only about the counts.
LEMMA ReachesStreams ==
  ASSUME TypeInv, CountsInv, NEW c
  PROVE  WouldReach(c) <=> Listening(c, Connected) # {}
<1>1. ASSUME NEW k \in Keys
      PROVE  /\ exact[k] > 0 <=> Holders(k, FALSE) # {}
             /\ prefix[k] > 0 <=> Holders(k, TRUE) # {}
  BY PositiveCount DEF CountsInv
<1>2. ASSUME WouldReach(c) PROVE Listening(c, Connected) # {}
  <2>1. CASE c \in Keys /\ exact[c] > 0
    <3>1. PICK s : s \in Holders(c, FALSE)
      BY <1>1, <2>1
    <3>2. s \in Streams /\ sse[s] \in Connected /\ ~Pattern[s].prefix /\ Pattern[s].key = c
      BY <3>1 DEF Holders
    <3> QED BY <3>2 DEF Listening, Match
  <2>2. CASE \E k \in Keys : prefix[k] > 0 /\ IsPrefix(k, c)
    <3>1. PICK k \in Keys : prefix[k] > 0 /\ IsPrefix(k, c)
      BY <2>2
    <3>2. PICK s : s \in Holders(k, TRUE)
      BY <1>1, <3>1
    <3>3. s \in Streams /\ sse[s] \in Connected /\ Pattern[s].prefix /\ Pattern[s].key = k
      BY <3>2 DEF Holders
    <3>4. Match(Pattern[s], c)
      BY <3>1, <3>3, Zenon DEF Match
    <3> QED BY <3>3, <3>4 DEF Listening
  <2> QED BY <1>2, <2>1, <2>2 DEF WouldReach
<1>3. ASSUME NEW s \in Listening(c, Connected) PROVE WouldReach(c)
  <2>1. s \in Streams /\ sse[s] \in Connected /\ Match(Pattern[s], c)
    BY DEF Listening
  <2>2. Pattern[s].key \in Keys /\ Pattern[s].prefix \in BOOLEAN
    BY <2>1, KeyOfStream
  <2>3. CASE Pattern[s].prefix
    <3>1. IsPrefix(Pattern[s].key, c)
      BY <2>1, <2>3, Zenon DEF Match
    <3>2. Holders(Pattern[s].key, TRUE) # {}
      BY <2>1, <2>2, <2>3 DEF Holders
    <3>3. prefix[Pattern[s].key] > 0
      BY <1>1, <2>2, <3>2
    <3> QED BY <2>2, <3>1, <3>3, Zenon DEF WouldReach
  <2>4. CASE ~Pattern[s].prefix
    <3>1. Pattern[s].key = c
      BY <2>1, <2>4 DEF Match
    <3>2. Holders(c, FALSE) # {}
      BY <2>1, <2>2, <2>4, <3>1 DEF Holders
    <3>3. c \in Keys /\ exact[c] > 0
      BY <1>1, <2>2, <3>1, <3>2
    <3> QED BY <3>3, Zenon DEF WouldReach
  <2> QED BY <2>2, <2>3, <2>4
<1> QED BY <1>2, <1>3

\* A stream enters or leaves the counted ones.
LEMMA HoldersChange ==
  ASSUME TypeInv, NEW s \in Streams, NEW ph \in Phases, sse' = [sse EXCEPT ![s] = ph],
         NEW k, NEW b \in BOOLEAN
  PROVE  LET H == Holders(k, b)
             mine == Pattern[s].key = k /\ Pattern[s].prefix = b
         IN  /\ ~mine \/ (ph \in Connected <=> sse[s] \in Connected) => Holders(k, b)' = H
             /\ mine /\ ph \in Connected /\ sse[s] \notin Connected
                  => Holders(k, b)' = H \cup {s} /\ s \notin H
             /\ mine /\ ph \notin Connected /\ sse[s] \in Connected
                  => Holders(k, b)' = H \ {s} /\ s \in H
<1>1. \A t \in Streams : sse'[t] = IF t = s THEN ph ELSE sse[t]
  BY DEF TypeInv, TypeOK
<1> QED BY <1>1 DEF Holders

LEMMA CountsChange ==
  ASSUME TypeInv, CountsInv, NEW s \in Streams, NEW ph \in Phases, NEW n \in {1, -1},
         sse' = [sse EXCEPT ![s] = ph], Counted(Pattern[s], n),
         n = 1 => ph \in Connected /\ sse[s] \notin Connected,
         n = -1 => ph \notin Connected /\ sse[s] \in Connected
  PROVE  CountsInv'
<1> DEFINE key == Pattern[s].key
           pre == Pattern[s].prefix
           mine(k, b) == key = k /\ pre = b
<1>1. key \in Keys /\ pre \in BOOLEAN
  BY KeyOfStream
<1>2. ASSUME NEW k \in Keys, NEW b \in BOOLEAN
      PROVE  /\ IsFiniteSet(Holders(k, b)')
             /\ Cardinality(Holders(k, b)')
                  = IF mine(k, b) THEN Cardinality(Holders(k, b)) + n
                    ELSE Cardinality(Holders(k, b))
  <2>1. IsFiniteSet(Holders(k, b)) /\ Cardinality(Holders(k, b)) \in Nat
    BY FS_CardinalityType DEF CountsInv
  <2>2. CASE ~mine(k, b)
    <3>1. Holders(k, b)' = Holders(k, b)
      BY <2>2, HoldersChange
    <3> QED BY <2>1, <2>2, <3>1
  <2>3. CASE mine(k, b) /\ n = 1
    <3>1. Holders(k, b)' = Holders(k, b) \cup {s} /\ s \notin Holders(k, b)
      BY <2>3, HoldersChange
    <3> QED BY <2>1, <2>3, <3>1, FS_AddElement
  <2>4. CASE mine(k, b) /\ n = -1
    <3>1. Holders(k, b)' = Holders(k, b) \ {s} /\ s \in Holders(k, b)
      BY <2>4, HoldersChange
    <3>2. IsFiniteSet(Holders(k, b) \ {s})
          /\ Cardinality(Holders(k, b) \ {s}) = Cardinality(Holders(k, b)) - 1
      BY <2>1, <3>1, FS_RemoveElement
    <3> QED BY <2>1, <2>4, <3>1, <3>2
  <2> QED BY <2>2, <2>3, <2>4
<1>3. exact \in [Keys -> Int] /\ prefix \in [Keys -> Int]
  BY DEF TypeInv, TypeOK
<1> SUFFICES ASSUME NEW k \in Keys
             PROVE  exact'[k] = Cardinality(Holders(k, FALSE)') /\ prefix'[k] = Cardinality(Holders(k, TRUE)')
  BY <1>2 DEF CountsInv
<1>4. exact[k] = Cardinality(Holders(k, FALSE)) /\ prefix[k] = Cardinality(Holders(k, TRUE))
  BY DEF CountsInv
<1>5. CASE pre
  <2>1. exact' = exact /\ prefix' = [prefix EXCEPT ![key] = prefix[key] + n]
    BY <1>5 DEF Counted
  <2>2. ~mine(k, FALSE) /\ (mine(k, TRUE) <=> key = k)
    BY <1>1, <1>5
  <2>3. Cardinality(Holders(k, FALSE)') = exact[k]
    BY <1>2, <1>4, <2>2
  <2>4. Cardinality(Holders(k, TRUE)') = IF key = k THEN prefix[k] + n ELSE prefix[k]
    BY <1>2, <1>4, <2>2
  <2>5. prefix'[k] = IF key = k THEN prefix[k] + n ELSE prefix[k]
    BY <1>1, <1>3, <2>1
  <2> QED BY <2>1, <2>3, <2>4, <2>5
<1>6. CASE ~pre
  <2>1. prefix' = prefix /\ exact' = [exact EXCEPT ![key] = exact[key] + n]
    BY <1>6 DEF Counted
  <2>2. ~mine(k, TRUE) /\ (mine(k, FALSE) <=> key = k)
    BY <1>1, <1>6
  <2>3. Cardinality(Holders(k, TRUE)') = prefix[k]
    BY <1>2, <1>4, <2>2
  <2>4. Cardinality(Holders(k, FALSE)') = IF key = k THEN exact[k] + n ELSE exact[k]
    BY <1>2, <1>4, <2>2
  <2>5. exact'[k] = IF key = k THEN exact[k] + n ELSE exact[k]
    BY <1>1, <1>3, <2>1
  <2> QED BY <2>1, <2>3, <2>4, <2>5
<1> QED BY <1>5, <1>6

LEMMA CountsStep ==
  ASSUME TypeInv, CountsInv, [Next]_vars
  PROVE  CountsInv'
<1> USE DEF Phases
<1>0. sse \in [Streams -> Phases]
  BY DEF TypeInv, TypeOK
<1>1. ASSUME UNCHANGED <<sse, exact, prefix>> PROVE CountsInv'
  BY <1>1 DEF CountsInv, Holders
<1>2. ASSUME NEW s \in Streams, NEW ph \in Phases, sse' = [sse EXCEPT ![s] = ph],
             ph \in Connected <=> sse[s] \in Connected, UNCHANGED <<exact, prefix>>
      PROVE  CountsInv'
  <2>1. ASSUME NEW k \in Keys, NEW b \in BOOLEAN PROVE Holders(k, b)' = Holders(k, b)
    <3> HIDE DEF Phases
    <3> QED BY <1>2, HoldersChange, Zenon
  <2> QED BY <1>2, <2>1 DEF CountsInv
<1>3. ASSUME NEW s \in Streams, Subscribe(s) PROVE CountsInv'
  BY <1>2, <1>3 DEF Subscribe, Connected
<1>4. ASSUME NEW s \in Streams, BridgeExits(s) PROVE CountsInv'
  BY <1>2, <1>4 DEF BridgeExits, Connected
<1>5. ASSUME NEW s \in Streams, Register(s) PROVE CountsInv'
  <2>1. CASE /\ sse[s] = "subscribed" /\ sse' = [sse EXCEPT ![s] = "counted"]
             /\ Counted(Pattern[s], 1)
    <3>1. /\ "counted" \in Phases /\ "counted" \in Connected /\ sse[s] \notin Connected
          /\ 1 \in {1, -1} /\ 1 # -1
      BY <2>1 DEF Connected
    <3> HIDE DEF Phases
    <3> QED BY <2>1, <3>1, CountsChange
  <2>2. CASE /\ sse[s] = "counted" /\ sse' = [sse EXCEPT ![s] = "open"]
             /\ UNCHANGED <<exact, prefix>>
    BY <1>2, <2>2 DEF Connected
  <2> QED BY <1>5, <2>1, <2>2 DEF Register
<1>6. ASSUME NEW s \in Streams, DropGuard(s) PROVE CountsInv'
  <2>1. /\ sse[s] \in Connected /\ "closed" \in Phases /\ "closed" \notin Connected
        /\ -1 \in {1, -1} /\ -1 # 1
    BY <1>6 DEF DropGuard, Connected
  <2>2. sse' = [sse EXCEPT ![s] = "closed"] /\ Counted(Pattern[s], -1)
    BY <1>6 DEF DropGuard
  <2> HIDE DEF Phases
  <2> QED BY <2>1, <2>2, CountsChange
<1>7. ASSUME NEW s \in Streams, StreamLags(s) \/ StreamNext(s) PROVE CountsInv'
  <2>1. UNCHANGED <<sse, exact, prefix>>
    BY <1>7 DEF StreamLags, StreamNext, streamVars
  <2> QED BY <1>1, <2>1
<1>8. ASSUME NEW a \in Agents, ScriptStep(a) \/ WaitStep(a) \/ ApplyStep(a) PROVE CountsInv'
  <2>1. UNCHANGED <<sse, exact, prefix>>
    BY <1>8 DEF ScriptStep, WaitStep, ApplyStep, StartScript, WaitArms, SendAccepted,
                ScriptRaises, ScriptEnds, WaitChecks, WaitWakes, WaitTimesOut, SaveOutbound,
                Broadcast, Applied, streamVars
  <2> QED BY <1>1, <2>1
<1>9. CASE UNCHANGED vars
  BY <1>1, <1>9 DEF vars, streamVars
<1> QED
  BY <1>3, <1>4, <1>5, <1>6, <1>7, <1>8, <1>9 DEF Next, StreamStep

LEMMA WaitInvStep ==
  ASSUME TypeInv, CountsInv, WaitInv, [Next]_vars
  PROVE  WaitInv'
<1>0. /\ sse \in [Streams -> Phases] /\ notified \in Nat /\ armed \in [Agents -> Nat]
      /\ script \in [Agents -> ScriptPhases]
      /\ chat \in [Agents -> Chats \cup {CHOOSE c \in Chats : TRUE}]
  BY DEF TypeInv, TypeOK
<1>1. ASSUME NEW s \in Streams, Subscribe(s) \/ BridgeExits(s) \/ DropGuard(s)
             \/ (Register(s) /\ notified' = notified) \/ StreamLags(s) \/ StreamNext(s)
      PROVE  WaitInv'
  <2>1. UNCHANGED <<notified, armed, script, chat>>
    BY <1>1 DEF Subscribe, BridgeExits, DropGuard, Register, StreamLags, StreamNext,
                streamVars, scriptVars
  <2>2. sse' = sse \/ \E ph \in Phases : /\ sse' = [sse EXCEPT ![s] = ph]
                                         /\ ph \in {"open", "gone"} => sse[s] = "open"
    <3>1. CASE Subscribe(s)
      BY <3>1 DEF Subscribe, Phases
    <3>2. CASE BridgeExits(s)
      BY <3>2 DEF BridgeExits, Phases
    <3>3. CASE DropGuard(s)
      BY <3>3 DEF DropGuard, Phases
    <3>4. CASE Register(s) /\ notified' = notified
      BY <1>0, <3>4 DEF Register, Phases
    <3>5. CASE StreamLags(s) \/ StreamNext(s)
      BY <3>5 DEF StreamLags, StreamNext, streamVars
    <3> QED BY <1>1, <3>1, <3>2, <3>3, <3>4, <3>5
  <2>3. \A t \in Streams : sse'[t] \in {"open", "gone"} => sse[t] \in {"open", "gone"}
    BY <1>0, <2>2
  <2>4. \A a \in Agents : Listening(chat[a], {"open", "gone"}) = {}
                            => Listening(chat[a], {"open", "gone"})' = {}
    BY <2>1, <2>3 DEF Listening
  <2> QED BY <2>1, <2>4 DEF WaitInv
<1>2. ASSUME NEW s \in Streams, Register(s), notified' # notified PROVE WaitInv'
  <2>1. notified' = notified + 1 /\ UNCHANGED <<armed, script, chat>>
    BY <1>2 DEF Register, scriptVars
  <2>2. \A a \in Agents : armed'[a] <= notified' /\ armed'[a] # notified'
    BY <1>0, <2>1 DEF WaitInv
  <2> QED BY <2>2 DEF WaitInv
<1>3. ASSUME NEW a \in Agents, UNCHANGED <<sse, notified>>,
             \A b \in Agents : b # a => script'[b] = script[b] /\ armed'[b] = armed[b]
                                        /\ chat'[b] = chat[b],
             armed'[a] \in {armed[a], 0, notified},
             script'[a] = "waiting" => Listening(chat'[a], {"open", "gone"}) = {}
      PROVE  WaitInv'
  <2>1. armed'[a] <= notified
    BY <1>0, <1>3 DEF WaitInv
  <2> QED BY <1>3, <2>1 DEF WaitInv, Listening
<1>4. ASSUME NEW a \in Agents, ScriptStep(a) \/ ApplyStep(a) PROVE WaitInv'
  <2>1. UNCHANGED <<sse, notified>>
    BY <1>4 DEF ScriptStep, ApplyStep, StartScript, WaitArms, SendAccepted, ScriptRaises,
                ScriptEnds, SaveOutbound, Broadcast, Applied, streamVars
  <2>2. \/ script' = script /\ script[a] = "running"
        \/ \E ph \in ScriptPhases \ {"waiting"} : script' = [script EXCEPT ![a] = ph]
    BY <1>4 DEF ScriptStep, ApplyStep, StartScript, WaitArms, SendAccepted, ScriptRaises,
                ScriptEnds, SaveOutbound, Broadcast, Applied, ScriptPhases
  <2>3. /\ armed' = armed \/ armed' = [armed EXCEPT ![a] = notified]
           \/ armed' = [armed EXCEPT ![a] = 0]
        /\ chat' = chat \/ \E c \in Chats : chat' = [chat EXCEPT ![a] = c]
    BY <1>4 DEF ScriptStep, ApplyStep, StartScript, WaitArms, SendAccepted, ScriptRaises,
                ScriptEnds, SaveOutbound, Broadcast, Applied
  <2>4. script'[a] # "waiting"
    BY <1>0, <2>2
  <2>5. \A b \in Agents : b # a => script'[b] = script[b] /\ armed'[b] = armed[b]
                                   /\ chat'[b] = chat[b]
    BY <1>0, <2>2, <2>3
  <2>6. armed'[a] \in {armed[a], 0, notified}
    BY <1>0, <2>3
  <2> QED BY <1>3, <2>1, <2>4, <2>5, <2>6
<1>5. ASSUME NEW a \in Agents, WaitChecks(a) PROVE WaitInv'
  <2>1. UNCHANGED <<sse, notified, chat>>
    BY <1>5 DEF WaitChecks, streamVars
  <2>2. \/ /\ script' = [script EXCEPT ![a] = "running"] /\ armed' = [armed EXCEPT ![a] = 0]
        \/ /\ ~WouldReach(chat[a]) /\ armed' = armed
           /\ script' = [script EXCEPT ![a] = "waiting"]
    BY <1>5 DEF WaitChecks
  <2>3. script'[a] = "waiting" => ~WouldReach(chat[a])
    BY <1>0, <2>2
  <2>4. ~WouldReach(chat[a]) => Listening(chat[a], {"open", "gone"}) = {}
    BY ReachesStreams DEF Listening, Connected
  <2>5. /\ \A b \in Agents : b # a => script'[b] = script[b] /\ armed'[b] = armed[b]
                                      /\ chat'[b] = chat[b]
        /\ armed'[a] \in {armed[a], 0, notified}
    BY <1>0, <2>1, <2>2
  <2> QED BY <1>3, <2>1, <2>3, <2>4, <2>5
<1>6. ASSUME NEW a \in Agents, WaitWakes(a) \/ WaitTimesOut(a) PROVE WaitInv'
  <2>1. UNCHANGED <<sse, notified, chat>>
    BY <1>6 DEF WaitWakes, WaitTimesOut, streamVars
  <2>2. \/ /\ script' = [script EXCEPT ![a] = "running"] /\ armed' = [armed EXCEPT ![a] = 0]
        \/ /\ script' = [script EXCEPT ![a] = "armed"] /\ armed' = [armed EXCEPT ![a] = notified]
    BY <1>6 DEF WaitWakes, WaitTimesOut
  <2>3. /\ \A b \in Agents : b # a => script'[b] = script[b] /\ armed'[b] = armed[b]
                                      /\ chat'[b] = chat[b]
        /\ armed'[a] \in {armed[a], 0, notified} /\ script'[a] # "waiting"
    BY <1>0, <2>1, <2>2
  <2> QED BY <1>3, <2>1, <2>3
<1>7. CASE UNCHANGED vars
  BY <1>7 DEF vars, streamVars, scriptVars, WaitInv, Listening
<1> QED
  BY <1>1, <1>2, <1>4, <1>5, <1>6, <1>7 DEF Next, StreamStep, WaitStep

(***************************************************************************)
(* wait_for_message_channel is right about the streams, for any number of  *)
(* agents that wait and of streams with any patterns that come and go: it  *)
(* times out only when no stream for the chat has finished registering and *)
(* not yet been dropped, and returns only when one is counted.  The counts *)
(* of the registry are the numbers of streams under each pattern, and a    *)
(* registration between the check and the sleep wakes the sleeper.         *)
(***************************************************************************)
THEOREM WaitsAreRight == Spec => WaitsRightly
<1>1. Init => TypeInv
  BY InitTyped
<1>2. Init => CountsInv /\ WaitInv
  <2> SUFFICES ASSUME Init PROVE CountsInv /\ WaitInv
    OBVIOUS
  <2>1. \A s \in Streams : sse[s] \in {"off", "closed"}
    BY DEF Init
  <2>2. \A k, b : Holders(k, b) = {}
    BY <2>1 DEF Holders, Connected
  <2>3. CountsInv
    BY <2>2, FS_EmptySet DEF Init, CountsInv
  <2>4. WaitInv
    BY DEF Init, WaitInv
  <2> QED BY <2>3, <2>4
<1>3. TypeInv /\ CountsInv /\ WaitInv /\ [Next]_vars => TypeInv' /\ CountsInv' /\ WaitInv'
  BY StepTyped, CountsStep, WaitInvStep
<1>4. TypeInv /\ CountsInv /\ WaitInv /\ [Next]_vars =>
        [\A a \in Agents :
           /\ WaitTimesOut(a) => Listening(chat[a], {"open", "gone"}) = {}
           /\ WaitChecks(a) /\ script'[a] = "running"
                => Listening(chat[a], {"counted", "open", "gone"}) # {}]_vars
  <2> SUFFICES ASSUME TypeInv, CountsInv, WaitInv, NEW a \in Agents
               PROVE  /\ WaitTimesOut(a) => Listening(chat[a], {"open", "gone"}) = {}
                      /\ WaitChecks(a) /\ script'[a] = "running"
                           => Listening(chat[a], {"counted", "open", "gone"}) # {}
    OBVIOUS
  <2>1. WaitTimesOut(a) => Listening(chat[a], {"open", "gone"}) = {}
    BY DEF WaitTimesOut, WaitInv
  <2>2. WaitChecks(a) /\ script'[a] = "running" => WouldReach(chat[a])
    BY DEF WaitChecks, TypeInv, TypeOK
  <2> QED BY <2>1, <2>2, ReachesStreams DEF Connected
<1> QED
  BY <1>1, <1>2, <1>3, <1>4, PTL DEF Spec, WaitsRightly
=============================================================================
