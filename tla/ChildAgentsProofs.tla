------------------------- MODULE ChildAgentsProofs -------------------------
(***************************************************************************)
(* Proofs about ChildAgents, for any set of names, any limits and any      *)
(* number of agents.                                                       *)
(***************************************************************************)
EXTENDS ChildAgents, SequenceTheorems, FiniteSetTheorems, TLAPS

AllNames == Names \cup {Root}

(***************************************************************************)
(* The inductive invariant.  RunningReachable needs to know what the forks *)
(* in progress will do:                                                    *)
(*  - channels are numbered below next, and the rest is untouched;         *)
(*  - no channel is registered under two names;                            *)
(*  - the names a fork has still to spawn are different, registered to     *)
(*    channels of its own that no task reads yet, and either they are in   *)
(*    the order of the channels that are left, or the limit is reached and *)
(*    none of those will be used.                                          *)
(***************************************************************************)
Numbered ==
  /\ \A a \in Agents : a >= next => status[a] = "free"
  /\ \A n \in AllNames : registry[n].to < next
  /\ \A n \in AllNames : ~registry[n].completed => registry[n].to \in Agents

OneName ==
  \A m, n \in AllNames : m # n /\ registry[m].to = registry[n].to
                           => registry[m].to = 0

Awaiting(p, n) ==
  /\ ~registry[n].completed
  /\ status[registry[n].to] = "registered"
  /\ parent[registry[n].to] = p

Aligned(p) ==
  /\ Len(channels[p]) = Len(forking[p])
  /\ \A i \in DOMAIN forking[p] : channels[p][i] = registry[forking[p][i]].to

ForkInProgress(p) ==
  /\ \A i \in DOMAIN forking[p] : Awaiting(p, forking[p][i])
  /\ \A i, j \in DOMAIN forking[p] : i # j => forking[p][i] # forking[p][j]
  /\ forking[p] # <<>> => Full(p) \/ Aligned(p)

ForksInProgress == \A p \in Agents : ForkInProgress(p)

ReachInv == TypeOK /\ Numbered /\ OneName /\ ForksInProgress /\ RunningReachable

-----------------------------------------------------------------------------
(* Facts about the operators.                                              *)

\* Taking the first name, or the first channel, off a list
LEMMA TakeFirst ==
  ASSUME NEW S, NEW s \in Seq(S), s # <<>>
  PROVE  /\ Head(s) = s[1] /\ 1 \in DOMAIN s /\ s[1] \in S
         /\ Tail(s) \in Seq(S) /\ Len(Tail(s)) = Len(s) - 1
         /\ \A i \in DOMAIN Tail(s) : i + 1 \in DOMAIN s /\ Tail(s)[i] = s[i + 1]
OBVIOUS

\* The fields of a registry entry
LEMMA EntryFields ==
  ASSUME TypeOK, NEW n \in AllNames
  PROVE  /\ registry[n] \in EntryType
         /\ registry[n].to \in 0..MaxAgents /\ registry[n].completed \in BOOLEAN
BY DEF TypeOK, EntryType, AllNames

\* deregister sets one flag and leaves every channel where it is.
LEMMA DeregisterEffect ==
  ASSUME TypeOK, NEW n \in AllNames
  PROVE  /\ Deregistered(n) \in [AllNames -> EntryType]
         /\ \A m \in AllNames : Deregistered(n)[m].to = registry[m].to
         /\ \A m \in AllNames : m # n => Deregistered(n)[m] = registry[m]
         /\ \A m \in AllNames : ~Deregistered(n)[m].completed
                                  => m # n /\ ~registry[m].completed
BY DEF TypeOK, Deregistered, EntryType, AllNames

\* A batch is a sequence of names.
LEMMA BatchType ==
  ASSUME NEW batch \in Batches
  PROVE  batch \in Seq(Names)
BY DEF Batches

\* A name a fork has still to spawn is not the name of a running agent.
LEMMA AwaitingNotRunning ==
  ASSUME ReachInv, NEW p \in Agents, NEW n \in AllNames, Awaiting(p, n)
  PROVE  /\ registry[n].to \in Agents
         /\ \A a \in Agents : status[a] \in {"running", "returned"}
              => name[a] # n /\ a # registry[n].to
<1>1. registry[n].to \in Agents
  BY DEF ReachInv, Numbered, Awaiting
<1>2. ASSUME NEW a \in Agents, status[a] \in {"running", "returned"}
      PROVE  name[a] # n /\ a # registry[n].to
  <2>1. registry[name[a]] = Entry(a, FALSE)
    BY <1>2 DEF ReachInv, RunningReachable
  <2>2. registry[name[a]].to = a
    BY <2>1 DEF Entry
  <2> QED
    BY <1>2, <2>2 DEF Awaiting
<1> QED
  BY <1>1, <1>2

\* Two names that forks have still to spawn have different channels.
LEMMA AwaitingDistinct ==
  ASSUME ReachInv, NEW p \in Agents, NEW m \in AllNames, NEW n \in AllNames,
         Awaiting(p, n), m # n
  PROVE  registry[m].to # registry[n].to
<1>1. registry[n].to \in Agents
  BY DEF ReachInv, Numbered, Awaiting
<1> QED
  BY <1>1, ChildrenAssumption DEF ReachInv, OneName, Agents

\* The pending names of two forks are different, and so are those of one.
LEMMA PendingNames ==
  ASSUME ReachInv, NEW p \in Agents, forking[p] # <<>>,
         NEW q \in Agents, NEW i \in DOMAIN forking[q]
  PROVE  /\ forking[p][1] \in AllNames /\ forking[q][i] \in AllNames
         /\ Awaiting(p, forking[p][1]) /\ Awaiting(q, forking[q][i])
         /\ q # p \/ i # 1 => /\ forking[q][i] # forking[p][1]
                              /\ registry[forking[q][i]].to # registry[forking[p][1]].to
<1>1. forking[p] \in Seq(Names) /\ forking[q] \in Seq(Names)
  BY DEF ReachInv, TypeOK
<1>2. 1 \in DOMAIN forking[p] /\ forking[p][1] \in AllNames /\ forking[q][i] \in AllNames
  BY <1>1, TakeFirst DEF AllNames
<1>3. Awaiting(p, forking[p][1]) /\ Awaiting(q, forking[q][i])
  BY <1>2 DEF ReachInv, ForksInProgress, ForkInProgress
<1>4. ASSUME q # p \/ i # 1 PROVE forking[q][i] # forking[p][1]
  <2>1. CASE q # p
    BY <1>3, <2>1 DEF Awaiting
  <2>2. CASE q = p /\ i # 1
    BY <1>2, <2>2 DEF ReachInv, ForksInProgress, ForkInProgress
  <2> QED
    BY <1>4, <2>1, <2>2
<1> QED
  BY <1>2, <1>3, <1>4, AwaitingDistinct

-----------------------------------------------------------------------------
(* One lemma per operation.                                                *)

(***************************************************************************)
(* What Decline, ApiClientFails and Spawn have in common: the first name   *)
(* leaves the list, and only its entry and its channel's agent change.     *)
(***************************************************************************)
LEMMA ForkAdvances ==
  ASSUME ReachInv, TypeOK', NEW p \in Agents, forking[p] # <<>>,
         forking' = [forking EXCEPT ![p] = Tail(@)],
         parent' = parent, next' = next,
         \A m \in AllNames : registry'[m].to = registry[m].to,
         \A m \in AllNames : m # forking[p][1] => registry'[m] = registry[m],
         \A a \in Agents : a # registry[forking[p][1]].to => status'[a] = status[a],
         \A q \in Agents : q # p => /\ channels'[q] = channels[q]
                                    /\ children'[q] = children[q],
         Tail(forking[p]) # <<>> => Full(p)' \/ Aligned(p)'
  PROVE  Numbered' /\ OneName' /\ ForksInProgress'
<1> DEFINE n == forking[p][1]
           c == registry[n].to
<1>1. forking \in [Agents -> Seq(Names)]
  BY DEF ReachInv, TypeOK
<1>2. 1 \in DOMAIN forking[p] /\ n \in AllNames /\ Awaiting(p, n)
  BY <1>1, TakeFirst, PendingNames
<1>3. c \in Agents /\ status[c] = "registered"
  BY <1>2, AwaitingNotRunning DEF Awaiting
<1>4. Numbered'
  <2>1. \A a \in Agents : a >= next' => status'[a] = "free"
    BY <1>3 DEF ReachInv, Numbered
  <2>2. \A m \in AllNames : registry'[m].to < next'
    BY DEF ReachInv, Numbered
  <2>3. \A m \in AllNames : ~registry'[m].completed => registry'[m].to \in Agents
    BY <1>3 DEF ReachInv, Numbered
  <2> QED
    BY <2>1, <2>2, <2>3 DEF Numbered, Agents, AllNames
<1>5. OneName'
  BY DEF ReachInv, OneName, AllNames
<1>6. ASSUME NEW q \in Agents PROVE ForkInProgress(q)'
  <2> DEFINE was(i) == IF q = p THEN i + 1 ELSE i
  <2>1. ASSUME NEW i \in DOMAIN forking'[q]
        PROVE  /\ was(i) \in DOMAIN forking[q]
               /\ forking'[q][i] = forking[q][was(i)]
               /\ q # p \/ was(i) # 1
    <3>1. CASE q = p
      <4>1. forking'[q] = Tail(forking[p]) /\ Tail(forking[p]) \in Seq(Names)
        BY <1>1, <3>1, TakeFirst
      <4>2. DOMAIN Tail(forking[p]) = 1..Len(Tail(forking[p]))
            /\ Len(Tail(forking[p])) \in Nat
        BY <4>1
      <4>3. i \in DOMAIN Tail(forking[p])
        BY <4>1, Zenon
      <4>4. i \in Nat \ {0}
        BY <4>2, <4>3
      <4> QED
        BY <1>1, <3>1, <4>1, <4>3, <4>4, TakeFirst
    <3>2. CASE q # p
      BY <1>1, <2>1, <3>2
    <3> QED
      BY <3>1, <3>2
  <2>2. ASSUME NEW i \in DOMAIN forking'[q]
        PROVE  /\ ~registry'[forking'[q][i]].completed
               /\ status'[registry'[forking'[q][i]].to] = "registered"
               /\ parent'[registry'[forking'[q][i]].to] = q
    <3> DEFINE m == forking[q][was(i)]
    <3>1. m \in AllNames /\ m # n /\ registry[m].to # c /\ Awaiting(q, m)
      BY <2>1, PendingNames
    <3>2. registry[m].to \in Agents
      BY <3>1, AwaitingNotRunning
    <3>3. forking'[q][i] = m
      BY <2>1
    <3> QED
      BY <3>1, <3>2, <3>3 DEF Awaiting
  <2>3. \A i, j \in DOMAIN forking'[q] : i # j => forking'[q][i] # forking'[q][j]
    <3> SUFFICES ASSUME NEW i \in DOMAIN forking'[q], NEW j \in DOMAIN forking'[q],
                        i # j
                 PROVE  forking[q][was(i)] # forking[q][was(j)]
      BY <2>1
    <3>1. i \in Int /\ j \in Int
      BY DEF TypeOK
    <3>2. was(i) # was(j)
      BY <3>1
    <3> QED
      BY <2>1, <3>2 DEF ReachInv, ForksInProgress, ForkInProgress
  <2>4. forking'[q] # <<>> => Full(q)' \/ Aligned(q)'
    <3>1. CASE q = p
      BY <1>1, <3>1
    <3>2. CASE q # p
      <4>1. forking'[q] = forking[q] /\ channels'[q] = channels[q]
            /\ children'[q] = children[q]
        BY <1>1, <3>2
      <4>2. \A i \in DOMAIN forking[q] : forking[q][i] \in AllNames
        BY <1>1 DEF AllNames
      <4> QED
        BY <4>1, <4>2
           DEF ReachInv, ForksInProgress, ForkInProgress, Full, Aligned
    <3> QED
      BY <3>1, <3>2
  <2> QED
    BY <2>2, <2>3, <2>4 DEF ForkInProgress, Awaiting
<1> QED
  BY <1>4, <1>5, <1>6 DEF ForksInProgress, Agents

\* The limit is reached, or is not: then names and channels go in step.
LEMMA DeclineStep ==
  ASSUME ReachInv, NEW p \in Agents, Decline(p)
  PROVE  ReachInv'
<1> DEFINE n == forking[p][1]
           c == registry[n].to
<1>1. forking[p] \in Seq(Names) /\ forking[p] # <<>>
  BY DEF ReachInv, TypeOK, Decline
<1>2. /\ Head(forking[p]) = n /\ n \in AllNames /\ Awaiting(p, n)
      /\ 1 \in DOMAIN forking[p] /\ Tail(forking[p]) \in Seq(Names)
  BY <1>1, TakeFirst, PendingNames
<1>3. /\ c \in Agents
      /\ \A a \in Agents : status[a] \in {"running", "returned"}
           => name[a] # n /\ a # c
  BY <1>2, AwaitingNotRunning
<1>4. /\ registry' = Deregistered(n)
      /\ status' = [status EXCEPT ![c] = "declined"]
      /\ forking' = [forking EXCEPT ![p] = Tail(@)]
      /\ UNCHANGED <<next, name, parent, depth, children, queue, channels, told,
                     accepted, seen>>
  BY <1>2 DEF Decline
<1>5. /\ registry' \in [AllNames -> EntryType]
      /\ \A m \in AllNames : registry'[m].to = registry[m].to
      /\ \A m \in AllNames : m # n => registry'[m] = registry[m]
  BY <1>2, <1>4, DeregisterEffect DEF ReachInv
<1>6. TypeOK'
  <2>1. status' \in [Agents -> Status] /\ forking' \in [Agents -> Seq(Names)]
    BY <1>2, <1>4 DEF ReachInv, TypeOK, Status
  <2> QED
    BY <1>4, <1>5, <2>1 DEF ReachInv, TypeOK, AllNames
<1>7. \A a \in Agents : a # c => status'[a] = status[a]
  BY <1>4 DEF ReachInv, TypeOK
<1>8. Full(p)'
  BY <1>4 DEF Decline, Full
<1>9. Numbered' /\ OneName' /\ ForksInProgress'
  <2> HIDE DEF n, c
  <2>1. \A m \in AllNames : m # forking[p][1] => registry'[m] = registry[m]
    BY <1>5 DEF n
  <2>2. \A a \in Agents : a # registry[forking[p][1]].to => status'[a] = status[a]
    BY <1>7 DEF n, c
  <2> QED
    BY <1>1, <1>4, <1>5, <1>6, <1>8, <2>1, <2>2, ForkAdvances
<1>10. RunningReachable'
  <2> SUFFICES ASSUME NEW a \in Agents, status'[a] \in {"running", "returned"}
               PROVE  registry'[name[a]] = Entry(a, FALSE)
    BY <1>4 DEF RunningReachable, Agents, Entry
  <2>1. a # c /\ status[a] \in {"running", "returned"}
    BY <1>4, <1>7 DEF ReachInv, TypeOK
  <2>2. name[a] # n /\ name[a] \in AllNames
    BY <1>3, <2>1 DEF ReachInv, TypeOK, AllNames
  <2> QED
    BY <1>5, <2>1, <2>2 DEF ReachInv, RunningReachable
<1> QED
  BY <1>6, <1>9, <1>10 DEF ReachInv

\* While the limit is not reached, the first channel is the first name's.
LEMMA FirstChannel ==
  ASSUME ReachInv, NEW p \in Agents, forking[p] # <<>>, ~Full(p)
  PROVE  /\ channels[p] \in Seq(Agents) /\ channels[p] # <<>>
         /\ Head(channels[p]) = registry[forking[p][1]].to
         /\ Tail(channels[p]) \in Seq(Agents)
         /\ Len(Tail(channels[p])) = Len(Tail(forking[p]))
         /\ \A i \in DOMAIN Tail(forking[p]) :
              Tail(channels[p])[i] = registry[Tail(forking[p])[i]].to
<1>1. forking[p] \in Seq(Names) /\ channels[p] \in Seq(Agents)
  BY DEF ReachInv, TypeOK
<1>2. Aligned(p)
  BY DEF ReachInv, ForksInProgress, ForkInProgress
<1>3. Len(channels[p]) = Len(forking[p]) /\ channels[p] # <<>>
  BY <1>1, <1>2 DEF Aligned
<1>4. Head(channels[p]) = registry[forking[p][1]].to
  BY <1>1, <1>2, <1>3, TakeFirst DEF Aligned
<1>5. /\ Tail(channels[p]) \in Seq(Agents) /\ Tail(forking[p]) \in Seq(Names)
      /\ Len(Tail(channels[p])) = Len(Tail(forking[p]))
  BY <1>1, <1>3, TakeFirst
<1>6. ASSUME NEW i \in DOMAIN Tail(forking[p])
      PROVE  Tail(channels[p])[i] = registry[Tail(forking[p])[i]].to
  <2>1. i \in DOMAIN Tail(channels[p])
    BY <1>5
  <2>2. i + 1 \in DOMAIN forking[p] /\ Tail(forking[p])[i] = forking[p][i + 1]
    BY <1>1, TakeFirst
  <2>3. Tail(channels[p])[i] = channels[p][i + 1]
    BY <1>1, <1>3, <2>1, TakeFirst
  <2> QED
    BY <1>2, <2>2, <2>3 DEF Aligned
<1> QED
  BY <1>1, <1>3, <1>4, <1>5, <1>6

\* A failed API client gives up the name whose channel it took.
LEMMA ApiClientFailsStep ==
  ASSUME ReachInv, NEW p \in Agents, ApiClientFails(p)
  PROVE  ReachInv'
<1> DEFINE n == forking[p][1]
           c == registry[n].to
<1>1. forking[p] \in Seq(Names) /\ forking[p] # <<>> /\ ~Full(p)
  BY DEF ReachInv, TypeOK, ApiClientFails
<1>2. /\ Head(forking[p]) = n /\ n \in AllNames /\ Awaiting(p, n)
      /\ 1 \in DOMAIN forking[p] /\ Tail(forking[p]) \in Seq(Names)
  BY <1>1, TakeFirst, PendingNames
<1>3. /\ c \in Agents
      /\ \A a \in Agents : status[a] \in {"running", "returned"}
           => name[a] # n /\ a # c
  BY <1>2, AwaitingNotRunning
<1>4. /\ registry' = Deregistered(n)
      /\ status' = [status EXCEPT ![c] = "declined"]
      /\ forking' = [forking EXCEPT ![p] = Tail(@)]
      /\ channels' = [channels EXCEPT ![p] = Tail(@)]
      /\ UNCHANGED <<next, name, parent, depth, children, queue, told, accepted,
                     seen>>
  BY <1>1, <1>2, FirstChannel DEF ApiClientFails
<1>5. /\ registry' \in [AllNames -> EntryType]
      /\ \A m \in AllNames : registry'[m].to = registry[m].to
      /\ \A m \in AllNames : m # n => registry'[m] = registry[m]
  BY <1>2, <1>4, DeregisterEffect DEF ReachInv
<1>6. TypeOK'
  <2>1. /\ status' \in [Agents -> Status] /\ forking' \in [Agents -> Seq(Names)]
        /\ channels' \in [Agents -> Seq(Agents)]
    BY <1>1, <1>2, <1>4, FirstChannel DEF ReachInv, TypeOK, Status
  <2> QED
    BY <1>4, <1>5, <2>1 DEF ReachInv, TypeOK, AllNames
<1>7. \A a \in Agents : a # c => status'[a] = status[a]
  BY <1>4 DEF ReachInv, TypeOK
<1>8. Aligned(p)'
  <2>1. forking'[p] = Tail(forking[p]) /\ channels'[p] = Tail(channels[p])
    BY <1>4 DEF ReachInv, TypeOK
  <2>2. \A i \in DOMAIN Tail(forking[p]) : Tail(forking[p])[i] \in AllNames
    BY <1>2 DEF AllNames
  <2>3. \A i \in DOMAIN Tail(forking[p]) :
          Tail(channels[p])[i] = registry'[Tail(forking[p])[i]].to
    BY <1>1, <1>5, <2>2, FirstChannel
  <2>4. Len(Tail(channels[p])) = Len(Tail(forking[p]))
    BY <1>1, FirstChannel
  <2> QED
    BY <2>1, <2>3, <2>4 DEF Aligned
<1>9. Numbered' /\ OneName' /\ ForksInProgress'
  <2> HIDE DEF n, c
  <2>1. \A m \in AllNames : m # forking[p][1] => registry'[m] = registry[m]
    BY <1>5 DEF n
  <2>2. \A a \in Agents : a # registry[forking[p][1]].to => status'[a] = status[a]
    BY <1>7 DEF n, c
  <2>3. \A q \in Agents : q # p => /\ channels'[q] = channels[q]
                                   /\ children'[q] = children[q]
    BY <1>4 DEF ReachInv, TypeOK
  <2> QED
    BY <1>1, <1>4, <1>5, <1>6, <1>8, <2>1, <2>2, <2>3, ForkAdvances
<1>10. RunningReachable'
  <2> SUFFICES ASSUME NEW a \in Agents, status'[a] \in {"running", "returned"}
               PROVE  registry'[name[a]] = Entry(a, FALSE)
    BY <1>4 DEF RunningReachable, Agents, Entry
  <2>1. a # c /\ status[a] \in {"running", "returned"}
    BY <1>4, <1>7 DEF ReachInv, TypeOK
  <2>2. name[a] # n /\ name[a] \in AllNames
    BY <1>3, <2>1 DEF ReachInv, TypeOK, AllNames
  <2> QED
    BY <1>5, <2>1, <2>2 DEF ReachInv, RunningReachable
<1> QED
  BY <1>6, <1>9, <1>10 DEF ReachInv

\* A spawned child reads the channel that is registered under its name.
LEMMA SpawnStep ==
  ASSUME ReachInv, NEW p \in Agents, Spawn(p)
  PROVE  ReachInv'
<1> DEFINE n == forking[p][1]
           c == registry[n].to
<1>1. forking[p] \in Seq(Names) /\ forking[p] # <<>> /\ ~Full(p)
  BY DEF ReachInv, TypeOK, Spawn
<1>2. /\ Head(forking[p]) = n /\ n \in AllNames /\ Awaiting(p, n)
      /\ 1 \in DOMAIN forking[p] /\ Tail(forking[p]) \in Seq(Names)
  BY <1>1, TakeFirst, PendingNames
<1>3. /\ c \in Agents
      /\ \A a \in Agents : status[a] \in {"running", "returned"}
           => name[a] # n /\ a # c
  BY <1>2, AwaitingNotRunning
<1>4. /\ children' = [children EXCEPT ![p] = @ + 1]
      /\ status' = [status EXCEPT ![c] = "running"]
      /\ name' = [name EXCEPT ![c] = n]
      /\ depth' = [depth EXCEPT ![c] = IF depth[p] = 0 THEN 0 ELSE depth[p] - 1]
      /\ forking' = [forking EXCEPT ![p] = Tail(@)]
      /\ channels' = [channels EXCEPT ![p] = Tail(@)]
      /\ UNCHANGED <<registry, next, parent, queue, told, accepted, seen>>
  BY <1>1, <1>2, FirstChannel DEF Spawn
<1>5. TypeOK'
  <2>1. /\ status' \in [Agents -> Status] /\ forking' \in [Agents -> Seq(Names)]
        /\ channels' \in [Agents -> Seq(Agents)]
    BY <1>1, <1>2, <1>4, FirstChannel DEF ReachInv, TypeOK, Status
  <2>2. children' \in [Agents -> Nat]
    BY <1>4 DEF ReachInv, TypeOK
  <2>3. depth' \in [Agents -> Nat]
    <3>1. depth[p] \in Nat /\ depth \in [Agents -> Nat]
      BY DEF ReachInv, TypeOK
    <3>2. (IF depth[p] = 0 THEN 0 ELSE depth[p] - 1) \in Nat
      BY <3>1
    <3> QED
      BY <1>4, <3>1, <3>2
  <2>4. name' \in [Agents -> AllNames]
    BY <1>2, <1>4 DEF ReachInv, TypeOK, AllNames
  <2> QED
    BY <1>4, <2>1, <2>2, <2>3, <2>4 DEF ReachInv, TypeOK, AllNames
<1>6. \A a \in Agents : a # c => status'[a] = status[a] /\ name'[a] = name[a]
  BY <1>4 DEF ReachInv, TypeOK
<1>7. Aligned(p)'
  <2>1. forking'[p] = Tail(forking[p]) /\ channels'[p] = Tail(channels[p])
    BY <1>4 DEF ReachInv, TypeOK
  <2> QED
    BY <1>1, <1>4, <2>1, FirstChannel DEF Aligned
<1>8. Numbered' /\ OneName' /\ ForksInProgress'
  <2> HIDE DEF n, c
  <2>1. \A a \in Agents : a # registry[forking[p][1]].to => status'[a] = status[a]
    BY <1>6 DEF n, c
  <2>2. \A q \in Agents : q # p => /\ channels'[q] = channels[q]
                                   /\ children'[q] = children[q]
    BY <1>4 DEF ReachInv, TypeOK
  <2> QED
    BY <1>1, <1>4, <1>5, <1>7, <2>1, <2>2, ForkAdvances
<1>9. RunningReachable'
  <2> SUFFICES ASSUME NEW a \in Agents, status'[a] \in {"running", "returned"}
               PROVE  registry[name'[a]] = Entry(a, FALSE)
    BY <1>4 DEF RunningReachable, Agents, Entry
  <2>1. CASE a = c
    <3>1. name'[a] = n
      BY <1>4, <2>1 DEF ReachInv, TypeOK
    <3>2. registry[n] \in EntryType /\ ~registry[n].completed
      BY <1>2, EntryFields DEF ReachInv, Awaiting
    <3> QED
      BY <2>1, <3>1, <3>2 DEF Entry, EntryType
  <2>2. CASE a # c
    BY <1>6, <2>2 DEF ReachInv, RunningReachable
  <2> QED
    BY <2>1, <2>2
<1> QED
  BY <1>5, <1>8, <1>9 DEF ReachInv

(***************************************************************************)
(* fork registers all the names of the batch, under new channels in order. *)
(***************************************************************************)
LEMMA ForkStep ==
  ASSUME ReachInv, NEW p \in Agents, NEW batch \in Batches, Fork(p, batch)
  PROVE  ReachInv'
<1> DEFINE ids == [i \in DOMAIN batch |-> next + i - 1]
           index(n) == CHOOSE i \in DOMAIN batch : batch[i] = n
           new == {ids[i] : i \in DOMAIN batch}
           named(n) == \E i \in DOMAIN batch : batch[i] = n
<1>1. /\ batch \in Seq(Names) /\ batch # <<>> /\ ~Collides(batch)
      /\ next + Len(batch) <= MaxAgents + 1 /\ Free(p)
  BY BatchType DEF Fork
<1>2. /\ registry' = [n \in AllNames |-> IF named(n) THEN Entry(ids[index(n)], FALSE)
                                         ELSE registry[n]]
      /\ next' = next + Len(batch)
      /\ status' = [a \in Agents |-> IF a \in new THEN "registered" ELSE status[a]]
      /\ parent' = [a \in Agents |-> IF a \in new THEN p ELSE parent[a]]
      /\ forking' = [forking EXCEPT ![p] = batch]
      /\ channels' = [channels EXCEPT ![p] = ids]
      /\ UNCHANGED <<name, depth, children, queue, told, accepted, seen>>
  <2>1. DOMAIN registry = AllNames
    BY DEF ReachInv, TypeOK, AllNames
  <2> QED
    BY <2>1 DEF Fork
<1>3. /\ next \in 2..(MaxAgents + 1) /\ Len(batch) \in Nat \ {0}
      /\ DOMAIN batch = 1..Len(batch)
  BY <1>1 DEF ReachInv, TypeOK
<1>4. /\ ids \in Seq(Agents) /\ Len(ids) = Len(batch) /\ DOMAIN ids = DOMAIN batch
      /\ \A i \in DOMAIN batch : ids[i] = next + i - 1 /\ ids[i] \in Agents
  BY <1>1, <1>3, ChildrenAssumption DEF Agents
<1>5. \A i \in DOMAIN batch : index(batch[i]) = i
  BY <1>1 DEF Collides
<1>6. ASSUME NEW i \in DOMAIN batch
      PROVE  /\ batch[i] \in AllNames
             /\ registry'[batch[i]] = Entry(ids[i], FALSE)
             /\ registry'[batch[i]].to = ids[i] /\ ~registry'[batch[i]].completed
  <2>1. batch[i] \in AllNames /\ named(batch[i])
    BY <1>1 DEF AllNames
  <2>2. registry'[batch[i]] = Entry(ids[index(batch[i])], FALSE)
    BY <1>2, <2>1
  <2>3. registry'[batch[i]] = Entry(ids[i], FALSE)
    BY <1>5, <2>2
  <2> QED
    BY <2>1, <2>3 DEF Entry
<1>7. \A n \in AllNames : ~named(n) => registry'[n] = registry[n]
  BY <1>2
<1>8. /\ \A a \in Agents : a \in new =>
           /\ a >= next /\ a < next' /\ status[a] = "free"
           /\ status'[a] = "registered" /\ parent'[a] = p
      /\ \A a \in Agents : a \notin new =>
           status'[a] = status[a] /\ parent'[a] = parent[a]
  <2>1. \A a \in Agents : a \in new => a >= next /\ a < next'
    BY <1>2, <1>3, <1>4
  <2>2. \A a \in Agents : a >= next => status[a] = "free"
    BY DEF ReachInv, Numbered
  <2> QED
    BY <1>2, <2>1, <2>2
<1>9. \A n \in AllNames : named(n) => registry[n].completed
  BY <1>1 DEF Collides
<1> HIDE DEF ids, index, new, named
<1>10. TypeOK'
  <2>1. registry' \in [AllNames -> EntryType]
    <3>1. \A n \in AllNames : registry'[n] \in EntryType
      <4> SUFFICES ASSUME NEW n \in AllNames PROVE registry'[n] \in EntryType
        OBVIOUS
      <4>1. CASE named(n)
        <5>1. PICK i \in DOMAIN batch : batch[i] = n
          BY <4>1 DEF named
        <5>2. registry'[n] = Entry(ids[i], FALSE)
          BY <1>6, <5>1
        <5>3. ids[i] \in 0..MaxAgents
          BY <1>4, <5>1 DEF Agents
        <5> QED
          BY <5>2, <5>3 DEF Entry, EntryType
      <4>2. CASE ~named(n)
        BY <1>7, <4>2, EntryFields DEF ReachInv
      <4> QED
        BY <4>1, <4>2
    <3> QED
      BY <1>2, <3>1
  <2>2. next' \in 2..(MaxAgents + 1)
    BY <1>1, <1>2, <1>3
  <2>3. status' \in [Agents -> Status] /\ parent' \in [Agents -> Agents]
    BY <1>2 DEF ReachInv, TypeOK, Status
  <2>4. forking' \in [Agents -> Seq(Names)] /\ channels' \in [Agents -> Seq(Agents)]
    BY <1>1, <1>2, <1>4 DEF ReachInv, TypeOK
  <2> QED
    BY <1>2, <2>1, <2>2, <2>3, <2>4 DEF ReachInv, TypeOK, AllNames
<1>11. Numbered'
  <2>1. \A a \in Agents : a >= next' => status'[a] = "free"
    BY <1>2, <1>3, <1>8 DEF ReachInv, Numbered, Agents
  <2>2. ASSUME NEW n \in AllNames
        PROVE  /\ registry'[n].to < next'
               /\ ~registry'[n].completed => registry'[n].to \in Agents
    <3>1. CASE named(n)
      <4>1. PICK i \in DOMAIN batch : batch[i] = n
        BY <3>1 DEF named
      <4>2. registry'[n].to = ids[i]
        BY <1>6, <4>1
      <4>3. ids[i] \in Agents /\ ids[i] < next'
        BY <1>2, <1>3, <1>4, <4>1
      <4> QED
        BY <4>2, <4>3
    <3>2. CASE ~named(n)
      <4>1. registry[n].to < next /\ registry[n].to \in Int
        BY EntryFields, ChildrenAssumption DEF ReachInv, Numbered
      <4> QED
        BY <1>2, <1>3, <1>7, <3>2, <4>1 DEF ReachInv, Numbered
    <3> QED
      BY <3>1, <3>2
  <2> QED
    BY <2>1, <2>2 DEF Numbered, Agents, AllNames
<1>12. \A n \in AllNames : IF named(n) THEN registry'[n].to >= next
                                       ELSE /\ registry'[n].to = registry[n].to
                                            /\ registry[n].to < next
  <2> SUFFICES ASSUME NEW n \in AllNames, named(n) PROVE registry'[n].to >= next
    BY <1>7 DEF ReachInv, Numbered
  <2>1. PICK i \in DOMAIN batch : batch[i] = n
    BY DEF named
  <2>2. registry'[n].to = ids[i]
    BY <1>6, <2>1
  <2> QED
    BY <1>3, <1>4, <2>1, <2>2
<1>13. OneName'
  <2> SUFFICES ASSUME NEW m \in AllNames, NEW n \in AllNames, m # n,
                      registry'[m].to = registry'[n].to
               PROVE  registry'[m].to = 0
    BY DEF OneName, AllNames
  <2>1. CASE named(m) /\ named(n)
    <3>1. PICK i \in DOMAIN batch : batch[i] = m
      BY <2>1 DEF named
    <3>2. PICK j \in DOMAIN batch : batch[j] = n
      BY <2>1 DEF named
    <3>3. registry'[m].to = ids[i] /\ registry'[n].to = ids[j]
      BY <1>6, <3>1, <3>2
    <3>4. next + i - 1 = next + j - 1
      BY <1>4, <3>3
    <3>5. i = j
      BY <1>3, <3>4
    <3> QED
      BY <3>1, <3>2, <3>5
  <2>2. CASE ~named(m) /\ ~named(n)
    BY <1>12, <2>2 DEF ReachInv, OneName
  <2>3. CASE (named(m) /\ ~named(n)) \/ (~named(m) /\ named(n))
    <3>1. registry[m].to \in Int /\ registry[n].to \in Int
      BY EntryFields, ChildrenAssumption DEF ReachInv
    <3> QED
      BY <1>3, <1>12, <2>3, <3>1
  <2> QED
    BY <2>1, <2>2, <2>3
<1>14. ASSUME NEW q \in Agents PROVE ForkInProgress(q)'
  <2>1. CASE q = p
    <3>1. forking'[q] = batch /\ channels'[q] = ids
      BY <1>2, <2>1 DEF ReachInv, TypeOK
    <3>2. ASSUME NEW i \in DOMAIN batch
          PROVE  /\ ~registry'[batch[i]].completed /\ registry'[batch[i]].to = ids[i]
                 /\ status'[ids[i]] = "registered" /\ parent'[ids[i]] = q
      <4>1. ids[i] \in Agents /\ ids[i] \in new
        BY <1>4 DEF new
      <4> QED
        BY <1>6, <1>8, <2>1, <4>1
    <3>3. \A i, j \in DOMAIN batch : i # j => batch[i] # batch[j]
      BY <1>1 DEF Collides
    <3> QED
      BY <1>4, <3>1, <3>2, <3>3 DEF ForkInProgress, Awaiting, Aligned
  <2>2. CASE q # p
    <3>1. /\ forking'[q] = forking[q] /\ channels'[q] = channels[q]
          /\ children'[q] = children[q] /\ forking[q] \in Seq(Names)
      BY <1>2, <2>2 DEF ReachInv, TypeOK
    <3>2. ASSUME NEW i \in DOMAIN forking[q]
          PROVE  /\ registry'[forking[q][i]] = registry[forking[q][i]]
                 /\ ~registry'[forking[q][i]].completed
                 /\ status'[registry'[forking[q][i]].to] = "registered"
                 /\ parent'[registry'[forking[q][i]].to] = q
      <4> DEFINE m == forking[q][i]
      <4>1. m \in AllNames /\ Awaiting(q, m)
        BY <3>1 DEF ReachInv, ForksInProgress, ForkInProgress, AllNames
      <4>2. registry'[m] = registry[m]
        BY <1>7, <1>9, <4>1 DEF Awaiting
      <4>3. registry[m].to \in Agents /\ registry[m].to \notin new
        BY <1>8, <4>1, AwaitingNotRunning DEF Awaiting
      <4> QED
        BY <1>8, <4>1, <4>2, <4>3 DEF Awaiting
    <3>3. \A i, j \in DOMAIN forking[q] : i # j => forking[q][i] # forking[q][j]
      BY DEF ReachInv, ForksInProgress, ForkInProgress
    <3>4. forking'[q] # <<>> => Full(q)' \/ Aligned(q)'
      BY <3>1, <3>2 DEF ReachInv, ForksInProgress, ForkInProgress, Full, Aligned
    <3> QED
      BY <3>1, <3>2, <3>3, <3>4 DEF ForkInProgress, Awaiting
  <2> QED
    BY <2>1, <2>2
<1>15. RunningReachable'
  <2> SUFFICES ASSUME NEW a \in Agents, status'[a] \in {"running", "returned"}
               PROVE  registry'[name[a]] = Entry(a, FALSE)
    BY <1>2 DEF RunningReachable, Agents, Entry
  <2>1. status[a] \in {"running", "returned"}
    BY <1>8
  <2>2. registry[name[a]] = Entry(a, FALSE) /\ name[a] \in AllNames
    BY <2>1 DEF ReachInv, RunningReachable, TypeOK, AllNames
  <2>3. ~registry[name[a]].completed
    BY <2>2 DEF Entry
  <2> QED
    BY <1>7, <1>9, <2>2, <2>3
<1> QED
  BY <1>10, <1>11, <1>13, <1>14, <1>15 DEF ReachInv, ForksInProgress, Agents

\* An agent that ends leaves its own entry, and nobody else's.
LEMMA DeregisterStep ==
  ASSUME ReachInv, NEW a \in Agents, Deregister(a)
  PROVE  ReachInv'
<1>1. /\ name[a] \in AllNames /\ status[a] = "returned"
      /\ registry[name[a]] = Entry(a, FALSE)
  BY DEF ReachInv, TypeOK, RunningReachable, Deregister, AllNames
<1>2. /\ registry' = Deregistered(name[a])
      /\ status' = [status EXCEPT ![a] = "deregistered"]
      /\ UNCHANGED <<next, name, parent, depth, children, queue, forking, channels,
                     told, accepted, seen>>
  BY DEF Deregister
<1>3. /\ registry' \in [AllNames -> EntryType]
      /\ \A m \in AllNames : registry'[m].to = registry[m].to
      /\ \A m \in AllNames : m # name[a] => registry'[m] = registry[m]
      /\ \A m \in AllNames : ~registry'[m].completed => ~registry[m].completed
  BY <1>1, <1>2, DeregisterEffect DEF ReachInv
<1>4. \A b \in Agents : b # a => status'[b] = status[b]
  BY <1>2 DEF ReachInv, TypeOK
<1>5. status'[a] = "deregistered"
  BY <1>2 DEF ReachInv, TypeOK
<1>6. TypeOK'
  <2>1. status' \in [Agents -> Status]
    BY <1>2 DEF ReachInv, TypeOK, Status
  <2> QED
    BY <1>2, <1>3, <2>1 DEF ReachInv, TypeOK, AllNames
<1>7. Numbered'
  <2>1. \A b \in Agents : b >= next => status'[b] = "free"
    BY <1>1, <1>4 DEF ReachInv, Numbered
  <2> QED
    BY <1>2, <1>3, <2>1 DEF ReachInv, Numbered, Agents, AllNames
<1>8. OneName'
  BY <1>3 DEF ReachInv, OneName, AllNames
<1>9. ASSUME NEW q \in Agents PROVE ForkInProgress(q)'
  <2>1. ASSUME NEW i \in DOMAIN forking[q]
        PROVE  /\ registry'[forking[q][i]] = registry[forking[q][i]]
               /\ ~registry'[forking[q][i]].completed
               /\ status'[registry'[forking[q][i]].to] = "registered"
    <3> DEFINE m == forking[q][i]
    <3>1. m \in AllNames /\ Awaiting(q, m)
      BY DEF ReachInv, TypeOK, ForksInProgress, ForkInProgress, AllNames
    <3>2. m # name[a] /\ registry[m].to # a /\ registry[m].to \in Agents
      BY <1>1, <3>1, AwaitingNotRunning
    <3> QED
      BY <1>3, <1>4, <3>1, <3>2 DEF Awaiting
  <2> QED
    BY <1>2, <2>1
       DEF ReachInv, ForksInProgress, ForkInProgress, Awaiting, Full, Aligned
<1>10. RunningReachable'
  <2> SUFFICES ASSUME NEW b \in Agents, status'[b] \in {"running", "returned"}
               PROVE  registry'[name[b]] = Entry(b, FALSE)
    BY <1>2 DEF RunningReachable, Agents, Entry
  <2>1. b # a /\ status[b] \in {"running", "returned"}
    BY <1>4, <1>5
  <2>2. registry[name[b]] = Entry(b, FALSE) /\ name[b] \in AllNames
    BY <2>1 DEF ReachInv, RunningReachable, TypeOK, AllNames
  <2>3. name[b] # name[a]
    BY <1>1, <2>1, <2>2 DEF Entry
  <2> QED
    BY <1>3, <2>2, <2>3
<1> QED
  BY <1>6, <1>7, <1>8, <1>9, <1>10 DEF ReachInv, ForksInProgress, Agents

\* The operations that touch neither the registry nor the forks in progress.
LEMMA OtherSteps ==
  ASSUME ReachInv, NEW a \in Agents,
         \/ \E n \in AllNames, m \in Sends : Send(a, n, m)
         \/ Receive(a) \/ Return(a) \/ Report(a)
  PROVE  ReachInv'
<1>1. /\ UNCHANGED <<registry, next, name, parent, depth, forking, channels>>
      /\ \A b \in Agents : status'[b] = status[b] \/
            (b = a /\ status[a] \in {"running", "deregistered"}
                   /\ status'[a] \in {"returned", "gone"}
                   /\ (status'[a] = "returned" => status[a] = "running"))
      /\ \A q \in Agents : forking[q] # <<>> => children'[q] = children[q]
  BY DEF ReachInv, TypeOK, Send, Receive, Return, Report, Free
<1>2. TypeOK'
  <2>1. CASE \E n \in AllNames, m \in Sends : Send(a, n, m)
    <3>1. PICK n \in AllNames, m \in Sends : Send(a, n, m)
      BY <2>1
    <3>2. registry[n].to \in 0..MaxAgents /\ Message(m) \in EventType
      BY EntryFields DEF ReachInv, Message, EventType, Sends
    <3>3. queue' \in [Agents -> Seq(EventType)]
      <4> DEFINE to == registry[n].to
      <4>1. to \in Agents
        BY <3>1 DEF Send, ReachInv, Numbered
      <4>2. queue[to] \in Seq(EventType)
        BY <4>1 DEF ReachInv, TypeOK
      <4>3. Append(queue[to], Message(m)) \in Seq(EventType)
        BY <4>2, <3>2
      <4>4. queue' = [queue EXCEPT ![to] = Append(queue[to], Message(m))]
        BY <3>1, <4>1 DEF Send
      <4>5. queue \in [Agents -> Seq(EventType)]
        BY DEF ReachInv, TypeOK
      <4> HIDE DEF to
      <4> QED
        BY <4>1, <4>3, <4>4, <4>5
    <3>4. accepted' \in [Sends -> 0..MaxAgents]
      BY <3>1, <3>2 DEF Send, ReachInv, TypeOK
    <3> QED
      BY <3>1, <3>3, <3>4 DEF Send, ReachInv, TypeOK
  <2>2. CASE Receive(a)
    <3>1. queue[a] \in Seq(EventType) /\ queue[a] # <<>>
      BY <2>2 DEF Receive, ReachInv, TypeOK
    <3>2. Tail(queue[a]) \in Seq(EventType) /\ Head(queue[a]) \in EventType
      BY <3>1, TakeFirst
    <3>3. Head(queue[a]).of \in Nat
      BY <3>2 DEF EventType
    <3>4. queue' \in [Agents -> Seq(EventType)]
      BY <2>2, <3>2 DEF Receive, ReachInv, TypeOK
    <3>5. children' \in [Agents -> Nat] /\ told' \in [Agents -> Nat]
      <4>1. children \in [Agents -> Nat] /\ told \in [Agents -> Nat]
        BY DEF ReachInv, TypeOK
      <4>2. CASE Head(queue[a]).type = "completed"
        <5> DEFINE c == Head(queue[a]).of
        <5>1. /\ children' = [children EXCEPT ![a] = IF @ = 0 THEN 0 ELSE @ - 1]
              /\ told' = [told EXCEPT ![c] = @ + 1]
          BY <2>2, <4>2 DEF Receive
        <5>2. children' \in [Agents -> Nat]
          BY <4>1, <5>1
        <5> HIDE DEF c
        <5>3. told' \in [Agents -> Nat]
          <6>1. CASE c \in Agents
            BY <4>1, <5>1, <6>1
          <6>2. CASE c \notin Agents
            <7>1. told' = told
              BY <4>1, <5>1, <6>2, Zenon
            <7> QED
              BY <4>1, <7>1
          <6> QED
            BY <6>1, <6>2
        <5> QED
          BY <5>2, <5>3
      <4>3. CASE Head(queue[a]).type # "completed"
        BY <2>2, <4>1, <4>3 DEF Receive
      <4> QED
        BY <4>2, <4>3
    <3>6. seen' \subseteq Nat
      BY <2>2, <3>3 DEF Receive, ReachInv, TypeOK
    <3> QED
      BY <2>2, <3>4, <3>5, <3>6 DEF Receive, ReachInv, TypeOK
  <2>3. CASE Return(a)
    BY <2>3 DEF Return, ReachInv, TypeOK, Status
  <2>4. CASE Report(a)
    <3>1. Completed(a) \in EventType
      BY ChildrenAssumption DEF Completed, EventType, Agents
    <3>2. queue' \in [Agents -> Seq(EventType)]
      BY <2>4, <3>1 DEF Report, ReachInv, TypeOK
    <3>3. status' \in [Agents -> Status]
      BY <2>4 DEF Report, ReachInv, TypeOK, Status
    <3> QED
      BY <2>4, <3>2, <3>3 DEF Report, ReachInv, TypeOK
  <2> QED
    BY <2>1, <2>2, <2>3, <2>4
<1>3. Numbered' /\ OneName'
  BY <1>1 DEF ReachInv, Numbered, OneName, Agents, AllNames
<1>4. ASSUME NEW q \in Agents PROVE ForkInProgress(q)'
  <2>1. ASSUME NEW i \in DOMAIN forking[q]
        PROVE  status'[registry[forking[q][i]].to] = "registered"
    <3> DEFINE m == forking[q][i]
    <3>1. m \in AllNames /\ Awaiting(q, m)
      BY DEF ReachInv, TypeOK, ForksInProgress, ForkInProgress, AllNames
    <3>2. registry[m].to \in Agents
      BY <3>1, AwaitingNotRunning
    <3> QED
      BY <1>1, <3>1, <3>2 DEF Awaiting
  <2> QED
    BY <1>1, <2>1
       DEF ReachInv, ForksInProgress, ForkInProgress, Awaiting, Full, Aligned
<1>5. RunningReachable'
  BY <1>1 DEF ReachInv, RunningReachable, Agents, Entry
<1> QED
  BY <1>2, <1>3, <1>4, <1>5 DEF ReachInv, ForksInProgress, Agents

-----------------------------------------------------------------------------
\* The inductive invariant holds of the specification.
LEMMA ReachInvariant == Spec => []ReachInv
<1>1. Init => ReachInv
  <2> SUFFICES ASSUME Init PROVE ReachInv
    OBVIOUS
  <2>1. TypeOK
    BY ChildrenAssumption
       DEF Init, TypeOK, Agents, Entry, NoEntry, EntryType, Status, Sends
  <2>2. Numbered
    BY ChildrenAssumption DEF Init, Numbered, Agents, AllNames, Entry, NoEntry
  <2>3. OneName
    BY DEF Init, OneName, AllNames, Entry, NoEntry
  <2>4. ForksInProgress
    BY DEF Init, ForksInProgress, ForkInProgress
  <2>5. RunningReachable
    BY DEF Init, RunningReachable, Entry
  <2> QED
    BY <2>1, <2>2, <2>3, <2>4, <2>5 DEF ReachInv
<1>2. ReachInv /\ [Next]_vars => ReachInv'
  <2> SUFFICES ASSUME ReachInv, [Next]_vars PROVE ReachInv'
    OBVIOUS
  <2>1. CASE UNCHANGED vars
    BY <2>1 DEF vars, ReachInv, TypeOK, Numbered, OneName, ForksInProgress,
                ForkInProgress, Awaiting, Aligned, Full, RunningReachable, Agents,
                AllNames, Entry, EntryType, Status, Sends, EventType
  <2>2. ASSUME NEW a \in Agents, NEW batch \in Batches, Fork(a, batch)
        PROVE  ReachInv'
    BY <2>2, ForkStep
  <2>3. ASSUME NEW a \in Agents, NEW n \in Names \cup {Root}, NEW m \in Sends,
               Send(a, n, m)
        PROVE  ReachInv'
    BY <2>3, OtherSteps DEF AllNames
  <2>4. ASSUME NEW a \in Agents, Return(a) \/ Receive(a) \/ Report(a)
        PROVE  ReachInv'
    BY <2>4, OtherSteps
  <2>5. ASSUME NEW a \in Agents, Decline(a) \/ ApiClientFails(a) \/ Spawn(a)
        PROVE  ReachInv'
    BY <2>5, DeclineStep, ApiClientFailsStep, SpawnStep
  <2>6. ASSUME NEW a \in Agents, Deregister(a)
        PROVE  ReachInv'
    BY <2>6, DeregisterStep
  <2> QED
    BY <2>1, <2>2, <2>3, <2>4, <2>5, <2>6 DEF Next, Step
<1> QED
  BY <1>1, <1>2, PTL DEF Spec

(***************************************************************************)
(* The variables keep their types.  The list of channels of a fork is      *)
(* never found empty when a child is to be spawned (child_channels.remove  *)
(* would panic), which is why this rests on the whole invariant.           *)
(***************************************************************************)
THEOREM TypeCorrect == Spec => []TypeOK
<1>1. ReachInv => TypeOK
  BY DEF ReachInv
<1> QED
  BY <1>1, ReachInvariant, PTL

(***************************************************************************)
(* Whatever forks, ends of children and reuses of names interleave, an     *)
(* agent whose loop runs is registered under its name with the channel it  *)
(* reads, and no other running agent has that name.                        *)
(***************************************************************************)
THEOREM AlwaysReachable == Spec => []RunningReachable
<1>1. ReachInv => RunningReachable
  BY DEF ReachInv
<1> QED
  BY <1>1, ReachInvariant, PTL

-----------------------------------------------------------------------------
(***************************************************************************)
(* active_children.  The count is right of every agent that has not        *)
(* returned, also of one whose task is still to be spawned, which has      *)
(* messages at most; and the root never returns.                           *)
(***************************************************************************)
Counted(p) ==
  status[p] \in {"free", "registered", "running"} =>
    /\ children[p] = Cardinality(Living(p)) + Cardinality(Reports(p))
    /\ children[p] <= MaxChildren

CountInv == status[1] = "running" /\ \A p \in Agents : Counted(p)

\* The places of the completions in a channel
CompletedIn(s) == {i \in DOMAIN s : s[i].type = "completed"}

LEMMA CompletedFinite ==
  ASSUME NEW s \in Seq(EventType)
  PROVE  IsFiniteSet(CompletedIn(s)) /\ Cardinality(CompletedIn(s)) \in Nat
<1>1. DOMAIN s = 1..Len(s) /\ Len(s) \in Nat
  OBVIOUS
<1>2. IsFiniteSet(1..Len(s))
  BY <1>1, FS_Interval
<1>3. CompletedIn(s) \subseteq 1..Len(s)
  BY <1>1 DEF CompletedIn
<1> QED BY <1>2, <1>3, FS_Subset, FS_CardinalityType

\* An event is sent.
LEMMA CompletedAppend ==
  ASSUME NEW s \in Seq(EventType), NEW e \in EventType
  PROVE  /\ e.type = "completed" =>
              Cardinality(CompletedIn(Append(s, e))) = Cardinality(CompletedIn(s)) + 1
         /\ e.type # "completed" => CompletedIn(Append(s, e)) = CompletedIn(s)
<1>1. DOMAIN s = 1..Len(s) /\ Len(s) \in Nat
  OBVIOUS
<1>2. /\ DOMAIN Append(s, e) = DOMAIN s \cup {Len(s) + 1}
      /\ \A i \in DOMAIN s : Append(s, e)[i] = s[i]
      /\ Append(s, e)[Len(s) + 1] = e /\ Len(s) + 1 \notin DOMAIN s
  BY <1>1
<1>3. CASE e.type = "completed"
  <2>1. CompletedIn(Append(s, e)) = CompletedIn(s) \cup {Len(s) + 1}
    BY <1>2, <1>3 DEF CompletedIn
  <2>2. Len(s) + 1 \notin CompletedIn(s)
    BY <1>2 DEF CompletedIn
  <2> QED BY <1>3, <2>1, <2>2, CompletedFinite, FS_AddElement
<1>4. CASE e.type # "completed"
  BY <1>2, <1>4 DEF CompletedIn
<1> QED BY <1>3, <1>4

\* The first event is taken: the others move up.
LEMMA CompletedTail ==
  ASSUME NEW s \in Seq(EventType), s # <<>>
  PROVE  Cardinality(CompletedIn(s)) =
           Cardinality(CompletedIn(Tail(s))) + (IF Head(s).type = "completed" THEN 1 ELSE 0)
<1> DEFINE S == CompletedIn(Tail(s))
           T == CompletedIn(s) \ {1}
           f == [i \in S |-> i + 1]
<1>1. /\ Head(s) = s[1] /\ 1 \in DOMAIN s /\ Tail(s) \in Seq(EventType)
      /\ DOMAIN s = 1..Len(s) /\ Len(s) \in Nat
      /\ DOMAIN Tail(s) = 1..(Len(s) - 1)
      /\ \A i \in DOMAIN Tail(s) : i \in Nat /\ Tail(s)[i] = s[i + 1]
  OBVIOUS
<1>2. S \subseteq Nat \ {0} /\ \A i \in S : i + 1 \in T
  BY <1>1 DEF CompletedIn
<1>3. \A j \in T : j - 1 \in S /\ (j - 1) + 1 = j
  BY <1>1 DEF CompletedIn
<1>4. IsFiniteSet(S) /\ Cardinality(S) \in Nat
  BY <1>1, CompletedFinite
<1>5. IsFiniteSet(CompletedIn(s)) /\ Cardinality(CompletedIn(s)) \in Nat
  BY CompletedFinite
<1>6. 1 \in CompletedIn(s) <=> Head(s).type = "completed"
  BY <1>1 DEF CompletedIn
<1> HIDE DEF S
<1>7. ExistsBijection(S, T)
  <2> HIDE DEF T
  <2>1. f \in [S -> T] /\ \A i \in S : f[i] = i + 1
    BY <1>2
  <2>2. \A i, j \in S : f[i] = f[j] => i = j
    BY <1>2, <2>1
  <2>3. \A j \in T : \E i \in S : f[i] = j
    BY <1>3, <2>1
  <2> HIDE DEF f
  <2>4. f \in Bijection(S, T)
    BY <2>1, <2>2, <2>3 DEF Bijection, Injection, Surjection, IsInjective
  <2> QED BY <2>4 DEF ExistsBijection
<1>8. Cardinality(T) = Cardinality(S)
  BY <1>4, <1>7, FS_Bijection
<1>9. Cardinality(T) = IF 1 \in CompletedIn(s) THEN Cardinality(CompletedIn(s)) - 1
                       ELSE Cardinality(CompletedIn(s))
  BY <1>5, FS_RemoveElement
<1> QED BY <1>4, <1>5, <1>6, <1>8, <1>9 DEF S

LEMMA LivingFinite ==
  ASSUME TypeOK, NEW p \in Agents
  PROVE  /\ IsFiniteSet(Living(p)) /\ Cardinality(Living(p)) \in Nat
         /\ Reports(p) = CompletedIn(queue[p]) /\ Cardinality(Reports(p)) \in Nat
         /\ queue[p] \in Seq(EventType)
<1>1. IsFiniteSet(Agents) /\ Living(p) \subseteq Agents
  BY FS_Interval, ChildrenAssumption DEF Agents, Living
<1>2. Reports(p) = CompletedIn(queue[p]) /\ queue[p] \in Seq(EventType)
  BY DEF Reports, CompletedIn, TypeOK
<1> QED BY <1>1, <1>2, FS_Subset, FS_CardinalityType, CompletedFinite

LEMMA CountKept ==
  ASSUME NEW q \in Agents, Counted(q), Living(q)' = Living(q), Reports(q)' = Reports(q),
         children'[q] = children[q],
         status'[q] \in {"free", "registered", "running"}
           => status[q] \in {"free", "registered", "running"}
  PROVE  Counted(q)'
BY DEF Counted

LEMMA CountStep ==
  ASSUME ReachInv, CountInv, [Next]_vars
  PROVE  CountInv'
<1>0. /\ TypeOK /\ status \in [Agents -> Status] /\ children \in [Agents -> Nat]
      /\ queue \in [Agents -> Seq(EventType)] /\ parent \in [Agents -> Agents]
      /\ MaxChildren \in Nat /\ 1 \in Agents
  <2>1. MaxChildren \in Nat /\ 1 \in Agents
    BY ChildrenAssumption DEF Agents
  <2> QED BY <2>1 DEF ReachInv, TypeOK
<1>a. status[1] = "running" /\ \A q \in Agents : Counted(q)
  BY DEF CountInv
<1>b. ASSUME queue' = queue PROVE \A q \in Agents : Reports(q)' = Reports(q)
  BY <1>b DEF Reports
<1>c. ASSUME NEW c \in Agents, status[c] \in {"registered", "returned"},
             NEW x \in {"declined", "deregistered"},
             x = "deregistered" <=> status[c] = "returned",
             status' = [status EXCEPT ![c] = x], parent' = parent, queue' = queue,
             children' = children
      PROVE  CountInv'
  <2>1. status'[c] = x /\ c # 1 /\ \A q \in Agents : q # c => status'[q] = status[q]
    BY <1>0, <1>a, <1>c
  <2>2. \A q \in Agents : Living(q)' = Living(q)
    BY <1>c, <2>1 DEF Living
  <2>3. \A q \in Agents : Counted(q)'
    BY <1>0, <1>a, <1>b, <1>c, <2>1, <2>2, CountKept
  <2> QED BY <1>0, <1>a, <2>1, <2>3 DEF CountInv
<1>1. CASE UNCHANGED vars
  <2>1. \A q \in Agents : Living(q)' = Living(q) /\ Reports(q)' = Reports(q)
    BY <1>1 DEF vars, Living, Reports
  <2> QED BY <1>1, <1>a, <2>1, CountKept DEF CountInv, vars
<1>2. ASSUME NEW p \in Agents, NEW batch \in Batches, Fork(p, batch) PROVE CountInv'
  <2> DEFINE new == {[i \in DOMAIN batch |-> next + i - 1][j] : j \in DOMAIN batch}
  <2>1. /\ status' = [a \in Agents |-> IF a \in new THEN "registered" ELSE status[a]]
        /\ parent' = [a \in Agents |-> IF a \in new THEN p ELSE parent[a]]
        /\ UNCHANGED <<children, queue>>
    BY <1>2 DEF Fork
  <2>2. \A a \in new : a >= next
    <3>1. batch \in Seq(Names) /\ next \in Nat
      BY <1>0, BatchType, ChildrenAssumption DEF TypeOK
    <3>2. \A i \in DOMAIN batch : i \in Nat /\ i >= 1
      BY <3>1
    <3> QED BY <3>1, <3>2
  <2> HIDE DEF new
  <2>3. \A a \in Agents : a \in new => status[a] = "free"
    BY <2>2 DEF ReachInv, Numbered
  <2>4. \A q \in Agents : Living(q)' = Living(q)
    <3>1. ASSUME NEW q \in Agents, NEW c \in Agents PROVE c \in Living(q)' <=> c \in Living(q)
      BY <2>1, <2>3 DEF Living
    <3> QED BY <3>1 DEF Living
  <2>5. \A q \in Agents : status'[q] \in {"free", "registered", "running"}
                            => status[q] \in {"free", "registered", "running"}
    BY <2>1, <2>3
  <2>6. \A q \in Agents : Counted(q)'
    BY <1>a, <1>b, <2>1, <2>4, <2>5, CountKept
  <2> QED BY <1>0, <1>a, <2>1, <2>3, <2>6 DEF CountInv
<1>3. ASSUME NEW p \in Agents, Decline(p) \/ ApiClientFails(p) PROVE CountInv'
  <2>1. forking[p] # <<>> /\ forking[p] \in Seq(Names)
    BY <1>0, <1>3 DEF Decline, ApiClientFails, TypeOK
  <2>2. Head(forking[p]) = forking[p][1] /\ 1 \in DOMAIN forking[p]
    BY <2>1
  <2>3. Awaiting(p, forking[p][1]) /\ forking[p][1] \in AllNames
    BY <2>1, <2>2, PendingNames
  <2>4. PICK c \in Agents : c = registry[forking[p][1]].to
    BY <2>3, AwaitingNotRunning
  <2>5. status[c] = "registered"
    BY <2>3, <2>4 DEF Awaiting
  <2>6. status' = [status EXCEPT ![c] = "declined"]
    <3>1. CASE Decline(p)
      BY <2>2, <2>4, <3>1 DEF Decline
    <3>2. CASE ApiClientFails(p)
      <4>1. Head(channels[p]) = c
        BY <2>1, <2>4, <3>2, FirstChannel DEF ApiClientFails
      <4> QED BY <3>2, <4>1 DEF ApiClientFails
    <3> QED BY <1>3, <3>1, <3>2
  <2> QED BY <1>3, <1>c, <2>5, <2>6 DEF Decline, ApiClientFails
<1>4. ASSUME NEW p \in Agents, Spawn(p) PROVE CountInv'
  <2>1. forking[p] # <<>> /\ forking[p] \in Seq(Names) /\ ~Full(p)
    BY <1>0, <1>4 DEF Spawn, TypeOK
  <2>2. 1 \in DOMAIN forking[p]
    BY <2>1
  <2>3. Awaiting(p, forking[p][1]) /\ forking[p][1] \in AllNames
    BY <2>1, <2>2, PendingNames
  <2>4. PICK c \in Agents : c = registry[forking[p][1]].to
    BY <2>3, AwaitingNotRunning
  <2>5. status[c] = "registered" /\ parent[c] = p /\ c # 1
    BY <1>a, <2>3, <2>4 DEF Awaiting
  <2>6. /\ status' = [status EXCEPT ![c] = "running"]
        /\ children' = [children EXCEPT ![p] = children[p] + 1]
        /\ UNCHANGED <<parent, queue>>
    <3>1. Head(channels[p]) = c
      BY <2>1, <2>4, FirstChannel
    <3> QED BY <1>4, <3>1 DEF Spawn
  <2>7. /\ status'[c] = "running" /\ \A q \in Agents : q # c => status'[q] = status[q]
        /\ children'[p] = children[p] + 1 /\ \A q \in Agents : q # p => children'[q] = children[q]
    BY <1>0, <2>6
  <2>8. \A q \in Agents : q # p => Living(q)' = Living(q)
    BY <2>5, <2>6, <2>7 DEF Living
  <2>9. Living(p)' = Living(p) \cup {c} /\ c \notin Living(p)
    BY <2>5, <2>6, <2>7 DEF Living
  <2>10. ASSUME NEW q \in Agents, q # p PROVE Counted(q)'
    BY <1>a, <1>b, <2>5, <2>6, <2>7, <2>8, <2>10, CountKept
  <2>11. Cardinality(Living(p)') = Cardinality(Living(p)) + 1
    BY <1>0, <2>9, LivingFinite, FS_AddElement
  <2>12. Counted(p)'
    <3>1. SUFFICES ASSUME status'[p] \in {"free", "registered", "running"} PROVE Counted(p)'
      BY DEF Counted
    <3>2. status[p] \in {"free", "registered", "running"}
      BY <2>5, <2>7, <3>1
    <3>3. children[p] = Cardinality(Living(p)) + Cardinality(Reports(p))
      BY <1>a, <3>2 DEF Counted
    <3>4. children[p] \in Nat /\ children[p] < MaxChildren
      BY <1>0, <2>1 DEF Full
    <3>5. Cardinality(Living(p)) \in Nat /\ Cardinality(Reports(p)) \in Nat
      BY <1>0, LivingFinite
    <3>6. Reports(p)' = Reports(p)
      BY <1>b, <2>6
    <3>7. children'[p] = Cardinality(Living(p)') + Cardinality(Reports(p)') /\ children'[p] <= MaxChildren
      BY <1>0, <2>7, <2>11, <3>3, <3>4, <3>5, <3>6
    <3> QED BY <3>7 DEF Counted
  <2> QED BY <1>0, <1>a, <2>5, <2>7, <2>10, <2>12 DEF CountInv
<1>5. ASSUME NEW a \in Agents, NEW n \in AllNames, NEW m \in Sends, Send(a, n, m) PROVE CountInv'
  <2>1. registry[n].to \in Agents
    BY <1>5 DEF Send, ReachInv, Numbered
  <2>2. PICK c \in Agents : c = registry[n].to
    BY <2>1
  <2>3. /\ queue' = [queue EXCEPT ![c] = Append(queue[c], Message(m))]
        /\ UNCHANGED <<status, parent, children>>
    BY <1>5, <2>2 DEF Send
  <2>4. Message(m) \in EventType /\ Message(m).type # "completed"
    BY ChildrenAssumption DEF Message, EventType, Sends
  <2>5. \A q \in Agents : Living(q)' = Living(q)
    BY <2>3 DEF Living
  <2>6. queue'[c] = Append(queue[c], Message(m)) /\ \A q \in Agents : q # c => queue'[q] = queue[q]
    BY <1>0, <2>3
  <2>7. \A q \in Agents : Reports(q)' = Reports(q)
    <3>1. CompletedIn(queue'[c]) = CompletedIn(queue[c])
      BY <1>0, <2>4, <2>6, CompletedAppend
    <3> QED BY <2>6, <3>1 DEF Reports, CompletedIn
  <2> QED BY <1>a, <2>3, <2>5, <2>7, CountKept DEF CountInv
<1>6. ASSUME NEW a \in Agents, Receive(a) PROVE CountInv'
  <2>1. /\ status[a] = "running" /\ queue[a] # <<>> /\ UNCHANGED <<status, parent>>
        /\ queue' = [queue EXCEPT ![a] = Tail(queue[a])]
        /\ Head(queue[a]).type = "completed" =>
             children' = [children EXCEPT ![a] = IF children[a] = 0 THEN 0 ELSE children[a] - 1]
        /\ Head(queue[a]).type # "completed" => children' = children
    BY <1>6 DEF Receive, Free
  <2>2. queue'[a] = Tail(queue[a]) /\ \A q \in Agents : q # a => queue'[q] = queue[q]
    BY <1>0, <2>1
  <2>3. \A q \in Agents : Living(q)' = Living(q)
    BY <2>1 DEF Living
  <2>4. ASSUME NEW q \in Agents, q # a PROVE Counted(q)'
    <3>1. Reports(q)' = Reports(q) /\ children'[q] = children[q]
      BY <1>0, <2>1, <2>2, <2>4 DEF Reports
    <3> QED BY <1>a, <2>1, <2>3, <3>1, CountKept
  <2>5. Reports(a) = CompletedIn(queue[a]) /\ Reports(a)' = CompletedIn(Tail(queue[a]))
    BY <2>2 DEF Reports, CompletedIn
  <2>6. /\ Cardinality(Reports(a)) = Cardinality(Reports(a)') +
                                      (IF Head(queue[a]).type = "completed" THEN 1 ELSE 0)
        /\ Cardinality(Reports(a)') \in Nat
    <3>1. queue[a] \in Seq(EventType) /\ Tail(queue[a]) \in Seq(EventType)
      BY <1>0, <2>1
    <3> QED BY <2>1, <2>5, <3>1, CompletedTail, CompletedFinite
  <2>7. /\ children[a] = Cardinality(Living(a)) + Cardinality(Reports(a)) /\ children[a] <= MaxChildren
        /\ children[a] \in Nat /\ Cardinality(Living(a)) \in Nat
    BY <1>0, <1>a, <2>1, LivingFinite DEF Counted
  <2>8. CASE Head(queue[a]).type = "completed"
    <3>1. children'[a] = IF children[a] = 0 THEN 0 ELSE children[a] - 1
      BY <1>0, <2>1, <2>8
    <3>2. children'[a] = Cardinality(Living(a)') + Cardinality(Reports(a)') /\ children'[a] <= MaxChildren
      BY <1>0, <2>3, <2>6, <2>7, <2>8, <3>1
    <3> QED BY <1>a, <2>1, <2>4, <3>2 DEF CountInv, Counted
  <2>9. CASE Head(queue[a]).type # "completed"
    <3>1. children'[a] = Cardinality(Living(a)') + Cardinality(Reports(a)') /\ children'[a] <= MaxChildren
      BY <1>0, <2>1, <2>3, <2>6, <2>7, <2>9
    <3> QED BY <1>a, <2>1, <2>4, <3>1 DEF CountInv, Counted
  <2> QED BY <2>8, <2>9
<1>7. ASSUME NEW a \in Agents, Return(a) PROVE CountInv'
  <2>1. /\ a # 1 /\ status[a] = "running" /\ UNCHANGED <<parent, children, queue>>
        /\ status' = [status EXCEPT ![a] = "returned"]
    BY <1>7 DEF Return, Free
  <2>2. status'[a] = "returned" /\ \A q \in Agents : q # a => status'[q] = status[q]
    BY <1>0, <2>1
  <2>3. \A q \in Agents : Living(q)' = Living(q)
    BY <2>1, <2>2 DEF Living
  <2>4. \A q \in Agents : Counted(q)'
    BY <1>a, <1>b, <2>1, <2>2, <2>3, CountKept
  <2> QED BY <1>0, <1>a, <2>1, <2>2, <2>4 DEF CountInv
<1>8. ASSUME NEW a \in Agents, Deregister(a) PROVE CountInv'
  BY <1>8, <1>c DEF Deregister
<1>9. ASSUME NEW a \in Agents, Report(a) PROVE CountInv'
  <2>1. /\ a # 1 /\ status[a] = "deregistered" /\ UNCHANGED <<parent, children>>
        /\ status' = [status EXCEPT ![a] = "gone"]
        /\ queue' = IF status[parent[a]] = "gone" THEN queue
                    ELSE [queue EXCEPT ![parent[a]] = Append(queue[parent[a]], Completed(a))]
    BY <1>9, <1>a DEF Report
  <2>2. status'[a] = "gone" /\ \A q \in Agents : q # a => status'[q] = status[q]
    BY <1>0, <2>1
  <2>3. PICK p \in Agents : p = parent[a]
    BY <1>0
  <2>4. \A q \in Agents : q # p => Living(q)' = Living(q)
    BY <2>1, <2>2, <2>3 DEF Living
  <2>5. Living(p)' = Living(p) \ {a} /\ a \in Living(p)
    BY <2>1, <2>2, <2>3 DEF Living
  <2>6. ASSUME NEW q \in Agents, q # p PROVE Counted(q)'
    <3>1. queue'[q] = queue[q]
      BY <1>0, <2>1, <2>3, <2>6
    <3>2. Reports(q)' = Reports(q)
      BY <3>1 DEF Reports
    <3> QED BY <1>a, <2>1, <2>2, <2>4, <2>6, <3>2, CountKept
  <2>7. Counted(p)'
    <3>1. SUFFICES ASSUME status'[p] \in {"free", "registered", "running"} PROVE Counted(p)'
      BY DEF Counted
    <3>2. p # a /\ status[p] = status'[p]
      BY <2>2, <3>1
    <3>3. queue' = [queue EXCEPT ![p] = Append(queue[p], Completed(a))]
      BY <2>1, <2>3, <3>1, <3>2
    <3>4. queue'[p] = Append(queue[p], Completed(a)) /\ queue[p] \in Seq(EventType)
      BY <1>0, <3>3
    <3>5. Completed(a) \in EventType /\ Completed(a).type = "completed"
      BY DEF Completed, EventType, Agents
    <3>6. Cardinality(Reports(p)') = Cardinality(Reports(p)) + 1
      <4>1. Reports(p)' = CompletedIn(queue'[p]) /\ Reports(p) = CompletedIn(queue[p])
        BY DEF Reports, CompletedIn
      <4> QED BY <3>4, <3>5, <4>1, CompletedAppend
    <3>7. Cardinality(Living(p)') = Cardinality(Living(p)) - 1
      BY <1>0, <2>5, LivingFinite, FS_RemoveElement
    <3>8. Cardinality(Living(p)) \in Nat /\ Cardinality(Reports(p)) \in Nat
      BY <1>0, LivingFinite
    <3>9. children[p] = Cardinality(Living(p)) + Cardinality(Reports(p)) /\ children[p] <= MaxChildren
      BY <1>a, <3>1, <3>2 DEF Counted
    <3>10. children'[p] = Cardinality(Living(p)') + Cardinality(Reports(p)') /\ children'[p] <= MaxChildren
      BY <2>1, <3>6, <3>7, <3>8, <3>9
    <3> QED BY <3>10 DEF Counted
  <2> QED BY <1>0, <1>a, <2>1, <2>2, <2>6, <2>7 DEF CountInv
<1> QED
  BY <1>1, <1>2, <1>3, <1>4, <1>5, <1>6, <1>7, <1>8, <1>9 DEF Next, Step, AllNames

(***************************************************************************)
(* active_children is the number of the children that run or whose end the *)
(* parent has still to apply, for any names, limits and order of forks,    *)
(* failed spawns, messages and ends: saturating_sub never saturates, and   *)
(* the limit on children holds.                                            *)
(***************************************************************************)
THEOREM AlwaysCounted == Spec => []ChildrenCounted
<1>1. Init => CountInv
  <2>1. SUFFICES ASSUME Init PROVE CountInv
    OBVIOUS
  <2>2. ASSUME NEW p \in Agents PROVE Counted(p)
    <3>1. Living(p) = {} /\ Reports(p) = {} /\ children[p] = 0
      BY <2>1 DEF Init, Living, Reports
    <3> QED BY <3>1, FS_EmptySet, ChildrenAssumption DEF Counted
  <2>3. status[1] = "running"
    BY <2>1, ChildrenAssumption DEF Init, Agents
  <2> QED BY <2>2, <2>3 DEF CountInv
<1>2. ReachInv /\ CountInv /\ [Next]_vars => CountInv'
  BY CountStep
<1>3. CountInv => ChildrenCounted
  BY DEF CountInv, Counted, ChildrenCounted
<1> QED
  BY <1>1, <1>2, <1>3, ReachInvariant, PTL DEF Spec

=============================================================================
