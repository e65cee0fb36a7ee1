-------------------------- MODULE ChatServerProofs --------------------------
(***************************************************************************)
(* Proofs about ChatServer, for any users, connections, capacities and     *)
(* behaviours of the bridges.                                              *)
(***************************************************************************)
EXTENDS ChatServer, FiniteSetTheorems, TLAPS

Phases == Inserted \cup {"off", "authed", "ended"}

(***************************************************************************)
(* The inductive invariant.  NewestHolds alone does not say whose session  *)
(* is the newest of a user: without that, the registration or the end of   *)
(* one user's session could be taken for that of another.                  *)
(***************************************************************************)
Registrations ==
  /\ phase \in [Sessions -> Phases]
  /\ conns \in [Users -> Sessions \cup {NoSession}]
  /\ newest \in [Users -> Sessions \cup {NoSession}]

OwnSessions == \A u \in Users : newest[u] # NoSession => UserOf[newest[u]] = u

NewestInv == Registrations /\ OwnSessions /\ NewestHolds

\* A session that moves on without leaving Inserted, or from outside to outside,
\* disturbs nothing as long as the two maps stay.
LEMMA MovesOn ==
  ASSUME NewestInv, NEW s \in Sessions, NEW x \in Phases,
         phase[s] \in Inserted <=> x \in Inserted,
         phase' = [phase EXCEPT ![s] = x], conns' = conns, newest' = newest
  PROVE  NewestInv'
<1>1. Registrations' /\ OwnSessions'
  BY DEF NewestInv, Registrations, OwnSessions
<1>2. \A t \in Sessions : phase'[t] \in Inserted <=> phase[t] \in Inserted
  BY DEF NewestInv, Registrations
<1>3. NewestHolds'
  <2> SUFFICES ASSUME NEW u \in Users
               PROVE  /\ newest[u] # NoSession /\ phase'[newest[u]] \in Inserted => conns[u] = newest[u]
                      /\ conns[u] # NoSession => conns[u] = newest[u] /\ phase'[conns[u]] \in Inserted
    BY DEF NewestHolds, Inserted
  <2>1. newest[u] \in Sessions \cup {NoSession} /\ conns[u] \in Sessions \cup {NoSession}
    BY DEF NewestInv, Registrations
  <2> QED BY <1>2, <2>1 DEF NewestInv, NewestHolds
<1> QED BY <1>1, <1>3 DEF NewestInv

\* A step that touches neither the sessions' places nor the maps.
LEMMA NothingMoves ==
  ASSUME NewestInv, UNCHANGED <<phase, conns, newest>>
  PROVE  NewestInv'
BY DEF NewestInv, Registrations, OwnSessions, NewestHolds, Inserted, Phases

\* Insert makes a session the newest of its user and of no other.
LEMMA InsertHolds ==
  ASSUME NewestInv, NEW s \in Sessions, Insert(s)
  PROVE  NewestInv'
<1> DEFINE v == UserOf[s]
<1>1. v \in Users /\ s # NoSession
  BY SessionsAssumption DEF Users
<1>2. /\ phase' = [phase EXCEPT ![s] = "inserted"]
      /\ conns' = [conns EXCEPT ![v] = s] /\ newest' = [newest EXCEPT ![v] = s]
      /\ phase[s] = "authed"
  BY DEF Insert
<1>3. Registrations'
  BY <1>1, <1>2 DEF NewestInv, Registrations, Phases, Inserted
<1>4. OwnSessions'
  BY <1>1, <1>2 DEF NewestInv, Registrations, OwnSessions
<1>5. NewestHolds'
  <2> SUFFICES ASSUME NEW u \in Users
               PROVE  /\ newest'[u] # NoSession /\ phase'[newest'[u]] \in Inserted => conns'[u] = newest'[u]
                      /\ conns'[u] # NoSession => conns'[u] = newest'[u] /\ phase'[conns'[u]] \in Inserted
    BY DEF NewestHolds, Inserted
  <2>1. CASE u = v
    BY <1>1, <1>2, <2>1 DEF NewestInv, Registrations, Inserted
  <2>2. CASE u # v
    <3>1. newest'[u] = newest[u] /\ conns'[u] = conns[u]
      BY <1>1, <1>2, <2>2 DEF NewestInv, Registrations
    <3>2. newest[u] # s
      BY <1>1, <2>2 DEF NewestInv, OwnSessions
    <3>3. newest[u] \in Sessions \cup {NoSession} /\ conns[u] \in Sessions \cup {NoSession}
      BY DEF NewestInv, Registrations
    <3>4. \A t \in Sessions : t # s => phase'[t] = phase[t]
      BY <1>2 DEF NewestInv, Registrations
    <3> QED BY <3>1, <3>2, <3>3, <3>4 DEF NewestInv, NewestHolds
  <2> QED BY <2>1, <2>2
<1> QED BY <1>3, <1>4, <1>5 DEF NewestInv

\* Cleanup takes a session's own entry and leaves that of its successor.
LEMMA CleanupHolds ==
  ASSUME NewestInv, NEW s \in Sessions, Cleanup(s)
  PROVE  NewestInv'
<1> DEFINE v == UserOf[s]
<1>1. v \in Users /\ s # NoSession
  BY SessionsAssumption DEF Users
<1>2. /\ phase' = [phase EXCEPT ![s] = "ended"]
      /\ conns' = [conns EXCEPT ![v] = IF @ = s THEN NoSession ELSE @]
      /\ newest' = newest
  BY DEF Cleanup
<1>3. Registrations'
  BY <1>1, <1>2 DEF NewestInv, Registrations, Phases
<1>4. OwnSessions'
  BY <1>2 DEF NewestInv, OwnSessions
<1>5. NewestHolds'
  <2> SUFFICES ASSUME NEW u \in Users
               PROVE  /\ newest[u] # NoSession /\ phase'[newest[u]] \in Inserted => conns'[u] = newest[u]
                      /\ conns'[u] # NoSession => conns'[u] = newest[u] /\ phase'[conns'[u]] \in Inserted
    BY <1>2 DEF NewestHolds, Inserted
  <2>1. newest[u] \in Sessions \cup {NoSession} /\ conns[u] \in Sessions \cup {NoSession}
    BY DEF NewestInv, Registrations
  <2>2. \A t \in Sessions : t # s => phase'[t] = phase[t]
    BY <1>2 DEF NewestInv, Registrations
  <2>3. phase'[s] \notin Inserted
    BY <1>2 DEF NewestInv, Registrations, Inserted
  <2>4. conns[u] = s => u = v
    BY <1>1 DEF NewestInv, NewestHolds, OwnSessions
  <2>5. conns'[u] = IF conns[u] = s THEN NoSession ELSE conns[u]
    BY <1>1, <1>2, <2>4 DEF NewestInv, Registrations
  <2> QED BY <1>1, <2>1, <2>2, <2>3, <2>5 DEF NewestInv, NewestHolds
<1> QED BY <1>3, <1>4, <1>5 DEF NewestInv

\* Every step keeps the invariant.
LEMMA NewestStep ==
  ASSUME NewestInv, [Next]_vars
  PROVE  NewestInv'
<1>1. CASE UNCHANGED vars
  BY <1>1, NothingMoves DEF vars, serverVars
<1>2. CASE Tick
  BY <1>2, NothingMoves DEF Tick, serverVars
<1>3. ASSUME NEW s \in Sessions, Auth(s) PROVE NewestInv'
  <2>1. PICK x \in {"authed", "ended"} : phase' = [phase EXCEPT ![s] = x]
    BY <1>3 DEF Auth
  <2>2. phase[s] \notin Inserted /\ x \notin Inserted /\ x \in Phases
    BY <1>3 DEF Auth, Inserted, Phases
  <2> QED BY <1>3, <2>1, <2>2, MovesOn DEF Auth
<1>4. ASSUME NEW s \in Sessions, Greet(s) \/ Deliver(s) \/ RxClosed(s) \/ Hangup(s) \/ SinkSends(s)
      PROVE  NewestInv'
  <2>1. PICK x \in {"loop", "sending", "leaving"} : phase' = [phase EXCEPT ![s] = x]
    BY <1>4 DEF Greet, Deliver, RxClosed, Hangup, SinkSends
  <2>2. phase[s] \in Inserted /\ x \in Inserted /\ x \in Phases
    BY <1>4 DEF Greet, Deliver, RxClosed, Hangup, SinkSends, Inserted, Phases
  <2>3. conns' = conns /\ newest' = newest
    BY <1>4 DEF Greet, Deliver, RxClosed, Hangup, SinkSends, LoopFrame
  <2> QED BY <2>1, <2>2, <2>3, MovesOn
<1>5. ASSUME NEW s \in Sessions, Inbound(s) PROVE NewestInv'
  <2>1. phase[s] = "loop" /\ conns' = conns /\ newest' = newest
    BY <1>5 DEF Inbound
  <2>2. CASE UNCHANGED phase
    BY <2>1, <2>2, NothingMoves
  <2>3. CASE phase' = [phase EXCEPT ![s] = "sending"]
    <3>1. phase[s] \in Inserted /\ "sending" \in Inserted /\ "sending" \in Phases
      BY <2>1 DEF Inserted, Phases
    <3> QED BY <2>1, <2>3, <3>1, MovesOn
  <2> QED BY <1>5, <2>2, <2>3 DEF Inbound
<1>6. ASSUME NEW s \in Sessions,
             \/ BridgeGreeted(s) \/ BridgeSends(s) \/ BridgeReceives(s) \/ Flush(s) \/ BridgeStops(s)
             \/ \E to \in Users, k \in {"text", "large", "garbled"} : BridgeTakes(s, to, k)
      PROVE  NewestInv'
  <2>1. UNCHANGED <<phase, conns, newest>>
    BY <1>6 DEF BridgeGreeted, BridgeSends, BridgeReceives, Flush, BridgeStops, BridgeTakes, serverVars
  <2> QED BY <2>1, NothingMoves
<1> QED
  BY <1>1, <1>2, <1>3, <1>4, <1>5, <1>6, InsertHolds, CleanupHolds
  DEF Next, SessionStep, BridgeStep

(***************************************************************************)
(* However sessions of a user replace each other, and in whatever order    *)
(* their tasks clean up, the map leads to the one that registered last     *)
(* until that one leaves, and never to a session that has left             *)
(* (chat_session's insert and its check of the session id at the end).     *)
(***************************************************************************)
THEOREM NewestReachable == Spec => []NewestHolds
<1>1. Init => NewestInv
  <2> SUFFICES ASSUME Init PROVE NewestInv
    OBVIOUS
  <2>1. Registrations
    BY DEF Init, Registrations, Phases
  <2>2. OwnSessions /\ NewestHolds
    BY DEF Init, OwnSessions, NewestHolds
  <2> QED BY <2>1, <2>2 DEF NewestInv
<1>2. NewestInv => NewestHolds
  BY DEF NewestInv
<1> QED BY <1>1, <1>2, NewestStep, PTL DEF Spec

-----------------------------------------------------------------------------
(***************************************************************************)
(* The rate limit.  RateBound compares a frame with one far behind it; what *)
(* a step knows is the current bucket.  The last count frames passed in it, *)
(* the frames before it were no later than its start, and those that are a  *)
(* whole limit further back passed in a bucket that had ended Window before *)
(* that start: between them and the current bucket lies another one.        *)
(***************************************************************************)
Early == {"off", "authed", "inserted"}

RateTypes ==
  /\ phase \in [Sessions -> Phases] /\ now \in Nat
  /\ bucket \in [Sessions -> [start : Nat, count : Nat]]
  /\ routed \in [Sessions -> Seq(Nat)]

\* r: the times routed so far, start and n: the bucket, t: the time
Paced(r, start, n, t) ==
  /\ start <= t /\ n <= RateLimit /\ n <= Len(r)
  /\ \A k \in 1 .. Len(r) : r[k] <= t
  /\ \A k \in 1 .. Len(r) - n : r[k] <= start
  /\ \A k \in 1 .. Len(r) - n - RateLimit : r[k] + Window < start
  /\ \A k \in 1 .. Len(r) - 2 * RateLimit : r[k + 2 * RateLimit] > r[k] + Window

RateInv ==
  /\ RateTypes
  /\ \A s \in Sessions : /\ phase[s] \in Early => routed[s] = <<>>
                         /\ Paced(routed[s], bucket[s].start, bucket[s].count, now)

\* A frame passes in the current bucket.
LEMMA PassesInBucket ==
  ASSUME NEW r \in Seq(Nat), NEW start \in Nat, NEW n \in Nat, NEW t \in Nat,
         Paced(r, start, n, t), n < RateLimit
  PROVE  Paced(Append(r, t), start, n + 1, t)
<1> DEFINE q == Append(r, t)
<1>1. /\ q \in Seq(Nat) /\ Len(q) = Len(r) + 1 /\ q[Len(r) + 1] = t
      /\ \A k \in 1 .. Len(r) : q[k] = r[k]
      /\ Len(r) \in Nat /\ \A k \in 1 .. Len(r) : r[k] \in Nat
  OBVIOUS
<1>2. RateLimit \in Nat /\ Window \in Nat
  BY LimitsAssumption
<1>3. start <= t /\ n <= Len(r) /\ \A k \in 1 .. Len(r) : r[k] <= t
  BY DEF Paced
<1>4. \A k \in 1 .. Len(r) - n : r[k] <= start
  BY DEF Paced
<1>5. \A k \in 1 .. Len(r) - n - RateLimit : r[k] + Window < start
  BY DEF Paced
<1>6. \A k \in 1 .. Len(r) - 2 * RateLimit : r[k + 2 * RateLimit] > r[k] + Window
  BY DEF Paced
<1> HIDE DEF q
<1>7. ASSUME NEW k \in 1 .. Len(q) - 2 * RateLimit
      PROVE  q[k + 2 * RateLimit] > q[k] + Window
  <2>1. CASE k + 2 * RateLimit = Len(q)
    <3>1. k \in 1 .. Len(r) - n - RateLimit /\ k \in 1 .. Len(r)
      BY <1>1, <1>2, <2>1
    <3>2. r[k] + Window < start /\ q[k] = r[k] /\ r[k] \in Nat
      BY <1>1, <1>5, <3>1
    <3>3. q[k + 2 * RateLimit] = t
      BY <1>1, <2>1
    <3> QED BY <1>2, <1>3, <3>2, <3>3
  <2>2. CASE k + 2 * RateLimit # Len(q)
    <3>1. /\ k \in 1 .. Len(r) - 2 * RateLimit /\ k \in 1 .. Len(r)
          /\ k + 2 * RateLimit \in 1 .. Len(r)
      <4>1. Len(q) = Len(r) + 1 /\ Len(r) \in Nat /\ k \in Nat
        BY <1>1, <1>2
      <4> QED BY <1>2, <2>2, <4>1
    <3>2. q[k] = r[k] /\ q[k + 2 * RateLimit] = r[k + 2 * RateLimit]
      BY <1>1, <3>1
    <3> QED BY <1>6, <3>1, <3>2
  <2> QED BY <2>1, <2>2
<1>8. \A k \in 1 .. Len(q) : q[k] <= t
  BY <1>1, <1>3
<1>9. \A k \in 1 .. Len(q) - (n + 1) : q[k] <= start
  <2> SUFFICES ASSUME NEW k \in 1 .. Len(q) - (n + 1) PROVE q[k] <= start
    OBVIOUS
  <2>1. k \in 1 .. Len(r) - n /\ k \in 1 .. Len(r)
    BY <1>1
  <2> QED BY <1>1, <1>4, <2>1
<1>10. \A k \in 1 .. Len(q) - (n + 1) - RateLimit : q[k] + Window < start
  <2> SUFFICES ASSUME NEW k \in 1 .. Len(q) - (n + 1) - RateLimit PROVE q[k] + Window < start
    OBVIOUS
  <2>1. k \in 1 .. Len(r) - n - RateLimit /\ k \in 1 .. Len(r)
    BY <1>1, <1>2
  <2> QED BY <1>1, <1>5, <2>1
<1>11. start <= t /\ n + 1 <= RateLimit /\ n + 1 <= Len(q)
  BY <1>1, <1>2, <1>3
<1>12. Paced(q, start, n + 1, t)
  BY <1>7, <1>8, <1>9, <1>10, <1>11 DEF Paced
<1> QED BY <1>12 DEF q

\* The bucket starts anew once it has lasted longer than Window.
LEMMA StartsAnew ==
  ASSUME NEW r \in Seq(Nat), NEW start \in Nat, NEW n \in Nat, NEW t \in Nat,
         Paced(r, start, n, t), t - start > Window
  PROVE  Paced(r, t, 0, t)
<1>1. RateLimit \in Nat /\ Window \in Nat /\ Len(r) \in Nat /\ \A k \in 1 .. Len(r) : r[k] \in Nat
  BY LimitsAssumption
<1>2. ASSUME NEW k \in 1 .. Len(r) - 0 - RateLimit
      PROVE  r[k] + Window < t
  <2>1. k \in 1 .. Len(r) - n /\ k \in 1 .. Len(r)
    BY <1>1 DEF Paced
  <2> QED BY <1>1, <2>1 DEF Paced
<1> QED BY <1>1, <1>2 DEF Paced

\* Steps that route nothing.
LEMMA NothingRouted ==
  ASSUME RateInv, UNCHANGED <<now, bucket, routed>>, phase' \in [Sessions -> Phases],
         \A s \in Sessions : phase'[s] \in Early => phase[s] \in Early
  PROVE  RateInv'
BY DEF RateInv, RateTypes, Paced

\* A session that moves on.
LEMMA MovesOnRouted ==
  ASSUME RateInv, UNCHANGED <<now, bucket, routed>>, NEW s \in Sessions, NEW x \in Phases,
         phase' = [phase EXCEPT ![s] = x], x \in Early => phase[s] \in Early
  PROVE  RateInv'
<1>1. phase' \in [Sessions -> Phases]
  BY DEF RateInv, RateTypes
<1>2. \A t \in Sessions : phase'[t] \in Early => phase[t] \in Early
  BY DEF RateInv, RateTypes
<1> QED BY <1>1, <1>2, NothingRouted

\* A frame from the wire is counted, refused or, too large, not looked at.
LEMMA InboundPaced ==
  ASSUME RateInv, NEW s \in Sessions, Inbound(s)
  PROVE  RateInv'
<1> DEFINE B == [start : Nat, count : Nat]
           m == sends[Head(up[s])]
           b == Refreshed(s)
           c == [b EXCEPT !.count = @ + 1]
<1>1. /\ phase[s] = "loop" /\ now' = now
      /\ bucket' = [bucket EXCEPT ![s] =
             IF m.kind = "large" THEN bucket[s] ELSE IF b.count >= RateLimit THEN b ELSE c]
      /\ routed' = IF m.kind = "large" \/ b.count >= RateLimit THEN routed
                   ELSE [routed EXCEPT ![s] = Append(routed[s], now)]
      /\ phase' = phase \/ phase' = [phase EXCEPT ![s] = "sending"]
  BY DEF Inbound
<1>2. /\ routed[s] \in Seq(Nat) /\ now \in Nat /\ bucket[s] \in B
      /\ Paced(routed[s], bucket[s].start, bucket[s].count, now) /\ RateLimit \in Nat
  BY LimitsAssumption DEF RateInv, RateTypes
<1>3. b \in B /\ Paced(routed[s], b.start, b.count, now)
  <2>1. CASE Expired(s)
    <3>1. Paced(routed[s], now, 0, now)
      BY <1>2, <2>1, StartsAnew DEF Expired
    <3>2. b = [start |-> now, count |-> 0]
      BY <2>1 DEF Refreshed
    <3> QED BY <1>2, <3>1, <3>2
  <2>2. CASE ~Expired(s)
    BY <1>2, <2>2 DEF Refreshed
  <2> QED BY <2>1, <2>2
<1> HIDE DEF b, m
<1>4. c \in B /\ c.start = b.start /\ c.count = b.count + 1
  BY <1>3
<1> HIDE DEF c
<1>5. /\ bucket'[s] \in B /\ routed'[s] \in Seq(Nat)
      /\ Paced(routed'[s], bucket'[s].start, bucket'[s].count, now)
  <2>1. /\ bucket'[s] = IF m.kind = "large" THEN bucket[s]
                        ELSE IF b.count >= RateLimit THEN b ELSE c
        /\ routed'[s] = IF m.kind = "large" \/ b.count >= RateLimit THEN routed[s]
                        ELSE Append(routed[s], now)
    BY <1>1 DEF RateInv, RateTypes
  <2>2. CASE m.kind = "large" \/ b.count >= RateLimit
    BY <1>2, <1>3, <2>1, <2>2
  <2>3. CASE ~(m.kind = "large" \/ b.count >= RateLimit)
    <3>1. b.start \in Nat /\ b.count \in Nat /\ b.count < RateLimit
      BY <1>2, <1>3, <2>3
    <3>2. bucket'[s] = c /\ routed'[s] = Append(routed[s], now)
      BY <2>1, <2>3
    <3>3. Paced(Append(routed[s], now), b.start, b.count + 1, now)
      BY <1>2, <1>3, <3>1, PassesInBucket
    <3> QED BY <1>2, <1>4, <3>2, <3>3
  <2> QED BY <2>2, <2>3
<1>6. \A t \in Sessions : t # s => bucket'[t] = bucket[t] /\ routed'[t] = routed[t]
  BY <1>1 DEF RateInv, RateTypes
<1>7. RateTypes'
  <2>1. phase' \in [Sessions -> Phases]
    BY <1>1 DEF RateInv, RateTypes, Phases, Inserted
  <2>2. /\ bucket' = [bucket EXCEPT ![s] = bucket'[s]]
        /\ routed' = [routed EXCEPT ![s] = routed'[s]]
    BY <1>1 DEF RateInv, RateTypes
  <2> QED BY <1>1, <1>5, <2>1, <2>2 DEF RateInv, RateTypes
<1>8. \A t \in Sessions : phase'[t] \in Early => phase[t] \in Early /\ t # s
  BY <1>1 DEF RateInv, RateTypes, Early
<1> QED BY <1>1, <1>5, <1>6, <1>7, <1>8 DEF RateInv

\* Time passes.
LEMMA TickPaced ==
  ASSUME RateInv, Tick
  PROVE  RateInv'
<1>1. now' = now + 1 /\ UNCHANGED <<phase, bucket, routed>>
  BY DEF Tick, serverVars
<1>2. ASSUME NEW r \in Seq(Nat), NEW start \in Nat, NEW n \in Nat, NEW t \in Nat,
             Paced(r, start, n, t)
      PROVE  Paced(r, start, n, t + 1)
  BY <1>2 DEF Paced
<1>3. ASSUME NEW s \in Sessions
      PROVE  Paced(routed[s], bucket[s].start, bucket[s].count, now + 1)
  <2>1. /\ routed[s] \in Seq(Nat) /\ bucket[s].start \in Nat /\ bucket[s].count \in Nat
        /\ now \in Nat /\ Paced(routed[s], bucket[s].start, bucket[s].count, now)
    BY DEF RateInv, RateTypes
  <2> QED BY <1>2, <2>1
<1> QED BY <1>1, <1>3 DEF RateInv, RateTypes

\* The bucket of a session starts with its greeting.
LEMMA GreetPaced ==
  ASSUME RateInv, NEW s \in Sessions, Greet(s)
  PROVE  RateInv'
<1> DEFINE b == [start |-> now, count |-> 0]
<1>1. /\ phase[s] = "inserted" /\ phase' = [phase EXCEPT ![s] = "loop"]
      /\ bucket' = [bucket EXCEPT ![s] = b] /\ UNCHANGED <<now, routed>>
  BY DEF Greet
<1>2. routed[s] = <<>> /\ now \in Nat /\ b \in [start : Nat, count : Nat]
  BY <1>1 DEF RateInv, RateTypes, Early
<1>3. Paced(<<>>, b.start, b.count, now)
  BY <1>2, LimitsAssumption DEF Paced
<1> HIDE DEF b
<1>4. RateTypes'
  BY <1>1, <1>2 DEF RateInv, RateTypes, Phases, Inserted
<1>5. \A t \in Sessions : t # s => bucket'[t] = bucket[t] /\ phase'[t] = phase[t]
  BY <1>1 DEF RateInv, RateTypes
<1>6. bucket'[s] = b /\ phase'[s] = "loop"
  BY <1>1 DEF RateInv, RateTypes
<1> QED BY <1>1, <1>2, <1>3, <1>4, <1>5, <1>6 DEF RateInv, Early

\* Every step keeps the pace.
LEMMA RateStep ==
  ASSUME RateInv, [Next]_vars
  PROVE  RateInv'
<1>1. CASE UNCHANGED vars
  BY <1>1, NothingRouted DEF vars, serverVars, RateInv, RateTypes
<1>2. ASSUME NEW s \in Sessions,
             \/ Auth(s) \/ Insert(s) \/ Deliver(s) \/ RxClosed(s) \/ Hangup(s)
             \/ SinkSends(s) \/ Cleanup(s)
      PROVE  RateInv'
  <2>1. PICK x \in {"authed", "ended", "inserted", "loop", "sending", "leaving"} :
          phase' = [phase EXCEPT ![s] = x] /\ (x \in Early => phase[s] \in Early)
    BY <1>2 DEF Auth, Insert, Deliver, RxClosed, Hangup, SinkSends, Cleanup, Early
  <2>2. UNCHANGED <<now, bucket, routed>>
    BY <1>2 DEF Auth, Insert, Deliver, RxClosed, Hangup, SinkSends, Cleanup, LoopFrame
  <2> QED BY <2>1, <2>2, MovesOnRouted DEF Phases, Inserted
<1>3. ASSUME NEW s \in Sessions,
             \/ BridgeGreeted(s) \/ BridgeSends(s) \/ BridgeReceives(s) \/ Flush(s) \/ BridgeStops(s)
             \/ \E to \in Users, k \in {"text", "large", "garbled"} : BridgeTakes(s, to, k)
      PROVE  RateInv'
  <2>1. UNCHANGED <<phase, now, bucket, routed>>
    BY <1>3 DEF BridgeGreeted, BridgeSends, BridgeReceives, Flush, BridgeStops, BridgeTakes, serverVars
  <2> QED BY <2>1, NothingRouted DEF RateInv, RateTypes
<1> QED
  BY <1>1, <1>2, <1>3, InboundPaced, TickPaced, GreetPaced
  DEF Next, SessionStep, BridgeStep

(***************************************************************************)
(* Whatever a bridge sends and whenever, a session lets at most twice the  *)
(* limit pass in any stretch as long as a bucket, because a bucket of      *)
(* chat_session starts anew only after it has lasted longer than that.     *)
(***************************************************************************)
THEOREM RateKept == Spec => []RateBound
<1>1. Init => RateInv
  <2> SUFFICES ASSUME Init PROVE RateInv
    OBVIOUS
  <2>1. RateTypes
    BY DEF Init, RateTypes, Phases
  <2>2. ASSUME NEW s \in Sessions
        PROVE  routed[s] = <<>> /\ Paced(routed[s], bucket[s].start, bucket[s].count, now)
    BY LimitsAssumption DEF Init, Paced
  <2> QED BY <2>1, <2>2 DEF RateInv
<1>2. RateInv => RateBound
  <2> SUFFICES ASSUME RateInv, NEW s \in Sessions, NEW k \in DOMAIN routed[s],
                      k + 2 * RateLimit \in DOMAIN routed[s]
               PROVE  routed[s][k + 2 * RateLimit] > routed[s][k] + Window
    BY DEF RateBound
  <2>1. routed[s] \in Seq(Nat) /\ Paced(routed[s], bucket[s].start, bucket[s].count, now)
    BY DEF RateInv, RateTypes
  <2>2. k \in 1 .. Len(routed[s]) /\ k + 2 * RateLimit \in 1 .. Len(routed[s])
    BY <2>1
  <2>3. k \in 1 .. Len(routed[s]) - 2 * RateLimit
    <3>1. Len(routed[s]) \in Nat /\ RateLimit \in Nat
      BY <2>1, LimitsAssumption
    <3>2. k \in Nat /\ k >= 1 /\ k + 2 * RateLimit <= Len(routed[s])
      BY <2>2, <3>1
    <3> QED BY <3>1, <3>2
  <2> QED BY <2>1, <2>3 DEF Paced
<1> QED BY <1>1, <1>2, RateStep, PTL DEF Spec
-----------------------------------------------------------------------------
(***************************************************************************)
(* Delivery.  Frames(s) is made of five sequences, and a step moves frames *)
(* from one to the next, adds one or drops some: what must hold of any two *)
(* frames of it is therefore kept as what must hold of two frames within   *)
(* each of the five, and of a frame of one and a frame of a later one.     *)
(***************************************************************************)
FrameType == [kind : {"ok", "refused", "from", "error", "none"}, n : Nat]

\* f comes before g: they are about different messages, and in order; m are the
\* messages sent.
Pair(m, f, g) ==
  /\ f.n = g.n => f.n = 0
  /\ f.kind = "from" /\ g.kind = "from" /\ m[f.n].from = m[g.n].from => f.n < g.n

Line(m, q) == \A k, l \in DOMAIN q : k < l => Pair(m, q[k], q[l])
Cross(m, q, r) == \A k \in DOMAIN q, l \in DOMAIN r : Pair(m, q[k], r[l])

\* The write that is going on, as a sequence.
Written(s) == IF sending[s] = Idle THEN <<>> ELSE <<sending[s]>>

\* A sequence after another.
LEMMA Concatenated ==
  ASSUME NEW q \in Seq(FrameType), NEW r \in Seq(FrameType)
  PROVE  /\ q \o r \in Seq(FrameType)
         /\ \A k \in DOMAIN q : k \in DOMAIN (q \o r) /\ (q \o r)[k] = q[k]
         /\ \A k \in DOMAIN r : Len(q) + k \in DOMAIN (q \o r) /\ (q \o r)[Len(q) + k] = r[k]
         /\ \A k \in DOMAIN (q \o r) :
              \/ k \in DOMAIN q /\ (q \o r)[k] = q[k]
              \/ k - Len(q) \in DOMAIN r /\ k > Len(q) /\ (q \o r)[k] = r[k - Len(q)]
<1> DEFINE t == q \o r
<1>1. /\ t \in Seq(FrameType) /\ Len(t) = Len(q) + Len(r) /\ Len(q) \in Nat /\ Len(r) \in Nat
      /\ \A k \in 1 .. Len(q) + Len(r) : t[k] = IF k <= Len(q) THEN q[k] ELSE r[k - Len(q)]
  OBVIOUS
<1>2. DOMAIN t = 1 .. Len(q) + Len(r) /\ DOMAIN q = 1 .. Len(q) /\ DOMAIN r = 1 .. Len(r)
  BY <1>1
<1> HIDE DEF t
<1>3. ASSUME NEW k \in DOMAIN q PROVE k \in DOMAIN t /\ t[k] = q[k]
  BY <1>1, <1>2
<1>4. ASSUME NEW k \in DOMAIN r PROVE Len(q) + k \in DOMAIN t /\ t[Len(q) + k] = r[k]
  <2>1. Len(q) + k \in 1 .. Len(q) + Len(r) /\ ~(Len(q) + k <= Len(q)) /\ (Len(q) + k) - Len(q) = k
    BY <1>1, <1>2
  <2> QED BY <1>1, <1>2, <2>1
<1>5. ASSUME NEW k \in DOMAIN t
      PROVE  \/ k \in DOMAIN q /\ t[k] = q[k]
             \/ k - Len(q) \in DOMAIN r /\ k > Len(q) /\ t[k] = r[k - Len(q)]
  BY <1>1, <1>2
<1> QED BY <1>1, <1>3, <1>4, <1>5 DEF t

LEMMA LineConcatenated ==
  ASSUME NEW m, NEW q \in Seq(FrameType), NEW r \in Seq(FrameType)
  PROVE  Line(m, q \o r) <=> Line(m, q) /\ Line(m, r) /\ Cross(m, q, r)
<1> DEFINE t == q \o r
<1>1. /\ \A k \in DOMAIN q : k \in DOMAIN t /\ t[k] = q[k]
      /\ \A k \in DOMAIN r : Len(q) + k \in DOMAIN t /\ t[Len(q) + k] = r[k]
      /\ \A k \in DOMAIN t :
           \/ k \in DOMAIN q /\ t[k] = q[k]
           \/ k - Len(q) \in DOMAIN r /\ k > Len(q) /\ t[k] = r[k - Len(q)]
  BY Concatenated
<1>2. DOMAIN q = 1 .. Len(q) /\ DOMAIN r = 1 .. Len(r) /\ Len(q) \in Nat /\ Len(r) \in Nat
  OBVIOUS
<1>a. DOMAIN t \subseteq Int
  BY Concatenated
<1> HIDE DEF t
<1>3. ASSUME Line(m, t) PROVE Line(m, q) /\ Line(m, r) /\ Cross(m, q, r)
  <2>1. Line(m, q)
    BY <1>1, <1>3 DEF Line
  <2>2. ASSUME NEW k \in DOMAIN r, NEW l \in DOMAIN r, k < l PROVE Pair(m, r[k], r[l])
    <3>1. Len(q) + k < Len(q) + l
      BY <1>2, <2>2
    <3> QED BY <1>1, <1>3, <3>1 DEF Line
  <2>3. ASSUME NEW k \in DOMAIN q, NEW l \in DOMAIN r PROVE Pair(m, q[k], r[l])
    <3>1. k < Len(q) + l
      BY <1>2
    <3> QED BY <1>1, <1>3, <3>1 DEF Line
  <2> QED BY <2>1, <2>2, <2>3 DEF Line, Cross
<1>4. ASSUME Line(m, q), Line(m, r), Cross(m, q, r) PROVE Line(m, t)
  <2> SUFFICES ASSUME NEW k \in DOMAIN t, NEW l \in DOMAIN t, k < l PROVE Pair(m, t[k], t[l])
    BY DEF Line
  <2>0. k \in Int /\ l \in Int
    BY <1>a
  <2>1. CASE k \in DOMAIN q /\ t[k] = q[k]
    <3>1. CASE l \in DOMAIN q /\ t[l] = q[l]
      BY <1>4, <2>1, <3>1 DEF Line
    <3>2. CASE l - Len(q) \in DOMAIN r /\ t[l] = r[l - Len(q)]
      BY <1>4, <2>1, <3>2 DEF Cross
    <3> QED BY <1>1, <3>1, <3>2
  <2>2. CASE k - Len(q) \in DOMAIN r /\ k > Len(q) /\ t[k] = r[k - Len(q)]
    <3>1. l \notin DOMAIN q /\ k - Len(q) < l - Len(q)
      BY <1>2, <2>0, <2>2
    <3>2. l - Len(q) \in DOMAIN r /\ t[l] = r[l - Len(q)]
      BY <1>1, <3>1
    <3> QED BY <1>4, <2>2, <3>1, <3>2 DEF Line
  <2> QED BY <1>1, <2>1, <2>2
<1> QED BY <1>3, <1>4 DEF t

LEMMA CrossConcatenated ==
  ASSUME NEW m, NEW q \in Seq(FrameType), NEW r \in Seq(FrameType), NEW t \in Seq(FrameType)
  PROVE  /\ Cross(m, q \o r, t) <=> Cross(m, q, t) /\ Cross(m, r, t)
         /\ Cross(m, t, q \o r) <=> Cross(m, t, q) /\ Cross(m, t, r)
<1> DEFINE u == q \o r
<1>1. /\ \A k \in DOMAIN q : k \in DOMAIN u /\ u[k] = q[k]
      /\ \A k \in DOMAIN r : Len(q) + k \in DOMAIN u /\ u[Len(q) + k] = r[k]
      /\ \A k \in DOMAIN u :
           \/ k \in DOMAIN q /\ u[k] = q[k]
           \/ k - Len(q) \in DOMAIN r /\ u[k] = r[k - Len(q)]
  BY Concatenated
<1> HIDE DEF u
<1>2. Cross(m, u, t) <=> Cross(m, q, t) /\ Cross(m, r, t)
  <2>1. Cross(m, u, t) => Cross(m, q, t) /\ Cross(m, r, t)
    BY <1>1 DEF Cross
  <2>2. Cross(m, q, t) /\ Cross(m, r, t) => Cross(m, u, t)
    BY <1>1 DEF Cross
  <2> QED BY <2>1, <2>2
<1>3. Cross(m, t, u) <=> Cross(m, t, q) /\ Cross(m, t, r)
  <2>1. Cross(m, t, u) => Cross(m, t, q) /\ Cross(m, t, r)
    BY <1>1 DEF Cross
  <2>2. Cross(m, t, q) /\ Cross(m, t, r) => Cross(m, t, u)
    BY <1>1 DEF Cross
  <2> QED BY <2>1, <2>2
<1> QED BY <1>2, <1>3 DEF u

\* A sequence that takes a frame at its end is one before a sequence of one
\* frame; one that has its first taken away was after such a one.
LEMMA AppendConcatenates ==
  ASSUME NEW q \in Seq(FrameType), NEW f \in FrameType
  PROVE  Append(q, f) = q \o <<f>> /\ <<f>> \in Seq(FrameType) /\ Append(q, f) \in Seq(FrameType)
OBVIOUS

LEMMA TailConcatenated ==
  ASSUME NEW q \in Seq(FrameType), q # <<>>
  PROVE  /\ q = <<Head(q)>> \o Tail(q) /\ <<Head(q)>> \in Seq(FrameType) /\ Tail(q) \in Seq(FrameType)
         /\ Head(q) \in FrameType
OBVIOUS

\* What must hold of any two frames of a session: p was posted, b is the batch,
\* d is on the wire, w is being written and q is in the channel.
Lined(m, p, b, d, w, q) ==
  /\ Line(m, p) /\ Line(m, b) /\ Line(m, d) /\ Line(m, w) /\ Line(m, q)
  /\ Cross(m, p, b) /\ Cross(m, p, d) /\ Cross(m, p, w) /\ Cross(m, p, q)
  /\ Cross(m, b, d) /\ Cross(m, b, w) /\ Cross(m, b, q)
  /\ Cross(m, d, w) /\ Cross(m, d, q) /\ Cross(m, w, q)

LEMMA LinedFrames ==
  ASSUME NEW m, NEW p \in Seq(FrameType), NEW b \in Seq(FrameType), NEW d \in Seq(FrameType),
         NEW w \in Seq(FrameType), NEW q \in Seq(FrameType)
  PROVE  Line(m, p \o b \o d \o w \o q) <=> Lined(m, p, b, d, w, q)
<1>1. p \o b \in Seq(FrameType) /\ p \o b \o d \in Seq(FrameType) /\ p \o b \o d \o w \in Seq(FrameType)
  OBVIOUS
<1>2. Line(m, p \o b \o d \o w \o q) <=> Line(m, p \o b \o d \o w) /\ Line(m, q) /\ Cross(m, p \o b \o d \o w, q)
  BY <1>1, LineConcatenated
<1>3. Line(m, p \o b \o d \o w) <=> Line(m, p \o b \o d) /\ Line(m, w) /\ Cross(m, p \o b \o d, w)
  BY <1>1, LineConcatenated
<1>4. Line(m, p \o b \o d) <=> Line(m, p \o b) /\ Line(m, d) /\ Cross(m, p \o b, d)
  BY <1>1, LineConcatenated
<1>5. Line(m, p \o b) <=> Line(m, p) /\ Line(m, b) /\ Cross(m, p, b)
  BY LineConcatenated
<1>6. Cross(m, p \o b \o d \o w, q) <=> Cross(m, p \o b \o d, q) /\ Cross(m, w, q)
  BY <1>1, CrossConcatenated
<1>7. Cross(m, p \o b \o d, q) <=> Cross(m, p \o b, q) /\ Cross(m, d, q)
  BY <1>1, CrossConcatenated
<1>8. Cross(m, p \o b \o d, w) <=> Cross(m, p \o b, w) /\ Cross(m, d, w)
  BY <1>1, CrossConcatenated
<1>9. \A t \in Seq(FrameType) : Cross(m, p \o b, t) <=> Cross(m, p, t) /\ Cross(m, b, t)
  BY CrossConcatenated
<1>10. Cross(m, p \o b, q) <=> Cross(m, p, q) /\ Cross(m, b, q)
  BY <1>9
<1>11. Cross(m, p \o b, w) <=> Cross(m, p, w) /\ Cross(m, b, w)
  BY <1>9
<1>12. Cross(m, p \o b, d) <=> Cross(m, p, d) /\ Cross(m, b, d)
  BY <1>9
<1> QED BY <1>2, <1>3, <1>4, <1>5, <1>6, <1>7, <1>8, <1>10, <1>11, <1>12 DEF Lined

LEMMA FewFrames ==
  ASSUME NEW m, NEW q
  PROVE  /\ Line(m, <<>>) /\ Cross(m, <<>>, q) /\ Cross(m, q, <<>>)
         /\ \A f : Line(m, <<f>>)
BY DEF Line, Cross

\* The frames of a sequence.
Among(q) == {q[k] : k \in DOMAIN q}

LEMMA AmongConcatenated ==
  ASSUME NEW q \in Seq(FrameType), NEW r \in Seq(FrameType)
  PROVE  Among(q \o r) = Among(q) \cup Among(r)
<1> DEFINE t == q \o r
<1>1. /\ \A k \in DOMAIN q : k \in DOMAIN t /\ t[k] = q[k]
      /\ \A k \in DOMAIN r : Len(q) + k \in DOMAIN t /\ t[Len(q) + k] = r[k]
      /\ \A k \in DOMAIN t :
           \/ k \in DOMAIN q /\ t[k] = q[k]
           \/ k - Len(q) \in DOMAIN r /\ t[k] = r[k - Len(q)]
  BY Concatenated
<1> HIDE DEF t
<1>2. Among(t) \subseteq Among(q) \cup Among(r)
  BY <1>1 DEF Among
<1>3. Among(q) \subseteq Among(t) /\ Among(r) \subseteq Among(t)
  BY <1>1 DEF Among
<1>4. Among(t) = Among(q) \cup Among(r)
  BY <1>2, <1>3
<1> QED BY <1>4 DEF t

LEMMA AmongFew ==
  Among(<<>>) = {} /\ \A f : Among(<<f>>) = {f}
BY DEF Among

\* The frames of a session.
Held(p, b, d, w, q) == Among(p) \cup Among(b) \cup Among(d) \cup Among(w) \cup Among(q)

\* A frame that may go behind all of these, or anywhere among them.
Behind(m, S, f) == \A g \in S : Pair(m, g, f)
Clear(m, S, f) == \A g \in S : Pair(m, f, g) /\ Pair(m, g, f)

\* A frame that goes before, or after, every frame of a sequence.
LEMMA CrossOne ==
  ASSUME NEW m, NEW q, NEW f
  PROVE  /\ Cross(m, q, <<f>>) <=> \A g \in Among(q) : Pair(m, g, f)
         /\ Cross(m, <<f>>, q) <=> \A g \in Among(q) : Pair(m, f, g)
BY DEF Cross, Among

\* rx.recv() has a frame: it becomes the one that is written.
LEMMA TakesFromChannel ==
  ASSUME NEW m, NEW p \in Seq(FrameType), NEW b \in Seq(FrameType), NEW d \in Seq(FrameType),
         NEW q \in Seq(FrameType),
         q # <<>>, Lined(m, p, b, d, <<>>, q)
  PROVE  /\ Lined(m, p, b, d, <<Head(q)>>, Tail(q))
         /\ Held(p, b, d, <<Head(q)>>, Tail(q)) = Held(p, b, d, <<>>, q)
<1> DEFINE h == <<Head(q)>>
           t == Tail(q)
<1>1. q = h \o t /\ h \in Seq(FrameType) /\ t \in Seq(FrameType)
  BY TailConcatenated
<1>2. Line(m, h) /\ Cross(m, h, <<>>)
  BY FewFrames
<1> HIDE DEF h, t
<1>3. Line(m, q) <=> Line(m, h) /\ Line(m, t) /\ Cross(m, h, t)
  BY <1>1, LineConcatenated
<1>4. \A x \in Seq(FrameType) : Cross(m, x, q) <=> Cross(m, x, h) /\ Cross(m, x, t)
  BY <1>1, CrossConcatenated
<1>5. Lined(m, p, b, d, h, t)
  BY <1>2, <1>3, <1>4 DEF Lined
<1>6. Among(q) = Among(h) \cup Among(t)
  BY <1>1, AmongConcatenated
<1> QED BY <1>5, <1>6, AmongFew DEF Held, h, t

\* The write has succeeded.
LEMMA WritesToWire ==
  ASSUME NEW m, NEW p \in Seq(FrameType), NEW b \in Seq(FrameType), NEW d \in Seq(FrameType),
         NEW q \in Seq(FrameType),
         NEW f \in FrameType, Lined(m, p, b, d, <<f>>, q)
  PROVE  /\ Lined(m, p, b, Append(d, f), <<>>, q)
         /\ Held(p, b, Append(d, f), <<>>, q) = Held(p, b, d, <<f>>, q)
<1> DEFINE h == <<f>>
           t == Append(d, f)
<1>1. t = d \o h /\ h \in Seq(FrameType)
  BY AppendConcatenates
<1> HIDE DEF h, t
<1>2. Line(m, t) <=> Line(m, d) /\ Line(m, h) /\ Cross(m, d, h)
  BY <1>1, LineConcatenated
<1>3. \A x \in Seq(FrameType) : /\ Cross(m, x, t) <=> Cross(m, x, d) /\ Cross(m, x, h)
                                /\ Cross(m, t, x) <=> Cross(m, d, x) /\ Cross(m, h, x)
  BY <1>1, CrossConcatenated
<1>4. Lined(m, p, b, d, h, q)
  BY DEF h
<1>5. Lined(m, p, b, t, <<>>, q)
  BY <1>2, <1>3, <1>4, FewFrames DEF Lined
<1>6. Among(t) = Among(d) \cup Among(h)
  BY <1>1, AmongConcatenated
<1> QED BY <1>5, <1>6, AmongFew DEF Held, h, t

\* Part of the frames is dropped.
LEMMA DropsSome ==
  ASSUME NEW m, NEW p \in Seq(FrameType), NEW b \in Seq(FrameType), NEW d \in Seq(FrameType),
         NEW w \in Seq(FrameType), NEW q \in Seq(FrameType),
         Lined(m, p, b, d, w, q)
  PROVE  /\ Lined(m, p, b, d, <<>>, q) /\ Lined(m, p, b, d, w, <<>>) /\ Lined(m, p, <<>>, d, w, q)
         /\ Held(p, b, d, <<>>, q) \subseteq Held(p, b, d, w, q)
         /\ Held(p, b, d, w, <<>>) \subseteq Held(p, b, d, w, q)
         /\ Held(p, <<>>, d, w, q) \subseteq Held(p, b, d, w, q)
         /\ Held(p, b, d, w, q) \subseteq Held(p, <<>>, d, w, q) \cup Among(b)
<1>1. Lined(m, p, b, d, <<>>, q) /\ Lined(m, p, b, d, w, <<>>) /\ Lined(m, p, <<>>, d, w, q)
  BY FewFrames DEF Lined
<1> QED BY <1>1, AmongFew DEF Held

\* The bridge reads a frame from its wire: the greeting, which it does not keep ...
LEMMA DropsFirst ==
  ASSUME NEW m, NEW p \in Seq(FrameType), NEW b \in Seq(FrameType), NEW d \in Seq(FrameType),
         NEW w \in Seq(FrameType), NEW q \in Seq(FrameType),
         d # <<>>, Lined(m, p, b, d, w, q)
  PROVE  /\ Lined(m, p, b, Tail(d), w, q)
         /\ Held(p, b, Tail(d), w, q) \subseteq Held(p, b, d, w, q) /\ Head(d) \in Held(p, b, d, w, q)
         /\ \A f \in Held(p, b, d, w, q) : f # Head(d) => f \in Held(p, b, Tail(d), w, q)
<1> DEFINE h == <<Head(d)>>
           t == Tail(d)
<1>1. d = h \o t /\ h \in Seq(FrameType) /\ t \in Seq(FrameType)
  BY TailConcatenated
<1>2. Among(h) = {Head(d)}
  BY AmongFew
<1> HIDE DEF h, t
<1>3. Line(m, d) <=> Line(m, h) /\ Line(m, t) /\ Cross(m, h, t)
  BY <1>1, LineConcatenated
<1>4. \A x \in Seq(FrameType) : /\ Cross(m, x, d) <=> Cross(m, x, h) /\ Cross(m, x, t)
                                /\ Cross(m, d, x) <=> Cross(m, h, x) /\ Cross(m, t, x)
  BY <1>1, CrossConcatenated
<1>5. Lined(m, p, b, t, w, q)
  BY <1>3, <1>4 DEF Lined
<1>6. Among(d) = Among(h) \cup Among(t)
  BY <1>1, AmongConcatenated
<1> QED BY <1>2, <1>5, <1>6 DEF Held, t

\* ... or one that it collects.
LEMMA Collects ==
  ASSUME NEW m, NEW p \in Seq(FrameType), NEW b \in Seq(FrameType), NEW d \in Seq(FrameType),
         NEW w \in Seq(FrameType), NEW q \in Seq(FrameType),
         d # <<>>, Lined(m, p, b, d, w, q)
  PROVE  /\ Lined(m, p, Append(b, Head(d)), Tail(d), w, q)
         /\ Held(p, Append(b, Head(d)), Tail(d), w, q) = Held(p, b, d, w, q)
<1> DEFINE h == <<Head(d)>>
           t == Tail(d)
           c == Append(b, Head(d))
<1>1. d = h \o t /\ h \in Seq(FrameType) /\ t \in Seq(FrameType) /\ Head(d) \in FrameType
  BY TailConcatenated
<1>2. c = b \o h /\ c \in Seq(FrameType)
  BY <1>1, AppendConcatenates
<1> HIDE DEF h, t, c
<1>3. /\ Line(m, d) <=> Line(m, h) /\ Line(m, t) /\ Cross(m, h, t)
      /\ Line(m, c) <=> Line(m, b) /\ Line(m, h) /\ Cross(m, b, h)
  BY <1>1, <1>2, LineConcatenated
<1>4. \A x \in Seq(FrameType) : /\ Cross(m, x, d) <=> Cross(m, x, h) /\ Cross(m, x, t)
                                /\ Cross(m, d, x) <=> Cross(m, h, x) /\ Cross(m, t, x)
  BY <1>1, CrossConcatenated
<1>5. \A x \in Seq(FrameType) : /\ Cross(m, x, c) <=> Cross(m, x, b) /\ Cross(m, x, h)
                                /\ Cross(m, c, x) <=> Cross(m, b, x) /\ Cross(m, h, x)
  BY <1>1, <1>2, CrossConcatenated
<1>6. Lined(m, p, c, t, w, q)
  BY <1>1, <1>3, <1>4, <1>5 DEF Lined
<1>7. Among(d) = Among(h) \cup Among(t) /\ Among(c) = Among(b) \cup Among(h)
  BY <1>1, <1>2, AmongConcatenated
<1> QED BY <1>6, <1>7 DEF Held, t, c

\* The batch is posted.
LEMMA Posts ==
  ASSUME NEW m, NEW p \in Seq(FrameType), NEW b \in Seq(FrameType), NEW d \in Seq(FrameType),
         NEW w \in Seq(FrameType), NEW q \in Seq(FrameType),
         Lined(m, p, b, d, w, q)
  PROVE  /\ Lined(m, p \o b, <<>>, d, w, q)
         /\ Held(p \o b, <<>>, d, w, q) = Held(p, b, d, w, q)
<1> DEFINE t == p \o b
<1>1. Line(m, t) <=> Line(m, p) /\ Line(m, b) /\ Cross(m, p, b)
  BY LineConcatenated
<1>2. \A x \in Seq(FrameType) : Cross(m, t, x) <=> Cross(m, p, x) /\ Cross(m, b, x)
  BY CrossConcatenated
<1>3. Among(t) = Among(p) \cup Among(b)
  BY AmongConcatenated
<1> HIDE DEF t
<1>4. Lined(m, t, <<>>, d, w, q)
  BY <1>1, <1>2, FewFrames DEF Lined
<1> QED BY <1>3, <1>4, AmongFew DEF Held, t

\* A reply is to be written.
Writes(w, f, v) == w = <<>> /\ v = <<f>>

LEMMA AddsWrite ==
  ASSUME NEW m, NEW p \in Seq(FrameType), NEW b \in Seq(FrameType), NEW d \in Seq(FrameType),
         NEW q \in Seq(FrameType),
         NEW f \in FrameType, NEW w, NEW v, Writes(w, f, v),
         Lined(m, p, b, d, w, q),
         Clear(m, Held(p, b, d, w, q), f)
  PROVE  Lined(m, p, b, d, v, q)
<1>1. Cross(m, p, <<f>>) /\ Cross(m, b, <<f>>) /\ Cross(m, d, <<f>>) /\ Cross(m, <<f>>, q)
  BY CrossOne DEF Held, Clear, Writes
<1>2. Line(m, <<f>>)
  BY FewFrames
<1> QED BY <1>1, <1>2 DEF Lined, Writes

\* A message goes to the end of the channel.
LEMMA AddsLast ==
  ASSUME NEW m, NEW p \in Seq(FrameType), NEW b \in Seq(FrameType), NEW d \in Seq(FrameType),
         NEW w \in Seq(FrameType), NEW q \in Seq(FrameType),
         NEW f \in FrameType, Lined(m, p, b, d, w, q),
         Behind(m, Held(p, b, d, w, q), f)
  PROVE  /\ Lined(m, p, b, d, w, Append(q, f))
         /\ Held(p, b, d, w, Append(q, f)) = Held(p, b, d, w, q) \cup {f}
<1> DEFINE h == <<f>>
           t == Append(q, f)
<1>1. t = q \o h /\ h \in Seq(FrameType)
  BY AppendConcatenates
<1>2. /\ Cross(m, p, h) /\ Cross(m, b, h) /\ Cross(m, d, h) /\ Cross(m, w, h) /\ Cross(m, q, h)
      /\ Line(m, h) /\ Among(h) = {f}
  BY CrossOne, FewFrames, AmongFew DEF Held, Clear, Behind
<1> HIDE DEF h, t
<1>3. Line(m, t) <=> Line(m, q) /\ Line(m, h) /\ Cross(m, q, h)
  BY <1>1, LineConcatenated
<1>4. \A x \in Seq(FrameType) : Cross(m, x, t) <=> Cross(m, x, q) /\ Cross(m, x, h)
  BY <1>1, CrossConcatenated
<1>5. Lined(m, p, b, d, w, t)
  BY <1>2, <1>3, <1>4 DEF Lined
<1>6. Among(t) = Among(q) \cup Among(h)
  BY <1>1, AmongConcatenated
<1> QED BY <1>2, <1>5, <1>6 DEF Held, t

\* The answer to the credentials is written.
LEMMA AddsToWire ==
  ASSUME NEW m, NEW p \in Seq(FrameType), NEW b \in Seq(FrameType), NEW d \in Seq(FrameType),
         NEW w \in Seq(FrameType), NEW q \in Seq(FrameType),
         NEW f \in FrameType, Lined(m, p, b, d, w, q),
         Clear(m, Held(p, b, d, w, q), f)
  PROVE  /\ Lined(m, p, b, Append(d, f), w, q)
         /\ Held(p, b, Append(d, f), w, q) = Held(p, b, d, w, q) \cup {f}
<1> DEFINE h == <<f>>
           t == Append(d, f)
<1>1. t = d \o h /\ h \in Seq(FrameType)
  BY AppendConcatenates
<1>2. /\ Cross(m, p, h) /\ Cross(m, b, h) /\ Cross(m, d, h) /\ Cross(m, h, w) /\ Cross(m, h, q)
      /\ Line(m, h) /\ Among(h) = {f}
  BY CrossOne, FewFrames, AmongFew DEF Held, Clear, Behind
<1> HIDE DEF h, t
<1>3. Line(m, t) <=> Line(m, d) /\ Line(m, h) /\ Cross(m, d, h)
  BY <1>1, LineConcatenated
<1>4. \A x \in Seq(FrameType) : /\ Cross(m, x, t) <=> Cross(m, x, d) /\ Cross(m, x, h)
                                /\ Cross(m, t, x) <=> Cross(m, d, x) /\ Cross(m, h, x)
  BY <1>1, CrossConcatenated
<1>5. Lined(m, p, b, t, w, q)
  BY <1>2, <1>3, <1>4 DEF Lined
<1>6. Among(t) = Among(d) \cup Among(h)
  BY <1>1, AmongConcatenated
<1> QED BY <1>2, <1>5, <1>6 DEF Held, t

(***************************************************************************)
(* The inductive invariant.  The sequences of a session are in line; every *)
(* frame in them is an answer to the credentials or about a message whose  *)
(* goal the session is; a message that is still on its way to the server   *)
(* has no goal and comes after all of its sender's that have one.          *)
(***************************************************************************)
MessageType == [from : Sessions, to : Users, kind : {"text", "large", "garbled"}]

DeliveryTypes ==
  /\ phase \in [Sessions -> Phases]
  /\ client \in [Sessions -> {"off", "auth", "loop", "sending", "ended"}]
  /\ conns \in [Users -> Sessions \cup {NoSession}]
  /\ queue \in [Sessions -> Seq(FrameType)] /\ down \in [Sessions -> Seq(FrameType)]
  /\ batch \in [Sessions -> Seq(FrameType)] /\ posted \in [Sessions -> Seq(FrameType)]
  /\ sending \in [Sessions -> FrameType]
  /\ up \in [Sessions -> Seq(Nat)] /\ outgoing \in [Sessions -> Nat]
  /\ play.sends \in Nat /\ sends \in Seq(MessageType) /\ Len(sends) <= play.sends
  /\ goal \in [1 .. play.sends -> Sessions \cup {NoSession}]

\* Where a session and its bridge are, and what they are writing.
Places ==
  \A s \in Sessions :
    /\ phase[s] \in Early => down[s] = <<>>
    /\ phase[s] = "off" => client[s] = "off"
    /\ client[s] = "auth" /\ phase[s] \in {"loop", "sending", "leaving"} => down[s] # <<>>
    /\ sending[s] = Idle <=> phase[s] # "sending"
    /\ outgoing[s] # 0 <=> client[s] = "sending"

\* n is on its way from s to the server; m are the messages and g their goals.
Fresh(m, g, s, n) ==
  /\ n \in DOMAIN m /\ m[n].from = s /\ g[n] = NoSession
  /\ \A k \in DOMAIN m : m[k].from = s /\ g[k] # NoSession => k < n

OnTheWay ==
  /\ \A s \in Sessions :
       /\ \A k \in DOMAIN up[s] : Fresh(sends, goal, s, up[s][k])
       /\ \A k, l \in DOMAIN up[s] : k < l => up[s][k] < up[s][l]
       /\ outgoing[s] # 0 =>
            Fresh(sends, goal, s, outgoing[s]) /\ \A k \in DOMAIN up[s] : up[s][k] < outgoing[s]
  /\ \A n \in 1 .. play.sends : n > Len(sends) => goal[n] = NoSession

\* The frames a session holds.
HeldBy(s) == Held(posted[s], batch[s], down[s], Written(s), queue[s])

Answers == {f \in FrameType : f.kind \in {"ok", "refused"} /\ f.n = 0}
AboutOwn(s, f) ==
  /\ f \in FrameType /\ f.kind \in {"from", "error"}
  /\ f.n # 0 /\ f.n \in DOMAIN sends /\ goal[f.n] = s

KnownFrames == \A s \in Sessions : \A f \in HeldBy(s) : f \in Answers \/ AboutOwn(s, f)

AllLined ==
  \A s \in Sessions : Lined(sends, posted[s], batch[s], down[s], Written(s), queue[s])

\* The session or its bridge has gone, or the POST failed.
Excused(s, n) == phase[s] \in {"leaving", "ended"} \/ client[s] = "ended" \/ n \in lost

\* A message the server took has a goal, unless it was garbled ...
Taken ==
  \A n \in DOMAIN sends :
    LET s == sends[n].from
    IN phase[s] # "ended" /\ client[s] # "ended" /\ outgoing[s] # n /\ ~Contains(up[s], n)
         /\ sends[n].kind # "garbled" => goal[n] # NoSession

\* ... and its goal holds a frame about it, or is excused.
Kept ==
  \A n \in DOMAIN sends :
    goal[n] # NoSession => Excused(goal[n], n) \/ \E f \in HeldBy(goal[n]) : f.n = n

DeliveryInv ==
  /\ DeliveryTypes /\ Places /\ GreetedFirst /\ OnTheWay /\ KnownFrames /\ AllLined /\ Taken /\ Kept

\* What has gone stays away.
GoneStay ==
  /\ \A s \in Sessions : /\ phase[s] = "ended" => phase'[s] = "ended"
                         /\ phase[s] = "leaving" => phase'[s] \in {"leaving", "ended"}
                         /\ client[s] = "ended" => client'[s] = "ended"
  /\ lost \subseteq lost'

LEMMA ExcusedStay ==
  ASSUME GoneStay, NEW s \in Sessions, NEW n, Excused(s, n)
  PROVE  Excused(s, n)'
BY DEF GoneStay, Excused

LEMMA SenderTypes ==
  ASSUME DeliveryTypes, NEW n \in DOMAIN sends
  PROVE  /\ sends[n] \in MessageType /\ sends[n].from \in Sessions /\ sends[n].to \in Users
         /\ n \in 1 .. Len(sends) /\ n \in 1 .. play.sends /\ n # 0
         /\ goal[n] \in Sessions \cup {NoSession}
<1>1. sends \in Seq(MessageType) /\ Len(sends) \in Nat /\ play.sends \in Nat /\ Len(sends) <= play.sends
  BY DEF DeliveryTypes
<1>2. n \in 1 .. Len(sends) /\ sends[n] \in MessageType
  BY <1>1
<1>3. n \in 1 .. play.sends /\ n # 0
  BY <1>1, <1>2
<1> QED BY <1>2, <1>3 DEF DeliveryTypes, MessageType

\* Steps that take nothing from a wire to the server.
LEMMA WaySame ==
  ASSUME DeliveryInv, GoneStay, UNCHANGED <<play, sends, goal, up, outgoing>>
  PROVE  OnTheWay' /\ Taken'
<1>1. OnTheWay'
  BY DEF DeliveryInv, OnTheWay, Fresh
<1>2. Taken'
  <2> SUFFICES ASSUME NEW n \in DOMAIN sends,
                      phase'[sends[n].from] # "ended", client'[sends[n].from] # "ended",
                      outgoing[sends[n].from] # n, ~Contains(up[sends[n].from], n),
                      sends[n].kind # "garbled"
               PROVE  goal[n] # NoSession
    BY DEF Taken, Contains
  <2>1. sends[n].from \in Sessions
    BY SenderTypes DEF DeliveryInv
  <2>2. phase[sends[n].from] # "ended" /\ client[sends[n].from] # "ended"
    BY <2>1 DEF GoneStay
  <2> QED BY <2>2 DEF DeliveryInv, Taken
<1> QED BY <1>1, <1>2

\* Steps that move, drop or answer within one session.
LEMMA FramesMoved ==
  ASSUME DeliveryInv, GoneStay, UNCHANGED <<sends, goal>>, NEW s \in Sessions,
         \A r \in Sessions \ {s} :
           /\ posted'[r] = posted[r] /\ batch'[r] = batch[r] /\ down'[r] = down[r]
           /\ sending'[r] = sending[r] /\ queue'[r] = queue[r],
         Lined(sends, posted'[s], batch'[s], down'[s], Written(s)', queue'[s]),
         HeldBy(s)' \subseteq HeldBy(s) \cup Answers,
         \A f \in HeldBy(s) : f \in HeldBy(s)' \/ f \in Answers \/ Excused(s, f.n)'
  PROVE  KnownFrames' /\ AllLined' /\ Kept'
<1>1. \A r \in Sessions \ {s} : Written(r)' = Written(r) /\ HeldBy(r)' = HeldBy(r)
  BY DEF Written, HeldBy
<1>2. KnownFrames'
  <2> SUFFICES ASSUME NEW r \in Sessions, NEW f \in HeldBy(r)' PROVE f \in Answers \/ AboutOwn(r, f)
    BY DEF KnownFrames, AboutOwn, Answers
  <2>1. f \in HeldBy(r) \cup Answers
    BY <1>1
  <2> QED BY <2>1 DEF DeliveryInv, KnownFrames
<1>3. AllLined'
  BY <1>1 DEF DeliveryInv, AllLined
<1>4. Kept'
  <2> SUFFICES ASSUME NEW n \in DOMAIN sends, goal[n] # NoSession, ~Excused(goal[n], n)'
               PROVE  \E f \in HeldBy(goal[n])' : f.n = n
    BY DEF Kept, Excused
  <2>1. goal[n] \in Sessions /\ n # 0
    BY SenderTypes DEF DeliveryInv
  <2>2. PICK f \in HeldBy(goal[n]) : f.n = n
    BY <2>1, ExcusedStay DEF DeliveryInv, Kept
  <2>3. f \notin Answers
    BY <2>1, <2>2 DEF Answers
  <2> QED BY <1>1, <2>1, <2>2, <2>3
<1> QED BY <1>2, <1>3, <1>4

\* Steps that move no frame.
LEMMA FramesSame ==
  ASSUME DeliveryInv, GoneStay, UNCHANGED <<sends, goal, posted, batch, down, sending, queue>>
  PROVE  KnownFrames' /\ AllLined' /\ Kept'
<1>1. \A r \in Sessions : Written(r)' = Written(r) /\ HeldBy(r)' = HeldBy(r)
  BY DEF Written, HeldBy
<1>2. KnownFrames'
  BY <1>1 DEF DeliveryInv, KnownFrames, AboutOwn, Answers
<1>3. AllLined'
  BY <1>1 DEF DeliveryInv, AllLined
<1>4. Kept'
  <2> SUFFICES ASSUME NEW n \in DOMAIN sends, goal[n] # NoSession, ~Excused(goal[n], n)'
               PROVE  \E f \in HeldBy(goal[n])' : f.n = n
    BY DEF Kept, Excused
  <2>1. goal[n] \in Sessions
    BY SenderTypes DEF DeliveryInv
  <2> QED BY <1>1, <2>1, ExcusedStay DEF DeliveryInv, Kept
<1> QED BY <1>2, <1>3, <1>4

\* Steps that leave the sessions and bridges where they are.
LEMMA NobodyMoves ==
  ASSUME DeliveryInv,
         UNCHANGED <<play, conns, phase, queue, sending, up, down, client, outgoing, batch, posted, lost, sends, goal>>
  PROVE  DeliveryInv'
<1>1. GoneStay
  BY DEF GoneStay
<1>2. DeliveryTypes' /\ Places' /\ GreetedFirst'
  BY DEF DeliveryInv, DeliveryTypes, Places, GreetedFirst
<1> QED BY <1>1, <1>2, WaySame, FramesSame DEF DeliveryInv

\* A session registers, or ends its loop.
LEMMA SessionMoves ==
  ASSUME DeliveryInv, NEW s \in Sessions, Insert(s) \/ RxClosed(s) \/ Hangup(s)
  PROVE  DeliveryInv'
<1>1. PICK x \in {"inserted", "leaving"} :
        /\ phase' = [phase EXCEPT ![s] = x] /\ phase[s] = IF x = "inserted" THEN "authed" ELSE "loop"
        /\ conns' = conns \/ conns' = [conns EXCEPT ![UserOf[s]] = s]
  BY DEF Insert, RxClosed, Hangup, LoopFrame
<1>2. UNCHANGED <<play, queue, sending, up, down, client, outgoing, batch, posted, lost, sends, goal>>
  BY DEF Insert, RxClosed, Hangup, LoopFrame, bridgeVars
<1>3. DeliveryTypes'
  BY <1>1, <1>2 DEF DeliveryInv, DeliveryTypes, Phases, Inserted
<1>4. Places' /\ GreetedFirst' /\ GoneStay
  <2>1. \A r \in Sessions : phase'[r] = IF r = s THEN x ELSE phase[r]
    BY <1>1 DEF DeliveryInv, DeliveryTypes
  <2>2. Places'
    BY <1>1, <1>2, <2>1 DEF DeliveryInv, Places, Early
  <2>3. GreetedFirst'
    BY <1>1, <1>2, <2>1 DEF DeliveryInv, Places, GreetedFirst, Early, Inserted
  <2>4. GoneStay
    BY <1>1, <1>2, <2>1 DEF GoneStay
  <2> QED BY <2>2, <2>3, <2>4
<1> QED BY <1>2, <1>3, <1>4, WaySame, FramesSame DEF DeliveryInv

\* An answer to the credentials pairs with every frame.
LEMMA AnswerPairs ==
  ASSUME NEW m, NEW f \in Answers, NEW g
  PROVE  Pair(m, f, g) /\ Pair(m, g, f)
BY DEF Answers, Pair

LEMMA FrameSequences ==
  ASSUME DeliveryInv, NEW s \in Sessions
  PROVE  /\ posted[s] \in Seq(FrameType) /\ batch[s] \in Seq(FrameType) /\ down[s] \in Seq(FrameType)
         /\ Written(s) \in Seq(FrameType) /\ queue[s] \in Seq(FrameType)
         /\ Lined(sends, posted[s], batch[s], down[s], Written(s), queue[s])
         /\ HeldBy(s) = Held(posted[s], batch[s], down[s], Written(s), queue[s])
<1>1. Written(s) \in Seq(FrameType)
  BY DEF Written, DeliveryInv, DeliveryTypes
<1> QED BY <1>1 DEF DeliveryInv, DeliveryTypes, AllLined, HeldBy

\* It may go on the wire at any time.
LEMMA AnswerWritten ==
  ASSUME DeliveryInv, NEW s \in Sessions, NEW f \in Answers
  PROVE  /\ Lined(sends, posted[s], batch[s], Append(down[s], f), Written(s), queue[s])
         /\ Held(posted[s], batch[s], Append(down[s], f), Written(s), queue[s]) = HeldBy(s) \cup {f}
<1>1. f \in FrameType
  BY DEF Answers
<1>2. Clear(sends, HeldBy(s), f)
  BY AnswerPairs DEF Clear
<1>3. PICK p, b, d, w, q :
        /\ p = posted[s] /\ b = batch[s] /\ d = down[s] /\ w = Written(s) /\ q = queue[s]
        /\ p \in Seq(FrameType) /\ b \in Seq(FrameType) /\ d \in Seq(FrameType)
        /\ w \in Seq(FrameType) /\ q \in Seq(FrameType)
        /\ Lined(sends, p, b, d, w, q) /\ HeldBy(s) = Held(p, b, d, w, q)
  BY FrameSequences
<1>4. Clear(sends, Held(p, b, d, w, q), f)
  BY <1>2, <1>3
<1>5. /\ Lined(sends, p, b, Append(d, f), w, q)
      /\ Held(p, b, Append(d, f), w, q) = Held(p, b, d, w, q) \cup {f}
  BY <1>1, <1>3, <1>4, AddsToWire
<1> QED BY <1>3, <1>5

\* A bridge connects.
LEMMA AuthDelivers ==
  ASSUME DeliveryInv, NEW s \in Sessions, Auth(s)
  PROVE  DeliveryInv'
<1> DEFINE f == Frame("refused", 0)
<1>1. /\ phase[s] = "off" /\ client' = [client EXCEPT ![s] = "auth"]
      /\ \/ phase' = [phase EXCEPT ![s] = "authed"] /\ down' = down
         \/ phase' = [phase EXCEPT ![s] = "ended"] /\ down' = [down EXCEPT ![s] = Append(down[s], f)]
      /\ UNCHANGED <<play, conns, queue, sending, up, outgoing, batch, posted, lost, sends, goal>>
  BY DEF Auth
<1>2. f \in Answers /\ f \in FrameType
  BY DEF Frame, Answers, FrameType
<1> HIDE DEF f
<1>3. DeliveryTypes'
  <2>1. phase' \in [Sessions -> Phases]
    BY <1>1 DEF DeliveryInv, DeliveryTypes, Phases
  <2>2. down' \in [Sessions -> Seq(FrameType)]
    <3>1. Append(down[s], f) \in Seq(FrameType)
      BY <1>2, FrameSequences
    <3> QED BY <1>1, <3>1 DEF DeliveryInv, DeliveryTypes
  <2>3. client' \in [Sessions -> {"off", "auth", "loop", "sending", "ended"}]
    BY <1>1 DEF DeliveryInv, DeliveryTypes
  <2> QED BY <1>1, <2>1, <2>2, <2>3 DEF DeliveryInv, DeliveryTypes
<1>4. /\ \A r \in Sessions \ {s} : phase'[r] = phase[r] /\ client'[r] = client[r] /\ down'[r] = down[r]
      /\ client'[s] = "auth" /\ client[s] = "off"
      /\ \/ phase'[s] = "authed" /\ down' = down
         \/ phase'[s] = "ended" /\ down'[s] = Append(down[s], f)
  BY <1>1 DEF DeliveryInv, DeliveryTypes, Places
<1>5. Places' /\ GreetedFirst' /\ GoneStay
  <2>1. Places'
    BY <1>1, <1>4 DEF DeliveryInv, Places, Early
  <2>2. GreetedFirst'
    BY <1>1, <1>4 DEF DeliveryInv, GreetedFirst, Inserted
  <2>3. GoneStay
    BY <1>1, <1>4 DEF GoneStay
  <2> QED BY <2>1, <2>2, <2>3
<1>6. KnownFrames' /\ AllLined' /\ Kept'
  <2>1. CASE down' = down
    BY <1>1, <1>5, <2>1, FramesSame
  <2>2. CASE down'[s] = Append(down[s], f)
    <3>1. Written(s)' = Written(s) /\ Written(s) \in Seq(FrameType)
      BY <1>1 DEF Written, DeliveryInv, DeliveryTypes
    <3>2. /\ Lined(sends, posted[s], batch[s], Append(down[s], f), Written(s), queue[s])
          /\ Held(posted[s], batch[s], Append(down[s], f), Written(s), queue[s]) = HeldBy(s) \cup {f}
      BY <1>2, AnswerWritten
    <3>3. HeldBy(s)' = HeldBy(s) \cup {f}
      BY <1>1, <2>2, <3>1, <3>2 DEF HeldBy
    <3>4. Lined(sends, posted'[s], batch'[s], down'[s], Written(s)', queue'[s])
      BY <1>1, <2>2, <3>1, <3>2
    <3> QED BY <1>1, <1>2, <1>4, <1>5, <3>3, <3>4, FramesMoved
  <2> QED BY <1>4, <2>1, <2>2
<1> QED BY <1>1, <1>3, <1>5, <1>6, WaySame DEF DeliveryInv

\* The greeting is written before anything else.
LEMMA GreetDelivers ==
  ASSUME DeliveryInv, NEW s \in Sessions, Greet(s)
  PROVE  DeliveryInv'
<1> DEFINE f == Frame("ok", 0)
<1>1. /\ phase[s] = "inserted" /\ phase' = [phase EXCEPT ![s] = "loop"]
      /\ down' = [down EXCEPT ![s] = Append(down[s], f)]
      /\ UNCHANGED <<play, conns, queue, sending, up, client, outgoing, batch, posted, lost, sends, goal>>
  BY DEF Greet, bridgeVars
<1>2. f \in Answers /\ f \in FrameType /\ f.kind = "ok"
  BY DEF Frame, Answers, FrameType
<1> HIDE DEF f
<1>3. DeliveryTypes'
  BY <1>1, <1>2 DEF DeliveryInv, DeliveryTypes, Phases, Inserted
<1>4. /\ \A r \in Sessions \ {s} : phase'[r] = phase[r] /\ down'[r] = down[r]
      /\ phase'[s] = "loop" /\ down'[s] = Append(down[s], f) /\ down[s] = <<>>
  BY <1>1 DEF DeliveryInv, DeliveryTypes, Places, Early
<1>5. Places' /\ GreetedFirst' /\ GoneStay
  <2>1. Places'
    BY <1>1, <1>4 DEF DeliveryInv, Places, Early
  <2>a. Head(down'[s]) = f
    BY <1>4
  <2>2. GreetedFirst'
    BY <1>1, <1>2, <1>4, <2>a DEF DeliveryInv, GreetedFirst, Inserted
  <2>3. GoneStay
    BY <1>1, <1>4 DEF GoneStay
  <2> QED BY <2>1, <2>2, <2>3
<1>6. KnownFrames' /\ AllLined' /\ Kept'
  <2>1. Written(s)' = Written(s) /\ Written(s) \in Seq(FrameType)
    BY <1>1 DEF Written, DeliveryInv, DeliveryTypes
  <2>2. /\ Lined(sends, posted[s], batch[s], Append(down[s], f), Written(s), queue[s])
        /\ Held(posted[s], batch[s], Append(down[s], f), Written(s), queue[s]) = HeldBy(s) \cup {f}
    BY <1>2, AnswerWritten
  <2>3. HeldBy(s)' = HeldBy(s) \cup {f}
    BY <1>1, <1>4, <2>1, <2>2 DEF HeldBy
  <2>4. Lined(sends, posted'[s], batch'[s], down'[s], Written(s)', queue'[s])
    BY <1>1, <1>4, <2>1, <2>2
  <2> QED BY <1>1, <1>2, <1>4, <1>5, <2>3, <2>4, FramesMoved
<1> QED BY <1>1, <1>3, <1>5, <1>6, WaySame DEF DeliveryInv

LEMMA HeldNotIdle ==
  ASSUME DeliveryInv, NEW s \in Sessions, NEW f \in HeldBy(s)
  PROVE  f # Idle /\ f \in FrameType /\ (f.kind \in {"ok", "refused"} => f \in Answers)
BY DEF DeliveryInv, KnownFrames, Answers, AboutOwn, Idle, Frame

\* The session takes a frame from its channel.
LEMMA DeliverDelivers ==
  ASSUME DeliveryInv, NEW s \in Sessions, Deliver(s)
  PROVE  DeliveryInv'
<1> DEFINE h == Head(queue[s])
<1>1. /\ phase[s] = "loop" /\ queue[s] # <<>> /\ phase' = [phase EXCEPT ![s] = "sending"]
      /\ queue' = [queue EXCEPT ![s] = Tail(queue[s])] /\ sending' = [sending EXCEPT ![s] = h]
      /\ UNCHANGED <<play, conns, up, down, client, outgoing, batch, posted, lost, sends, goal>>
  BY DEF Deliver, LoopFrame, bridgeVars
<1>2. /\ \A r \in Sessions \ {s} :
           phase'[r] = phase[r] /\ queue'[r] = queue[r] /\ sending'[r] = sending[r]
      /\ phase'[s] = "sending" /\ queue'[s] = Tail(queue[s]) /\ sending'[s] = h
      /\ sending[s] = Idle
  BY <1>1 DEF DeliveryInv, DeliveryTypes, Places
<1>a. Written(s) = <<>>
  BY <1>2 DEF Written
<1>3. PICK p, b, d, q :
        /\ p = posted[s] /\ b = batch[s] /\ d = down[s] /\ q = queue[s]
        /\ p \in Seq(FrameType) /\ b \in Seq(FrameType) /\ d \in Seq(FrameType)
        /\ q \in Seq(FrameType) /\ q # <<>>
        /\ Lined(sends, p, b, d, <<>>, q) /\ HeldBy(s) = Held(p, b, d, <<>>, q)
  BY <1>1, <1>a, FrameSequences
<1>4. /\ Lined(sends, p, b, d, <<Head(q)>>, Tail(q))
      /\ Held(p, b, d, <<Head(q)>>, Tail(q)) = Held(p, b, d, <<>>, q)
  <2>1. /\ p \in Seq(FrameType) /\ b \in Seq(FrameType) /\ d \in Seq(FrameType)
        /\ q \in Seq(FrameType) /\ q # <<>> /\ Lined(sends, p, b, d, <<>>, q)
    BY <1>3
  <2> QED BY ONLY <2>1, TakesFromChannel
<1>5. h # Idle /\ h \in FrameType /\ Tail(queue[s]) \in Seq(FrameType)
  <2>1. 1 \in DOMAIN q /\ h = q[1] /\ Tail(q) \in Seq(FrameType)
    BY <1>3
  <2>2. h \in HeldBy(s)
    BY <1>3, <2>1 DEF Held, Among
  <2> QED BY <1>3, <2>1, <2>2, HeldNotIdle
<1> HIDE DEF h
<1>6. DeliveryTypes'
  <2>1. phase' \in [Sessions -> Phases]
    BY <1>1 DEF DeliveryInv, DeliveryTypes, Phases, Inserted
  <2>2. queue' \in [Sessions -> Seq(FrameType)] /\ sending' \in [Sessions -> FrameType]
    BY <1>1, <1>5 DEF DeliveryInv, DeliveryTypes
  <2> QED BY <1>1, <2>1, <2>2 DEF DeliveryInv, DeliveryTypes
<1>7. Places'
  BY <1>1, <1>2, <1>5 DEF DeliveryInv, Places, Early
<1>8. GreetedFirst' /\ GoneStay
  BY <1>1, <1>2 DEF DeliveryInv, GreetedFirst, Inserted, GoneStay
<1>9. Written(s)' = <<Head(q)>>
  BY <1>2, <1>3, <1>5 DEF Written, h
<1>10. HeldBy(s)' = HeldBy(s) /\ Lined(sends, posted'[s], batch'[s], down'[s], Written(s)', queue'[s])
  BY <1>1, <1>2, <1>3, <1>4, <1>9 DEF HeldBy
<1>11. KnownFrames' /\ AllLined' /\ Kept'
  BY <1>1, <1>2, <1>8, <1>10, FramesMoved
<1> QED BY <1>1, <1>6, <1>7, <1>8, <1>11, WaySame DEF DeliveryInv

\* The write ends: the frame is on the wire, or lost with the client.
LEMMA SinkDelivers ==
  ASSUME DeliveryInv, NEW s \in Sessions, SinkSends(s)
  PROVE  DeliveryInv'
<1> DEFINE f == sending[s]
<1>1. /\ phase[s] = "sending" /\ sending' = [sending EXCEPT ![s] = Idle]
      /\ UNCHANGED <<play, conns, queue, up, client, outgoing, batch, posted, lost, sends, goal>>
  BY DEF SinkSends, LoopFrame, bridgeVars
<1>2. PICK x \in {"loop", "leaving"} : phase' = [phase EXCEPT ![s] = x]
  BY DEF SinkSends
<1>3. \/ client[s] = "ended" /\ down' = down
      \/ down' = [down EXCEPT ![s] = Append(down[s], f)]
  BY DEF SinkSends
<1>4. /\ \A r \in Sessions \ {s} :
           phase'[r] = phase[r] /\ down'[r] = down[r] /\ sending'[r] = sending[r]
      /\ phase'[s] = x /\ sending'[s] = Idle /\ f # Idle /\ f \in FrameType
      /\ \/ client[s] = "ended" /\ down'[s] = down[s]
         \/ down'[s] = Append(down[s], f)
  BY <1>1, <1>2, <1>3 DEF DeliveryInv, DeliveryTypes, Places
<1> HIDE DEF f
<1>5. PICK p, b, d, q :
        /\ p = posted[s] /\ b = batch[s] /\ d = down[s] /\ q = queue[s]
        /\ p \in Seq(FrameType) /\ b \in Seq(FrameType) /\ d \in Seq(FrameType) /\ q \in Seq(FrameType)
        /\ Lined(sends, p, b, d, <<f>>, q) /\ HeldBy(s) = Held(p, b, d, <<f>>, q)
  BY <1>4, FrameSequences DEF Written, f
<1>6. Written(s)' = <<>>
  BY <1>4 DEF Written
<1>7. DeliveryTypes'
  <2>1. phase' \in [Sessions -> Phases] /\ sending' \in [Sessions -> FrameType]
    BY <1>1, <1>2 DEF DeliveryInv, DeliveryTypes, Phases, Inserted, Idle, Frame, FrameType
  <2>2. Append(down[s], f) \in Seq(FrameType)
    BY <1>4, <1>5
  <2>3. down' \in [Sessions -> Seq(FrameType)]
    BY <1>3, <2>2 DEF DeliveryInv, DeliveryTypes
  <2> QED BY <1>1, <2>1, <2>3 DEF DeliveryInv, DeliveryTypes
<1>8. Places'
  <2>1. Append(down[s], f) # <<>>
    <3>1. d \in Seq(FrameType)
      BY <1>5
    <3>2. Append(d, f) # <<>>
      BY <1>4, <3>1, AppendConcatenates
    <3> QED BY <1>5, <3>2
  <2> QED BY <1>1, <1>4, <2>1 DEF DeliveryInv, Places, Early
<1>9. GreetedFirst' /\ GoneStay
  <2>1. down[s] # <<>> => Head(Append(down[s], f)) = Head(down[s])
    BY <1>4, <1>5
  <2>2. GoneStay
    BY <1>1, <1>4 DEF GoneStay
  <2>3. ASSUME client[s] = "auth", down'[s] # <<>> PROVE Head(down'[s]).kind = "ok"
    <3>1. CASE down[s] # <<>>
      BY <1>1, <1>4, <2>1, <2>3, <3>1 DEF DeliveryInv, GreetedFirst, Inserted
    <3>2. down[s] # <<>>
      BY <1>1, <2>3 DEF DeliveryInv, Places
    <3> QED BY <3>1, <3>2
  <2>4. GreetedFirst'
    BY <1>1, <1>4, <2>3 DEF DeliveryInv, GreetedFirst, Inserted
  <2> QED BY <2>2, <2>4
<1>10. CASE client[s] = "ended" /\ down'[s] = down[s]
  <2>1. Lined(sends, p, b, d, <<>>, q) /\ Held(p, b, d, <<>>, q) \subseteq Held(p, b, d, <<f>>, q)
    <3>1. <<f>> \in Seq(FrameType)
      BY <1>4
    <3> QED BY <1>5, <3>1, DropsSome
  <2>2. HeldBy(s)' \subseteq HeldBy(s) /\ Lined(sends, posted'[s], batch'[s], down'[s], Written(s)', queue'[s])
    BY <1>1, <1>5, <1>6, <1>10, <2>1 DEF HeldBy
  <2>3. \A n : Excused(s, n)'
    BY <1>1, <1>10 DEF Excused
  <2>4. KnownFrames' /\ AllLined' /\ Kept'
    BY <1>1, <1>4, <1>9, <2>2, <2>3, FramesMoved
  <2> QED BY <1>1, <1>7, <1>8, <1>9, <2>4, WaySame DEF DeliveryInv
<1>11. CASE down'[s] = Append(down[s], f)
  <2>1. /\ Lined(sends, p, b, Append(d, f), <<>>, q)
        /\ Held(p, b, Append(d, f), <<>>, q) = Held(p, b, d, <<f>>, q)
    BY <1>4, <1>5, WritesToWire
  <2>2. HeldBy(s)' = HeldBy(s) /\ Lined(sends, posted'[s], batch'[s], down'[s], Written(s)', queue'[s])
    BY <1>1, <1>5, <1>6, <1>11, <2>1 DEF HeldBy
  <2>3. KnownFrames' /\ AllLined' /\ Kept'
    BY <1>1, <1>4, <1>9, <2>2, FramesMoved
  <2> QED BY <1>1, <1>7, <1>8, <1>9, <2>3, WaySame DEF DeliveryInv
<1> QED BY <1>4, <1>10, <1>11

\* The session ends, and what was left in its channel is lost.
LEMMA CleanupDelivers ==
  ASSUME DeliveryInv, NEW s \in Sessions, Cleanup(s)
  PROVE  DeliveryInv'
<1>1. /\ phase[s] = "leaving" /\ phase' = [phase EXCEPT ![s] = "ended"]
      /\ queue' = [queue EXCEPT ![s] = <<>>]
      /\ conns' = [conns EXCEPT ![UserOf[s]] = IF conns[UserOf[s]] = s THEN NoSession ELSE conns[UserOf[s]]]
      /\ UNCHANGED <<play, sending, up, down, client, outgoing, batch, posted, lost, sends, goal>>
  BY DEF Cleanup, bridgeVars
<1>2. /\ \A r \in Sessions \ {s} : phase'[r] = phase[r] /\ queue'[r] = queue[r]
      /\ phase'[s] = "ended" /\ queue'[s] = <<>>
  BY <1>1 DEF DeliveryInv, DeliveryTypes
<1>3. DeliveryTypes'
  <2>1. phase' \in [Sessions -> Phases] /\ queue' \in [Sessions -> Seq(FrameType)]
    BY <1>1 DEF DeliveryInv, DeliveryTypes, Phases
  <2>2. conns' \in [Users -> Sessions \cup {NoSession}]
    BY <1>1 DEF DeliveryInv, DeliveryTypes, Users
  <2> QED BY <1>1, <2>1, <2>2 DEF DeliveryInv, DeliveryTypes
<1>4. Places' /\ GreetedFirst' /\ GoneStay
  <2>1. Places'
    BY <1>1, <1>2 DEF DeliveryInv, Places, Early
  <2>2. GreetedFirst' /\ GoneStay
    BY <1>1, <1>2 DEF DeliveryInv, GreetedFirst, Inserted, GoneStay
  <2> QED BY <2>1, <2>2
<1>5. Written(s)' = Written(s)
  BY <1>1 DEF Written
<1>6. /\ Lined(sends, posted[s], batch[s], down[s], Written(s), <<>>)
      /\ Held(posted[s], batch[s], down[s], Written(s), <<>>) \subseteq HeldBy(s)
  <2>1. PICK p, b, d, w, q :
         /\ p = posted[s] /\ b = batch[s] /\ d = down[s] /\ w = Written(s) /\ q = queue[s]
         /\ p \in Seq(FrameType) /\ b \in Seq(FrameType) /\ d \in Seq(FrameType)
         /\ w \in Seq(FrameType) /\ q \in Seq(FrameType)
         /\ Lined(sends, p, b, d, w, q) /\ HeldBy(s) = Held(p, b, d, w, q)
    BY FrameSequences
  <2>2. Lined(sends, p, b, d, w, <<>>) /\ Held(p, b, d, w, <<>>) \subseteq Held(p, b, d, w, q)
    BY <2>1, DropsSome
  <2> QED BY <2>1, <2>2
<1>7. HeldBy(s)' \subseteq HeldBy(s) /\ Lined(sends, posted'[s], batch'[s], down'[s], Written(s)', queue'[s])
  BY <1>1, <1>2, <1>5, <1>6 DEF HeldBy
<1>8. \A n : Excused(s, n)'
  BY <1>2 DEF Excused
<1>9. KnownFrames' /\ AllLined' /\ Kept'
  BY <1>1, <1>2, <1>4, <1>7, <1>8, FramesMoved
<1> QED BY <1>1, <1>3, <1>4, <1>9, WaySame DEF DeliveryInv

\* The bridge reads the answer to its credentials.
LEMMA GreetingDelivers ==
  ASSUME DeliveryInv, NEW s \in Sessions, BridgeGreeted(s)
  PROVE  DeliveryInv'
<1> DEFINE x == IF Head(down[s]).kind = "ok" THEN "loop" ELSE "ended"
<1>1. /\ client[s] = "auth" /\ down[s] # <<>>
      /\ down' = [down EXCEPT ![s] = Tail(down[s])] /\ client' = [client EXCEPT ![s] = x]
      /\ UNCHANGED <<play, conns, phase, queue, sending, up, outgoing, batch, posted, lost, sends, goal>>
  BY DEF BridgeGreeted, serverVars
<1>2. /\ \A r \in Sessions \ {s} : client'[r] = client[r] /\ down'[r] = down[r]
      /\ client'[s] = x /\ down'[s] = Tail(down[s])
  BY <1>1 DEF DeliveryInv, DeliveryTypes
<1>3. x \in {"loop", "ended"} /\ (x = "loop" => Head(down[s]).kind = "ok")
  OBVIOUS
<1> HIDE DEF x
<1>4. /\ Lined(sends, posted[s], batch[s], Tail(down[s]), Written(s), queue[s])
      /\ Held(posted[s], batch[s], Tail(down[s]), Written(s), queue[s]) \subseteq HeldBy(s)
      /\ Head(down[s]) \in HeldBy(s)
      /\ \A f \in HeldBy(s) :
           f # Head(down[s]) => f \in Held(posted[s], batch[s], Tail(down[s]), Written(s), queue[s])
  <2>1. PICK p, b, d, w, q :
          /\ p = posted[s] /\ b = batch[s] /\ d = down[s] /\ w = Written(s) /\ q = queue[s]
          /\ p \in Seq(FrameType) /\ b \in Seq(FrameType) /\ d \in Seq(FrameType)
          /\ w \in Seq(FrameType) /\ q \in Seq(FrameType) /\ d # <<>>
          /\ Lined(sends, p, b, d, w, q) /\ HeldBy(s) = Held(p, b, d, w, q)
    BY <1>1, FrameSequences
  <2>2. /\ Lined(sends, p, b, Tail(d), w, q)
        /\ Held(p, b, Tail(d), w, q) \subseteq Held(p, b, d, w, q) /\ Head(d) \in Held(p, b, d, w, q)
        /\ \A f \in Held(p, b, d, w, q) : f # Head(d) => f \in Held(p, b, Tail(d), w, q)
    <3>1. /\ p \in Seq(FrameType) /\ b \in Seq(FrameType) /\ d \in Seq(FrameType)
          /\ w \in Seq(FrameType) /\ q \in Seq(FrameType) /\ d # <<>> /\ Lined(sends, p, b, d, w, q)
      BY <2>1
    <3> QED BY ONLY <3>1, DropsFirst
  <2> QED BY <2>1, <2>2
<1>5. Tail(down[s]) \in Seq(FrameType)
  BY <1>1, FrameSequences
<1>6. DeliveryTypes'
  BY <1>1, <1>3, <1>5 DEF DeliveryInv, DeliveryTypes
<1>7. Places' /\ GreetedFirst' /\ GoneStay
  <2>0. phase[s] \notin Early
    BY <1>1 DEF DeliveryInv, Places
  <2>1. Places'
    BY <1>1, <1>2, <1>3, <2>0 DEF DeliveryInv, Places, Early
  <2>2. GreetedFirst' /\ GoneStay
    BY <1>1, <1>2, <1>3 DEF DeliveryInv, GreetedFirst, GoneStay
  <2> QED BY <2>1, <2>2
<1>8. Written(s)' = Written(s)
  BY <1>1 DEF Written
<1>9. /\ HeldBy(s)' \subseteq HeldBy(s) /\ \A f \in HeldBy(s) : f # Head(down[s]) => f \in HeldBy(s)'
      /\ Lined(sends, posted'[s], batch'[s], down'[s], Written(s)', queue'[s])
  BY <1>1, <1>2, <1>4, <1>8 DEF HeldBy
<1>10. Head(down[s]) \in Answers \/ \A n : Excused(s, n)'
  <2>1. CASE x = "ended"
    BY <1>2, <2>1 DEF Excused
  <2>2. CASE x = "loop"
    BY <1>3, <1>4, <2>2, HeldNotIdle
  <2> QED BY <1>3, <2>1, <2>2
<1>11. KnownFrames' /\ AllLined' /\ Kept'
  BY <1>1, <1>2, <1>7, <1>9, <1>10, FramesMoved
<1> QED BY <1>1, <1>6, <1>7, <1>11, WaySame DEF DeliveryInv

\* The bridge collects a frame, or sees the end of the stream.
LEMMA ReceiveDelivers ==
  ASSUME DeliveryInv, NEW s \in Sessions, BridgeReceives(s)
  PROVE  DeliveryInv'
<1>1. /\ client[s] = "loop"
      /\ UNCHANGED <<play, conns, phase, queue, sending, up, outgoing, posted, lost, sends, goal>>
  BY DEF BridgeReceives, serverVars
<1>2. CASE /\ client' = [client EXCEPT ![s] = "ended"] /\ UNCHANGED <<down, batch>>
  <2>1. \A r \in Sessions : client'[r] = IF r = s THEN "ended" ELSE client[r]
    BY <1>2 DEF DeliveryInv, DeliveryTypes
  <2>2. DeliveryTypes'
    BY <1>1, <1>2 DEF DeliveryInv, DeliveryTypes
  <2>3. Places'
    BY <1>1, <1>2, <2>1 DEF DeliveryInv, Places
  <2>4. GreetedFirst' /\ GoneStay
    BY <1>1, <1>2, <2>1 DEF DeliveryInv, GreetedFirst, GoneStay
  <2> QED BY <1>1, <1>2, <2>2, <2>3, <2>4, WaySame, FramesSame DEF DeliveryInv
<1>3. CASE /\ down[s] # <<>> /\ down' = [down EXCEPT ![s] = Tail(down[s])]
           /\ batch' = [batch EXCEPT ![s] = Append(batch[s], Head(down[s]))] /\ UNCHANGED client
  <2>1. /\ \A r \in Sessions \ {s} : down'[r] = down[r] /\ batch'[r] = batch[r]
        /\ down'[s] = Tail(down[s]) /\ batch'[s] = Append(batch[s], Head(down[s]))
    BY <1>3 DEF DeliveryInv, DeliveryTypes
  <2>2. /\ Lined(sends, posted[s], Append(batch[s], Head(down[s])), Tail(down[s]), Written(s), queue[s])
        /\ Held(posted[s], Append(batch[s], Head(down[s])), Tail(down[s]), Written(s), queue[s]) = HeldBy(s)
    BY <1>3, FrameSequences, Collects
  <2>3. Tail(down[s]) \in Seq(FrameType) /\ Append(batch[s], Head(down[s])) \in Seq(FrameType)
    BY <1>3, FrameSequences
  <2>4. DeliveryTypes'
    <3>1. down' \in [Sessions -> Seq(FrameType)] /\ batch' \in [Sessions -> Seq(FrameType)]
      BY <1>3, <2>3 DEF DeliveryInv, DeliveryTypes
    <3> QED BY <1>1, <1>3, <3>1 DEF DeliveryInv, DeliveryTypes
  <2>5. Places'
    <3>1. phase[s] \notin Early
      BY <1>3 DEF DeliveryInv, Places
    <3> QED BY <1>1, <1>3, <2>1, <3>1 DEF DeliveryInv, Places
  <2>6. GreetedFirst' /\ GoneStay
    BY <1>1, <1>3, <2>1 DEF DeliveryInv, GreetedFirst, GoneStay
  <2>7. Written(s)' = Written(s)
    BY <1>1 DEF Written
  <2>8. /\ HeldBy(s)' = HeldBy(s)
        /\ Lined(sends, posted'[s], batch'[s], down'[s], Written(s)', queue'[s])
    BY <1>1, <2>1, <2>2, <2>7 DEF HeldBy
  <2>9. KnownFrames' /\ AllLined' /\ Kept'
    BY <1>1, <2>1, <2>6, <2>8, FramesMoved
  <2> QED BY <1>1, <2>4, <2>5, <2>6, <2>9, WaySame DEF DeliveryInv
<1> QED BY <1>2, <1>3 DEF BridgeReceives

\* The batch is posted, or lost.
LEMMA FlushDelivers ==
  ASSUME DeliveryInv, NEW s \in Sessions, Flush(s)
  PROVE  DeliveryInv'
<1>1. /\ batch' = [batch EXCEPT ![s] = <<>>]
      /\ \/ posted' = [posted EXCEPT ![s] = posted[s] \o batch[s]] /\ UNCHANGED lost
         \/ lost' = lost \cup {batch[s][k].n : k \in DOMAIN batch[s]} /\ UNCHANGED posted
      /\ UNCHANGED <<play, conns, phase, queue, sending, up, down, client, outgoing, sends, goal>>
  BY DEF Flush, serverVars
<1>2. /\ \A r \in Sessions \ {s} : batch'[r] = batch[r] /\ posted'[r] = posted[r]
      /\ batch'[s] = <<>>
      /\ \/ posted'[s] = posted[s] \o batch[s]
         \/ posted'[s] = posted[s] /\ \A k \in DOMAIN batch[s] : batch[s][k].n \in lost'
  BY <1>1 DEF DeliveryInv, DeliveryTypes
<1>3. DeliveryTypes'
  <2>1. posted[s] \o batch[s] \in Seq(FrameType)
    BY FrameSequences, Concatenated
  <2>2. batch' \in [Sessions -> Seq(FrameType)]
    BY <1>1 DEF DeliveryInv, DeliveryTypes
  <2>3. posted' \in [Sessions -> Seq(FrameType)]
    <3>1. CASE posted' = posted
      BY <3>1 DEF DeliveryInv, DeliveryTypes
    <3>2. CASE posted' = [posted EXCEPT ![s] = posted[s] \o batch[s]]
      <4> DEFINE t == posted[s] \o batch[s]
      <4>1. t \in Seq(FrameType) /\ posted' = [posted EXCEPT ![s] = t]
        BY <2>1, <3>2
      <4> HIDE DEF t
      <4> QED BY <4>1 DEF DeliveryInv, DeliveryTypes
    <3> QED BY <1>1, <3>1, <3>2
  <2> QED BY <1>1, <2>2, <2>3 DEF DeliveryInv, DeliveryTypes
<1>4. Places' /\ GreetedFirst' /\ GoneStay
  BY <1>1 DEF DeliveryInv, Places, GreetedFirst, GoneStay
<1>5. Written(s)' = Written(s)
  BY <1>1 DEF Written
<1>6. CASE posted'[s] = posted[s] \o batch[s]
  <2>1. /\ Lined(sends, posted[s] \o batch[s], <<>>, down[s], Written(s), queue[s])
        /\ Held(posted[s] \o batch[s], <<>>, down[s], Written(s), queue[s]) = HeldBy(s)
    <3>1. PICK p, b, d, w, q :
           /\ p = posted[s] /\ b = batch[s] /\ d = down[s] /\ w = Written(s) /\ q = queue[s]
           /\ p \in Seq(FrameType) /\ b \in Seq(FrameType) /\ d \in Seq(FrameType)
           /\ w \in Seq(FrameType) /\ q \in Seq(FrameType)
           /\ Lined(sends, p, b, d, w, q) /\ HeldBy(s) = Held(p, b, d, w, q)
      BY FrameSequences
    <3>2. Lined(sends, p \o b, <<>>, d, w, q) /\ Held(p \o b, <<>>, d, w, q) = Held(p, b, d, w, q)
      BY <3>1, Posts
    <3> QED BY <3>1, <3>2
  <2>2. HeldBy(s)' = HeldBy(s) /\ Lined(sends, posted'[s], batch'[s], down'[s], Written(s)', queue'[s])
    BY <1>1, <1>2, <1>5, <1>6, <2>1 DEF HeldBy
  <2>3. KnownFrames' /\ AllLined' /\ Kept'
    BY <1>1, <1>2, <1>4, <2>2, FramesMoved
  <2> QED BY <1>1, <1>3, <1>4, <2>3, WaySame DEF DeliveryInv
<1>7. CASE posted'[s] = posted[s] /\ \A k \in DOMAIN batch[s] : batch[s][k].n \in lost'
  <2>1. /\ Lined(sends, posted[s], <<>>, down[s], Written(s), queue[s])
        /\ Held(posted[s], <<>>, down[s], Written(s), queue[s]) \subseteq HeldBy(s)
        /\ HeldBy(s) \subseteq Held(posted[s], <<>>, down[s], Written(s), queue[s]) \cup Among(batch[s])
    BY FrameSequences, DropsSome
  <2>2. /\ HeldBy(s)' \subseteq HeldBy(s) /\ HeldBy(s) \subseteq HeldBy(s)' \cup Among(batch[s])
        /\ Lined(sends, posted'[s], batch'[s], down'[s], Written(s)', queue'[s])
    BY <1>1, <1>2, <1>5, <1>7, <2>1 DEF HeldBy
  <2>3. \A f \in Among(batch[s]) : Excused(s, f.n)'
    BY <1>7 DEF Among, Excused
  <2>4. KnownFrames' /\ AllLined' /\ Kept'
    BY <1>1, <1>2, <1>4, <2>2, <2>3, FramesMoved
  <2> QED BY <1>1, <1>3, <1>4, <2>4, WaySame DEF DeliveryInv
<1> QED BY <1>2, <1>6, <1>7

\* The bridge is stopped, or has written a message, or finds its wire closed.
LEMMA StopDelivers ==
  ASSUME DeliveryInv, NEW s \in Sessions, BridgeStops(s)
  PROVE  DeliveryInv'
<1>1. /\ client' = [client EXCEPT ![s] = "ended"] /\ outgoing' = [outgoing EXCEPT ![s] = 0]
      /\ UNCHANGED <<play, conns, phase, queue, sending, up, down, batch, posted, lost, sends, goal>>
      /\ client[s] # "off"
  BY DEF BridgeStops, serverVars
<1>2. /\ \A r \in Sessions \ {s} : client'[r] = client[r] /\ outgoing'[r] = outgoing[r]
      /\ client'[s] = "ended" /\ outgoing'[s] = 0
  BY <1>1 DEF DeliveryInv, DeliveryTypes
<1>3. DeliveryTypes'
  BY <1>1 DEF DeliveryInv, DeliveryTypes
<1>4. Places'
  BY <1>1, <1>2 DEF DeliveryInv, Places
<1>5. GreetedFirst' /\ GoneStay
  BY <1>1, <1>2 DEF DeliveryInv, GreetedFirst, GoneStay
<1>6. OnTheWay'
  BY <1>1, <1>2 DEF DeliveryInv, OnTheWay, Fresh
<1>7. Taken'
  <2> SUFFICES ASSUME NEW n \in DOMAIN sends,
                      phase[sends[n].from] # "ended", client'[sends[n].from] # "ended",
                      outgoing'[sends[n].from] # n, ~Contains(up[sends[n].from], n),
                      sends[n].kind # "garbled"
               PROVE  goal[n] # NoSession
    BY <1>1 DEF Taken, Contains
  <2>1. sends[n].from \in Sessions \ {s}
    BY <1>2, SenderTypes DEF DeliveryInv
  <2> QED BY <1>2, <2>1 DEF DeliveryInv, Taken
<1> QED BY <1>1, <1>3, <1>4, <1>5, <1>6, <1>7, FramesSame DEF DeliveryInv

LEMMA SendDelivers ==
  ASSUME DeliveryInv, NEW s \in Sessions, BridgeSends(s)
  PROVE  DeliveryInv'
<1> DEFINE n == outgoing[s]
<1>1. /\ client[s] = "sending" /\ outgoing' = [outgoing EXCEPT ![s] = 0]
      /\ UNCHANGED <<play, conns, phase, queue, sending, down, batch, posted, lost, sends, goal>>
  BY DEF BridgeSends, serverVars
<1>2. \/ client' = [client EXCEPT ![s] = "ended"] /\ up' = up
      \/ client' = [client EXCEPT ![s] = "loop"] /\ up' = [up EXCEPT ![s] = Append(up[s], n)]
  BY DEF BridgeSends
<1>3. /\ \A r \in Sessions \ {s} : client'[r] = client[r] /\ outgoing'[r] = outgoing[r] /\ up'[r] = up[r]
      /\ outgoing'[s] = 0
      /\ \/ client'[s] = "ended" /\ up'[s] = up[s]
         \/ client'[s] = "loop" /\ up'[s] = Append(up[s], n)
  BY <1>1, <1>2 DEF DeliveryInv, DeliveryTypes
<1>4. /\ n \in Nat /\ n # 0 /\ up[s] \in Seq(Nat) /\ Fresh(sends, goal, s, n)
      /\ \A k \in DOMAIN up[s] : Fresh(sends, goal, s, up[s][k]) /\ up[s][k] < n
      /\ \A k, l \in DOMAIN up[s] : k < l => up[s][k] < up[s][l]
  BY <1>1 DEF DeliveryInv, DeliveryTypes, Places, OnTheWay
<1> HIDE DEF n
<1>5. DeliveryTypes'
  <2>1. Append(up[s], n) \in Seq(Nat)
    BY <1>4
  <2>2. up' \in [Sessions -> Seq(Nat)]
    BY <1>2, <2>1 DEF DeliveryInv, DeliveryTypes
  <2>3. /\ client' \in [Sessions -> {"off", "auth", "loop", "sending", "ended"}]
        /\ outgoing' \in [Sessions -> Nat]
    BY <1>1, <1>2 DEF DeliveryInv, DeliveryTypes
  <2> QED BY <1>1, <2>2, <2>3 DEF DeliveryInv, DeliveryTypes
<1>6. Places'
  <2>1. phase[s] # "off"
    BY <1>1 DEF DeliveryInv, Places
  <2> QED BY <1>1, <1>3, <2>1 DEF DeliveryInv, Places
<1>7. GreetedFirst' /\ GoneStay
  BY <1>1, <1>3 DEF DeliveryInv, GreetedFirst, GoneStay
<1>8. /\ \A k \in DOMAIN up'[s] : Fresh(sends, goal, s, up'[s][k])
      /\ \A k, l \in DOMAIN up'[s] : k < l => up'[s][k] < up'[s][l]
  <2>1. CASE up'[s] = up[s]
    BY <1>4, <2>1
  <2>2. CASE up'[s] = Append(up[s], n)
    <3> DEFINE u == Append(up[s], n)
    <3>1. /\ DOMAIN u = 1 .. Len(up[s]) + 1 /\ DOMAIN up[s] = 1 .. Len(up[s]) /\ Len(up[s]) \in Nat
          /\ u[Len(up[s]) + 1] = n /\ \A k \in DOMAIN up[s] : u[k] = up[s][k]
      BY <1>4
    <3> HIDE DEF u
    <3>2. \A k \in DOMAIN u : k = Len(up[s]) + 1 \/ k \in DOMAIN up[s]
      BY <3>1
    <3>3. \A k \in DOMAIN u : Fresh(sends, goal, s, u[k])
      BY <1>4, <3>1, <3>2
    <3>4. ASSUME NEW k \in DOMAIN u, NEW l \in DOMAIN u, k < l PROVE u[k] < u[l]
      <4>1. k \in DOMAIN up[s]
        BY <3>1, <3>4
      <4> QED BY <1>4, <3>1, <3>2, <3>4, <4>1
    <3> QED BY <2>2, <3>3, <3>4 DEF u
  <2> QED BY <1>3, <2>1, <2>2
<1>9. OnTheWay'
  <2>2. ASSUME NEW r \in Sessions
        PROVE  /\ \A k \in DOMAIN up'[r] : Fresh(sends, goal, r, up'[r][k])
               /\ \A k, l \in DOMAIN up'[r] : k < l => up'[r][k] < up'[r][l]
               /\ outgoing'[r] # 0 =>
                    Fresh(sends, goal, r, outgoing'[r]) /\ \A k \in DOMAIN up'[r] : up'[r][k] < outgoing'[r]
    <3>1. CASE r = s
      BY <1>3, <1>8, <3>1
    <3>2. CASE r # s
      BY <1>3, <3>2 DEF DeliveryInv, OnTheWay
    <3> QED BY <3>1, <3>2
  <2> QED BY <1>1, <2>2 DEF DeliveryInv, OnTheWay
<1>10. Taken'
  <2> SUFFICES ASSUME NEW k \in DOMAIN sends,
                      phase[sends[k].from] # "ended", client'[sends[k].from] # "ended",
                      outgoing'[sends[k].from] # k, ~Contains(up'[sends[k].from], k),
                      sends[k].kind # "garbled"
               PROVE  goal[k] # NoSession
    BY <1>1 DEF Taken, Contains
  <2>0. sends[k].from \in Sessions
    BY SenderTypes DEF DeliveryInv
  <2>1. CASE sends[k].from # s
    BY <1>3, <2>0, <2>1 DEF DeliveryInv, Taken, Contains
  <2>2. CASE sends[k].from = s
    <3>1. up'[s] = Append(up[s], n) /\ client[s] # "ended"
      BY <1>1, <1>3, <2>2
    <3>2. k # n /\ ~Contains(up[s], k)
      BY <1>4, <2>2, <3>1 DEF Contains
    <3> QED BY <2>2, <3>1, <3>2 DEF DeliveryInv, Taken, n
  <2> QED BY <2>1, <2>2
<1> QED BY <1>1, <1>5, <1>6, <1>7, <1>9, <1>10, FramesSame DEF DeliveryInv

\* More messages change nothing for the frames about earlier ones.
LEMMA LinedMore ==
  ASSUME NEW m, NEW m2, NEW p, NEW b, NEW d, NEW w, NEW q, Lined(m, p, b, d, w, q),
         \A f \in Held(p, b, d, w, q) : f.kind = "from" => m2[f.n] = m[f.n]
  PROVE  Lined(m2, p, b, d, w, q)
<1>1. \A f, g \in Held(p, b, d, w, q) : Pair(m, f, g) => Pair(m2, f, g)
  BY DEF Pair
<1>2. ASSUME NEW x, NEW y, Among(x) \subseteq Held(p, b, d, w, q), Among(y) \subseteq Held(p, b, d, w, q)
      PROVE  (Line(m, x) => Line(m2, x)) /\ (Cross(m, x, y) => Cross(m2, x, y))
  <2>1. /\ \A k \in DOMAIN x : x[k] \in Held(p, b, d, w, q)
        /\ \A k \in DOMAIN y : y[k] \in Held(p, b, d, w, q)
    BY <1>2 DEF Among
  <2> QED BY <1>1, <2>1 DEF Line, Cross
<1>3. /\ Among(p) \subseteq Held(p, b, d, w, q) /\ Among(b) \subseteq Held(p, b, d, w, q)
      /\ Among(d) \subseteq Held(p, b, d, w, q) /\ Among(w) \subseteq Held(p, b, d, w, q)
      /\ Among(q) \subseteq Held(p, b, d, w, q)
  BY DEF Held
<1>4. /\ Line(m2, p) /\ Line(m2, b) /\ Line(m2, d) /\ Line(m2, w) /\ Line(m2, q)
      /\ Cross(m2, p, b) /\ Cross(m2, p, d) /\ Cross(m2, p, w) /\ Cross(m2, p, q)
  BY <1>2, <1>3 DEF Lined
<1>5. /\ Cross(m2, b, d) /\ Cross(m2, b, w) /\ Cross(m2, b, q)
      /\ Cross(m2, d, w) /\ Cross(m2, d, q) /\ Cross(m2, w, q)
  BY <1>2, <1>3 DEF Lined
<1> QED BY <1>4, <1>5 DEF Lined

\* The bridge takes a message of its agent's.
LEMMA TakeDelivers ==
  ASSUME DeliveryInv, NEW s \in Sessions, NEW to \in Users, NEW kind \in {"text", "large", "garbled"},
         BridgeTakes(s, to, kind)
  PROVE  DeliveryInv'
<1>n. PICK n \in Nat : n = Len(sends) + 1
  BY DEF DeliveryInv, DeliveryTypes
<1> DEFINE M == [from |-> s, to |-> to, kind |-> kind]
<1>1. /\ client[s] = "loop" /\ Len(sends) < play.sends /\ sends' = Append(sends, M)
      /\ outgoing' = [outgoing EXCEPT ![s] = n] /\ client' = [client EXCEPT ![s] = "sending"]
      /\ UNCHANGED <<play, conns, phase, queue, sending, up, down, batch, posted, lost, goal>>
  BY <1>n DEF BridgeTakes, serverVars
<1>2. /\ sends \in Seq(MessageType) /\ Len(sends) \in Nat /\ play.sends \in Nat /\ M \in MessageType
      /\ n \in Nat /\ n # 0
  BY <1>n DEF DeliveryInv, DeliveryTypes, MessageType
<1>3. /\ \A r \in Sessions \ {s} : client'[r] = client[r] /\ outgoing'[r] = outgoing[r]
      /\ client'[s] = "sending" /\ outgoing'[s] = n /\ outgoing[s] = 0
  BY <1>1 DEF DeliveryInv, DeliveryTypes, Places
<1>a. M.from = s
  OBVIOUS
<1> HIDE DEF M
<1>4. /\ sends' \in Seq(MessageType) /\ Len(sends') = n /\ DOMAIN sends' = DOMAIN sends \cup {n}
      /\ sends'[n] = M /\ \A k \in DOMAIN sends : sends'[k] = sends[k] /\ k < n /\ k \in Nat
  BY <1>n, <1>1, <1>2
<1>5. goal[n] = NoSession /\ n <= play.sends /\ n \in 1 .. play.sends
  <2>1. n <= play.sends /\ n \in 1 .. play.sends /\ n > Len(sends)
    BY <1>n, <1>1, <1>2
  <2> QED BY <2>1 DEF DeliveryInv, OnTheWay
<1>6. DeliveryTypes'
  BY <1>1, <1>2, <1>4, <1>5 DEF DeliveryInv, DeliveryTypes
<1>7. Places'
  <2>1. phase[s] # "off"
    BY <1>1 DEF DeliveryInv, Places
  <2> QED BY <1>1, <1>2, <1>3, <2>1 DEF DeliveryInv, Places
<1>8. GreetedFirst' /\ GoneStay
  BY <1>1, <1>3 DEF DeliveryInv, GreetedFirst, GoneStay
<1>9. OnTheWay'
  <2>1. ASSUME NEW r \in Sessions, NEW k, Fresh(sends, goal, r, k) PROVE Fresh(sends', goal, r, k) /\ k < n
    BY <1>1, <1>4, <1>5, <2>1 DEF Fresh
  <2>2. Fresh(sends', goal, s, n)
    BY <1>1, <1>a, <1>4, <1>5 DEF Fresh
  <2>3. ASSUME NEW r \in Sessions
        PROVE  /\ \A k \in DOMAIN up[r] : Fresh(sends', goal, r, up[r][k])
               /\ \A k, l \in DOMAIN up[r] : k < l => up[r][k] < up[r][l]
               /\ outgoing'[r] # 0 =>
                    Fresh(sends', goal, r, outgoing'[r]) /\ \A k \in DOMAIN up[r] : up[r][k] < outgoing'[r]
    <3>1. CASE r = s
      BY <1>3, <2>1, <2>2, <3>1 DEF DeliveryInv, OnTheWay
    <3>2. CASE r # s
      BY <1>3, <2>1, <3>2 DEF DeliveryInv, OnTheWay
    <3> QED BY <3>1, <3>2
  <2>4. ASSUME NEW k \in 1 .. play.sends, k > Len(sends') PROVE goal[k] = NoSession
    <3>1. k > Len(sends)
      BY <1>n, <1>2, <1>4, <2>4
    <3> QED BY <3>1 DEF DeliveryInv, OnTheWay
  <2> QED BY <1>1, <2>3, <2>4 DEF OnTheWay
<1>10. \A r \in Sessions : Written(r)' = Written(r) /\ HeldBy(r)' = HeldBy(r)
  BY <1>1 DEF Written, HeldBy
<1>11. KnownFrames'
  <2> SUFFICES ASSUME NEW r \in Sessions, NEW f \in HeldBy(r) PROVE f \in Answers \/ AboutOwn(r, f)'
    BY <1>10 DEF KnownFrames, AboutOwn, Answers
  <2>1. f \in Answers \/ AboutOwn(r, f)
    BY DEF DeliveryInv, KnownFrames
  <2> QED BY <1>1, <1>4, <2>1 DEF AboutOwn
<1>12. AllLined'
  <2> SUFFICES ASSUME NEW r \in Sessions
               PROVE  Lined(sends', posted[r], batch[r], down[r], Written(r), queue[r])
    BY <1>1, <1>10 DEF AllLined
  <2>1. ASSUME NEW f \in HeldBy(r), f.kind = "from" PROVE sends'[f.n] = sends[f.n]
    <3>1. f.n \in DOMAIN sends
      BY <2>1 DEF DeliveryInv, KnownFrames, AboutOwn, Answers
    <3> QED BY <1>4, <3>1
  <2>2. \A f \in Held(posted[r], batch[r], down[r], Written(r), queue[r]) :
          f.kind = "from" => sends'[f.n] = sends[f.n]
    BY <2>1 DEF HeldBy
  <2>3. Lined(sends, posted[r], batch[r], down[r], Written(r), queue[r])
    BY FrameSequences
  <2> QED BY <2>2, <2>3, LinedMore
<1>13. Taken'
  <2> SUFFICES ASSUME NEW k \in DOMAIN sends',
                      phase[sends'[k].from] # "ended", client'[sends'[k].from] # "ended",
                      outgoing'[sends'[k].from] # k, ~Contains(up[sends'[k].from], k),
                      sends'[k].kind # "garbled"
               PROVE  goal[k] # NoSession
    BY <1>1 DEF Taken, Contains
  <2>1. k # n
    BY <1>3, <1>a, <1>4
  <2>2. k \in DOMAIN sends /\ sends'[k] = sends[k] /\ k # 0
    BY <1>4, <2>1, SenderTypes DEF DeliveryInv
  <2>3. sends[k].from \in Sessions
    BY <2>2, SenderTypes DEF DeliveryInv
  <2>4. client[sends[k].from] # "ended" /\ outgoing[sends[k].from] # k
    BY <1>1, <1>3, <2>2, <2>3
  <2> QED BY <2>2, <2>4 DEF DeliveryInv, Taken
<1>14. Kept'
  <2> SUFFICES ASSUME NEW k \in DOMAIN sends', NEW g, g = goal[k], g # NoSession, ~Excused(g, k)'
               PROVE  \E f \in HeldBy(g)' : f.n = k
    BY <1>1 DEF Kept, Excused, HeldBy, Written
  <2>1. k \in DOMAIN sends
    BY <1>4, <1>5
  <2>2. g \in Sessions
    BY <2>1, SenderTypes DEF DeliveryInv
  <2>3. ~Excused(g, k)
    BY <1>8, <2>2, ExcusedStay
  <2>4. \E f \in HeldBy(g) : f.n = k
    BY <2>1, <2>3 DEF DeliveryInv, Kept
  <2> QED BY <1>10, <2>2, <2>4
<1> QED BY <1>6, <1>7, <1>8, <1>9, <1>11, <1>12, <1>13, <1>14 DEF DeliveryInv

\* No session ends; nothing but r's frames changes.
EndedSame == \A t \in Sessions : phase[t] = "ended" <=> phase'[t] = "ended"
OthersKeep(r) ==
  \A t \in Sessions \ {r} :
    /\ posted'[t] = posted[t] /\ batch'[t] = batch[t] /\ down'[t] = down[t]
    /\ sending'[t] = sending[t] /\ queue'[t] = queue[t]

\* A message arrives at the server and is given a goal, or is garbled.
LEMMA ArrivedWay ==
  ASSUME DeliveryInv, NEW s \in Sessions, NEW n, up[s] # <<>>, n = Head(up[s]),
         up' = [up EXCEPT ![s] = Tail(up[s])], NEW g \in Sessions \cup {NoSession},
         goal' = [goal EXCEPT ![n] = g], g = NoSession => sends[n].kind = "garbled",
         UNCHANGED <<play, client, outgoing, sends>>, EndedSame
  PROVE  /\ OnTheWay' /\ Taken' /\ up' \in [Sessions -> Seq(Nat)]
         /\ goal' \in [1 .. play.sends -> Sessions \cup {NoSession}]
         /\ Fresh(sends, goal, s, n) /\ n # 0
<1>0. NoSession \notin Sessions
  BY SessionsAssumption
<1>1. /\ up[s] \in Seq(Nat) /\ up \in [Sessions -> Seq(Nat)]
      /\ goal \in [1 .. play.sends -> Sessions \cup {NoSession}]
  BY DEF DeliveryInv, DeliveryTypes
<1>2. /\ \A k \in DOMAIN up[s] : Fresh(sends, goal, s, up[s][k])
      /\ \A k, l \in DOMAIN up[s] : k < l => up[s][k] < up[s][l]
      /\ outgoing[s] # 0 => Fresh(sends, goal, s, outgoing[s]) /\ \A k \in DOMAIN up[s] : up[s][k] < outgoing[s]
  BY DEF DeliveryInv, OnTheWay
<1> DEFINE t == Tail(up[s])
<1>3. /\ 1 \in DOMAIN up[s] /\ up[s][1] = n /\ t \in Seq(Nat)
      /\ \A k \in DOMAIN t : k \in Nat /\ k + 1 \in DOMAIN up[s] /\ t[k] = up[s][k + 1] /\ 1 < k + 1
      /\ \A k \in DOMAIN up[s] : k # 1 => k - 1 \in DOMAIN t /\ t[k - 1] = up[s][k]
  BY <1>1
<1>4. up'[s] = t /\ (\A r \in Sessions \ {s} : up'[r] = up[r]) /\ up' \in [Sessions -> Seq(Nat)]
  BY <1>1, <1>3
<1> HIDE DEF t
<1>5. Fresh(sends, goal, s, n)
  BY <1>2, <1>3
<1>6. n \in DOMAIN sends /\ n \in 1 .. play.sends /\ n # 0
  BY <1>5, SenderTypes DEF Fresh, DeliveryInv
<1>7. /\ goal'[n] = g /\ goal' \in [1 .. play.sends -> Sessions \cup {NoSession}]
      /\ \A k \in DOMAIN sends : k # n => goal'[k] = goal[k]
  BY <1>1, <1>6, SenderTypes DEF DeliveryInv
<1>8. ASSUME NEW r \in Sessions, NEW k, Fresh(sends, goal, r, k), r # s \/ n < k
      PROVE  Fresh(sends, goal', r, k)
  <2>1. k # n
    BY <1>5, <1>6, <1>8 DEF Fresh
  <2>2. ASSUME NEW l \in DOMAIN sends, sends[l].from = r, goal'[l] # NoSession PROVE l < k
    <3>1. CASE l = n
      BY <1>5, <1>8, <2>2, <3>1 DEF Fresh
    <3>2. CASE l # n
      BY <1>7, <1>8, <2>2, <3>2 DEF Fresh
    <3> QED BY <3>1, <3>2
  <2> QED BY <1>7, <1>8, <2>1, <2>2 DEF Fresh
<1>9. OnTheWay'
  <2>1. ASSUME NEW r \in Sessions
        PROVE  /\ \A k \in DOMAIN up'[r] : Fresh(sends, goal', r, up'[r][k])
               /\ \A k, l \in DOMAIN up'[r] : k < l => up'[r][k] < up'[r][l]
               /\ outgoing[r] # 0 =>
                    Fresh(sends, goal', r, outgoing[r]) /\ \A k \in DOMAIN up'[r] : up'[r][k] < outgoing[r]
    <3>1. CASE r # s
      <4>1. /\ \A k \in DOMAIN up[r] : Fresh(sends, goal, r, up[r][k])
            /\ \A k, l \in DOMAIN up[r] : k < l => up[r][k] < up[r][l]
            /\ outgoing[r] # 0 => Fresh(sends, goal, r, outgoing[r]) /\ \A k \in DOMAIN up[r] : up[r][k] < outgoing[r]
        BY DEF DeliveryInv, OnTheWay
      <4> QED BY <1>4, <1>8, <3>1, <4>1
    <3>2. CASE r = s
      <4>1. ASSUME NEW k \in DOMAIN t PROVE n < t[k] /\ Fresh(sends, goal, s, t[k])
        BY <1>2, <1>3
      <4>2. ASSUME NEW k \in DOMAIN t, NEW l \in DOMAIN t, k < l PROVE t[k] < t[l]
        <5>1. k + 1 < l + 1
          BY <1>3, <4>2
        <5> QED BY <1>2, <1>3, <5>1
      <4>3. outgoing[s] # 0 => n < outgoing[s] /\ \A k \in DOMAIN t : t[k] < outgoing[s]
        BY <1>2, <1>3
      <4> QED BY <1>2, <1>4, <1>8, <3>2, <4>1, <4>2, <4>3
    <3> QED BY <3>1, <3>2
  <2>2. ASSUME NEW k \in 1 .. play.sends, k > Len(sends) PROVE goal'[k] = NoSession
    <3>1. k # n
      BY <1>6, <2>2, SenderTypes DEF DeliveryInv, DeliveryTypes
    <3>2. goal[k] = NoSession
      BY <2>2 DEF DeliveryInv, OnTheWay
    <3> QED BY <1>1, <3>1, <3>2
  <2> QED BY <2>1, <2>2 DEF OnTheWay
<1>10. Taken'
  <2> SUFFICES ASSUME NEW k \in DOMAIN sends,
                      phase'[sends[k].from] # "ended", client[sends[k].from] # "ended",
                      outgoing[sends[k].from] # k, ~Contains(up'[sends[k].from], k),
                      sends[k].kind # "garbled"
               PROVE  goal'[k] # NoSession
    BY DEF Taken, Contains
  <2>0. sends[k].from \in Sessions
    BY SenderTypes DEF DeliveryInv
  <2>1. CASE k = n
    BY <1>7, <2>1
  <2>2. CASE k # n
    <3>1. ~Contains(up[sends[k].from], k)
      <4>1. CASE sends[k].from # s
        BY <1>4, <2>0, <4>1
      <4>2. CASE sends[k].from = s
        <5>1. \A i \in DOMAIN t : t[i] # k
          <6>1. ~Contains(t, k)
            BY <1>4, <4>2
          <6>2. DOMAIN t = 1 .. Len(t)
            BY <1>3
          <6> QED BY <6>1, <6>2 DEF Contains
        <5>2. \A i \in DOMAIN up[s] : up[s][i] # k
          BY <1>3, <2>2, <5>1
        <5> QED BY <1>1, <4>2, <5>2 DEF Contains
      <4> QED BY <4>1, <4>2
    <3>2. phase[sends[k].from] # "ended"
      BY <2>0 DEF EndedSame
    <3> QED BY <1>7, <2>2, <3>1, <3>2 DEF DeliveryInv, Taken
  <2> QED BY <2>1, <2>2
<1> QED BY <1>4, <1>5, <1>6, <1>7, <1>9, <1>10

\* What its goal is given is behind the frames it has, an error clear of them.
LEMMA ArrivedBehind ==
  ASSUME DeliveryInv, NEW s \in Sessions, NEW n, Fresh(sends, goal, s, n), n # 0, NEW r \in Sessions
  PROVE  /\ Behind(sends, HeldBy(r), Frame("from", n))
         /\ Clear(sends, HeldBy(r), Frame("error", n))
<1> SUFFICES ASSUME NEW f \in HeldBy(r)
             PROVE  /\ Pair(sends, f, Frame("from", n))
                    /\ Pair(sends, f, Frame("error", n)) /\ Pair(sends, Frame("error", n), f)
  BY DEF Behind, Clear
<1>1. CASE f \in Answers
  BY <1>1, AnswerPairs
<1>2. CASE AboutOwn(r, f)
  <2>1. f.n # n /\ f.n \in DOMAIN sends /\ goal[f.n] # NoSession
    BY <1>2, SessionsAssumption DEF AboutOwn, Fresh
  <2>2. sends[f.n].from = sends[n].from => f.n < n
    BY <2>1 DEF Fresh
  <2> QED BY <2>1, <2>2 DEF Pair, Frame
<1> QED BY <1>1, <1>2 DEF DeliveryInv, KnownFrames

\* The frames after it was given to a session.
LEMMA ArrivedFrames ==
  ASSUME DeliveryInv, GoneStay, NEW s \in Sessions, NEW n, Fresh(sends, goal, s, n), n # 0,
         NEW r \in Sessions, goal' = [goal EXCEPT ![n] = r], NEW f \in FrameType,
         f.kind \in {"from", "error"}, f.n = n, UNCHANGED sends, OthersKeep(r),
         Lined(sends, posted'[r], batch'[r], down'[r], Written(r)', queue'[r]),
         HeldBy(r)' = HeldBy(r) \cup {f}
  PROVE  KnownFrames' /\ AllLined' /\ Kept'
<1>1. \A t \in Sessions \ {r} : Written(t)' = Written(t) /\ HeldBy(t)' = HeldBy(t)
  BY DEF OthersKeep, Written, HeldBy
<1>2. n \in DOMAIN sends /\ goal[n] = NoSession /\ NoSession \notin Sessions
  BY SessionsAssumption DEF Fresh
<1>3. goal'[n] = r /\ \A k \in DOMAIN sends : k # n => goal'[k] = goal[k]
  BY <1>2, SenderTypes DEF DeliveryInv, DeliveryTypes
<1>4. KnownFrames'
  <2>1. ASSUME NEW t \in Sessions, NEW h \in HeldBy(t) PROVE h \in Answers \/ AboutOwn(t, h)'
    <3>1. CASE h \in Answers
      BY <3>1
    <3>2. CASE AboutOwn(t, h)
      <4>1. h.n # n
        BY <1>2, <3>2 DEF AboutOwn
      <4> QED BY <1>3, <3>2, <4>1 DEF AboutOwn
    <3> QED BY <3>1, <3>2 DEF DeliveryInv, KnownFrames
  <2>2. AboutOwn(r, f)'
    BY <1>2, <1>3 DEF AboutOwn
  <2>3. ASSUME NEW t \in Sessions, NEW h \in HeldBy(t)' PROVE h \in Answers \/ AboutOwn(t, h)'
    <3>1. CASE t = r
      BY <2>1, <2>2, <2>3, <3>1
    <3>2. CASE t # r
      BY <1>1, <2>1, <2>3, <3>2
    <3> QED BY <3>1, <3>2
  <2> QED BY <2>3 DEF KnownFrames, Answers
<1>5. AllLined'
  BY <1>1 DEF DeliveryInv, AllLined, OthersKeep
<1>6. Kept'
  <2> SUFFICES ASSUME NEW k \in DOMAIN sends, NEW g, g = goal'[k], g # NoSession, ~Excused(g, k)'
               PROVE  \E h \in HeldBy(g)' : h.n = k
    BY DEF Kept, Excused, HeldBy, Written
  <2>1. CASE k = n
    BY <1>3, <2>1
  <2>2. CASE k # n
    <3>1. g = goal[k] /\ g \in Sessions
      BY <1>3, <2>2, SenderTypes DEF DeliveryInv
    <3>2. ~Excused(g, k)
      BY <3>1, ExcusedStay
    <3>3. PICK h \in HeldBy(g) : h.n = k
      BY <3>1, <3>2 DEF DeliveryInv, Kept
    <3>4. h \in HeldBy(g)'
      BY <1>1, <3>1, <3>3
    <3> QED BY <3>3, <3>4
  <2> QED BY <2>1, <2>2
<1> QED BY <1>4, <1>5, <1>6

\* stream.next() has a frame: it goes to its recipient, comes back as an error, or is garbled.
LEMMA InboundDelivers ==
  ASSUME DeliveryInv, NEW s \in Sessions, Inbound(s)
  PROVE  DeliveryInv'
<1>0. PICK n, o, r : n = Head(up[s]) /\ o = Outcome(s, sends[n]) /\ r = conns[sends[n].to]
  OBVIOUS
<1>1. /\ phase[s] = "loop" /\ up[s] # <<>> /\ up' = [up EXCEPT ![s] = Tail(up[s])]
      /\ goal' = [goal EXCEPT ![n] = CASE o = "queued" -> r [] o = "error" -> s [] OTHER -> goal[n]]
      /\ queue' = IF o = "queued" THEN [queue EXCEPT ![r] = Append(queue[r], Frame("from", n))] ELSE queue
      /\ IF o = "error"
         THEN /\ sending' = [sending EXCEPT ![s] = Frame("error", n)]
              /\ phase' = [phase EXCEPT ![s] = "sending"]
         ELSE UNCHANGED <<sending, phase>>
      /\ UNCHANGED <<play, conns, down, client, outgoing, batch, posted, lost, sends>>
  BY <1>0 DEF Inbound, bridgeVars
<1>2. n \in DOMAIN sends /\ goal[n] = NoSession /\ n \in Nat /\ n # 0 /\ NoSession \notin Sessions
  <2>0. up[s] \in Seq(Nat) /\ up[s] # <<>> /\ n = Head(up[s])
    BY <1>0, <1>1 DEF DeliveryInv, DeliveryTypes
  <2>1. 1 \in DOMAIN up[s] /\ n = up[s][1]
    BY <2>0
  <2>2. Fresh(sends, goal, s, n)
    BY <2>1 DEF DeliveryInv, OnTheWay
  <2>3. n \in DOMAIN sends /\ goal[n] = NoSession
    BY <2>2 DEF Fresh
  <2>4. n \in Nat /\ n # 0
    BY <2>3, SenderTypes DEF DeliveryInv
  <2> QED BY <2>3, <2>4, SessionsAssumption
<1>3. /\ o \in {"queued", "error", "none"} /\ (o = "none" => sends[n].kind = "garbled")
      /\ o = "queued" => r \in Sessions
  <2>1. r \in Sessions \cup {NoSession}
    BY <1>0, <1>2, SenderTypes DEF DeliveryInv, DeliveryTypes
  <2> QED BY <1>0, <2>1 DEF Outcome
<1>4. GoneStay /\ EndedSame
  <2>1. \A t \in Sessions : phase'[t] = phase[t] \/ (t = s /\ phase'[s] = "sending")
    <3>1. CASE o = "error"
      BY <1>1, <3>1 DEF DeliveryInv, DeliveryTypes
    <3>2. CASE o # "error"
      BY <1>1, <3>2
    <3> QED BY <3>1, <3>2
  <2> QED BY <1>1, <2>1 DEF GoneStay, EndedSame
<1>5. GreetedFirst'
  <2>1. \A t \in Sessions : phase'[t] = phase[t] \/ t = s
    BY <1>1 DEF DeliveryInv, DeliveryTypes
  <2> QED BY <1>1, <2>1 DEF DeliveryInv, GreetedFirst, Inserted
<1>6. CASE o = "none"
  <2>1. goal' = [goal EXCEPT ![n] = NoSession] /\ UNCHANGED <<queue, sending, phase>>
    BY <1>1, <1>2, <1>6
  <2>2. OnTheWay' /\ Taken' /\ up' \in [Sessions -> Seq(Nat)]
        /\ goal' \in [1 .. play.sends -> Sessions \cup {NoSession}]
    <3>1. /\ up[s] # <<>> /\ n = Head(up[s]) /\ up' = [up EXCEPT ![s] = Tail(up[s])]
          /\ NoSession \in Sessions \cup {NoSession} /\ goal' = [goal EXCEPT ![n] = NoSession]
          /\ (NoSession = NoSession => sends[n].kind = "garbled")
          /\ UNCHANGED <<play, client, outgoing, sends>> /\ EndedSame
      BY <1>0, <1>1, <1>2, <1>3, <1>4, <1>6, <2>1
    <3> QED BY ONLY <3>1, DeliveryInv, s \in Sessions, ArrivedWay
  <2>3. goal' = goal
    BY <1>2, <2>1 DEF DeliveryInv, DeliveryTypes
  <2>4. DeliveryTypes' /\ Places'
    BY <1>1, <2>1, <2>2 DEF DeliveryInv, DeliveryTypes, Places
  <2> QED BY <1>1, <1>4, <1>5, <2>1, <2>2, <2>3, <2>4, FramesSame DEF DeliveryInv
<1>7. CASE o = "queued"
  <2> DEFINE f == Frame("from", n)
  <2>1. /\ goal' = [goal EXCEPT ![n] = r] /\ UNCHANGED <<sending, phase>>
        /\ queue' = [queue EXCEPT ![r] = Append(queue[r], f)] /\ r \in Sessions /\ r # NoSession
    BY <1>1, <1>2, <1>3, <1>7
  <2>2. /\ OnTheWay' /\ Taken' /\ up' \in [Sessions -> Seq(Nat)]
        /\ goal' \in [1 .. play.sends -> Sessions \cup {NoSession}] /\ Fresh(sends, goal, s, n)
    <3>1. /\ up[s] # <<>> /\ n = Head(up[s]) /\ up' = [up EXCEPT ![s] = Tail(up[s])]
          /\ r \in Sessions \cup {NoSession} /\ goal' = [goal EXCEPT ![n] = r]
          /\ (r = NoSession => sends[n].kind = "garbled")
          /\ UNCHANGED <<play, client, outgoing, sends>> /\ EndedSame
      BY <1>0, <1>1, <1>2, <1>3, <1>4, <1>7, <2>1
    <3> QED BY ONLY <3>1, DeliveryInv, s \in Sessions, ArrivedWay
  <2>3. f \in FrameType /\ f.kind = "from" /\ f.n = n
    BY <1>2 DEF Frame, FrameType
  <2>4. Behind(sends, HeldBy(r), f)
    BY <1>2, <2>1, <2>2, ArrivedBehind
  <2> HIDE DEF f
  <2>5. /\ Lined(sends, posted[r], batch[r], down[r], Written(r), Append(queue[r], f))
        /\ Held(posted[r], batch[r], down[r], Written(r), Append(queue[r], f)) = HeldBy(r) \cup {f}
        /\ Append(queue[r], f) \in Seq(FrameType)
    <3>1. PICK p, b, d, w, q :
            /\ p = posted[r] /\ b = batch[r] /\ d = down[r] /\ w = Written(r) /\ q = queue[r]
            /\ p \in Seq(FrameType) /\ b \in Seq(FrameType) /\ d \in Seq(FrameType)
            /\ w \in Seq(FrameType) /\ q \in Seq(FrameType)
            /\ Lined(sends, p, b, d, w, q) /\ HeldBy(r) = Held(p, b, d, w, q)
      BY <2>1, FrameSequences
    <3>2. Behind(sends, Held(p, b, d, w, q), f)
      BY <2>4, <3>1
    <3>3. Lined(sends, p, b, d, w, Append(q, f)) /\ Held(p, b, d, w, Append(q, f)) = Held(p, b, d, w, q) \cup {f}
      BY <2>3, <3>1, <3>2, AddsLast
    <3> QED BY <2>3, <3>1, <3>3, AppendConcatenates
  <2>6. queue'[r] = Append(queue[r], f) /\ \A t \in Sessions \ {r} : queue'[t] = queue[t]
    BY <2>1 DEF DeliveryInv, DeliveryTypes
  <2>7. DeliveryTypes'
    <3>1. queue' \in [Sessions -> Seq(FrameType)]
      BY <2>1, <2>5 DEF DeliveryInv, DeliveryTypes
    <3> QED BY <1>1, <2>1, <2>2, <3>1 DEF DeliveryInv, DeliveryTypes
  <2>8. Places'
    BY <1>1, <2>1 DEF DeliveryInv, Places
  <2>9. Written(r)' = Written(r)
    BY <2>1 DEF Written
  <2>10. /\ HeldBy(r)' = HeldBy(r) \cup {f}
         /\ Lined(sends, posted'[r], batch'[r], down'[r], Written(r)', queue'[r])
    BY <1>1, <2>5, <2>6, <2>9 DEF HeldBy
  <2>11. KnownFrames' /\ AllLined' /\ Kept'
    <3>1. OthersKeep(r)
      BY <1>1, <2>1, <2>6 DEF OthersKeep
    <3>2. /\ GoneStay /\ Fresh(sends, goal, s, n) /\ n # 0 /\ goal' = [goal EXCEPT ![n] = r]
          /\ f \in FrameType /\ f.kind \in {"from", "error"} /\ f.n = n /\ UNCHANGED sends
      BY <1>1, <1>2, <1>4, <2>1, <2>2, <2>3
    <3> QED BY ONLY <2>10, <3>1, <3>2, DeliveryInv, s \in Sessions, <2>1, ArrivedFrames
  <2> QED BY <1>5, <2>2, <2>7, <2>8, <2>11 DEF DeliveryInv
<1>8. CASE o = "error"
  <2>0. PICK f : f = Frame("error", n)
    OBVIOUS
  <2>1. /\ goal' = [goal EXCEPT ![n] = s] /\ queue' = queue
        /\ sending' = [sending EXCEPT ![s] = f] /\ phase' = [phase EXCEPT ![s] = "sending"] /\ s # NoSession
    BY <1>1, <1>2, <1>8, <2>0
  <2>2. /\ OnTheWay' /\ Taken' /\ up' \in [Sessions -> Seq(Nat)]
        /\ goal' \in [1 .. play.sends -> Sessions \cup {NoSession}] /\ Fresh(sends, goal, s, n)
    <3>1. /\ up[s] # <<>> /\ n = Head(up[s]) /\ up' = [up EXCEPT ![s] = Tail(up[s])]
          /\ s \in Sessions \cup {NoSession} /\ goal' = [goal EXCEPT ![n] = s]
          /\ (s = NoSession => sends[n].kind = "garbled")
          /\ UNCHANGED <<play, client, outgoing, sends>> /\ EndedSame
      BY <1>0, <1>1, <1>2, <1>3, <1>4, <1>8, <2>1
    <3> QED BY ONLY <3>1, DeliveryInv, s \in Sessions, ArrivedWay
  <2>3. f \in FrameType /\ f.kind = "error" /\ f.n = n /\ f # Idle
    BY <1>2, <2>0 DEF Frame, FrameType, Idle
  <2>4. Clear(sends, HeldBy(s), f)
    BY <1>2, <2>0, <2>2, ArrivedBehind
  <2>5. /\ \A t \in Sessions \ {s} : sending'[t] = sending[t] /\ phase'[t] = phase[t]
        /\ sending'[s] = f /\ phase'[s] = "sending" /\ sending[s] = Idle
    BY <1>1, <2>1 DEF DeliveryInv, DeliveryTypes, Places
  <2>6. Written(s) = <<>> /\ Written(s)' = <<f>>
    BY <2>3, <2>5 DEF Written
  <2>7. /\ Lined(sends, posted[s], batch[s], down[s], <<f>>, queue[s])
        /\ Held(posted[s], batch[s], down[s], <<f>>, queue[s]) = HeldBy(s) \cup {f}
    <3>1. PICK p, b, d, w, q, v :
            /\ p = posted[s] /\ b = batch[s] /\ d = down[s] /\ w = Written(s) /\ q = queue[s]
            /\ p \in Seq(FrameType) /\ b \in Seq(FrameType) /\ d \in Seq(FrameType)
            /\ w \in Seq(FrameType) /\ q \in Seq(FrameType) /\ v \in Seq(FrameType) /\ v = <<f>>
            /\ Lined(sends, p, b, d, w, q) /\ HeldBy(s) = Held(p, b, d, w, q)
      <4>1. <<f>> \in Seq(FrameType)
        BY <2>3
      <4> QED BY <4>1, FrameSequences
    <3>2. w = <<>> /\ Clear(sends, Held(p, b, d, w, q), f)
      BY <2>4, <2>6, <3>1
    <3>3. Lined(sends, p, b, d, v, q)
      <4>1. /\ p \in Seq(FrameType) /\ b \in Seq(FrameType) /\ d \in Seq(FrameType) /\ q \in Seq(FrameType)
            /\ f \in FrameType /\ Writes(w, f, v) /\ Lined(sends, p, b, d, w, q)
        BY <2>3, <3>1, <3>2 DEF Writes
      <4> QED BY ONLY <3>2, <4>1, AddsWrite
    <3>4. Held(p, b, d, v, q) = Held(p, b, d, w, q) \cup {f}
      <4>1. Among(w) = {} /\ Among(v) = {f}
        BY <3>1, <3>2, AmongFew
      <4> QED BY <4>1 DEF Held
    <3> QED BY <3>1, <3>3, <3>4
  <2>8. DeliveryTypes'
    <3>1. phase' \in [Sessions -> Phases] /\ sending' \in [Sessions -> FrameType]
      BY <2>1, <2>3 DEF DeliveryInv, DeliveryTypes, Phases, Inserted
    <3> QED BY <1>1, <2>1, <2>2, <3>1 DEF DeliveryInv, DeliveryTypes
  <2>9. Places'
    BY <1>1, <2>3, <2>5 DEF DeliveryInv, Places, Early
  <2>10. /\ HeldBy(s)' = HeldBy(s) \cup {f}
         /\ Lined(sends, posted'[s], batch'[s], down'[s], Written(s)', queue'[s])
    BY <1>1, <2>1, <2>6, <2>7 DEF HeldBy
  <2>11. KnownFrames' /\ AllLined' /\ Kept'
    <3>1. OthersKeep(s)
      BY <1>1, <2>1, <2>5 DEF OthersKeep
    <3>2. /\ GoneStay /\ Fresh(sends, goal, s, n) /\ n # 0 /\ goal' = [goal EXCEPT ![n] = s]
          /\ f \in FrameType /\ f.kind \in {"from", "error"} /\ f.n = n /\ UNCHANGED sends
      BY <1>1, <1>2, <1>4, <2>1, <2>2, <2>3
    <3> QED BY ONLY <2>10, <3>1, <3>2, DeliveryInv, s \in Sessions, ArrivedFrames
  <2> QED BY <1>5, <2>2, <2>8, <2>9, <2>11 DEF DeliveryInv
<1> QED BY <1>3, <1>6, <1>7, <1>8

\* Every step keeps the invariant.
LEMMA DeliveryStep ==
  ASSUME DeliveryInv, [Next]_vars
  PROVE  DeliveryInv'
<1>1. CASE UNCHANGED vars
  BY <1>1, NobodyMoves DEF vars, serverVars, bridgeVars
<1>2. CASE Tick
  BY <1>2, NobodyMoves DEF Tick, serverVars, bridgeVars
<1>3. ASSUME NEW s \in Sessions,
             \/ Auth(s) \/ Insert(s) \/ Greet(s) \/ SinkSends(s) \/ Cleanup(s) \/ Deliver(s)
             \/ RxClosed(s) \/ Hangup(s) \/ Inbound(s)
      PROVE  DeliveryInv'
  BY <1>3, AuthDelivers, SessionMoves, GreetDelivers, SinkDelivers, CleanupDelivers,
     DeliverDelivers, InboundDelivers
<1>4. ASSUME NEW s \in Sessions,
             \/ BridgeGreeted(s) \/ BridgeSends(s) \/ BridgeReceives(s) \/ Flush(s) \/ BridgeStops(s)
             \/ \E to \in Users, k \in {"text", "large", "garbled"} : BridgeTakes(s, to, k)
      PROVE  DeliveryInv'
  BY <1>4, GreetingDelivers, SendDelivers, ReceiveDelivers, FlushDelivers, StopDelivers, TakeDelivers
<1> QED BY <1>1, <1>2, <1>3, <1>4 DEF Next, SessionStep, BridgeStep

\* Frames in line are each about a message of its own, and in order.
LEMMA LinedDelivery ==
  ASSUME DeliveryInv
  PROVE  TakenOrTold /\ InOrder
<1>1. ASSUME NEW r \in Sessions
      PROVE  /\ Frames(r) \in Seq(FrameType) /\ Line(sends, Frames(r)) /\ Among(Frames(r)) = HeldBy(r)
  <2>1. PICK p, b, d, w, q :
          /\ p = posted[r] /\ b = batch[r] /\ d = down[r] /\ w = Written(r) /\ q = queue[r]
          /\ p \in Seq(FrameType) /\ b \in Seq(FrameType) /\ d \in Seq(FrameType)
          /\ w \in Seq(FrameType) /\ q \in Seq(FrameType)
          /\ Lined(sends, p, b, d, w, q) /\ HeldBy(r) = Held(p, b, d, w, q)
    BY FrameSequences
  <2>2. Frames(r) = p \o b \o d \o w \o q
    BY <2>1 DEF Frames, Written
  <2>3. Line(sends, p \o b \o d \o w \o q)
    BY <2>1, LinedFrames
  <2>4. p \o b \in Seq(FrameType) /\ p \o b \o d \in Seq(FrameType) /\ p \o b \o d \o w \in Seq(FrameType)
        /\ p \o b \o d \o w \o q \in Seq(FrameType)
    BY <2>1
  <2>5. /\ Among(p \o b) = Among(p) \cup Among(b)
        /\ Among(p \o b \o d) = Among(p \o b) \cup Among(d)
        /\ Among(p \o b \o d \o w) = Among(p \o b \o d) \cup Among(w)
        /\ Among(p \o b \o d \o w \o q) = Among(p \o b \o d \o w) \cup Among(q)
    BY <2>1, <2>4, AmongConcatenated
  <2>6. Among(p \o b \o d \o w \o q) = Held(p, b, d, w, q)
    BY <2>5 DEF Held
  <2> QED BY <2>1, <2>2, <2>3, <2>4, <2>6
<1>2. InOrder
  <2> SUFFICES ASSUME NEW r \in Sessions, NEW k \in DOMAIN Frames(r), NEW l \in DOMAIN Frames(r), k < l,
                      Frames(r)[k].kind = "from", Frames(r)[l].kind = "from",
                      sends[Frames(r)[k].n].from = sends[Frames(r)[l].n].from
               PROVE  Frames(r)[k].n < Frames(r)[l].n
    BY DEF InOrder
  <2>1. Pair(sends, Frames(r)[k], Frames(r)[l])
    BY <1>1 DEF Line
  <2> QED BY <2>1 DEF Pair
<1>3. ASSUME NEW n \in DOMAIN sends, goal[n] # NoSession, NEW r \in Sessions
      PROVE  Cardinality(About(n, r)) <= IF r = goal[n] THEN 1 ELSE 0
  <2>0. n # 0 /\ n \in Nat /\ DOMAIN Frames(r) \subseteq Int
    <3>1. DOMAIN Frames(r) \subseteq Int
      BY <1>1
    <3> QED BY <3>1, SenderTypes DEF DeliveryInv
  <2>1. ASSUME NEW k \in About(n, r), NEW l \in About(n, r) PROVE k = l
    <3>1. k \in DOMAIN Frames(r) /\ l \in DOMAIN Frames(r) /\ Frames(r)[k].n = n /\ Frames(r)[l].n = n
      BY DEF About
    <3>2. ~(k < l) /\ ~(l < k)
      BY <1>1, <2>0, <3>1 DEF Line, Pair
    <3> QED BY <2>0, <3>1, <3>2
  <2>2. CASE About(n, r) = {}
    BY <2>2, FS_EmptySet
  <2>3. CASE About(n, r) # {}
    <3>1. PICK k : k \in About(n, r)
      BY <2>3
    <3>2. About(n, r) = {k}
      BY <2>1, <3>1
    <3>3. Cardinality(About(n, r)) = 1
      BY <3>2, FS_Singleton
    <3>4. Frames(r)[k] \in HeldBy(r) /\ Frames(r)[k].n = n
      BY <1>1, <3>1 DEF About, Among
    <3>5. goal[n] = r
      BY <2>0, <3>4 DEF DeliveryInv, KnownFrames, Answers, AboutOwn
    <3> QED BY <3>3, <3>5
  <2> QED BY <2>2, <2>3
<1>4. ASSUME NEW n \in DOMAIN sends, goal[n] # NoSession
      PROVE  \/ About(n, goal[n]) # {}
             \/ phase[goal[n]] \in {"leaving", "ended"} \/ client[goal[n]] = "ended" \/ n \in lost
  <2>1. goal[n] \in Sessions
    BY <1>4, SenderTypes DEF DeliveryInv
  <2>2. CASE Excused(goal[n], n)
    BY <2>2 DEF Excused
  <2>3. CASE \E f \in HeldBy(goal[n]) : f.n = n
    BY <1>1, <2>1, <2>3 DEF About, Among
  <2> QED BY <1>4, <2>2, <2>3 DEF DeliveryInv, Kept
<1>5. TakenOrTold
  <2>1. Taken
    BY DEF DeliveryInv
  <2> QED BY <1>3, <1>4, <2>1 DEF TakenOrTold, Taken
<1> QED BY <1>2, <1>5

(***************************************************************************)
(* Whatever the bridges send and however their sessions come, block and    *)
(* go: the greeting is the first frame a bridge sees, every frame the      *)
(* server took and understood is with exactly one session, the recipient's *)
(* or as an error the sender's, until that session, its bridge or the POST *)
(* fails, and what one session sends another arrives in order              *)
(* (chat_session and the bridge's run_async).                              *)
(***************************************************************************)
THEOREM DeliveryKept == Spec => []Delivery
<1>1. Init => DeliveryInv
  <2> SUFFICES ASSUME Init PROVE DeliveryInv
    OBVIOUS
  <2>1. DeliveryTypes
    <3>1. play.sends \in Nat
      BY PlaysAssumption DEF Init
    <3>2. /\ Idle \in FrameType /\ <<>> \in Seq(FrameType) /\ <<>> \in Seq(Nat)
          /\ sends \in Seq(MessageType) /\ Len(sends) = 0
      BY DEF Init, Idle, Frame, FrameType
    <3> QED BY <3>1, <3>2 DEF Init, DeliveryTypes, Phases
  <2>2. Places /\ GreetedFirst
    BY DEF Init, Places, GreetedFirst, Early
  <2>3. /\ DOMAIN sends = {} /\ \A s \in Sessions : up[s] = <<>> /\ DOMAIN up[s] = {} /\ outgoing[s] = 0
        /\ \A n \in 1 .. play.sends : goal[n] = NoSession
    BY DEF Init
  <2>4. OnTheWay /\ Taken /\ Kept
    BY <2>3 DEF OnTheWay, Taken, Kept
  <2>5. ASSUME NEW s \in Sessions
        PROVE  /\ HeldBy(s) = {}
               /\ Lined(sends, posted[s], batch[s], down[s], Written(s), queue[s])
    <3>1. posted[s] = <<>> /\ batch[s] = <<>> /\ down[s] = <<>> /\ Written(s) = <<>> /\ queue[s] = <<>>
      BY DEF Init, Written
    <3> QED BY <3>1, AmongFew, FewFrames DEF HeldBy, Held, Lined
  <2>6. KnownFrames /\ AllLined
    BY <2>5 DEF KnownFrames, AllLined
  <2> QED BY <2>1, <2>2, <2>4, <2>6 DEF DeliveryInv
<1>2. DeliveryInv => Delivery
  BY LinedDelivery DEF Delivery, DeliveryInv
<1> QED BY <1>1, <1>2, DeliveryStep, PTL DEF Spec
=============================================================================
