----------------------------- MODULE ChatServer -----------------------------
(***************************************************************************)
(* Chat between deployments: chat_session of src/src/feedback.rs, one task *)
(* per connection around the shared map chat_connections, and the bridge   *)
(* at the other end of each connection, run_async of                       *)
(* src/src/bridges/agentchat.rs.                                           *)
(*                                                                         *)
(* A user's new session replaces the old one while both tasks run.  The    *)
(* two directions of a WebSocket are external: queues of which each holds  *)
(* Cap frames before its writer blocks; what the code takes for the end of *)
(* a stream comes after the frames before it.  A session stands for its    *)
(* own session id.                                                         *)
(***************************************************************************)
EXTENDS Integers, Sequences, FiniteSets, SequencesExt

CONSTANTS
  Sessions,   \* the connections that may be made
  NoSession,
  UserOf,     \* the user each connection is for
  QueueCap,   \* CHAT_QUEUE_CAP
  RateLimit,  \* CHAT_RATE_PER_MIN
  Window,     \* the time a rate bucket lasts
  Cap,        \* frames on a wire before a writer blocks
  Plays       \* the bounds of the behaviours

Users == {UserOf[s] : s \in Sessions}

ASSUME SessionsAssumption == NoSession \notin Sessions /\ Sessions \subseteq DOMAIN UserOf

(***************************************************************************)
(* Who connects, who of them sends to whom, which frames and how many, how *)
(* far the clock goes, and how many bridges stop or fail to post.          *)
(***************************************************************************)
ASSUME PlaysAssumption ==
  \A p \in Plays :
    /\ p.who \subseteq Sessions /\ p.senders \subseteq p.who /\ p.to \subseteq Users
    /\ p.kinds \subseteq {"text", "large", "garbled"}
    /\ p.sends \in Nat /\ p.now \in Nat /\ p.faults \in Nat
ASSUME LimitsAssumption ==
  /\ QueueCap \in Nat \ {0} /\ RateLimit \in Nat \ {0} /\ Cap \in Nat \ {0}
  /\ Window \in Nat

VARIABLES
  play,     \* the bounds of this behaviour
  \* the server
  accounts, \* the table chat_users
  conns,    \* chat_connections
  phase,    \* where each session's task is
  queue,    \* its bounded channel
  sending,  \* the frame it is writing to its wire
  bucket,   \* rate_bucket
  now,
  \* the wires
  up, down,
  \* the bridges
  client,   \* where each bridge is
  cut,      \* bridges that went without closing the connection
  outgoing, \* the message a bridge is writing to its wire
  batch,    \* batch; flush_at is set when it is not empty
  posted,   \* what a bridge has given to its daemon
  faults,   \* bridges that stopped and batches that could not be posted
  \* history
  sends,    \* the frames bridges have sent
  newest,   \* the session of each user that was registered last
  goal,     \* for each frame sent, the session it or the error about it was given to
  routed,   \* the times at which a session's frames passed the rate limit
  lost      \* frames that were in a batch whose POST failed

serverVars == <<accounts, conns, phase, queue, sending, bucket>>
bridgeVars == <<client, cut, outgoing, batch, posted, faults, lost>>
vars == <<play, serverVars, now, up, down, bridgeVars, sends, newest, goal, routed>>

\* Frames to a bridge: the answer to its credentials, a message, an error.
Frame(k, n) == [kind |-> k, n |-> n]
Idle == Frame("none", 0)

Init ==
  /\ play \in Plays
  /\ accounts = {} /\ conns = [u \in Users |-> NoSession]
  /\ phase = [s \in Sessions |-> "off"] /\ queue = [s \in Sessions |-> <<>>]
  /\ sending = [s \in Sessions |-> Idle] /\ now = 0
  /\ bucket = [s \in Sessions |-> [start |-> 0, count |-> 0]]
  /\ up = [s \in Sessions |-> <<>>] /\ down = [s \in Sessions |-> <<>>]
  /\ client = [s \in Sessions |-> "off"] /\ cut = {}
  /\ outgoing = [s \in Sessions |-> 0] /\ batch = [s \in Sessions |-> <<>>]
  /\ posted = [s \in Sessions |-> <<>>] /\ faults = 0
  /\ sends = <<>> /\ newest = [u \in Users |-> NoSession]
  /\ goal = [n \in 1 .. play.sends |-> NoSession]
  /\ routed = [s \in Sessions |-> <<>>] /\ lost = {}

-----------------------------------------------------------------------------
(* chat_session up to its loop *)

\* A bridge connects.  chat_auth registers a new user and checks the password
\* of a known one; the session is refused after a wrong password or when its
\* first frame is not what it must be.
Auth(s) ==
  /\ phase[s] = "off" /\ s \in play.who
  /\ client' = [client EXCEPT ![s] = "auth"]
  /\ \/ /\ phase' = [phase EXCEPT ![s] = "authed"]
        /\ accounts' = accounts \cup {UserOf[s]} /\ UNCHANGED down
     \/ /\ phase' = [phase EXCEPT ![s] = "ended"]
        /\ down' = [down EXCEPT ![s] = Append(@, Frame("refused", 0))] /\ UNCHANGED accounts
  /\ UNCHANGED <<play, conns, queue, sending, bucket, now, up, cut, outgoing, batch, posted, faults,
                 lost, sends, newest, goal, routed>>

\* conns.insert: the sender of the user's earlier session is dropped.
Insert(s) ==
  /\ phase[s] = "authed"
  /\ phase' = [phase EXCEPT ![s] = "inserted"]
  /\ conns' = [conns EXCEPT ![UserOf[s]] = s]
  /\ newest' = [newest EXCEPT ![UserOf[s]] = s]
  /\ UNCHANGED <<play, accounts, queue, sending, bucket, now, up, down, bridgeVars, sends, goal, routed>>

\* The greeting is sent, with kicked_prior_session, and the loop starts.
Greet(s) ==
  /\ phase[s] = "inserted"
  /\ phase' = [phase EXCEPT ![s] = "loop"]
  /\ down' = [down EXCEPT ![s] = Append(@, Frame("ok", 0))]
  /\ bucket' = [bucket EXCEPT ![s] = [start |-> now, count |-> 0]]
  /\ UNCHANGED <<play, accounts, conns, queue, sending, now, up, bridgeVars, sends, newest, goal, routed>>

-----------------------------------------------------------------------------
(* The loop of chat_session *)

\* What the arms of select! that only end the loop leave alone.
LoopFrame == UNCHANGED <<play, accounts, conns, bucket, now, up, bridgeVars, sends, newest, goal, routed>>

\* rx.recv() has a frame for the client ...
Deliver(s) ==
  /\ phase[s] = "loop" /\ queue[s] # <<>>
  /\ queue' = [queue EXCEPT ![s] = Tail(@)]
  /\ sending' = [sending EXCEPT ![s] = Head(queue[s])]
  /\ phase' = [phase EXCEPT ![s] = "sending"]
  /\ UNCHANGED down /\ LoopFrame

\* Mutant: the closed channel is noticed only when the client has gone.
RxClosedLate(s) ==
  /\ phase[s] = "loop" /\ queue[s] = <<>> /\ conns[UserOf[s]] # s /\ client[s] = "ended"
  /\ phase' = [phase EXCEPT ![s] = "leaving"]
  /\ UNCHANGED <<queue, sending, down>> /\ LoopFrame

\* ... or is closed, because another session has taken the user over.
RxClosed(s) ==
  /\ phase[s] = "loop" /\ queue[s] = <<>> /\ conns[UserOf[s]] # s
  /\ phase' = [phase EXCEPT ![s] = "leaving"]
  /\ UNCHANGED <<queue, sending, down>> /\ LoopFrame

\* sink.send: a full wire blocks.  When the client has gone, the write may fail,
\* which ends the loop for a frame from the channel and not for an error reply.
SinkSends(s) ==
  /\ phase[s] = "sending"
  /\ \/ /\ client[s] = "ended" /\ UNCHANGED down
        /\ \/ phase' = [phase EXCEPT ![s] = "loop"]
           \/ sending[s].kind # "error" /\ phase' = [phase EXCEPT ![s] = "leaving"]
     \/ /\ client[s] # "ended" /\ Len(down[s]) < Cap
        /\ down' = [down EXCEPT ![s] = Append(@, sending[s])]
        /\ phase' = [phase EXCEPT ![s] = "loop"]
  /\ sending' = [sending EXCEPT ![s] = Idle]
  /\ UNCHANGED queue /\ LoopFrame

\* The stream ends with the client's last frame, or a ping finds it dead.
Hangup(s) ==
  /\ phase[s] = "loop" /\ client[s] = "ended"
  /\ s \in cut \/ up[s] = <<>>
  /\ phase' = [phase EXCEPT ![s] = "leaving"]
  /\ UNCHANGED <<queue, sending, down>> /\ LoopFrame

Expired(s) == now - bucket[s].start > Window

\* Mutant: the bucket starts anew when it is full.
RefreshedWhenFull(s) ==
  IF Expired(s) \/ bucket[s].count >= RateLimit THEN [start |-> now, count |-> 0] ELSE bucket[s]

\* The bucket starts anew after a minute.
Refreshed(s) == IF Expired(s) THEN [start |-> now, count |-> 0] ELSE bucket[s]

\* Mutant: an overloaded recipient is not mentioned to the sender.
OutcomeUntold(s, m) ==
  LET r == conns[m.to]
  IN IF m.kind = "large" \/ Refreshed(s).count >= RateLimit \/ r = NoSession THEN "error"
     ELSE IF m.kind = "garbled" \/ Len(queue[r]) = QueueCap THEN "none" ELSE "queued"

\* What an inbound frame comes to: an error for the sender, nothing, or a
\* message for the registered session of the recipient.
Outcome(s, m) ==
  LET r == conns[m.to]
  IN IF m.kind = "large" \/ Refreshed(s).count >= RateLimit THEN "error"
     ELSE IF m.kind = "garbled" THEN "none"
     ELSE IF r = NoSession \/ Len(queue[r]) = QueueCap THEN "error" ELSE "queued"

\* stream.next() has a text frame.
Inbound(s) ==
  /\ phase[s] = "loop" /\ up[s] # <<>>
  /\ up' = [up EXCEPT ![s] = Tail(@)]
  /\ LET n == Head(up[s])
         m == sends[n]
         r == conns[m.to]
         b == Refreshed(s)
         limited == b.count >= RateLimit
         o == Outcome(s, m)
     IN /\ bucket' = [bucket EXCEPT ![s] =
             IF m.kind = "large" THEN @ ELSE IF limited THEN b ELSE [b EXCEPT !.count = @ + 1]]
        /\ routed' = IF m.kind = "large" \/ limited THEN routed
                     ELSE [routed EXCEPT ![s] = Append(@, now)]
        /\ goal' = [goal EXCEPT ![n] = CASE o = "queued" -> r [] o = "error" -> s [] OTHER -> @]
        /\ queue' = IF o = "queued" THEN [queue EXCEPT ![r] = Append(@, Frame("from", n))] ELSE queue
        /\ IF o = "error"
           THEN /\ sending' = [sending EXCEPT ![s] = Frame("error", n)]
                /\ phase' = [phase EXCEPT ![s] = "sending"]
           ELSE UNCHANGED <<sending, phase>>
  /\ UNCHANGED <<play, accounts, conns, now, down, bridgeVars, sends, newest>>

\* Mutant: the entry of the user is removed whosever it is.
CleanupAlways(s) ==
  /\ phase[s] = "leaving"
  /\ phase' = [phase EXCEPT ![s] = "ended"] /\ queue' = [queue EXCEPT ![s] = <<>>]
  /\ conns' = [conns EXCEPT ![UserOf[s]] = NoSession]
  /\ UNCHANGED <<play, accounts, sending, bucket, now, up, down, bridgeVars, sends, newest, goal, routed>>

\* After the loop: only the session's own entry is removed.
Cleanup(s) ==
  /\ phase[s] = "leaving"
  /\ phase' = [phase EXCEPT ![s] = "ended"] /\ queue' = [queue EXCEPT ![s] = <<>>]
  /\ conns' = [conns EXCEPT ![UserOf[s]] = IF @ = s THEN NoSession ELSE @]
  /\ UNCHANGED <<play, accounts, sending, bucket, now, up, down, bridgeVars, sends, newest, goal, routed>>

-----------------------------------------------------------------------------
(* The bridge *)

\* The first frame must be the greeting; anything else ends the bridge.
BridgeGreeted(s) ==
  /\ client[s] = "auth" /\ down[s] # <<>>
  /\ down' = [down EXCEPT ![s] = Tail(@)]
  /\ client' = [client EXCEPT ![s] = IF Head(down[s]).kind = "ok" THEN "loop" ELSE "ended"]
  /\ UNCHANGED <<play, serverVars, now, up, cut, outgoing, batch, posted, faults, lost, sends, newest, goal, routed>>

\* out_rx.recv() has a message of the agent's ...
BridgeTakes(s, to, k) ==
  /\ to \in play.to /\ k \in play.kinds
  /\ client[s] = "loop" /\ s \in play.senders /\ Len(sends) < play.sends
  /\ sends' = Append(sends, [from |-> s, to |-> to, kind |-> k])
  /\ outgoing' = [outgoing EXCEPT ![s] = Len(sends) + 1]
  /\ client' = [client EXCEPT ![s] = "sending"]
  /\ UNCHANGED <<play, serverVars, now, up, down, cut, batch, posted, faults, lost, newest, goal, routed>>

\* ... and writes it to the wire, which may block; a closed wire ends the bridge.
BridgeSends(s) ==
  /\ client[s] = "sending"
  /\ \/ phase[s] = "ended" /\ client' = [client EXCEPT ![s] = "ended"] /\ UNCHANGED up
     \/ /\ phase[s] # "ended" /\ Len(up[s]) < Cap
        /\ up' = [up EXCEPT ![s] = Append(@, outgoing[s])]
        /\ client' = [client EXCEPT ![s] = "loop"]
  /\ outgoing' = [outgoing EXCEPT ![s] = 0]
  /\ UNCHANGED <<play, serverVars, now, down, cut, batch, posted, faults, lost, sends, newest, goal, routed>>

\* stream.next(): messages and errors are collected; the end of the stream ends
\* the bridge, with what it has collected.
BridgeReceives(s) ==
  /\ client[s] = "loop"
  /\ \/ /\ down[s] # <<>> /\ down' = [down EXCEPT ![s] = Tail(@)]
        /\ batch' = [batch EXCEPT ![s] = Append(@, Head(down[s]))] /\ UNCHANGED client
     \/ /\ down[s] = <<>> /\ phase[s] = "ended"
        /\ client' = [client EXCEPT ![s] = "ended"] /\ UNCHANGED <<down, batch>>
  /\ UNCHANGED <<play, serverVars, now, up, cut, outgoing, posted, faults, lost, sends, newest, goal, routed>>

\* The debounce is over: the batch is posted to the daemon; a failure is logged.
Flush(s) ==
  /\ client[s] = "loop" /\ batch[s] # <<>>
  /\ batch' = [batch EXCEPT ![s] = <<>>]
  /\ \/ posted' = [posted EXCEPT ![s] = @ \o batch[s]] /\ UNCHANGED <<faults, lost>>
     \/ /\ faults < play.faults /\ faults' = faults + 1
        /\ lost' = lost \cup {batch[s][k].n : k \in DOMAIN batch[s]} /\ UNCHANGED posted
  /\ UNCHANGED <<play, serverVars, now, up, down, client, cut, outgoing, sends, newest, goal, routed>>

\* The bridge is stopped, or its machine vanishes without closing anything.
BridgeStops(s) ==
  /\ client[s] \in {"auth", "loop", "sending"}
  /\ client' = [client EXCEPT ![s] = "ended"]
  /\ cut' \in {cut, cut \cup {s}}
  /\ faults < play.faults /\ faults' = faults + 1
  /\ outgoing' = [outgoing EXCEPT ![s] = 0]
  /\ UNCHANGED <<play, serverVars, now, up, down, batch, posted, lost, sends, newest, goal, routed>>

Tick ==
  /\ now < play.now /\ now' = now + 1
  /\ UNCHANGED <<play, serverVars, up, down, bridgeVars, sends, newest, goal, routed>>

-----------------------------------------------------------------------------

SessionStep(s) == Insert(s) \/ Greet(s) \/ SinkSends(s) \/ Cleanup(s)
BridgeStep(s) == BridgeGreeted(s) \/ BridgeSends(s)

Next ==
  \/ \E s \in Sessions :
       \/ Auth(s) \/ SessionStep(s) \/ Deliver(s) \/ RxClosed(s) \/ Hangup(s) \/ Inbound(s)
       \/ BridgeStep(s) \/ BridgeReceives(s) \/ Flush(s) \/ BridgeStops(s)
       \/ \E to \in Users, k \in {"text", "large", "garbled"} : BridgeTakes(s, to, k)
  \/ Tick

Spec == Init /\ [][Next]_vars

\* Tasks go on, and select! passes over no arm that stays ready.
Fairness ==
  \A s \in Sessions :
    /\ WF_vars(SessionStep(s)) /\ WF_vars(Deliver(s) \/ RxClosed(s))
    /\ WF_vars(Hangup(s)) /\ WF_vars(Inbound(s))
    /\ WF_vars(BridgeStep(s)) /\ WF_vars(BridgeReceives(s)) /\ WF_vars(Flush(s))
FairSpec == Spec /\ Fairness

-----------------------------------------------------------------------------
(* Properties *)

Inserted == {"inserted", "loop", "sending", "leaving"}

\* Whoever registered last can be reached until it leaves, although sessions it
\* replaced clean up after it has come, and an entry always leads to a session.
NewestHolds ==
  \A u \in Users :
    /\ newest[u] # NoSession /\ phase[newest[u]] \in Inserted => conns[u] = newest[u]
    /\ conns[u] # NoSession => conns[u] = newest[u] /\ phase[conns[u]] \in Inserted

\* A session is in the map before it is greeted: still the greeting is the first
\* frame its bridge sees, which anything else would end.
GreetedFirst ==
  \A s \in Sessions :
    client[s] = "auth" /\ down[s] # <<>> /\ phase[s] \in Inserted => Head(down[s]).kind = "ok"

\* The frames that are on their way to the bridge of s or were posted by it, in
\* order, and those about n among them.
Frames(s) ==
  posted[s] \o batch[s] \o down[s] \o (IF sending[s] = Idle THEN <<>> ELSE <<sending[s]>>) \o queue[s]
About(n, s) == {k \in DOMAIN Frames(s) : Frames(s)[k].n = n}

\* A frame the server took and understood is given to exactly one session, the
\* recipient's or, as an error, the sender's, and is not lost before its bridge
\* posts it unless that session, that bridge or the POST fails.
TakenOrTold ==
  \A n \in DOMAIN sends :
    LET s == sends[n].from
        taken == phase[s] # "ended" /\ client[s] # "ended" /\ outgoing[s] # n /\ ~Contains(up[s], n)
    IN /\ taken /\ sends[n].kind # "garbled" => goal[n] # NoSession
       /\ goal[n] # NoSession =>
            /\ \A r \in Sessions : Cardinality(About(n, r)) <= IF r = goal[n] THEN 1 ELSE 0
            /\ \/ About(n, goal[n]) # {}
               \/ phase[goal[n]] \in {"leaving", "ended"} \/ client[goal[n]] = "ended" \/ n \in lost

\* What one session sends to another arrives in the order it was sent.
InOrder ==
  \A r \in Sessions :
    LET fs == Frames(r)
    IN \A k, l \in DOMAIN fs :
         /\ k < l /\ fs[k].kind = "from" /\ fs[l].kind = "from"
         /\ sends[fs[k].n].from = sends[fs[l].n].from
         => fs[k].n < fs[l].n

\* What a bridge learns from the server: the greeting first, each frame once, in
\* order, or an error about it.
Delivery == GreetedFirst /\ TakenOrTold /\ InOrder

\* The limit per minute is kept up to the edge of two buckets: no stretch as
\* long as a bucket sees more than twice the limit, so a frame and the one that
\* passes twice the limit after it are further apart.
RateBound ==
  \A s \in Sessions : \A k \in DOMAIN routed[s] :
    k + 2 * RateLimit \in DOMAIN routed[s]
      => routed[s][k + 2 * RateLimit] > routed[s][k] + Window

\* Session and bridge block on each other: both wires are full, and each side
\* reads only between its writes.
Jammed(s) ==
  /\ phase[s] = "sending" /\ Len(down[s]) = Cap
  /\ client[s] = "sending" /\ Len(up[s]) = Cap

\* A session that was replaced, and one whose bridge has gone with or without
\* closing, ends, unless the two sides block each other.
SessionsEnd ==
  \A s \in Sessions :
    phase[s] \in Inserted /\ (newest[UserOf[s]] # s \/ client[s] = "ended")
      ~> phase[s] = "ended" \/ Jammed(s)
=============================================================================
