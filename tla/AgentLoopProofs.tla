-------------------------- MODULE AgentLoopProofs --------------------------
(***************************************************************************)
(* Proofs about AgentLoop: type correctness, the turn limit, and where the *)
(* work items and events are: an event is in one place, is answered once   *)
(* in a life of the daemon, and a saved one stays until it is handled.     *)
(* Then the ids, which are unique for an agent whose hooks do not raise,   *)
(* and the timers, whose firings wait for an answer.                       *)
(*                                                                         *)
(* TypeOK is not inductive as it stands: check_and_fire takes as many ids  *)
(* as timers are due, and that this is a number needs the timers to be     *)
(* finitely many, in memory and on disk.                                   *)
(***************************************************************************)
EXTENDS AgentLoop, FiniteSetTheorems, TLAPS

FiniteTimers == IsFiniteSet(st.timers) /\ IsFiniteSet(disk.timers)

TypeInv == TypeOK /\ FiniteTimers

\* A harness state with finitely many timers
Sane(s) == s \in StateType /\ IsFiniteSet(s.timers)

-----------------------------------------------------------------------------
(* The operators of the model return harness states.                       *)

\* id_gen.next
LEMMA NextIdTyped ==
  ASSUME NEW s, Sane(s)
  PROVE  s.idc \in Nat /\ Sane([s EXCEPT !.idc = s.idc + 1])
<1>1. s.idc \in Nat /\ s.idc + 1 \in Nat
  BY DEF Sane, StateType
<1>2. [s EXCEPT !.idc = s.idc + 1].timers = s.timers
  BY DEF Sane, StateType
<1>3. [s EXCEPT !.idc = s.idc + 1] \in StateType
  BY <1>1 DEF Sane, StateType
<1> QED
  BY <1>1, <1>2, <1>3 DEF Sane

LEMMA ItemTyped ==
  ASSUME NEW id \in Nat, NEW of \in Works \cup Nat \cup {None},
         NEW type \in {"event", "timer", "notice", "compaction", "startup",
                       "exception"}
  PROVE  Item(id, type, of) \in ItemType
BY DEF Item, ItemType

LEMMA EntryTyped ==
  ASSUME NEW id \in Nat, NEW type \in {"execution", "summary", "alert"}
  PROVE  Entry(id, type) \in EntryType
BY DEF Entry, EntryType

\* The image of a finite set is finite.
LEMMA FiniteImage ==
  ASSUME NEW S, IsFiniteSet(S), NEW T, NEW f \in [S -> T],
         \A y \in T : \E x \in S : f[x] = y
  PROVE  IsFiniteSet(T)
<1>1. f \in Surjection(S, T)
  BY DEF Surjection
<1> QED
  BY <1>1, FS_Surjection

\* push_item, whatever the hooks do
LEMMA PushItemTyped ==
  ASSUME NEW s, Sane(s), NEW item \in ItemType, NEW h \in HookRunType
  PROVE  Sane(PushItem(s, item, h))
<1> DEFINE exc == Item(s.idc, "exception", item.of)
<1>1. s.idc \in Nat /\ item.of \in Works \cup Nat \cup {None}
  BY DEF Sane, StateType, ItemType
<1>2. exc \in ItemType
  BY <1>1, ItemTyped
<1>3. s.idc + h.ids \in Nat /\ h.out \in {"nomatch", "consumed", "passed", "failed"}
  BY <1>1 DEF HookRunType
<1>4. PushItem(s, item, h).timers = s.timers
  BY DEF PushItem, Sane, StateType
<1> HIDE DEF exc
<1>5. PushItem(s, item, h) \in StateType
  <2>1. CASE ~s.hooked \/ h.out = "nomatch"
    BY <2>1 DEF PushItem, Sane, StateType
  <2>2. CASE s.hooked /\ h.out = "consumed"
    BY <2>2, <1>3 DEF PushItem, Sane, StateType
  <2>3. CASE s.hooked /\ h.out = "passed"
    BY <2>3, <1>3 DEF PushItem, Sane, StateType
  <2>4. CASE s.hooked /\ h.out = "failed"
    BY <2>4, <1>2, <1>3 DEF PushItem, Sane, StateType, exc
  <2> QED
    BY <1>3, <2>1, <2>2, <2>3, <2>4 DEF Sane, StateType
<1> QED
  BY <1>4, <1>5 DEF Sane

\* check_and_fire
LEMMA FiringTyped ==
  ASSUME NEW s, Sane(s)
  PROVE  Sane(AfterFiring(s)) /\ Firings(s) \subseteq ItemType
<1>1. Due(s) \subseteq s.timers /\ s.timers \subseteq TimerType /\ s.idc \in Nat
  BY DEF Due, Sane, StateType
<1>2. IsFiniteSet(Due(s)) /\ Cardinality(Due(s)) \in Nat
  BY <1>1, FS_Subset, FS_CardinalityType DEF Sane
<1>3. ASSUME NEW t \in Due(s)
      PROVE  Item(s.idc + Cardinality({u \in Due(s) : u.id < t.id}), "timer", t.id)
               \in ItemType
  <2>1. Cardinality({u \in Due(s) : u.id < t.id}) \in Nat
    BY <1>2, FS_Subset, FS_CardinalityType
  <2>2. t.id \in Nat
    BY <1>1 DEF TimerType
  <2> QED
    BY <1>1, <2>1, <2>2, ItemTyped
<1> DEFINE recurring == {u \in Due(s) : u.every}
           waiting == {[t EXCEPT !.pending = TRUE] : t \in recurring}
<1>4. waiting \subseteq TimerType
  BY <1>1 DEF TimerType
<1>5. IsFiniteSet(waiting)
  <2>1. IsFiniteSet(recurring)
    BY <1>2, FS_Subset
  <2> DEFINE f == [t \in recurring |-> [t EXCEPT !.pending = TRUE]]
  <2>2. f \in [recurring -> waiting] /\ \A y \in waiting : \E x \in recurring : f[x] = y
    OBVIOUS
  <2> HIDE DEF recurring, waiting, f
  <2> QED
    BY <2>1, <2>2, FiniteImage
<1>6. AfterFiring(s) = [s EXCEPT !.idc = s.idc + Cardinality(Due(s)),
                                 !.timers = (s.timers \ Due(s)) \cup waiting]
  BY DEF AfterFiring
<1> HIDE DEF waiting
<1>8. AfterFiring(s).timers = (s.timers \ Due(s)) \cup waiting
  BY <1>6 DEF Sane, StateType
<1>9. AfterFiring(s) \in StateType
  <2>1. s.idc + Cardinality(Due(s)) \in Nat
    BY <1>1, <1>2
  <2>2. (s.timers \ Due(s)) \cup waiting \subseteq TimerType
    BY <1>1, <1>4
  <2> QED
    BY <1>6, <2>1, <2>2 DEF Sane, StateType
<1>7. IsFiniteSet((s.timers \ Due(s)) \cup waiting)
  BY <1>5, FS_Difference, FS_Union DEF Sane
<1> QED
  BY <1>3, <1>7, <1>8, <1>9 DEF Firings, Sane

\* An entry or an item more, and an id less
LEMMA AddsTyped ==
  ASSUME NEW s, Sane(s)
  PROVE  /\ Sane(TriggerCompaction(s)) /\ Sane(FlushTelemetry(s))
         /\ Sane(CompactFailed(s))
         /\ \A t \in HooksCommand(s) : Sane(t)
<1>1. s.idc \in Nat /\ s.idc + 1 \in Nat
  BY DEF Sane, StateType
<1>2. /\ Item(s.idc, "compaction", None) \in ItemType
      /\ Entry(s.idc, "alert") \in EntryType
      /\ Entry(s.idc, "execution") \in EntryType
  BY <1>1, ItemTyped, EntryTyped
<1>3. Sane(TriggerCompaction(s))
  BY <1>1, <1>2 DEF TriggerCompaction, Sane, StateType
<1>4. Sane(FlushTelemetry(s))
  BY <1>1, <1>2 DEF FlushTelemetry, Sane, StateType
<1>5. Sane(CompactFailed(s))
  BY <1>1, <1>2 DEF CompactFailed, Sane, StateType
<1>6. \A t \in HooksCommand(s) : Sane(t)
  BY <1>1 DEF HooksCommand, Sane, StateType
<1> QED
  BY <1>3, <1>4, <1>5, <1>6

\* The history entry of a turn
LEMMA RecordTyped ==
  ASSUME NEW s, Sane(s)
  PROVE  Sane([s EXCEPT !.hist = s.hist \cup {Entry(s.idc, "execution")},
                        !.idc = s.idc + 1])
BY AddsTyped DEF CompactFailed

\* The state a restarted daemon begins with
LEMMA RestartTyped ==
  ASSUME NEW s, Sane(s)
  PROVE  Sane([s EXCEPT !.queue = s.queue \cup {Item(s.idc, "startup", None)},
                        !.idc = s.idc + 1])
<1>1. s.idc \in Nat /\ s.idc + 1 \in Nat
  BY DEF Sane, StateType
<1>2. Item(s.idc, "startup", None) \in ItemType
  BY <1>1, ItemTyped
<1> QED
  BY <1>1, <1>2 DEF Sane, StateType

\* What a script leaves of the history
LEMMA EditedTyped ==
  ASSUME NEW hist \in SUBSET EntryType, NEW entries \in SUBSET hist
  PROVE  Edited(hist, entries) \subseteq SUBSET EntryType
<1> SUFFICES ASSUME NEW gone \in SUBSET entries, NEW told \in SUBSET (entries \ gone)
             PROVE  (hist \ (gone \cup told)) \cup {Entry(e.id, "summary") : e \in told}
                      \subseteq EntryType
  BY DEF Edited
<1>1. ASSUME NEW e \in told PROVE Entry(e.id, "summary") \in EntryType
  <2>1. e \in EntryType
    OBVIOUS
  <2>2. e.id \in Nat
    BY <2>1 DEF EntryType
  <2> QED
    BY <2>2, EntryTyped
<1> QED
  BY <1>1

LEMMA CompactedTyped ==
  ASSUME NEW s, Sane(s), NEW hist \in SUBSET EntryType
  PROVE  Sane(Compacted(s, hist))
<1>1. s.idc \in Nat /\ Entry(s.idc, "summary") \in EntryType
  BY EntryTyped DEF Sane, StateType
<1> DEFINE queue == s.queue \ Compactions(s.queue)
           new == hist \cup {Entry(s.idc, "summary")}
<1>2. queue \subseteq ItemType /\ new \subseteq EntryType
  BY <1>1 DEF Sane, StateType
<1>3. Compacted(s, hist) = [s EXCEPT !.hist = new, !.idc = s.idc + 1, !.queue = queue]
  BY DEF Compacted
<1>4. s.idc + 1 \in Nat
  BY <1>1
<1> HIDE DEF queue, new
<1>5. Compacted(s, hist).timers = s.timers
  BY <1>3 DEF Sane, StateType
<1>6. Compacted(s, hist) \in StateType
  BY <1>2, <1>3, <1>4 DEF Sane, StateType
<1> QED
  BY <1>5, <1>6 DEF Sane

\* What a script leaves of the timers
LEMMA TimersAfterTyped ==
  ASSUME now \in Nat, NEW s, Sane(s), NEW sc \in ScriptType, NEW popped
  PROVE  /\ TimersAfter(s, sc, popped) \subseteq TimerType
         /\ IsFiniteSet(TimersAfter(s, sc, popped))
<1> DEFINE acked == IF sc.acks THEN {t \in s.timers : t.every /\ t.id \in Sources(popped)}
                    ELSE {}
           rearmed == {Acknowledge(t) : t \in acked}
           kept == (s.timers \ acked) \cup rearmed
           new == [id |-> s.idc, every |-> sc.timer = "every", at |-> now + Period,
                   pending |-> FALSE]
<1>1. s.timers \subseteq TimerType /\ s.idc \in Nat /\ IsFiniteSet(s.timers)
  BY DEF Sane, StateType
<1>2. acked \subseteq s.timers
  OBVIOUS
<1>3. now + Period \in Nat
  BY LimitsAssumption
<1>4. rearmed \subseteq TimerType
  BY <1>1, <1>2, <1>3 DEF Acknowledge, TimerType
<1>5. IsFiniteSet(rearmed)
  <2>1. IsFiniteSet(acked)
    BY <1>1, <1>2, FS_Subset
  <2> DEFINE f == [t \in acked |-> Acknowledge(t)]
  <2> HIDE DEF acked
  <2>2. f \in [acked -> rearmed] /\ \A y \in rearmed : \E x \in acked : f[x] = y
    OBVIOUS
  <2> HIDE DEF rearmed, f
  <2> QED
    BY <2>1, <2>2, FiniteImage
<1>6. kept \subseteq TimerType /\ IsFiniteSet(kept)
  <2> HIDE DEF acked, rearmed
  <2>1. IsFiniteSet(s.timers \ acked)
    BY <1>1, FS_Difference
  <2> QED
    BY <1>1, <1>4, <1>5, <2>1, FS_Union
<1>7. new \in TimerType
  BY <1>1, <1>3 DEF TimerType
<1>8. kept \cup {new} \subseteq TimerType /\ IsFiniteSet(kept \cup {new})
  <2> HIDE DEF kept, new
  <2> QED
    BY <1>6, <1>7, FS_AddElement
<1>9. sc.timer \in {"keep", "once", "every", "cancel"}
  BY DEF ScriptType
<1>10. TimersAfter(s, sc, popped) \in {kept, {}, kept \cup {new}}
  <2>1. CASE sc.timer = "keep"
    BY <2>1 DEF TimersAfter
  <2>2. CASE sc.timer = "cancel"
    BY <2>2 DEF TimersAfter
  <2>3. CASE sc.timer \in {"once", "every"}
    BY <2>3 DEF TimersAfter
  <2> QED
    BY <1>9, <2>1, <2>2, <2>3
<1> HIDE DEF kept, new
<1> QED
  BY <1>6, <1>8, <1>10, FS_EmptySet

\* The ids a script takes: the timer's, then the added entry's, then the processes'
LEMMA IdsTakenTyped ==
  ASSUME NEW sc \in ScriptType
  PROVE  /\ TimerIds(sc) \in Nat /\ IdsTaken(sc) \in Nat /\ TimerIds(sc) <= IdsTaken(sc)
         /\ sc.timer \in {"once", "every"} => TimerIds(sc) = 1
         /\ sc.timer \in {"keep", "cancel"} => TimerIds(sc) = 0
         /\ sc.adds => TimerIds(sc) + 1 <= IdsTaken(sc)
<1>1. TimerIds(sc) \in {0, 1} /\ sc.ids \in Nat
  BY DEF TimerIds, ScriptType
<1>2. IdsTaken(sc) = TimerIds(sc) + (IF sc.adds THEN 1 ELSE 0) + sc.ids
  BY DEF IdsTaken
<1>3. /\ sc.timer \in {"once", "every"} => TimerIds(sc) = 1
      /\ sc.timer \in {"keep", "cancel"} => TimerIds(sc) = 0
  BY DEF TimerIds
<1> QED BY <1>1, <1>2, <1>3

\* The committed clone
LEMMA CommitTyped ==
  ASSUME now \in Nat, NEW s, Sane(s), NEW sc \in ScriptType,
         NEW left \in SUBSET ItemType, NEW hist \in SUBSET EntryType
  PROVE  Sane(Commit(s, sc, left, hist))
<1> DEFINE timers == TimersAfter(s, sc, s.queue \ left)
           idc == s.idc + IdsTaken(sc)
           entries == hist \cup Added(s, sc)
           hooked == CASE sc.hooks = "keep" -> s.hooked
                       [] sc.hooks = "register" -> TRUE
                       [] sc.hooks = "remove" -> FALSE
           stats == s.stats /\ ~(sc.hooks = "remove" /\ s.hooked)
<1>1. timers \subseteq TimerType /\ IsFiniteSet(timers)
  BY TimersAfterTyped
<1>2. idc \in Nat /\ entries \subseteq EntryType
  <2>1. s.idc \in Nat /\ IdsTaken(sc) \in Nat /\ s.idc + TimerIds(sc) \in Nat
    BY IdsTakenTyped DEF Sane, StateType
  <2>2. Added(s, sc) \subseteq EntryType
    BY <2>1, EntryTyped DEF Added
  <2> QED BY <2>1, <2>2
<1>3. hooked \in BOOLEAN
  BY DEF Sane, StateType, ScriptType
<1>4. stats \in BOOLEAN
  OBVIOUS
<1>5. Commit(s, sc, left, hist)
        = [s EXCEPT !.queue = left, !.hist = entries, !.timers = timers, !.idc = idc,
                    !.hooked = hooked, !.stats = stats]
  BY DEF Commit
<1> HIDE DEF timers, idc, entries, hooked, stats
<1>6. Commit(s, sc, left, hist) \in StateType
  BY <1>1, <1>2, <1>3, <1>4, <1>5 DEF Sane, StateType
<1>7. Commit(s, sc, left, hist).timers = timers
  BY <1>5 DEF Sane, StateType
<1> QED
  BY <1>1, <1>6, <1>7 DEF Sane

LEMMA NoticeTyped ==
  ASSUME NEW s, Sane(s), NEW sc, NEW h \in HookRunType
  PROVE  Sane(Notice(s, sc, h))
<1>1. s.idc \in Nat /\ Sane([s EXCEPT !.idc = s.idc + 1])
  BY NextIdTyped
<1>2. Item(s.idc, "notice", None) \in ItemType
  BY <1>1, ItemTyped
<1> QED
  BY <1>1, <1>2, PushItemTyped DEF Notice

-----------------------------------------------------------------------------
(* Every step keeps the types.                                             *)

LEMMA ReceiveTyped ==
  ASSUME TypeInv, Receive
  PROVE  /\ Sane(st') /\ chan' \in Seq(Inputs)
         /\ killed' \in BOOLEAN /\ consumed' \subseteq Works
<1> USE DEF TypeInv, TypeOK
<1>1. chan # <<>> /\ chan' = Tail(chan) /\ chan \in Seq(Inputs)
  BY DEF Receive
<1>2. chan' \in Seq(Inputs) /\ Head(chan) \in Inputs
  BY <1>1
<1>3. PICK h \in HookRuns : ApplyEvent(Head(chan), h)
  BY DEF Receive
<1>4. Sane(st) /\ st.idc \in Nat
  BY DEF FiniteTimers, Sane, StateType
<1>5. CASE Head(chan) = KillSignal
  <2>1. killed' = TRUE /\ st' = st /\ consumed' = consumed
    BY <1>3, <1>5, InputsAssumption DEF ApplyEvent
  <2>2. Sane(st')
    BY <1>4, <2>1, Zenon
  <2> QED
    BY <1>2, <2>1, <2>2
<1>6. CASE Head(chan) = HooksMessage
  <2>1. st' \in HooksCommand(st) /\ UNCHANGED <<killed, consumed>>
    BY <1>3, <1>6, InputsAssumption DEF ApplyEvent
  <2> QED
    BY <1>2, <1>4, <2>1, AddsTyped
<1>7. CASE Head(chan) \notin {KillSignal, HooksMessage}
  <2> DEFINE ev == Head(chan)
             item == Item(st.idc, "event", ev)
             s == [st EXCEPT !.idc = st.idc + 1]
  <2>1. ev \in Works
    BY <1>2, <1>7, InputsAssumption
  <2>2. /\ st' = PushItem(s, item, h)
        /\ consumed' = IF st.hooked /\ h.out = "consumed"
                       THEN consumed \cup {ev} ELSE consumed
        /\ UNCHANGED killed
    BY <1>3, <1>7 DEF ApplyEvent
  <2>3. item \in ItemType
    BY <1>4, <2>1, ItemTyped
  <2>4. Sane(s)
    BY <1>4, NextIdTyped
  <2>5. Sane(st')
    <3> HIDE DEF item, s
    <3> QED
      BY <2>2, <2>3, <2>4, PushItemTyped, HookRunsAssumption
  <2> QED
    BY <1>2, <2>1, <2>2, <2>5
<1> QED
  BY <1>5, <1>6, <1>7

\* apply_side_effects as a whole
LEMMA CommitTurnTyped ==
  ASSUME TypeInv, NEW sc \in Scripts, NEW over \in BOOLEAN, NEW h \in HookRuns,
         NEW left \in Leaves(sc), NEW hist \in Histories(sc),
         CommitTurn(sc, left, hist, over, h)
  PROVE  /\ Sane(st') /\ active' \in BOOLEAN
         /\ handled' \subseteq Works /\ replies' \in [Works -> Nat]
         /\ ending' \in BOOLEAN /\ pc' \in PC
<1> USE DEF TypeInv, TypeOK
<1>1. sc \in ScriptType /\ h \in HookRunType
  BY ScriptsAssumption, HookRunsAssumption
<1>2. Sane(st) /\ st.queue \subseteq ItemType /\ st.hist \subseteq EntryType
  BY DEF FiniteTimers, Sane, StateType
<1>3. left \in SUBSET ItemType
  <2>1. sc.pops \in {"none", "all", "any"}
    BY <1>1 DEF ScriptType
  <2>2. CASE sc.pops = "none"
    BY <1>2, <2>2 DEF Leaves
  <2>3. CASE sc.pops = "all"
    BY <2>3 DEF Leaves
  <2>4. CASE sc.pops = "any"
    BY <1>2, <2>4 DEF Leaves
  <2> QED
    BY <2>1, <2>2, <2>3, <2>4
<1>4. hist \in SUBSET EntryType
  <2>1. Modifiable \in SUBSET st.hist
    BY DEF Modifiable
  <2>2. Edited(st.hist, Modifiable) \subseteq SUBSET EntryType
    BY <1>2, <2>1, EditedTyped
  <2> QED
    BY <1>2, <2>2 DEF Histories
<1> DEFINE s0 == [st EXCEPT !.over = over]
           s1 == Commit(s0, sc, left, hist)
           s2 == Notice(s1, sc, h)
           s3 == IF Requested(sc) THEN TriggerCompaction(s2) ELSE s2
<1>5. Sane(s0)
  BY <1>2 DEF Sane, StateType
<1>6. Sane(s1)
  <2> HIDE DEF s0
  <2> QED
    BY <1>1, <1>3, <1>4, <1>5, CommitTyped
<1>7. Sane(s2)
  <2> HIDE DEF s1
  <2> QED
    BY <1>1, <1>6, NoticeTyped
<1>8. Sane(s3)
  <2> HIDE DEF s2
  <2>1. Sane(TriggerCompaction(s2))
    BY <1>7, AddsTyped
  <2> QED
    BY <1>7, <2>1
<1>9. FinishEffects(s2, sc)
  BY DEF CommitTurn
<1>10. /\ \/ st' = CompactFailed(s3)
          \/ \E kept \in Edited(s3.hist, s3.hist) : st' = Compacted(s3, kept)
          \/ st' = s3
       /\ active' \in {active, FALSE, active \/ Requested(sc)}
      
  <2> HIDE DEF s2
  <2> QED
    BY <1>9 DEF FinishEffects
<1> HIDE DEF s3
<1>11. Edited(s3.hist, s3.hist) \subseteq SUBSET EntryType
  BY <1>8, EditedTyped DEF Sane, StateType
<1>12. Sane(st')
  BY <1>8, <1>10, <1>11, AddsTyped, CompactedTyped
<1>13. active' \in BOOLEAN
  BY <1>10
<1>14. handled' \subseteq Works
  BY DEF CommitTurn
<1>15. replies' \in [Works -> Nat]
  BY DEF CommitTurn, ReplyTo
<1>16. ending' \in BOOLEAN /\ pc' \in PC
  BY <1>1 DEF CommitTurn, ScriptType, PC
<1> QED
  BY <1>10, <1>12, <1>13, <1>14, <1>15, <1>16

\* One step per action.
LEMMA StepTyped ==
  ASSUME TypeInv, [Next]_vars
  PROVE  TypeInv'
<1>1. Sane(st) /\ Sane(disk)
  BY DEF TypeInv, TypeOK, FiniteTimers, Sane
<1>2. HookRuns \subseteq HookRunType
  BY HookRunsAssumption
<1> SUFFICES /\ Sane(st') /\ Sane(disk') /\ chan' \in Seq(Inputs)
               /\ pc' \in PC /\ fired' \in SUBSET ItemType
               /\ active' \in BOOLEAN /\ idle' \in BOOLEAN /\ killed' \in BOOLEAN
               /\ turns' \in Nat /\ ending' \in BOOLEAN /\ shutdown' \in BOOLEAN
               /\ now' \in Nat /\ unsent' \subseteq Inputs /\ restarts' \in Nat
               /\ handled' \subseteq Works /\ consumed' \subseteq Works
               /\ lost' \subseteq Works /\ replies' \in [Works -> Nat]
               /\ unrecorded' \in BOOLEAN
  BY DEF TypeInv, TypeOK, FiniteTimers, Sane
<1> USE DEF TypeInv, TypeOK, PC, Goto, vars, loopVars, envVars, ghostVars
<1>3. CASE Drain
  <2>1. /\ Sane(st') /\ chan' \in Seq(Inputs)
        /\ killed' \in BOOLEAN /\ consumed' \subseteq Works
    BY <1>3, ReceiveTyped DEF Drain
  <2> QED
    BY <1>1, <1>3, <2>1 DEF Drain, Receive
<1>4. CASE CheckTimers
  <2>1. Sane(st') /\ fired' \subseteq ItemType
    BY <1>1, <1>4, FiringTyped DEF CheckTimers
  <2> QED
    BY <1>1, <1>4, <2>1 DEF CheckTimers
<1>5. CASE PushFired
  <2>1. PICK item \in fired, h \in HookRuns :
          st' = PushItem(st, item, h) /\ fired' = fired \ {item}
    BY <1>5 DEF PushFired
  <2>2. Sane(st')
    BY <1>1, <1>2, <2>1, PushItemTyped
  <2> QED
    BY <1>1, <1>5, <2>1, <2>2 DEF PushFired
<1>6. CASE Gate
  <2> DEFINE s1 == IF Triggers THEN TriggerCompaction(st) ELSE st
  <2>1. Sane(s1)
    <3>1. Sane(TriggerCompaction(st))
      BY <1>1, AddsTyped
    <3> QED
      BY <1>1, <3>1
  <2>2. /\ st' \in {FlushTelemetry(s1), s1}
        /\ idle' \in {idle, s1.queue = {}}
        /\ pc' \in {"finished", "idle", "turn"}
        /\ active' = (active \/ Triggers)
        /\ UNCHANGED <<disk, chan, fired, killed, turns, ending, envVars, ghostVars>>
    BY <1>6 DEF Gate
  <2> HIDE DEF s1
  <2>3. Sane(FlushTelemetry(s1))
    BY <2>1, AddsTyped
  <2>4. Sane(st')
    BY <2>1, <2>2, <2>3
  <2> QED
    BY <1>1, <2>2, <2>4
<1>7. CASE IdleReceive
  <2>1. /\ Sane(st') /\ chan' \in Seq(Inputs)
        /\ killed' \in BOOLEAN /\ consumed' \subseteq Works
    BY <1>7, ReceiveTyped DEF IdleReceive
  <2> QED
    BY <1>1, <1>7, <2>1 DEF IdleReceive, Receive
<1>8. CASE IdleTimer
  <2>1. Sane(st') /\ fired' \subseteq ItemType
    BY <1>1, <1>8, FiringTyped DEF IdleTimer
  <2> QED
    BY <1>1, <1>8, <2>1 DEF IdleTimer
<1>9. CASE FailedScript
  <2>1. PICK over \in BOOLEAN : st' = [st EXCEPT !.over = over]
    BY <1>9 DEF FailedScript
  <2>2. Sane(st')
    BY <1>1, <2>1 DEF Sane, StateType
  <2>3. /\ pc' = "record" /\ turns' = turns + 1 /\ ~ending'
        /\ UNCHANGED <<disk, chan, fired, active, idle, killed, envVars, handled,
                       consumed, lost, replies, unrecorded>>
        /\ ending' \in BOOLEAN
    BY <1>9 DEF FailedScript
  <2>4. Sane(disk')
    BY <1>1, <2>3, Zenon
  <2> QED
    BY <2>2, <2>3, <2>4
<1>10. CASE AppliedScript
  <2>1. /\ Sane(st') /\ active' \in BOOLEAN
        /\ handled' \subseteq Works /\ replies' \in [Works -> Nat]
        /\ ending' \in BOOLEAN /\ pc' \in PC
    <3>1. PICK sc \in Scripts, over \in BOOLEAN, h \in HookRuns :
            \E left \in Leaves(sc), hist \in Histories(sc) :
              CommitTurn(sc, left, hist, over, h)
      BY <1>10 DEF AppliedScript
    <3>2. PICK left \in Leaves(sc), hist \in Histories(sc) :
            CommitTurn(sc, left, hist, over, h)
      BY <3>1
    <3> QED
      BY <3>2, CommitTurnTyped
  <2> QED
    BY <1>1, <1>10, <2>1 DEF AppliedScript
<1>11. CASE DeferredDrain
  <2>1. /\ Sane(st') /\ chan' \in Seq(Inputs)
        /\ killed' \in BOOLEAN /\ consumed' \subseteq Works
    BY <1>11, ReceiveTyped DEF DeferredDrain
  <2> QED
    BY <1>1, <1>11, <2>1 DEF DeferredDrain, Receive
<1>12. CASE Record
  <2>1. Sane(st')
    BY <1>1, <1>12, RecordTyped DEF Record
  <2> QED
    BY <1>1, <1>12, <2>1 DEF Record
<1>13. CASE Save \/ Exit
  BY <1>1, <1>13 DEF Save, Exit
<1>14. CASE \/ IdleShutdown \/ Continue \/ ApiError \/ WaitOver \/ Drained
            \/ Settled \/ BackoffOver \/ ShutdownMidTurn \/ Crash
  BY <1>1, <1>14 DEF IdleShutdown, Continue, ApiError, WaitOver, Drained, Settled,
                     BackoffOver, ShutdownMidTurn, Crash
<1>15. CASE \E ev \in Inputs : Send(ev)
  BY <1>1, <1>15 DEF Send
<1>16. CASE Tick \/ RequestShutdown
  <2>1. Sane(st') /\ Sane(disk')
    BY <1>1, <1>16, Zenon DEF Tick, RequestShutdown
  <2>2. CASE Tick
    BY <2>1, <2>2 DEF Tick
  <2>3. CASE RequestShutdown
    BY <2>1, <2>3 DEF RequestShutdown
  <2> QED
    BY <1>16, <2>2, <2>3
<1>17. CASE Restart
  <2>1. Sane(st')
    BY <1>1, <1>17, RestartTyped DEF Restart
  <2>2. Sane(disk')
    BY <1>1, <1>17, Zenon DEF Restart
  <2>3. restarts' \in Nat /\ now' \in Nat /\ turns' \in Nat
    BY <1>17 DEF Restart
  <2>4. lost' \subseteq Works /\ handled' \subseteq Works /\ consumed' \subseteq Works
    BY <1>17 DEF Restart
  <2>5. pc' \in PC /\ chan' \in Seq(Inputs) /\ fired' \in SUBSET ItemType
    BY <1>17 DEF Restart
  <2> QED
    BY <1>17, <2>1, <2>2, <2>3, <2>4, <2>5 DEF Restart
<1>18. CASE UNCHANGED vars
  BY <1>1, <1>18
<1> HIDE DEF TypeInv, TypeOK, PC, Goto, vars, loopVars, envVars, ghostVars
<1> QED
  BY <1>3, <1>4, <1>5, <1>6, <1>7, <1>8, <1>9, <1>10, <1>11, <1>12, <1>13, <1>14,
     <1>15, <1>16, <1>17, <1>18 DEF Next, Loop

\* A child starts with its task and what was attached, one entry and no timers.
LEMMA ForkStarts ==
  ASSUME NEW f \in Forks
  PROVE  /\ \/ ChildState(f).queue = {Item(1, "event", None)} /\ ChildState(f).idc = 2
            \/ /\ ChildState(f).queue = {Item(1, "event", None), Item(2, "notice", None)}
               /\ ChildState(f).idc = 3
         /\ ChildState(f).timers = {}
         /\ \E type \in {"execution", "alert"} : ChildState(f).hist = {Entry(0, type)}
         /\ ChildState(f).over = FALSE /\ ChildState(f).hooked \in BOOLEAN
         /\ ChildState(f).stats = FALSE
         /\ ChildState(f) \in StateType
<1>1. f.hooked \in BOOLEAN /\ f.inherits \in BOOLEAN /\ f.attach \in BOOLEAN
  BY ForksAssumption DEF ForkType
<1> DEFINE queue == {Item(1, "event", None)}
                      \cup (IF f.attach THEN {Item(2, "notice", None)} ELSE {})
           type == IF f.inherits THEN "execution" ELSE "alert"
           hist == {Entry(0, type)}
           idc == IF f.attach THEN 3 ELSE 2
<1>0. ChildState(f) = [FreshState EXCEPT !.queue = queue, !.hist = hist, !.idc = idc,
                                         !.hooked = f.hooked]
  BY DEF ChildState
<1>2. ChildState(f) = [queue |-> queue, hist |-> hist, timers |-> {}, idc |-> idc,
                       over |-> FALSE, hooked |-> f.hooked, stats |-> FALSE]
  <2> HIDE DEF queue, hist, idc
  <2> QED BY <1>0 DEF FreshState
<1>3. \/ queue = {Item(1, "event", None)} /\ idc = 2
      \/ queue = {Item(1, "event", None), Item(2, "notice", None)} /\ idc = 3
  BY <1>1
<1>4. type \in {"execution", "alert"}
  BY <1>1
<1>5. hist \subseteq EntryType
  BY <1>4, EntryTyped
<1>6. Item(1, "event", None) \in ItemType /\ Item(2, "notice", None) \in ItemType
  BY ItemTyped
<1> HIDE DEF queue, idc, type
<1>7. queue \subseteq ItemType /\ idc \in Nat
  BY <1>3, <1>6
<1>8. \E x \in {"execution", "alert"} : hist = {Entry(0, x)}
  BY <1>4
<1> HIDE DEF hist
<1>9. ChildState(f) \in StateType
  BY <1>1, <1>2, <1>5, <1>7 DEF StateType
<1> QED BY <1>1, <1>2, <1>3, <1>8, <1>9

\* The items of a child's first queue
LEMMA FirstItems ==
  ASSUME Init
  PROVE  st.queue \subseteq {Item(1, "event", None), Item(2, "notice", None)}
<1>1. FreshState.queue = {}
  BY DEF FreshState
<1>2. CASE st = FreshState
  BY <1>1, <1>2
<1>3. CASE \E f \in Forks : st = ChildState(f)
  BY <1>3, ForkStarts
<1> QED BY <1>2, <1>3 DEF Init

LEMMA InitTyped ==
  ASSUME Init
  PROVE  TypeInv
<1>1. FreshState \in StateType /\ FreshState.timers = {}
  BY DEF FreshState, StateType
<1>2. \A f \in Forks : ChildState(f) \in StateType /\ ChildState(f).timers = {}
  BY ForkStarts
<1>3. st \in StateType /\ st.timers = {} /\ disk \in StateType /\ disk.timers = {}
  BY <1>1, <1>2 DEF Init
<1>4. FiniteTimers
  BY <1>3, FS_EmptySet DEF FiniteTimers
<1> QED
  <2>1. chan \in Seq(Inputs) /\ replies \in [Works -> Nat]
    BY DEF Init
  <2>2. pc \in PC
    BY DEF Init, PC
  <2>3. fired \in SUBSET ItemType /\ turns \in Nat /\ now \in Nat /\ restarts \in Nat
    BY DEF Init
  <2> QED
    BY <1>3, <1>4, <2>1, <2>2, <2>3 DEF Init, TypeInv, TypeOK

(***************************************************************************)
(* Type correctness of the agent loop for any scripts, hooks, events and   *)
(* bounds: no sequence of turns, firings, commits, crashes and restarts    *)
(* leaves a queue, history, timer list or id counter malformed, in memory  *)
(* or in the saved row.                                                    *)
(***************************************************************************)
THEOREM TypeCorrect == Spec => []TypeOK
<1>1. Init => TypeInv
  BY InitTyped
<1>2. TypeInv /\ [Next]_vars => TypeInv'
  BY StepTyped
<1>3. TypeInv => TypeOK
  BY DEF TypeInv
<1> QED
  BY <1>1, <1>2, <1>3, PTL DEF Spec

-----------------------------------------------------------------------------
(***************************************************************************)
(* TurnsWithinLimit says nothing about when a turn may start; inductive is *)
(* that an agent in a turn has not used up its turns.                      *)
(***************************************************************************)
TurnsInv == TurnsWithinLimit /\ (pc = "turn" => ~TurnLimit)

\* max_turns is a number of turns, or absent.
LEMMA MaxTurnsTyped == MaxTurns \in Nat \cup {NoLimit} /\ NoLimit \notin Nat
BY LimitsAssumption

(***************************************************************************)
(* No child takes more turns than permissions.max_turns allows, whatever   *)
(* its scripts do and whichever turns fail: run checks the counter before  *)
(* each turn, and only a turn counts.                                      *)
(***************************************************************************)
THEOREM TurnsBounded == Spec => []TurnsWithinLimit
<1>1. Init => TurnsInv
  <2>1. ASSUME Init PROVE turns = 0 /\ pc # "turn"
    BY <2>1 DEF Init
  <2>2. MaxTurns # NoLimit => 0 <= MaxTurns
    BY MaxTurnsTyped
  <2> QED BY <2>1, <2>2 DEF TurnsInv, TurnsWithinLimit
<1>2. TypeOK /\ TurnsInv /\ [Next]_vars => TurnsInv'
  <2> SUFFICES ASSUME TypeOK, TurnsInv, [Next]_vars
               PROVE  TurnsInv'
    OBVIOUS
  <2>1. turns \in Nat /\ MaxTurns \in Nat \cup {NoLimit}
    <3>1. turns \in Nat
      BY Zenon DEF TypeOK
    <3> QED BY <3>1, MaxTurnsTyped, Zenon
  <2> USE <2>1 DEF TurnsInv, TurnsWithinLimit, TurnLimit
  <2>2. CASE Gate
    <3>1. turns' = turns
      BY <2>2 DEF Gate
    <3>2. pc' = "turn" => ~TurnLimit
      BY <2>2 DEF Gate
    <3> QED
      BY <3>1, <3>2
  <2>3. CASE FailedScript \/ AppliedScript
    <3>1. pc = "turn" /\ turns' = turns + 1 /\ pc' # "turn"
      <4>1. CASE FailedScript
        BY <4>1 DEF FailedScript, Goto
      <4>2. CASE AppliedScript
        BY <4>2, ScriptsAssumption DEF AppliedScript, CommitTurn, ScriptType
      <4> QED
        BY <2>3, <4>1, <4>2
    <3>2. MaxTurns # NoLimit => MaxTurns \in Nat /\ turns < MaxTurns
      BY <3>1
    <3> QED
      BY <3>1, <3>2
  <2>4. CASE Restart
    <3>1. turns' = 0 /\ pc' = "top"
      BY <2>4, Zenon DEF Restart
    <3>2. TurnsWithinLimit'
      BY <3>1
    <3> QED
      BY <3>1, <3>2
  <2>5. CASE \/ Drain \/ CheckTimers \/ PushFired \/ IdleReceive \/ IdleTimer
             \/ IdleShutdown \/ Continue \/ ApiError \/ WaitOver \/ DeferredDrain
             \/ Drained \/ Settled \/ Record \/ BackoffOver \/ Save
             \/ ShutdownMidTurn \/ Exit \/ Crash
    <3>1. turns' = turns /\ pc' # "turn"
      BY <2>5 DEF Drain, CheckTimers, PushFired, IdleReceive, IdleTimer,
                  IdleShutdown, Continue, ApiError, WaitOver, DeferredDrain, Drained,
                  Settled, Record, BackoffOver, Save, ShutdownMidTurn, Exit, Crash,
                  Receive, Goto
    <3> QED
      BY <3>1
  <2>6. CASE (\E ev \in Inputs : Send(ev)) \/ Tick \/ RequestShutdown \/ UNCHANGED vars
    <3>1. turns' = turns /\ pc' = pc
      BY <2>6 DEF Send, Tick, RequestShutdown, vars, loopVars
    <3> QED
      BY <3>1
  <2> HIDE DEF TurnsInv
  <2> QED
    BY <2>2, <2>3, <2>4, <2>5, <2>6 DEF Next, Loop
<1>3. TurnsInv => TurnsWithinLimit
  BY DEF TurnsInv
<1> QED
  BY <1>1, <1>2, <1>3, TypeCorrect, PTL DEF Spec

-----------------------------------------------------------------------------
(***************************************************************************)
(* A committed turn without its history entry is still on its way to       *)
(* Record, or was cut off by a crash, or by a shutdown that has been       *)
(* requested: no other path leads out of the loop in between.              *)
(***************************************************************************)
UnrecordedInv ==
  unrecorded => \/ pc \in {"blocked", "draining", "settling", "record", "crashed"}
                \/ pc \in {"finished", "exited"} /\ shutdown

(***************************************************************************)
(* run_turn records every turn whose effects it applied before the agent   *)
(* exits, by done(), a turn limit, a kill or an idle shutdown; only a      *)
(* shutdown in the middle of the turn prevents it.                         *)
(***************************************************************************)
THEOREM TurnsRecorded == Spec => []UnrecordedOnlyByShutdown
<1>1. Init => UnrecordedInv
  BY DEF Init, UnrecordedInv
<1>2. TypeOK /\ UnrecordedInv /\ [Next]_vars => UnrecordedInv'
  <2> SUFFICES ASSUME TypeOK, UnrecordedInv, [Next]_vars
               PROVE  UnrecordedInv'
    OBVIOUS
  <2> USE DEF UnrecordedInv
  <2>1. CASE AppliedScript
    <3>1. pc' \in {"record", "blocked", "settling"}
      BY <2>1, ScriptsAssumption DEF AppliedScript, CommitTurn, ScriptType
    <3> QED
      BY <3>1
  <2>2. CASE Record
    BY <2>2 DEF Record
  <2>3. CASE Restart
    <3>1. unrecorded' = FALSE
      BY <2>3, Zenon DEF Restart
    <3> QED
      BY <3>1
  <2>4. CASE Exit
    BY <2>4 DEF Exit, Goto, envVars, ghostVars
  <2>5. CASE Crash
    BY <2>5 DEF Crash
  <2>6. CASE ShutdownMidTurn
    BY <2>6 DEF ShutdownMidTurn, envVars, ghostVars
  <2>7. CASE DeferredDrain \/ WaitOver \/ Drained \/ Settled
    <3>1. pc' \in {"draining", "settling", "record"}
      BY <2>7 DEF DeferredDrain, WaitOver, Drained, Settled, Goto
    <3> QED
      BY <3>1
  <2>8. CASE \/ Drain \/ CheckTimers \/ PushFired \/ Gate \/ IdleReceive \/ IdleTimer
             \/ IdleShutdown \/ Continue \/ ApiError \/ FailedScript
             \/ BackoffOver \/ Save
    <3>1. /\ pc \notin {"blocked", "draining", "settling", "record", "crashed"}
          /\ pc \notin {"finished", "exited"}
      BY <2>8 DEF Drain, CheckTimers, PushFired, Gate, IdleReceive, IdleTimer,
                  IdleShutdown, Continue, ApiError, FailedScript, BackoffOver,
                  Save, Goto
    <3>2. ~unrecorded
      BY <3>1
    <3>3. unrecorded' = unrecorded
      BY <2>8 DEF Drain, CheckTimers, PushFired, Gate, IdleReceive, IdleTimer,
                  IdleShutdown, Continue, ApiError, FailedScript, BackoffOver,
                  Save, Receive, ghostVars
    <3> QED
      BY <3>2, <3>3
  <2>9. CASE (\E ev \in Inputs : Send(ev)) \/ Tick \/ RequestShutdown \/ UNCHANGED vars
    <3>1. unrecorded' = unrecorded /\ pc' = pc /\ (shutdown => shutdown')
      BY <2>9 DEF Send, Tick, RequestShutdown, vars, loopVars, envVars, ghostVars
    <3> QED
      BY <3>1
  <2> HIDE DEF UnrecordedInv
  <2> QED
    BY <2>1, <2>2, <2>3, <2>4, <2>5, <2>6, <2>7, <2>8, <2>9 DEF Next, Loop
<1>3. UnrecordedInv => UnrecordedOnlyByShutdown
  BY DEF UnrecordedInv, UnrecordedOnlyByShutdown
<1> QED
  BY <1>1, <1>2, <1>3, TypeCorrect, PTL DEF Spec

-----------------------------------------------------------------------------
(* What each operation does to the queue.                                  *)

\* push_item queues the item, an exception about it, or, when a hook consumes
\* it, nothing.
LEMMA PushItemQueue ==
  ASSUME NEW s, Sane(s), NEW item \in ItemType, NEW h \in HookRunType
  PROVE  \/ PushItem(s, item, h).queue = s.queue \cup {item}
            /\ ~(s.hooked /\ h.out = "consumed")
         \/ PushItem(s, item, h).queue = s.queue \cup {Item(s.idc, "exception", item.of)}
            /\ ~(s.hooked /\ h.out = "consumed")
         \/ PushItem(s, item, h).queue = s.queue /\ s.hooked /\ h.out = "consumed"
<1>1. h.out \in {"nomatch", "consumed", "passed", "failed"}
  BY DEF HookRunType
<1>2. CASE ~s.hooked \/ h.out = "nomatch"
  BY <1>2 DEF PushItem, Sane, StateType
<1>3. CASE s.hooked /\ h.out = "consumed"
  BY <1>3 DEF PushItem, Sane, StateType
<1>4. CASE s.hooked /\ h.out = "passed"
  BY <1>4 DEF PushItem, Sane, StateType
<1>5. CASE s.hooked /\ h.out = "failed"
  BY <1>5 DEF PushItem, Sane, StateType
<1> QED BY <1>1, <1>2, <1>3, <1>4, <1>5 DEF Sane, StateType

\* The operations that leave the queue alone, and those that add to it.
LEMMA OtherQueues ==
  ASSUME NEW s, Sane(s)
  PROVE  /\ AfterFiring(s).queue = s.queue
         /\ TriggerCompaction(s).queue = s.queue \cup {Item(s.idc, "compaction", None)}
         /\ FlushTelemetry(s).queue = s.queue
         /\ CompactFailed(s).queue = s.queue
         /\ \A hist : Compacted(s, hist).queue = s.queue \ Compactions(s.queue)
         /\ \A t \in HooksCommand(s) : t.queue = s.queue
         /\ \A n : [s EXCEPT !.idc = n].queue = s.queue
         /\ \A b : [s EXCEPT !.over = b].queue = s.queue
         /\ \A sc, left, hist : Commit(s, sc, left, hist).queue = left
<1>1. AfterFiring(s).queue = s.queue
  BY DEF AfterFiring, Sane, StateType
<1>2. TriggerCompaction(s).queue = s.queue \cup {Item(s.idc, "compaction", None)}
  BY DEF TriggerCompaction, Sane, StateType
<1>3. FlushTelemetry(s).queue = s.queue
  BY DEF FlushTelemetry, Sane, StateType
<1>4. CompactFailed(s).queue = s.queue
  BY DEF CompactFailed, Sane, StateType
<1>5. \A hist : Compacted(s, hist).queue = s.queue \ Compactions(s.queue)
  BY DEF Compacted, Sane, StateType
<1>6. \A t \in HooksCommand(s) : t.queue = s.queue
  BY DEF HooksCommand, Sane, StateType
<1>7. \A n : [s EXCEPT !.idc = n].queue = s.queue
  BY DEF Sane, StateType
<1>8. \A b : [s EXCEPT !.over = b].queue = s.queue
  BY DEF Sane, StateType
<1>9. \A sc, left, hist : Commit(s, sc, left, hist).queue = left
  BY DEF Commit, Sane, StateType
<1> QED BY <1>1, <1>2, <1>3, <1>4, <1>5, <1>6, <1>7, <1>8, <1>9

\* Items that are about no event and are no Compaction items
Plain(X) == \A x \in X : x.of \notin Works /\ x.type # "compaction"

\* apply_side_effects leaves what the script left, with plain items and, if one
\* was asked for, a Compaction item added; compact() removes those.
TurnQueue(left) ==
  \E X : /\ Plain(X)
         /\ \/ st'.queue = left \cup X /\ active' = active
            \/ /\ \E id : st'.queue = left \cup X \cup {Item(id, "compaction", None)}
               /\ ~active /\ active'
            \/ /\ st'.queue = (left \cup X) \ Compactions(left \cup X)
               /\ active' = FALSE

LEMMA CommitTurnQueue ==
  ASSUME TypeInv, NEW sc \in Scripts, NEW over \in BOOLEAN, NEW h \in HookRuns,
         NEW left \in Leaves(sc), NEW hist \in Histories(sc),
         CommitTurn(sc, left, hist, over, h)
  PROVE  left \subseteq st.queue /\ TurnQueue(left)
<1>1. sc \in ScriptType /\ h \in HookRunType
  BY ScriptsAssumption, HookRunsAssumption
<1>2. Sane(st) /\ st.queue \subseteq ItemType /\ st.hist \subseteq EntryType /\ active \in BOOLEAN
  BY DEF TypeInv, TypeOK, FiniteTimers, Sane, StateType
<1>3. left \in SUBSET st.queue
  <2>1. sc.pops \in {"none", "all", "any"}
    BY <1>1 DEF ScriptType
  <2> QED
    BY <2>1 DEF Leaves
<1>4. hist \in SUBSET EntryType
  <2>1. Modifiable \in SUBSET st.hist
    BY DEF Modifiable
  <2>2. Edited(st.hist, Modifiable) \subseteq SUBSET EntryType
    BY <1>2, <2>1, EditedTyped
  <2> QED
    BY <1>2, <2>2 DEF Histories
<1> DEFINE s0 == [st EXCEPT !.over = over]
           s1 == Commit(s0, sc, left, hist)
           s2 == Notice(s1, sc, h)
           s3 == IF Requested(sc) THEN TriggerCompaction(s2) ELSE s2
<1>5. Sane(s0)
  BY <1>2 DEF Sane, StateType
<1>6. Sane(s1) /\ s1.queue = left
  <2> HIDE DEF s0
  <2>1. left \in SUBSET ItemType /\ now \in Nat
    BY <1>2, <1>3 DEF TypeInv, TypeOK
  <2>2. Sane(s1)
    BY <1>1, <1>4, <1>5, <2>1, CommitTyped DEF TypeInv, TypeOK
  <2> QED BY <1>5, <2>2, OtherQueues
<1>7. Sane(s2) /\ \E X : s2.queue = left \cup X /\ Plain(X)
  <2> HIDE DEF s1
  <2>1. Sane(s2)
    BY <1>1, <1>6, NoticeTyped
  <2>2. CASE sc.notice
    <3> DEFINE item == Item(s1.idc, "notice", None)
               t == [s1 EXCEPT !.idc = s1.idc + 1]
               exc == Item(t.idc, "exception", item.of)
    <3>1. s2 = PushItem(t, item, h)
      BY <2>2 DEF Notice
    <3>2. Sane(t) /\ s1.idc \in Nat /\ t.queue = left
      BY <1>6, NextIdTyped, OtherQueues
    <3>3. item \in ItemType
      BY <3>2, ItemTyped
    <3>4. item.of = None /\ item.type = "notice"
      BY DEF Item
    <3>5. exc.of = None /\ exc.type = "exception"
      BY <3>4 DEF Item
    <3> HIDE DEF t, item
    <3>6. s2.queue \in {left \cup {item}, left \cup {exc}, left \cup {}}
      BY <1>1, <3>1, <3>2, <3>3, PushItemQueue
    <3> HIDE DEF exc
    <3>7. Plain({item}) /\ Plain({exc}) /\ Plain({})
      BY <3>4, <3>5, InputsAssumption DEF Plain
    <3> QED BY <2>1, <3>6, <3>7
  <2>3. CASE ~sc.notice
    <3>1. s2 = s1 /\ Plain({})
      BY <2>3 DEF Notice, Plain
    <3> QED BY <1>6, <3>1
  <2> QED BY <2>2, <2>3
<1>8. PICK X : s2.queue = left \cup X /\ Plain(X)
  BY <1>7
<1> DEFINE id == s2.idc
           c == IF Requested(sc) THEN {Item(id, "compaction", None)} ELSE {}
           Q == left \cup X \cup c
<1>9. Sane(s3) /\ s3.queue = Q
  <2> HIDE DEF s2
  <2>1. Sane(TriggerCompaction(s2))
    BY <1>7, AddsTyped
  <2>2. TriggerCompaction(s2).queue = s2.queue \cup {Item(s2.idc, "compaction", None)}
    BY <1>7, OtherQueues
  <2> QED BY <1>7, <1>8, <2>1, <2>2
<1>10. FinishEffects(s2, sc) /\ ~Fails(sc)
  BY DEF CommitTurn
<1>11. \/ st' = CompactFailed(s3) /\ active' = active /\ sc.compact
       \/ \E kept : st' = Compacted(s3, kept) /\ active' = FALSE /\ sc.compact
       \/ st' = s3 /\ active' = (active \/ Requested(sc))
  <2> HIDE DEF s2
  <2> QED
    BY <1>10 DEF FinishEffects
<1>12. sc.compact => ~Requested(sc)
  BY <1>10 DEF Fails, Requested
<1> HIDE DEF s3, id
<1>13. /\ CompactFailed(s3).queue = Q
       /\ \A kept : Compacted(s3, kept).queue = Q \ Compactions(Q)
  <2> HIDE DEF Q
  <2> QED BY <1>9, OtherQueues
<1>14. active \in BOOLEAN /\ (Requested(sc) => ~active)
  BY <1>2 DEF Requested
<1>15. CASE Requested(sc)
  <2>1. st'.queue = Q /\ ~active /\ active'
    BY <1>9, <1>11, <1>12, <1>14, <1>15, Zenon
  <2>2. Q = left \cup X \cup {Item(id, "compaction", None)}
    BY <1>15
  <2> HIDE DEF Q
  <2> QED BY <1>3, <1>8, <2>1, <2>2, Zenon DEF TurnQueue
<1>16. CASE ~Requested(sc)
  <2>1. Q = left \cup X
    BY <1>16
  <2>2. \/ st'.queue = Q /\ active' = active
        \/ st'.queue = Q \ Compactions(Q) /\ active' = FALSE
    <3> HIDE DEF Q
    <3>1. CASE st' = CompactFailed(s3) /\ active' = active /\ sc.compact
      BY <1>13, <3>1, Zenon
    <3>2. CASE \E kept : st' = Compacted(s3, kept) /\ active' = FALSE /\ sc.compact
      BY <1>13, <3>2, Zenon
    <3>3. CASE st' = s3 /\ active' = (active \/ Requested(sc))
      <4>1. active' = active
        BY <1>14, <1>16, <3>3
      <4> QED BY <1>9, <3>3, <4>1, Zenon
    <3> QED BY <1>11, <3>1, <3>2, <3>3, Zenon
  <2> HIDE DEF Q
  <2> QED BY <1>3, <1>8, <2>1, <2>2, Zenon DEF TurnQueue
<1> QED BY <1>15, <1>16

-----------------------------------------------------------------------------
(* What each step does to the queue.                                       *)

\* Items still to be pushed are firings of timers, and no Compaction item is
\* about an event.
Unrelated(Q) == \A it \in Q : it.type = "compaction" => it.of \notin Works

KindsInv ==
  /\ \A it \in fired : it.type = "timer" /\ it.of \in Nat
  /\ Unrelated(st.queue) /\ Unrelated(disk.queue)

\* Nothing about the events changes, except that plain items are added or the
\* state is saved.
QuietStep ==
  /\ \E X : Plain(X) /\ st'.queue = st.queue \cup X
  /\ disk' = disk \/ disk' = st
  /\ UNCHANGED <<active, chan, unsent, restarts, handled, consumed, lost, replies>>

\* The trigger of the compaction manager
TriggerStep ==
  /\ ~active /\ active'
  /\ \E id : st'.queue = st.queue \cup {Item(id, "compaction", None)}
  /\ UNCHANGED <<disk, chan, unsent, restarts, handled, consumed, lost, replies>>

\* An event that becomes an item, or an exception about it, or is consumed
ReceiveStep ==
  LET ev == Head(chan)
  IN  /\ chan # <<>> /\ chan' = Tail(chan)
      /\ ev \in Works
      /\ \/ /\ \E item : /\ st'.queue = st.queue \cup {item}
                         /\ item.of = ev /\ item.type # "compaction"
            /\ consumed' = consumed
         \/ st'.queue = st.queue /\ consumed' = consumed \cup {ev}
      /\ UNCHANGED <<disk, active, unsent, restarts, handled, lost, replies>>

\* An event that is none of the works
CommandStep ==
  /\ chan # <<>> /\ chan' = Tail(chan)
  /\ Head(chan) \notin Works
  /\ st'.queue = st.queue
  /\ UNCHANGED <<disk, active, unsent, restarts, handled, consumed, lost, replies>>

\* A committed turn
TurnStep ==
  /\ \E left \in SUBSET st.queue :
       /\ TurnQueue(left)
       /\ handled' = handled \cup (Sources(st.queue \ left) \cap Works)
       /\ replies' = replies \/ ReplyTo(Sources(st.queue \ left))
  /\ UNCHANGED <<disk, chan, unsent, restarts, consumed, lost>>

LEMMA ReceiveQueue ==
  ASSUME TypeInv, Receive
  PROVE  ReceiveStep \/ CommandStep
<1> DEFINE ev == Head(chan)
<1>1. PICK h \in HookRuns : ApplyEvent(ev, h)
  BY DEF Receive
<1>2. Sane(st) /\ h \in HookRunType /\ ev \in Inputs
  BY HookRunsAssumption DEF Receive, TypeInv, TypeOK, FiniteTimers, Sane
<1>3. /\ chan # <<>> /\ chan' = Tail(chan)
      /\ UNCHANGED <<disk, active, unsent, restarts, handled, lost, replies>>
  BY DEF Receive, envVars
<1>4. CASE ev = KillSignal
  <2>1. st' = st /\ consumed' = consumed /\ ev \notin Works
    BY <1>1, <1>4, InputsAssumption DEF ApplyEvent
  <2> QED BY <1>3, <2>1, Zenon DEF CommandStep
<1>5. CASE ev = HooksMessage
  <2>1. st' \in HooksCommand(st) /\ consumed' = consumed /\ ev \notin Works
    BY <1>1, <1>5, InputsAssumption DEF ApplyEvent
  <2>2. st'.queue = st.queue
    BY <1>2, <2>1, OtherQueues
  <2> QED BY <1>3, <2>1, <2>2, Zenon DEF CommandStep
<1>6. CASE ev \notin {KillSignal, HooksMessage}
  <2> DEFINE s == [st EXCEPT !.idc = st.idc + 1]
             item == Item(st.idc, "event", ev)
             exc == Item(s.idc, "exception", item.of)
  <2>1. ev \in Works
    BY <1>2, <1>6, InputsAssumption
  <2>2. /\ st' = PushItem(s, item, h)
        /\ consumed' = IF st.hooked /\ h.out = "consumed"
                       THEN consumed \cup {ev} ELSE consumed
    BY <1>1, <1>6 DEF ApplyEvent
  <2>3. Sane(s) /\ s.queue = st.queue /\ s.hooked = st.hooked /\ item \in ItemType
    BY <1>2, <2>1, NextIdTyped, ItemTyped DEF Sane, StateType
  <2>4. /\ item.of = ev /\ item.type # "compaction"
        /\ exc.of = ev /\ exc.type # "compaction"
    BY DEF Item
  <2> HIDE DEF s, item, ev
  <2>5. \/ st'.queue = st.queue \cup {item} /\ ~(st.hooked /\ h.out = "consumed")
        \/ st'.queue = st.queue \cup {exc} /\ ~(st.hooked /\ h.out = "consumed")
        \/ st'.queue = st.queue /\ st.hooked /\ h.out = "consumed"
    BY <1>2, <2>2, <2>3, PushItemQueue
  <2> HIDE DEF exc
  <2>6. \/ /\ \E x : st'.queue = st.queue \cup {x} /\ x.of = ev /\ x.type # "compaction"
           /\ consumed' = consumed
        \/ st'.queue = st.queue /\ consumed' = consumed \cup {ev}
    BY <2>2, <2>4, <2>5, Zenon
  <2> QED BY <1>3, <2>1, <2>6, Zenon DEF ReceiveStep, ev
<1> QED BY <1>4, <1>5, <1>6

LEMMA FiringsKinds ==
  ASSUME NEW s, Sane(s)
  PROVE  \A it \in Firings(s) : it.type = "timer" /\ it.of \in Nat
<1>1. \A t \in Due(s) : t.id \in Nat
  BY DEF Due, Sane, StateType, TimerType
<1>2. \A n, m : Item(n, "timer", m).type = "timer" /\ Item(n, "timer", m).of = m
  BY DEF Item
<1> SUFFICES ASSUME NEW it \in Firings(s)
             PROVE  it.type = "timer" /\ it.of \in Nat
  OBVIOUS
<1>3. \E t \in Due(s) : \E n : it = Item(n, "timer", t.id)
  BY DEF Firings
<1> QED BY <1>1, <1>2, <1>3

LEMMA NoItems ==
  ASSUME st'.queue = st.queue
  PROVE  \E X : Plain(X) /\ st'.queue = st.queue \cup X
<1>1. Plain({}) /\ st'.queue = st.queue \cup {}
  BY DEF Plain
<1> QED BY <1>1

\* One step per action.
LEMMA StepQueue ==
  ASSUME TypeInv, KindsInv, [Next]_vars
  PROVE  /\ \/ QuietStep \/ TriggerStep \/ ReceiveStep \/ CommandStep \/ TurnStep
            \/ (\E ev \in Inputs : Send(ev)) \/ Restart
         /\ \A it \in fired' : it.type = "timer" /\ it.of \in Nat
<1>1. Sane(st) /\ Sane(disk)
  BY DEF TypeInv, TypeOK, FiniteTimers, Sane
<1> DEFINE Kinds == \A it \in fired : it.type = "timer" /\ it.of \in Nat
<1>2. Kinds
  BY DEF KindsInv
<1> DEFINE Rest == UNCHANGED <<active, chan, unsent, restarts, handled, consumed, lost, replies>>
<1>3. CASE Drain \/ IdleReceive \/ DeferredDrain
  <2>1. Receive /\ fired' = fired
    BY <1>3 DEF Drain, IdleReceive, DeferredDrain
  <2> QED BY <1>2, <2>1, ReceiveQueue, Zenon
<1>4. CASE CheckTimers \/ IdleTimer
  <2>1. st' = AfterFiring(st) /\ fired' = Firings(st) /\ disk' = disk /\ Rest
    BY <1>4 DEF CheckTimers, IdleTimer, envVars, ghostVars
  <2>2. st'.queue = st.queue
    BY <1>1, <2>1, OtherQueues
  <2> QED BY <1>1, <2>1, <2>2, NoItems, FiringsKinds, Zenon DEF QuietStep
<1>5. CASE PushFired
  <2>1. PICK item \in fired, h \in HookRuns :
          st' = PushItem(st, item, h) /\ fired' = fired \ {item}
    BY <1>5 DEF PushFired
  <2>2. disk' = disk /\ Rest
    BY <1>5 DEF PushFired, envVars, ghostVars
  <2>3. item \in ItemType /\ h \in HookRunType /\ item.of \notin Works
        /\ item.type # "compaction"
    BY <1>2, InputsAssumption, HookRunsAssumption DEF TypeInv, TypeOK
  <2> DEFINE exc == Item(st.idc, "exception", item.of)
  <2>4. exc.of = item.of /\ exc.type # "compaction"
    BY DEF Item
  <2>5. st'.queue \in {st.queue \cup {item}, st.queue \cup {exc}, st.queue \cup {}}
    BY <1>1, <2>1, <2>3, PushItemQueue
  <2> HIDE DEF exc
  <2>6. Plain({item}) /\ Plain({exc}) /\ Plain({})
    BY <2>3, <2>4 DEF Plain
  <2>7. QuietStep
    BY <2>2, <2>5, <2>6 DEF QuietStep
  <2>8. \A it \in fired' : it.type = "timer" /\ it.of \in Nat
    BY <1>2, <2>1
  <2> QED BY <2>7, <2>8
<1>6. CASE Gate
  <2> DEFINE s1 == IF Triggers THEN TriggerCompaction(st) ELSE st
  <2>1. st' \in {FlushTelemetry(s1), s1} /\ active' = (active \/ Triggers)
    BY <1>6 DEF Gate
  <2>2. UNCHANGED <<disk, chan, unsent, restarts, handled, consumed, lost, replies>>
        /\ fired' = fired
    BY <1>6 DEF Gate, envVars, ghostVars
  <2>3. CASE Triggers
    <3>1. s1 = TriggerCompaction(st) /\ ~active /\ active'
      BY <2>1, <2>3 DEF Triggers
    <3> HIDE DEF s1
    <3>2. Sane(s1) /\ s1.queue = st.queue \cup {Item(st.idc, "compaction", None)}
      BY <1>1, <3>1, AddsTyped, OtherQueues
    <3>3. st'.queue = s1.queue
      BY <2>1, <3>2, OtherQueues
    <3> QED BY <1>2, <2>2, <3>1, <3>2, <3>3 DEF TriggerStep
  <2>4. CASE ~Triggers
    <3>1. s1 = st /\ active' = active
      BY <2>1, <2>4 DEF TypeInv, TypeOK
    <3>2. st'.queue = st.queue
      BY <1>1, <2>1, <3>1, OtherQueues
    <3> QED BY <1>2, <2>2, <3>1, <3>2, NoItems, Zenon DEF QuietStep
  <2> QED BY <2>3, <2>4
<1>7. CASE FailedScript
  <2>1. PICK over \in BOOLEAN : st' = [st EXCEPT !.over = over]
    BY <1>7 DEF FailedScript
  <2>2. disk' = disk /\ Rest /\ fired' = fired
    BY <1>7 DEF FailedScript, envVars
  <2>3. st'.queue = st.queue
    BY <1>1, <2>1, OtherQueues
  <2> QED BY <1>2, <2>2, <2>3, NoItems, Zenon DEF QuietStep
<1>8. CASE AppliedScript
  <2>1. PICK sc \in Scripts, over \in BOOLEAN, h \in HookRuns :
          \E left \in Leaves(sc), hist \in Histories(sc) :
            CommitTurn(sc, left, hist, over, h)
    BY <1>8 DEF AppliedScript
  <2>2. PICK left \in Leaves(sc), hist \in Histories(sc) :
          CommitTurn(sc, left, hist, over, h)
    BY <2>1
  <2>3. left \in SUBSET st.queue /\ TurnQueue(left)
    BY <2>2, CommitTurnQueue
  <2>4. /\ handled' = handled \cup (Sources(st.queue \ left) \cap Works)
        /\ replies' = replies \/ ReplyTo(Sources(st.queue \ left))
    BY <2>2 DEF CommitTurn
  <2>5. UNCHANGED <<disk, chan, fired, unsent, restarts, consumed, lost>>
    BY <1>8 DEF AppliedScript, envVars
  <2> QED BY <1>2, <2>3, <2>4, <2>5, Zenon DEF TurnStep
<1>9. CASE Record
  <2>1. st' = CompactFailed(st) /\ disk' = disk /\ Rest /\ fired' = fired
    BY <1>9 DEF Record, CompactFailed, envVars
  <2>2. st'.queue = st.queue
    BY <1>1, <2>1, OtherQueues
  <2> QED BY <1>2, <2>1, <2>2, NoItems, Zenon DEF QuietStep
<1>10. CASE \/ IdleShutdown \/ Continue \/ ApiError \/ WaitOver \/ Drained
            \/ Settled \/ BackoffOver \/ ShutdownMidTurn \/ Crash \/ Save \/ Exit
            \/ Tick \/ RequestShutdown \/ UNCHANGED vars
  <2>1. st' = st /\ (disk' = disk \/ disk' = st) /\ Rest /\ fired' = fired
    BY <1>10 DEF IdleShutdown, Continue, ApiError, WaitOver, Drained, Settled,
                 BackoffOver, ShutdownMidTurn, Crash, Save, Exit, Tick,
                 RequestShutdown, vars, loopVars, envVars, ghostVars
  <2> QED BY <1>2, <2>1, NoItems, Zenon DEF QuietStep
<1>11. CASE \E ev \in Inputs : Send(ev)
  <2>1. fired' = fired
    BY <1>11 DEF Send, loopVars
  <2> QED BY <1>2, <1>11, <2>1
<1>12. CASE Restart
  <2>1. fired' = {}
    BY <1>12, Zenon DEF Restart
  <2> QED BY <1>12, <2>1
<1> QED
  BY <1>3, <1>4, <1>5, <1>6, <1>7, <1>8, <1>9, <1>10, <1>11, <1>12 DEF Next, Loop

LEMMA KindsStep ==
  ASSUME TypeInv, KindsInv, [Next]_vars
  PROVE  KindsInv'
<1> USE DEF Unrelated
<1>1. Unrelated(st.queue) /\ Unrelated(disk.queue)
  BY DEF KindsInv
<1>2. Sane(disk)
  BY DEF TypeInv, TypeOK, FiniteTimers, Sane
<1> SUFFICES Unrelated(st'.queue) /\ Unrelated(disk'.queue)
  BY StepQueue DEF KindsInv
<1>3. \A id : Item(id, "compaction", None).of \notin Works
  BY InputsAssumption DEF Item
<1>4. CASE QuietStep
  BY <1>1, <1>4 DEF QuietStep, Plain
<1>5. CASE TriggerStep
  <2>1. disk' = disk
    BY <1>5 DEF TriggerStep
  <2>2. Unrelated(st'.queue)
    BY <1>1, <1>3, <1>5 DEF TriggerStep
  <2> QED BY <1>1, <2>1, <2>2
<1>6. CASE ReceiveStep
  BY <1>1, <1>6 DEF ReceiveStep
<1>7. CASE CommandStep
  BY <1>1, <1>7 DEF CommandStep
<1>8. CASE TurnStep
  <2>1. PICK left \in SUBSET st.queue : TurnQueue(left)
    BY <1>8 DEF TurnStep
  <2>2. disk' = disk
    BY <1>8 DEF TurnStep
  <2>3. PICK X : /\ Plain(X)
                 /\ \/ st'.queue \subseteq left \cup X
                    \/ \E id : st'.queue = left \cup X \cup {Item(id, "compaction", None)}
    BY <2>1 DEF TurnQueue
  <2>4. Unrelated(left \cup X)
    BY <1>1, <2>3 DEF Plain
  <2>5. Unrelated(st'.queue)
    BY <1>3, <2>3, <2>4
  <2> QED BY <1>1, <2>2, <2>5
<1>9. CASE \E ev \in Inputs : Send(ev)
  BY <1>1, <1>9 DEF Send
<1>10. CASE Restart
  <2> DEFINE s == [disk EXCEPT !.queue = disk.queue \cup {Item(disk.idc, "startup", None)},
                               !.idc = disk.idc + 1]
  <2>1. st' = s /\ disk' = disk
    BY <1>10, Zenon DEF Restart
  <2>2. s.queue = disk.queue \cup {Item(disk.idc, "startup", None)}
    BY <1>2 DEF Sane, StateType
  <2>3. Item(disk.idc, "startup", None).type # "compaction"
    BY DEF Item
  <2> HIDE DEF s
  <2>4. Unrelated(s.queue)
    BY <1>1, <2>2, <2>3
  <2> QED BY <1>1, <2>1, <2>4
<1> QED BY <1>4, <1>5, <1>6, <1>7, <1>8, <1>9, <1>10, StepQueue

LEMMA KindsInit ==
  ASSUME Init
  PROVE  KindsInv
<1>1. FreshState.queue = {} /\ fired = {} /\ disk = FreshState
  BY DEF Init, FreshState
<1>2. /\ Item(1, "event", None).type # "compaction"
      /\ Item(2, "notice", None).type # "compaction"
  BY DEF Item
<1>3. \A it \in st.queue : it.type # "compaction"
  BY <1>2, FirstItems
<1> QED BY <1>1, <1>3 DEF KindsInv, Unrelated

-----------------------------------------------------------------------------
(* Compaction items.                                                       *)

(***************************************************************************)
(* CompactionItems is not inductive: a restart takes the queue from disk.  *)
(* A saved queue holds one item more at most than earlier restarts account *)
(* for, the one of the compaction that was active when it was saved.       *)
(***************************************************************************)
Count(Q) == Cardinality(Compactions(Q))

CompactionInv ==
  /\ IsFiniteSet(Compactions(st.queue)) /\ IsFiniteSet(Compactions(disk.queue))
  /\ Count(st.queue) <= restarts + (IF active THEN 1 ELSE 0)
  /\ Count(disk.queue) <= restarts + 1

\* Steps of the queue's Compaction items other than a restart
LEMMA CompactionsStep ==
  ASSUME TypeInv, KindsInv, [Next]_vars
  PROVE  \/ /\ Compactions(st'.queue) \subseteq Compactions(st.queue)
            /\ active' = active
         \/ /\ \E c : Compactions(st'.queue) \subseteq Compactions(st.queue) \cup {c}
            /\ ~active /\ active'
         \/ Compactions(st'.queue) = {} /\ active' = FALSE
         \/ Restart
<1> USE DEF Compactions
<1>1. CASE QuietStep
  BY <1>1 DEF QuietStep, Plain
<1>2. CASE TriggerStep
  BY <1>2 DEF TriggerStep
<1>3. CASE ReceiveStep
  BY <1>3 DEF ReceiveStep
<1>4. CASE CommandStep
  BY <1>4 DEF CommandStep
<1>5. CASE TurnStep
  <2>1. PICK left \in SUBSET st.queue : TurnQueue(left)
    BY <1>5 DEF TurnStep
  <2>2. PICK X :
         /\ Plain(X)
         /\ \/ st'.queue = left \cup X /\ active' = active
            \/ /\ \E id : st'.queue = left \cup X \cup {Item(id, "compaction", None)}
               /\ ~active /\ active'
            \/ /\ st'.queue = (left \cup X) \ Compactions(left \cup X)
               /\ active' = FALSE
    BY <2>1 DEF TurnQueue
  <2>3. Compactions(left \cup X) \subseteq Compactions(st.queue)
    BY <2>2 DEF Plain
  <2>4. CASE st'.queue = left \cup X /\ active' = active
    BY <2>3, <2>4
  <2>5. CASE /\ \E id : st'.queue = left \cup X \cup {Item(id, "compaction", None)}
             /\ ~active /\ active'
    BY <2>3, <2>5
  <2>6. CASE /\ st'.queue = (left \cup X) \ Compactions(left \cup X)
             /\ active' = FALSE
    BY <2>6
  <2> QED BY <2>2, <2>4, <2>5, <2>6
<1>6. CASE \E ev \in Inputs : Send(ev)
  BY <1>6 DEF Send, loopVars
<1> QED BY <1>1, <1>2, <1>3, <1>4, <1>5, <1>6, StepQueue

LEMMA CompactionStep ==
  ASSUME TypeInv, KindsInv, CompactionInv, [Next]_vars
  PROVE  CompactionInv'
<1> DEFINE C == Compactions(st.queue)
           C1 == Compactions(st'.queue)
           D == Compactions(disk.queue)
           D1 == Compactions(disk'.queue)
<1>1. /\ IsFiniteSet(C) /\ Cardinality(C) <= restarts + (IF active THEN 1 ELSE 0)
      /\ IsFiniteSet(D) /\ Cardinality(D) <= restarts + 1
  BY DEF CompactionInv, Count
<1>2. restarts \in Nat /\ active \in BOOLEAN
  BY DEF TypeInv, TypeOK
<1>3. Cardinality(C) \in Nat /\ Cardinality(D) \in Nat
  BY <1>1, FS_CardinalityType
<1>4. CASE Restart
  <2> DEFINE s == [disk EXCEPT !.queue = disk.queue \cup {Item(disk.idc, "startup", None)},
                               !.idc = disk.idc + 1]
  <2>1. st' = s /\ disk' = disk /\ restarts' = restarts + 1 /\ active' = FALSE
    BY <1>4, Zenon DEF Restart
  <2>2. s.queue = disk.queue \cup {Item(disk.idc, "startup", None)}
    BY DEF TypeInv, TypeOK, StateType
  <2>3. Item(disk.idc, "startup", None).type # "compaction"
    BY DEF Item
  <2> HIDE DEF s
  <2>4. C1 = D /\ D1 = D
    BY <2>1, <2>2, <2>3 DEF Compactions
  <2> HIDE DEF C1, D, D1
  <2>5. /\ IsFiniteSet(C1) /\ Cardinality(C1) <= restarts + 1
        /\ IsFiniteSet(D1) /\ Cardinality(D1) <= restarts + 1 + 1
    BY <1>1, <1>2, <1>3, <2>4
  <2> QED BY <1>2, <2>1, <2>5 DEF CompactionInv, Count, C1, D1
<1>5. CASE ~Restart
  <2>1. restarts' = restarts /\ (disk' = disk \/ disk' = st)
    <3>1. \/ QuietStep \/ TriggerStep \/ ReceiveStep \/ CommandStep \/ TurnStep
          \/ \E ev \in Inputs : Send(ev)
      BY <1>5, StepQueue
    <3> QED BY <3>1 DEF QuietStep, TriggerStep, ReceiveStep, CommandStep, TurnStep, Send
  <2>2. \/ C1 \subseteq C /\ active' = active
        \/ (\E c : C1 \subseteq C \cup {c}) /\ ~active /\ active'
        \/ C1 = {} /\ active' = FALSE
    BY <1>5, CompactionsStep
  <2>3. D1 = D \/ D1 = C
    BY <2>1
  <2> HIDE DEF C, C1, D, D1
  <2>4. IsFiniteSet(D1) /\ Cardinality(D1) <= restarts + 1
    BY <1>1, <1>2, <1>3, <2>3
  <2>5. /\ IsFiniteSet(C1)
        /\ Cardinality(C1) <= restarts + (IF active' THEN 1 ELSE 0)
    <3>1. CASE C1 \subseteq C /\ active' = active
      <4>1. IsFiniteSet(C1) /\ Cardinality(C1) <= Cardinality(C) /\ Cardinality(C1) \in Nat
        BY <1>1, <3>1, FS_Subset, FS_CardinalityType
      <4> QED BY <1>1, <1>2, <1>3, <3>1, <4>1
    <3>2. CASE (\E c : C1 \subseteq C \cup {c}) /\ ~active /\ active'
      <4>1. PICK c : C1 \subseteq C \cup {c}
        BY <3>2
      <4>2. IsFiniteSet(C \cup {c}) /\ Cardinality(C \cup {c}) <= Cardinality(C) + 1
            /\ Cardinality(C \cup {c}) \in Nat
        <5>1. IsFiniteSet(C \cup {c})
              /\ Cardinality(C \cup {c}) = IF c \in C THEN Cardinality(C) ELSE Cardinality(C) + 1
          BY <1>1, FS_AddElement
        <5> QED BY <1>3, <5>1
      <4>3. IsFiniteSet(C1) /\ Cardinality(C1) <= Cardinality(C \cup {c})
            /\ Cardinality(C1) \in Nat
        BY <4>1, <4>2, FS_Subset, FS_CardinalityType
      <4> QED BY <1>1, <1>2, <1>3, <3>2, <4>2, <4>3
    <3>3. CASE C1 = {} /\ active' = FALSE
      BY <1>2, <3>3, FS_EmptySet
    <3> QED BY <2>2, <3>1, <3>2, <3>3
  <2> QED BY <2>1, <2>4, <2>5 DEF CompactionInv, Count, C1, D1
<1> QED BY <1>4, <1>5

(***************************************************************************)
(* Whatever scripts request, fail in or finish a compaction, and however   *)
(* often the daemon goes down in the middle of one, the queue holds at     *)
(* most one Compaction item for the compaction that is active and one for  *)
(* each earlier life of the daemon.                                        *)
(***************************************************************************)
THEOREM CompactionsCounted == Spec => []CompactionItems
<1>1. Init => TypeInv /\ KindsInv
  BY InitTyped, KindsInit
<1>2. Init => CompactionInv
  <2> SUFFICES ASSUME Init PROVE CompactionInv
    OBVIOUS
  <2>1. FreshState.queue = {} /\ disk = FreshState /\ restarts = 0 /\ active = FALSE
    BY DEF Init, FreshState
  <2>3. /\ Item(1, "event", None).type # "compaction"
        /\ Item(2, "notice", None).type # "compaction"
    BY DEF Item
  <2>4. \A it \in st.queue : it.type # "compaction"
    BY <2>3, FirstItems
  <2>5. Compactions(st.queue) = {} /\ Compactions(disk.queue) = {}
    BY <2>1, <2>4 DEF Compactions
  <2> QED BY <2>1, <2>5, FS_EmptySet DEF CompactionInv, Count
<1>3. TypeInv /\ KindsInv /\ CompactionInv /\ [Next]_vars
        => TypeInv' /\ KindsInv' /\ CompactionInv'
  BY StepTyped, KindsStep, CompactionStep
<1>4. CompactionInv => CompactionItems
  BY DEF CompactionInv, CompactionItems, Count
<1> QED
  BY <1>1, <1>2, <1>3, <1>4, PTL DEF Spec

-----------------------------------------------------------------------------
(* Where an event is.                                                      *)

About(Q, w) == {it \in Q : it.of = w}

LEMMA SourcesAbout ==
  ASSUME NEW w \in Works, NEW Q
  PROVE  w \in Sources(Q) <=> About(Q, w) # {}
BY InputsAssumption DEF Sources, About

(***************************************************************************)
(* ExactlyOnePlace speaks of accepted events and of memory.  Inductive is: *)
(* an event is in at most one of six places, not being sent yet is one of  *)
(* them, and in one if it is an input; no place holds it twice; a saved    *)
(* event is in the queue or handled since it was saved, so that a restart, *)
(* which takes the queue from disk, neither doubles nor revives it; and an *)
(* event that can still be answered has been answered in earlier lives     *)
(* only.                                                                   *)
(***************************************************************************)
Placed(w) ==
  LET queued == About(st.queue, w) # {}
  IN  /\ w \in unsent => /\ w \notin InChannel /\ ~queued
                         /\ w \notin handled /\ w \notin consumed /\ w \notin lost
      /\ w \in InChannel => /\ ~queued
                            /\ w \notin handled /\ w \notin consumed /\ w \notin lost
      /\ queued => w \notin handled /\ w \notin consumed /\ w \notin lost
      /\ w \in handled => w \notin consumed /\ w \notin lost
      /\ w \in consumed => w \notin lost
      /\ w \in Inputs => \/ w \in unsent \/ w \in InChannel \/ queued
                         \/ w \in handled \/ w \in consumed \/ w \in lost
      /\ About(disk.queue, w) # {} => queued \/ w \in handled

Single(w) ==
  /\ \A i, j \in DOMAIN chan : chan[i] = w /\ chan[j] = w => i = j
  /\ \A x, y \in About(st.queue, w) : x = y
  /\ \A x, y \in About(disk.queue, w) : x = y

Answered(w) ==
  /\ replies[w] <= 1 + restarts
  /\ w \in unsent \/ w \in InChannel \/ About(st.queue, w) # {} => replies[w] <= restarts

EventsInv == \A w \in Works : Placed(w) /\ Single(w) /\ Answered(w)

LEMMA AboutAdds ==
  ASSUME NEW Q, NEW X, NEW w, \A x \in X : x.of # w
  PROVE  About(Q \cup X, w) = About(Q, w)
BY DEF About

LEMMA AboutAdd ==
  ASSUME NEW Q, NEW x, NEW w, x.of # w
  PROVE  About(Q \cup {x}, w) = About(Q, w)
BY DEF About

\* Taking the head of the channel
LEMMA TailOfChannel ==
  ASSUME TypeInv, NEW w, chan # <<>>, chan' = Tail(chan),
         \A i, j \in DOMAIN chan : chan[i] = w /\ chan[j] = w => i = j
  PROVE  /\ \A i, j \in DOMAIN chan' : chan'[i] = w /\ chan'[j] = w => i = j
         /\ Head(chan) = w => w \in InChannel /\ w \notin InChannel'
         /\ Head(chan) # w => (w \in InChannel' <=> w \in InChannel)
<1>1. chan \in Seq(Inputs) /\ Len(chan) \in Nat /\ Len(chan) >= 1
  BY DEF TypeInv, TypeOK
<1>2. /\ DOMAIN chan = 1..Len(chan) /\ DOMAIN chan' = 1..(Len(chan) - 1)
      /\ \A i \in DOMAIN chan' : chan'[i] = chan[i + 1] /\ i + 1 \in DOMAIN chan
      /\ Head(chan) = chan[1] /\ 1 \in DOMAIN chan
  BY <1>1
<1>3. \A i \in DOMAIN chan : i # 1 => i - 1 \in DOMAIN chan' /\ chan'[i - 1] = chan[i]
  BY <1>1, <1>2
<1>4. \A i, j \in DOMAIN chan' : chan'[i] = w /\ chan'[j] = w => i = j
  <2> SUFFICES ASSUME NEW i \in DOMAIN chan', NEW j \in DOMAIN chan',
                      chan'[i] = w, chan'[j] = w
               PROVE  i = j
    OBVIOUS
  <2>1. i + 1 = j + 1
    BY <1>2
  <2> QED BY <1>1, <1>2, <2>1
<1>5. Head(chan) = w => w \in InChannel /\ w \notin InChannel'
  <2> SUFFICES ASSUME chan[1] = w, NEW i \in DOMAIN chan', chan'[i] = w
               PROVE  FALSE
    BY <1>2 DEF InChannel
  <2>1. i + 1 = 1
    BY <1>2
  <2> QED BY <1>1, <1>2, <2>1
<1>6. Head(chan) # w => (w \in InChannel' <=> w \in InChannel)
  <2> SUFFICES ASSUME chan[1] # w
               PROVE  (\E i \in DOMAIN chan' : chan'[i] = w) <=> (\E i \in DOMAIN chan : chan[i] = w)
    BY <1>2 DEF InChannel
  <2>1. ASSUME NEW i \in DOMAIN chan', chan'[i] = w PROVE \E j \in DOMAIN chan : chan[j] = w
    BY <1>2, <2>1
  <2>2. ASSUME NEW i \in DOMAIN chan, chan[i] = w PROVE \E j \in DOMAIN chan' : chan'[j] = w
    <3>1. i # 1
      BY <2>2
    <3> QED BY <1>3, <2>2, <3>1
  <2> QED BY <2>1, <2>2
<1> QED BY <1>4, <1>5, <1>6

LEMMA EventsStep ==
  ASSUME TypeInv, KindsInv, EventsInv, [Next]_vars
  PROVE  EventsInv'
<1> SUFFICES ASSUME NEW w \in Works
             PROVE  Placed(w)' /\ Single(w)' /\ Answered(w)'
  BY DEF EventsInv
<1> DEFINE A == About(st.queue, w)
           A1 == About(st'.queue, w)
           D == About(disk.queue, w)
           D1 == About(disk'.queue, w)
<1>1. Placed(w) /\ Single(w) /\ Answered(w)
  BY DEF EventsInv
<1>2. restarts \in Nat /\ replies[w] \in Nat
  BY DEF TypeInv, TypeOK
<1>3. CASE QuietStep
  <2>1. A1 = A
    BY <1>3, AboutAdds DEF QuietStep, Plain
  <2>2. D1 = D \/ D1 = A
    BY <1>3 DEF QuietStep
  <2>3. UNCHANGED <<chan, unsent, restarts, handled, consumed, lost, replies>>
    BY <1>3 DEF QuietStep
  <2> QED BY <1>1, <2>1, <2>2, <2>3, Zenon DEF Placed, Single, Answered, InChannel
<1>4. CASE TriggerStep
  <2>1. PICK id : st'.queue = st.queue \cup {Item(id, "compaction", None)}
    BY <1>4 DEF TriggerStep
  <2>2. Item(id, "compaction", None).of # w
    BY InputsAssumption DEF Item
  <2>3. A1 = A
    BY <2>1, <2>2, AboutAdd
  <2>4. D1 = D /\ UNCHANGED <<chan, unsent, restarts, handled, consumed, lost, replies>>
    BY <1>4 DEF TriggerStep
  <2> QED BY <1>1, <2>3, <2>4, Zenon DEF Placed, Single, Answered, InChannel
<1>5. CASE ReceiveStep \/ CommandStep
  <2>1. /\ chan # <<>> /\ chan' = Tail(chan) /\ D1 = D
        /\ UNCHANGED <<unsent, restarts, handled, lost, replies>>
    BY <1>5 DEF ReceiveStep, CommandStep
  <2>2. /\ \A i, j \in DOMAIN chan' : chan'[i] = w /\ chan'[j] = w => i = j
        /\ Head(chan) = w => w \in InChannel /\ w \notin InChannel'
        /\ Head(chan) # w => (w \in InChannel' <=> w \in InChannel)
    BY <1>1, <2>1, TailOfChannel DEF Single
  <2>3. CASE Head(chan) # w
    <3>1. (w \in consumed' <=> w \in consumed) /\ A1 = A
      <4>1. CASE ReceiveStep
        <5>1. w \in consumed' <=> w \in consumed
          BY <2>3, <4>1 DEF ReceiveStep
        <5>2. \/ \E item : st'.queue = st.queue \cup {item} /\ item.of # w
              \/ st'.queue = st.queue
          BY <2>3, <4>1 DEF ReceiveStep
        <5> QED BY <5>1, <5>2, AboutAdd
      <4>2. CASE CommandStep
        BY <4>2 DEF CommandStep
      <4> QED BY <1>5, <4>1, <4>2
    <3> QED BY <1>1, <2>1, <2>2, <2>3, <3>1, Zenon DEF Placed, Single, Answered
  <2>4. CASE Head(chan) = w
    <3>1. ReceiveStep
      BY <1>5, <2>4 DEF CommandStep
    <3>2. A = {} /\ w \in InChannel /\ w \notin InChannel' /\ w \notin unsent
          /\ w \notin handled /\ w \notin consumed /\ w \notin lost
          /\ replies[w] <= restarts
      BY <1>1, <2>2, <2>4, Zenon DEF Placed, Answered
    <3>3. \/ (\E x : A1 = {x}) /\ consumed' = consumed
          \/ A1 = {} /\ w \in consumed'
      BY <2>4, <3>1, <3>2 DEF ReceiveStep, About
    <3>4. \A x, y \in A1 : x = y
      BY <3>3
    <3>5. Placed(w)'
      BY <1>1, <2>1, <3>2, <3>3 DEF Placed
    <3>6. Single(w)'
      BY <1>1, <2>1, <2>2, <3>4, Zenon DEF Single
    <3>7. Answered(w)'
      BY <1>1, <2>1, <3>2, Zenon DEF Answered
    <3> QED BY <3>5, <3>6, <3>7
  <2> QED BY <2>3, <2>4
<1>6. CASE TurnStep
  <2>1. PICK left \in SUBSET st.queue :
          /\ TurnQueue(left)
          /\ handled' = handled \cup (Sources(st.queue \ left) \cap Works)
          /\ replies' = replies \/ ReplyTo(Sources(st.queue \ left))
    BY <1>6 DEF TurnStep
  <2>2. D1 = D /\ UNCHANGED <<chan, unsent, restarts, consumed, lost>>
    BY <1>6 DEF TurnStep
  <2>3. PICK X :
         /\ Plain(X)
         /\ \/ st'.queue = left \cup X
            \/ \E id : st'.queue = left \cup X \cup {Item(id, "compaction", None)}
            \/ st'.queue = (left \cup X) \ Compactions(left \cup X)
    BY <2>1 DEF TurnQueue
  <2>4. About(left \cup X, w) = About(left, w)
    BY <2>3, AboutAdds DEF Plain
  <2>5. A1 = About(left, w)
    <3>1. CASE st'.queue = left \cup X
      BY <2>4, <3>1
    <3>2. CASE \E id : st'.queue = left \cup X \cup {Item(id, "compaction", None)}
      <4>1. PICK id : st'.queue = left \cup X \cup {Item(id, "compaction", None)}
        BY <3>2
      <4>2. Item(id, "compaction", None).of # w
        BY InputsAssumption DEF Item
      <4> QED BY <2>4, <4>1, <4>2, AboutAdd
    <3>3. CASE st'.queue = (left \cup X) \ Compactions(left \cup X)
      <4>1. \A it \in left : it.type = "compaction" => it.of # w
        BY DEF KindsInv, Unrelated
      <4>2. \A it \in X : it.of # w
        BY <2>3 DEF Plain
      <4> QED BY <3>3, <4>1, <4>2 DEF About, Compactions
    <3> QED BY <2>3, <3>1, <3>2, <3>3
  <2>6. w \in Sources(st.queue \ left) <=> About(st.queue \ left, w) # {}
    BY SourcesAbout
  <2>7. About(st.queue \ left, w) = A \ A1
    BY <2>5 DEF About
  <2>8. A1 \subseteq A
    BY <2>5 DEF About
  <2>9. w \in handled' <=> w \in handled \/ A \ A1 # {}
    BY <2>1, <2>6, <2>7
  <2>10. \A x, y \in A : x = y
    BY <1>1 DEF Single
  <2> HIDE DEF A, A1, D, D1
  <2>11. A \ A1 = {} => A1 = A
    BY <2>8
  <2>12. A \ A1 # {} => A # {} /\ A1 = {}
    BY <2>8, <2>10
  <2>13. Placed(w)'
    <3>1. CASE A \ A1 = {}
      BY <1>1, <2>2, <2>9, <2>11, <3>1, Zenon DEF Placed, InChannel, A, A1, D, D1
    <3>2. CASE A \ A1 # {}
      BY <1>1, <2>2, <2>9, <2>12, <3>2, Zenon DEF Placed, InChannel, A, A1, D, D1
    <3> QED BY <3>1, <3>2
  <2>14. Single(w)'
    <3>1. \A x, y \in A1 : x = y
      BY <2>8, <2>10
    <3> QED BY <1>1, <2>2, <3>1, Zenon DEF Single, D, D1, A1
  <2>15. Answered(w)'
    <3>1. CASE A \ A1 = {}
      <4>1. replies'[w] = replies[w]
        BY <2>1, <2>6, <2>7, <3>1 DEF ReplyTo, A, A1
      <4> QED BY <1>1, <2>2, <2>11, <3>1, <4>1, Zenon DEF Answered, InChannel, A, A1
    <3>2. CASE A \ A1 # {}
      <4>1. A # {} /\ A1 = {} /\ w \notin InChannel /\ w \notin unsent
            /\ replies[w] <= restarts
        BY <1>1, <2>12, <3>2, Zenon DEF Placed, Answered, A
      <4>2. replies'[w] = replies[w] \/ replies'[w] = replies[w] + 1
        BY <2>1 DEF ReplyTo
      <4>3. replies'[w] <= 1 + restarts
        BY <1>2, <4>1, <4>2
      <4> QED BY <2>2, <4>1, <4>3, Zenon DEF Answered, InChannel, A1
    <3> QED BY <3>1, <3>2
  <2> QED BY <2>13, <2>14, <2>15
<1>7. CASE \E ev \in Inputs : Send(ev)
  <2>1. PICK ev \in Inputs : Send(ev)
    BY <1>7
  <2>2. /\ ev \in unsent /\ chan' = Append(chan, ev) /\ unsent' = unsent \ {ev}
        /\ A1 = A /\ D1 = D
        /\ UNCHANGED <<restarts, handled, consumed, lost, replies>>
    BY <2>1 DEF Send, ghostVars
  <2>3. /\ w \in InChannel' <=> w \in InChannel \/ w = ev
        /\ \A i, j \in DOMAIN chan' : chan'[i] = w /\ chan'[j] = w => i = j
    <3>1. chan \in Seq(Inputs) /\ Len(chan) \in Nat
      BY DEF TypeInv, TypeOK
    <3>2. /\ DOMAIN chan = 1..Len(chan) /\ DOMAIN chan' = 1..(Len(chan) + 1)
          /\ \A i \in DOMAIN chan : chan'[i] = chan[i]
          /\ chan'[Len(chan) + 1] = ev
      BY <2>2, <3>1
    <3>3. w = ev => w \notin InChannel
      BY <1>1, <2>2 DEF Placed
    <3>4. DOMAIN chan' = DOMAIN chan \cup {Len(chan) + 1}
      BY <3>1, <3>2
    <3>5. w \in InChannel' <=> w \in InChannel \/ w = ev
      BY <3>2, <3>4 DEF InChannel
    <3> QED BY <1>1, <3>2, <3>3, <3>4, <3>5 DEF InChannel, Single
  <2>4. CASE w # ev
    BY <1>1, <2>2, <2>3, <2>4 DEF Placed, Single, Answered
  <2>5. CASE w = ev
    <3>1. Placed(w)'
      BY <1>1, <2>2, <2>3, <2>5 DEF Placed
    <3>2. Single(w)'
      BY <1>1, <2>2, <2>3, Zenon DEF Single
    <3>3. Answered(w)'
      BY <1>1, <2>2, <2>5 DEF Answered
    <3> QED BY <3>1, <3>2, <3>3
  <2> QED BY <2>4, <2>5
<1>8. CASE Restart
  <2> DEFINE s == [disk EXCEPT !.queue = disk.queue \cup {Item(disk.idc, "startup", None)},
                               !.idc = disk.idc + 1]
             saved == Sources(disk.queue) \cap Works
             known == (InChannel \cup Sources(st.queue)) \cap Works
  <2>1. /\ st' = s /\ disk' = disk /\ restarts' = restarts + 1
        /\ chan' = <<>> /\ unsent' = unsent /\ replies' = replies
    BY <1>8, Zenon DEF Restart
  <2>2. /\ lost' = lost \cup (known \ saved) /\ handled' = handled \ saved
        /\ consumed' = consumed \ saved
    BY <1>8 DEF Restart, InChannel
  <2>3. A1 = D
    <3>1. s.queue = disk.queue \cup {Item(disk.idc, "startup", None)}
      BY DEF TypeInv, TypeOK, StateType
    <3>2. Item(disk.idc, "startup", None).of # w
      BY InputsAssumption DEF Item
    <3> HIDE DEF s
    <3> QED BY <2>1, <3>1, <3>2, AboutAdd
  <2>4. D1 = D
    BY <2>1
  <2>5. (w \in saved <=> D # {}) /\ (w \in known <=> w \in InChannel \/ A # {})
    BY SourcesAbout
  <2>6. w \notin InChannel' /\ \A i, j \in DOMAIN chan' : i = j
    BY <2>1 DEF InChannel
  <2> HIDE DEF A, A1, D, D1, s, saved, known
  <2>7. /\ w \in lost' <=> w \in lost \/ ((w \in InChannel \/ A # {}) /\ D = {})
        /\ w \in handled' <=> w \in handled /\ D = {}
        /\ w \in consumed' <=> w \in consumed /\ D = {}
        /\ w \in unsent' <=> w \in unsent
    BY <2>1, <2>2, <2>5
  <2>8. Placed(w)'
    BY <1>1, <2>3, <2>4, <2>6, <2>7 DEF Placed, A, A1, D, D1
  <2>9. Single(w)'
    BY <1>1, <2>3, <2>4, <2>6, Zenon DEF Single, A, A1, D, D1
  <2>10. Answered(w)'
    <3>1. replies'[w] <= restarts'
      BY <1>1, <1>2, <2>1 DEF Answered
    <3>2. replies'[w] <= 1 + restarts'
      BY <1>2, <2>1, <3>1
    <3> QED BY <3>1, <3>2 DEF Answered
  <2> QED BY <2>8, <2>9, <2>10
<1> QED BY <1>3, <1>4, <1>5, <1>6, <1>7, <1>8, StepQueue

LEMMA EventsInit ==
  ASSUME Init
  PROVE  EventsInv
<1> SUFFICES ASSUME NEW w \in Works
             PROVE  Placed(w) /\ Single(w) /\ Answered(w)
  BY DEF EventsInv
<1>1. FreshState.queue = {} /\ disk = FreshState
  BY DEF Init, FreshState
<1>3. Item(1, "event", None).of # w /\ Item(2, "notice", None).of # w
  BY InputsAssumption DEF Item
<1>4. \A it \in st.queue : it.of # w
  BY <1>3, FirstItems
<1>5. About(st.queue, w) = {} /\ About(disk.queue, w) = {}
  BY <1>1, <1>4 DEF About
<1>6. /\ chan = <<>> /\ unsent = Inputs /\ restarts = 0 /\ replies[w] = 0
      /\ handled = {} /\ consumed = {} /\ lost = {}
  BY DEF Init
<1>7. InChannel = {} /\ DOMAIN chan = {}
  BY <1>6 DEF InChannel
<1> QED BY <1>5, <1>6, <1>7 DEF Placed, Single, Answered

\* The facts about events hold throughout.
LEMMA EventsKept == Spec => [](TypeInv /\ KindsInv /\ EventsInv)
<1>1. Init => TypeInv /\ KindsInv /\ EventsInv
  BY InitTyped, KindsInit, EventsInit
<1>2. TypeInv /\ KindsInv /\ EventsInv /\ [Next]_vars
        => TypeInv' /\ KindsInv' /\ EventsInv'
  BY StepTyped, KindsStep, EventsStep
<1> QED
  BY <1>1, <1>2, PTL DEF Spec

(***************************************************************************)
(* run, apply_event, apply_side_effects and run_daemon neither lose nor    *)
(* double an accepted event: whatever scripts, hooks, failed turns,        *)
(* shutdowns, crashes and restarts do, it is in exactly one of the channel,*)
(* the queue, and the ways an event may end.                               *)
(***************************************************************************)
THEOREM EventsInOnePlace == Spec => []ExactlyOnePlace
<1>1. EventsInv => ExactlyOnePlace
  <2> SUFFICES ASSUME EventsInv, NEW w \in Accepted
               PROVE  LET places == <<InChannel, Sources(st.queue), handled, consumed, lost>>
                      IN  /\ \E i \in 1..5 : w \in places[i]
                          /\ \A i, j \in 1..5 : w \in places[i] \cap places[j] => i = j
                          /\ \A it1, it2 \in st.queue : it1.of = w /\ it2.of = w => it1 = it2
    BY DEF ExactlyOnePlace
  <2> DEFINE places == <<InChannel, Sources(st.queue), handled, consumed, lost>>
  <2>1. w \in Works /\ w \in Inputs /\ w \notin unsent /\ Placed(w) /\ Single(w)
    BY DEF Accepted, EventsInv
  <2>2. w \in Sources(st.queue) <=> About(st.queue, w) # {}
    BY <2>1, SourcesAbout
  <2>3. /\ places[1] = InChannel /\ places[2] = Sources(st.queue)
        /\ places[3] = handled /\ places[4] = consumed /\ places[5] = lost
    OBVIOUS
  <2>4. \A i \in 1..5 : i = 1 \/ i = 2 \/ i = 3 \/ i = 4 \/ i = 5
    OBVIOUS
  <2>5. /\ w \in InChannel => w \notin Sources(st.queue) /\ w \notin handled
                              /\ w \notin consumed /\ w \notin lost
        /\ w \in Sources(st.queue) => w \notin handled /\ w \notin consumed /\ w \notin lost
        /\ w \in handled => w \notin consumed /\ w \notin lost
        /\ w \in consumed => w \notin lost
        /\ w \in InChannel \/ w \in Sources(st.queue) \/ w \in handled
           \/ w \in consumed \/ w \in lost
    BY <2>1, <2>2 DEF Placed
  <2> HIDE DEF places
  <2>6. \E i \in 1..5 : w \in places[i]
    <3>1. 1 \in 1..5 /\ 2 \in 1..5 /\ 3 \in 1..5 /\ 4 \in 1..5 /\ 5 \in 1..5
      OBVIOUS
    <3> QED BY <2>3, <2>5, <3>1, Zenon
  <2>7. \A i, j \in 1..5 : w \in places[i] \cap places[j] => i = j
    BY <2>3, <2>4, <2>5
  <2>8. \A it1, it2 \in st.queue : it1.of = w /\ it2.of = w => it1 = it2
    BY <2>1 DEF Single, About
  <2> QED BY <2>6, <2>7, <2>8 DEF places
<1> QED
  BY <1>1, EventsKept, PTL

(***************************************************************************)
(* A script's replies commit with the removal of the items they answer:    *)
(* however turns fail and the daemon restarts, an event is answered once   *)
(* at most in each life of the daemon.                                     *)
(***************************************************************************)
THEOREM AnsweredOnce == Spec => []AnsweredOncePerLife
<1>1. EventsInv => AnsweredOncePerLife
  BY DEF EventsInv, Answered, AnsweredOncePerLife
<1> QED
  BY <1>1, EventsKept, PTL

(***************************************************************************)
(* save_state replaces the row by a state that still queues every event    *)
(* the row held, except those that a committed script has removed since.   *)
(***************************************************************************)
THEOREM SavedEventsKept == Spec => SavedUntilHandled
<1>1. TypeInv /\ KindsInv /\ EventsInv /\ [Next]_vars
        => [\A w \in Works : w \in Sources(disk.queue) \ Sources(disk'.queue)
                                => w \in handled']_vars
  <2> SUFFICES ASSUME TypeInv, KindsInv, EventsInv, [Next]_vars, NEW w \in Works,
                      w \in Sources(disk.queue), w \notin Sources(disk'.queue)
               PROVE  w \in handled'
    OBVIOUS
  <2>1. disk' # disk
    OBVIOUS
  <2>2. QuietStep
    <3>1. ~Restart
      BY <2>1, Zenon DEF Restart
    <3> QED
      BY <2>1, <3>1, StepQueue
         DEF TriggerStep, ReceiveStep, CommandStep, TurnStep, Send
  <2>3. disk' = st /\ handled' = handled
    BY <2>1, <2>2 DEF QuietStep
  <2>4. About(disk.queue, w) # {} /\ About(st.queue, w) = {}
    BY <2>3, SourcesAbout
  <2> QED BY <2>3, <2>4 DEF EventsInv, Placed
<1> QED
  BY <1>1, EventsKept, PTL DEF Spec, SavedUntilHandled

-----------------------------------------------------------------------------
(***************************************************************************)
(* Ids are unique for an agent whose hooks do not raise.  (If one raises,  *)
(* push_item installs an id generator cloned before the HookException took *)
(* its id, and uniqueness is lost: run dupids.)                            *)
(*                                                                         *)
(* IdsUnique is not inductive: nothing in it keeps the next id out of what *)
(* is already named, nor says anything of the saved row that a restart     *)
(* brings back.  IdInv adds both.                                          *)
(***************************************************************************)
\* No two elements share an id.
Unique(S) == \A x, y \in S : x.id = y.id => x = y

\* No element of one set has an id of the other.
Apart(S, T) == \A x \in S, y \in T : x.id # y.id

\* The generator has passed the ids of the set.
Below(S, n) == \A x \in S : x.id \in Nat /\ x.id < n

\* Queue, history and timers of an agent whose next id is n
Named3(Q, H, T, n) ==
  /\ n \in Nat
  /\ Unique(Q) /\ Unique(H) /\ Unique(T)
  /\ Apart(Q, H) /\ Apart(Q, T) /\ Apart(H, T)
  /\ Below(Q, n) /\ Below(H, n) /\ Below(T, n)

Distinct(s, f) == Named3(s.queue \cup f, s.hist, s.timers, s.idc)

IdInv == Distinct(st, fired) /\ Distinct(disk, {})

-----------------------------------------------------------------------------
(* Changes of the three sets.                                              *)

\* Fewer elements, or ids left out
LEMMA Shrink ==
  ASSUME NEW Q, NEW H, NEW T, NEW n, Named3(Q, H, T, n),
         NEW Q2 \in SUBSET Q, NEW H2 \in SUBSET H, NEW T2 \in SUBSET T,
         NEW m \in Nat, n <= m
  PROVE  Named3(Q2, H2, T2, m)
<1> USE DEF Named3
<1>1. Unique(Q2) /\ Unique(H2) /\ Unique(T2)
  BY DEF Unique
<1>2. Apart(Q2, H2) /\ Apart(Q2, T2) /\ Apart(H2, T2)
  BY DEF Apart
<1>3. Below(Q2, m) /\ Below(H2, m) /\ Below(T2, m)
  BY DEF Below
<1> QED
  BY <1>1, <1>2, <1>3

\* A new element takes the next id.
LEMMA UniqueAdd ==
  ASSUME NEW S, NEW n \in Nat, Unique(S), Below(S, n), NEW x, x.id = n
  PROVE  Unique(S \cup {x}) /\ Below(S \cup {x}, n + 1)
BY DEF Unique, Below

LEMMA ApartAdd ==
  ASSUME NEW S, NEW T, NEW n \in Nat, Apart(S, T), Below(T, n), NEW x, x.id = n
  PROVE  Apart(S \cup {x}, T) /\ Apart(T, S \cup {x})
BY DEF Apart, Below

LEMMA ApartSym == ASSUME NEW S, NEW T, Apart(S, T) PROVE Apart(T, S)
BY DEF Apart

LEMMA BelowNext ==
  ASSUME NEW S, NEW n \in Nat, Below(S, n)
  PROVE  Below(S, n + 1)
BY DEF Below

LEMMA Add ==
  ASSUME NEW Q, NEW H, NEW T, NEW n, Named3(Q, H, T, n), NEW x, x.id = n
  PROVE  /\ Named3(Q \cup {x}, H, T, n + 1)
         /\ Named3(Q, H \cup {x}, T, n + 1)
         /\ Named3(Q, H, T \cup {x}, n + 1)
<1>1. n \in Nat /\ n + 1 \in Nat
  BY DEF Named3
<1>2. Below(Q, n + 1) /\ Below(H, n + 1) /\ Below(T, n + 1)
  BY <1>1, BelowNext DEF Named3
<1>3. /\ Unique(Q \cup {x}) /\ Below(Q \cup {x}, n + 1)
      /\ Unique(H \cup {x}) /\ Below(H \cup {x}, n + 1)
      /\ Unique(T \cup {x}) /\ Below(T \cup {x}, n + 1)
  BY <1>1, UniqueAdd DEF Named3
<1>4. Apart(Q \cup {x}, H) /\ Apart(Q \cup {x}, T)
  BY <1>1, ApartAdd DEF Named3
<1>5. Apart(Q, H \cup {x}) /\ Apart(H \cup {x}, T)
  BY <1>1, ApartAdd, ApartSym DEF Named3
<1>6. Apart(Q, T \cup {x}) /\ Apart(H, T \cup {x})
  BY <1>1, ApartAdd, ApartSym DEF Named3
<1> QED
  BY <1>1, <1>2, <1>3, <1>4, <1>5, <1>6 DEF Named3

\* Elements rewritten in place keep their ids.
LEMMA Rewrite ==
  ASSUME NEW S, Unique(S), NEW f, \A x \in S : f[x].id = x.id,
         NEW S2, \A y \in S2 : \E x \in S : y = f[x]
  PROVE  Unique(S2) /\ \A y \in S2 : \E x \in S : x.id = y.id
<1>1. \A y \in S2 : \E x \in S : x.id = y.id
  OBVIOUS
<1>2. ASSUME NEW y \in S2, NEW z \in S2, y.id = z.id PROVE y = z
  <2>1. PICK x \in S : y = f[x]
    OBVIOUS
  <2>2. PICK w \in S : z = f[w]
    OBVIOUS
  <2>3. x = w
    BY <1>2, <2>1, <2>2 DEF Unique
  <2> QED
    BY <2>1, <2>2, <2>3
<1> QED
  BY <1>1, <1>2 DEF Unique

LEMMA Replace ==
  ASSUME NEW Q, NEW H, NEW T, NEW n, Named3(Q, H, T, n),
         NEW S, Unique(S)
  PROVE  /\ (\A y \in S : \E x \in H : x.id = y.id) => Named3(Q, S, T, n)
         /\ (\A y \in S : \E x \in T : x.id = y.id) => Named3(Q, H, S, n)
<1> USE DEF Named3
<1>1. ASSUME \A y \in S : \E x \in H : x.id = y.id
      PROVE  Apart(Q, S) /\ Apart(S, T) /\ Below(S, n)
  BY <1>1 DEF Apart, Below
<1>2. ASSUME \A y \in S : \E x \in T : x.id = y.id
      PROVE  Apart(Q, S) /\ Apart(H, S) /\ Below(S, n)
  BY <1>2 DEF Apart, Below
<1> QED
  BY <1>1, <1>2

-----------------------------------------------------------------------------
(* The operators of the model keep ids distinct.                           *)

\* push_item with hooks that do not raise, for an item not in the rest f
LEMMA PushIds ==
  ASSUME NEW s, Sane(s), NEW f, NEW item, Distinct(s, f \cup {item}),
         NEW h \in HookRunType, h.out # "failed"
  PROVE  Distinct(PushItem(s, item, h), f)
<1> DEFINE t == PushItem(s, item, h)
<1>1. h.out \in {"nomatch", "consumed", "passed"} /\ h.ids \in Nat
  BY DEF HookRunType
<1>2. s.idc \in Nat
  BY DEF Sane, StateType
<1>3. /\ t.queue \subseteq s.queue \cup {item}
      /\ t.hist = s.hist /\ t.timers = s.timers
      /\ t.idc \in Nat /\ s.idc <= t.idc
  <2>1. CASE ~s.hooked \/ h.out = "nomatch"
    BY <1>2, <2>1 DEF PushItem, Sane, StateType
  <2>2. CASE s.hooked /\ h.out = "consumed"
    BY <1>1, <1>2, <2>2 DEF PushItem, Sane, StateType
  <2>3. CASE s.hooked /\ h.out = "passed"
    BY <1>1, <1>2, <2>3 DEF PushItem, Sane, StateType
  <2> QED
    BY <1>1, <2>1, <2>2, <2>3 DEF Sane, StateType
<1> HIDE DEF t
<1>4. t.queue \cup f \subseteq s.queue \cup (f \cup {item})
  BY <1>3
<1> QED
  BY <1>3, <1>4, Shrink DEF Distinct, t

\* id_gen.next, for an item about to be pushed
LEMMA NextIds ==
  ASSUME NEW s, Sane(s), NEW f, Distinct(s, f), NEW type, NEW of
  PROVE  Distinct([s EXCEPT !.idc = s.idc + 1], f \cup {Item(s.idc, type, of)})
<1> DEFINE item == Item(s.idc, type, of)
           t == [s EXCEPT !.idc = s.idc + 1]
<1>1. item.id = s.idc
  BY DEF Item
<1>2. t.queue = s.queue /\ t.hist = s.hist /\ t.timers = s.timers /\ t.idc = s.idc + 1
  BY DEF Sane, StateType
<1> HIDE DEF item, t
<1>3. Named3((s.queue \cup f) \cup {item}, s.hist, s.timers, s.idc + 1)
  BY <1>1, Add DEF Distinct
<1>4. (s.queue \cup f) \cup {item} = t.queue \cup (f \cup {item})
  BY <1>2
<1>5. Distinct(t, f \cup {item})
  BY <1>2, <1>3, <1>4 DEF Distinct
<1> QED
  BY <1>5 DEF item, t

\* The firing of each timer has its own id, because timers have theirs.
LEMMA FiringIds ==
  ASSUME now \in Nat, NEW s, Sane(s), Distinct(s, {})
  PROVE  Distinct(AfterFiring(s), Firings(s))
<1> DEFINE due == Due(s)
           before(t) == {u \in due : u.id < t.id}
           n == s.idc
           k == Cardinality(due)
           after == (s.timers \ due) \cup
                    {[t EXCEPT !.pending = TRUE] : t \in {u \in due : u.every}}
<1>1. /\ due \subseteq s.timers /\ s.timers \subseteq TimerType /\ n \in Nat
      /\ IsFiniteSet(s.timers)
  BY DEF Due, Sane, StateType
<1>2. IsFiniteSet(due) /\ k \in Nat
  BY <1>1, FS_Subset, FS_CardinalityType
<1>3. \A t \in due : t.id \in Nat
  BY <1>1 DEF TimerType
<1>4. \A t, u \in due : t.id = u.id => t = u
  BY <1>1 DEF Distinct, Named3, Unique
<1> HIDE DEF due
<1>5. ASSUME NEW t \in due
      PROVE  Cardinality(before(t)) \in Nat /\ Cardinality(before(t)) < k
  <2>1. before(t) \subseteq due /\ before(t) # due
    BY <1>3
  <2>2. IsFiniteSet(before(t)) /\ Cardinality(before(t)) \in Nat
    BY <1>2, <2>1, FS_Subset, FS_CardinalityType
  <2>3. Cardinality(before(t)) <= k /\ (Cardinality(before(t)) = k => before(t) = due)
    BY <1>2, <2>1, FS_Subset
  <2> QED
    BY <1>2, <2>1, <2>2, <2>3
<1>6. ASSUME NEW t \in due, NEW u \in due, t.id < u.id
      PROVE  Cardinality(before(t)) < Cardinality(before(u))
  <2>1. before(t) \subseteq before(u) /\ t \in before(u) /\ t \notin before(t)
    BY <1>3, <1>6
  <2>2. IsFiniteSet(before(u))
    <3>1. before(u) \subseteq due
      OBVIOUS
    <3> QED
      BY <1>2, <3>1, FS_Subset
  <2>3. /\ Cardinality(before(t)) <= Cardinality(before(u))
        /\ Cardinality(before(t)) = Cardinality(before(u)) => before(t) = before(u)
    BY <2>1, <2>2, FS_Subset
  <2>4. Cardinality(before(t)) \in Nat /\ Cardinality(before(u)) \in Nat
    BY <1>5
  <2> QED
    BY <2>1, <2>3, <2>4
<1>7. \A it \in Firings(s) : \E t \in due :
        it = Item(n + Cardinality(before(t)), "timer", t.id)
  BY DEF Firings, due
<1>8. \A it \in Firings(s) : \E t \in due :
        it = Item(n + Cardinality(before(t)), "timer", t.id)
          /\ it.id = n + Cardinality(before(t))
  BY <1>7 DEF Item
<1> HIDE DEF before, n, k
<1>9. \A it \in Firings(s) : it.id \in Nat /\ n <= it.id /\ it.id < n + k
  <2> TAKE it \in Firings(s)
  <2>1. PICK t \in due : it.id = n + Cardinality(before(t))
    BY <1>8
  <2> QED
    BY <1>1, <1>2, <1>5, <2>1
<1>10. Unique(Firings(s))
  <2> SUFFICES ASSUME NEW x \in Firings(s), NEW y \in Firings(s), x.id = y.id
               PROVE  x = y
    BY DEF Unique
  <2>1. PICK t \in due : /\ x = Item(n + Cardinality(before(t)), "timer", t.id)
                         /\ x.id = n + Cardinality(before(t))
    BY <1>8
  <2>2. PICK u \in due : /\ y = Item(n + Cardinality(before(u)), "timer", u.id)
                         /\ y.id = n + Cardinality(before(u))
    BY <1>8
  <2>3. Cardinality(before(t)) = Cardinality(before(u))
    BY <1>1, <1>5, <2>1, <2>2
  <2>4. ~(t.id < u.id) /\ ~(u.id < t.id)
    BY <1>5, <1>6, <2>3
  <2>5. t = u
    BY <1>3, <1>4, <2>4
  <2> QED
    BY <2>1, <2>2, <2>5
<1>11. /\ AfterFiring(s).queue = s.queue /\ AfterFiring(s).hist = s.hist
       /\ AfterFiring(s).timers = after /\ AfterFiring(s).idc = n + k
  BY DEF AfterFiring, Sane, StateType, due, n, k
<1>12. Named3(s.queue, s.hist, after, n)
  <2> DEFINE g == [t \in s.timers |-> IF t \in due /\ t.every
                                       THEN [t EXCEPT !.pending = TRUE] ELSE t]
  <2>2. \A t \in s.timers : g[t].id = t.id
    BY <1>1 DEF TimerType
  <2>3. \A y \in after : \E t \in s.timers : y = g[t]
    BY <1>1
  <2> HIDE DEF g, after
  <2>4. Named3(s.queue, s.hist, s.timers, n)
    <3>1. s.queue \cup {} = s.queue
      OBVIOUS
    <3> QED
      BY <3>1 DEF Distinct, n
  <2>5. Unique(s.timers)
    BY <2>4 DEF Named3
  <2>6. Unique(after) /\ \A y \in after : \E x \in s.timers : x.id = y.id
    BY <2>2, <2>3, <2>5, Rewrite
  <2> QED
    BY <2>4, <2>6, Replace
<1> HIDE DEF after
<1>13. Named3(s.queue \cup Firings(s), s.hist, after, n + k)
  <2>1. Unique(s.queue \cup Firings(s))
    BY <1>1, <1>9, <1>10, <1>12 DEF Named3, Unique, Below
  <2>2. Apart(s.queue \cup Firings(s), s.hist) /\ Apart(s.queue \cup Firings(s), after)
    BY <1>1, <1>9, <1>12 DEF Named3, Apart, Below
  <2>3. Below(s.queue \cup Firings(s), n + k)
    BY <1>1, <1>2, <1>9, <1>12 DEF Named3, Below
  <2>4. Below(s.hist, n + k) /\ Below(after, n + k)
    BY <1>1, <1>2, <1>12 DEF Named3, Below
  <2>5. n + k \in Nat
    BY <1>1, <1>2
  <2> QED
    BY <1>12, <2>1, <2>2, <2>3, <2>4, <2>5 DEF Named3
<1> QED
  BY <1>11, <1>13 DEF Distinct

\* An element more in the queue or the history, with the next id
LEMMA AddsIds ==
  ASSUME NEW s, Sane(s), NEW f, Distinct(s, f)
  PROVE  /\ Distinct(TriggerCompaction(s), f) /\ Distinct(FlushTelemetry(s), f)
         /\ Distinct(CompactFailed(s), f)
         /\ \A t \in HooksCommand(s) : Distinct(t, f)
         /\ Distinct([s EXCEPT !.queue = s.queue \cup {Item(s.idc, "startup", None)},
                               !.idc = s.idc + 1], f)
<1> DEFINE e(type) == Entry(s.idc, type)
           i(type) == Item(s.idc, type, None)
<1>1. \A type : e(type).id = s.idc /\ i(type).id = s.idc
  BY DEF Item, Entry
<1>2. s.idc \in Nat /\ s.idc + 1 \in Nat /\ s.idc <= s.idc + 1
  BY DEF Sane, StateType
<1>3. Named3(s.queue \cup f, s.hist, s.timers, s.idc)
  BY DEF Distinct
<1>4. ASSUME NEW type
      PROVE  /\ Named3((s.queue \cup {i(type)}) \cup f, s.hist, s.timers, s.idc + 1)
             /\ Named3(s.queue \cup f, s.hist \cup {e(type)}, s.timers, s.idc + 1)
  <2> HIDE DEF e, i
  <2>1. Named3((s.queue \cup f) \cup {i(type)}, s.hist, s.timers, s.idc + 1)
    BY <1>1, <1>3, Add
  <2>2. (s.queue \cup f) \cup {i(type)} = (s.queue \cup {i(type)}) \cup f
    OBVIOUS
  <2>3. Named3(s.queue \cup f, s.hist \cup {e(type)}, s.timers, s.idc + 1)
    BY <1>1, <1>3, Add
  <2> QED
    BY <2>1, <2>2, <2>3
<1>5. Named3(s.queue \cup f, s.hist, s.timers, s.idc + 1)
  BY <1>2, <1>3, Shrink
<1>6. Distinct(TriggerCompaction(s), f)
  BY <1>4 DEF Distinct, TriggerCompaction, Sane, StateType
<1>7. Distinct(FlushTelemetry(s), f)
  BY <1>4 DEF Distinct, FlushTelemetry, Sane, StateType
<1>8. Distinct(CompactFailed(s), f)
  BY <1>4 DEF Distinct, CompactFailed, Sane, StateType
<1>9. \A t \in HooksCommand(s) : Distinct(t, f)
  <2> TAKE t \in HooksCommand(s)
  <2>1. t.queue = s.queue /\ t.hist = s.hist /\ t.timers = s.timers /\ t.idc = s.idc + 1
    BY DEF HooksCommand, Sane, StateType
  <2> QED
    BY <1>5, <2>1 DEF Distinct
<1>10. Distinct([s EXCEPT !.queue = s.queue \cup {Item(s.idc, "startup", None)},
                          !.idc = s.idc + 1], f)
  BY <1>4 DEF Distinct, Sane, StateType
<1> QED
  BY <1>6, <1>7, <1>8, <1>9, <1>10

\* A history entry that is replaced by a description keeps its id.
LEMMA EditedIds ==
  ASSUME NEW hist \in SUBSET EntryType, Unique(hist), NEW entries \in SUBSET hist,
         NEW new \in Edited(hist, entries)
  PROVE  Unique(new) /\ \A y \in new : \E x \in hist : x.id = y.id
<1>1. PICK gone \in SUBSET entries : \E told \in SUBSET (entries \ gone) :
        new = (hist \ (gone \cup told)) \cup {Entry(e.id, "summary") : e \in told}
  BY DEF Edited
<1>2. PICK told \in SUBSET (entries \ gone) :
        new = (hist \ (gone \cup told)) \cup {Entry(e.id, "summary") : e \in told}
  BY <1>1
<1> DEFINE g == [e \in hist |-> IF e \in told THEN Entry(e.id, "summary") ELSE e]
<1>3. \A e \in hist : g[e].id = e.id
  BY DEF Entry
<1>4. \A y \in new : \E e \in hist : y = g[e]
  BY <1>2
<1> HIDE DEF g
<1> QED
  BY <1>3, <1>4, Rewrite

LEMMA CompactedIds ==
  ASSUME NEW s, Sane(s), NEW f, Distinct(s, f), NEW new \in Edited(s.hist, s.hist)
  PROVE  Distinct(Compacted(s, new), f)
<1> DEFINE e == Entry(s.idc, "summary")
           queue == s.queue \ Compactions(s.queue)
<1>1. e.id = s.idc
  BY DEF Entry
<1>2. Named3(s.queue \cup f, s.hist, s.timers, s.idc) /\ s.idc \in Nat
  BY DEF Distinct, Named3
<1>3. Unique(new) /\ \A y \in new : \E x \in s.hist : x.id = y.id
  <2>1. s.hist \in SUBSET EntryType /\ Unique(s.hist)
    BY <1>2 DEF Sane, StateType, Named3
  <2> QED
    BY <2>1, EditedIds
<1>4. Named3(s.queue \cup f, new, s.timers, s.idc)
  BY <1>2, <1>3, Replace
<1> HIDE DEF e
<1>5. Named3(s.queue \cup f, new \cup {e}, s.timers, s.idc + 1)
  BY <1>1, <1>4, Add
<1>6. Named3(queue \cup f, new \cup {e}, s.timers, s.idc + 1)
  <2>1. queue \cup f \subseteq s.queue \cup f
    OBVIOUS
  <2>2. s.idc + 1 \in Nat /\ s.idc + 1 <= s.idc + 1
    BY <1>2
  <2> HIDE DEF queue
  <2> QED
    BY <1>5, <2>1, <2>2, Shrink
<1>7. /\ Compacted(s, new).queue = queue /\ Compacted(s, new).hist = new \cup {e}
      /\ Compacted(s, new).timers = s.timers /\ Compacted(s, new).idc = s.idc + 1
  BY DEF Compacted, Sane, StateType, e
<1> HIDE DEF queue
<1> QED
  BY <1>6, <1>7 DEF Distinct

\* The script's clone: items removed, entries edited, a timer and an entry added
LEMMA CommitIds ==
  ASSUME now \in Nat, NEW s, Sane(s), NEW f, Distinct(s, f), NEW sc \in ScriptType,
         NEW left \in SUBSET s.queue, NEW entries \in SUBSET s.hist,
         NEW hist \in Edited(s.hist, entries) \cup {s.hist}
  PROVE  Distinct(Commit(s, sc, left, hist), f)
<1> DEFINE acked == IF sc.acks
                    THEN {t \in s.timers : t.every /\ t.id \in Sources(s.queue \ left)}
                    ELSE {}
           kept == (s.timers \ acked) \cup {Acknowledge(t) : t \in acked}
           new == [id |-> s.idc, every |-> sc.timer = "every", at |-> now + Period,
                   pending |-> FALSE]
           c == Commit(s, sc, left, hist)
<1>1. Named3(s.queue \cup f, s.hist, s.timers, s.idc) /\ s.idc \in Nat
  BY DEF Distinct, Named3
<1>2. s.hist \in SUBSET EntryType /\ s.timers \subseteq TimerType
  BY DEF Sane, StateType
<1>3. Unique(hist) /\ \A y \in hist : \E x \in s.hist : x.id = y.id
  <2>1. Unique(s.hist)
    BY <1>1 DEF Named3
  <2>2. CASE hist = s.hist
    BY <2>1, <2>2
  <2>3. CASE hist \in Edited(s.hist, entries)
    BY <1>2, <2>1, <2>3, EditedIds
  <2> QED
    BY <2>2, <2>3
<1>4. Named3(left \cup f, hist, s.timers, s.idc)
  <2>1. Named3(s.queue \cup f, hist, s.timers, s.idc)
    BY <1>1, <1>3, Replace
  <2>2. left \cup f \subseteq s.queue \cup f /\ s.idc <= s.idc
    BY <1>1
  <2> QED
    BY <1>1, <2>1, <2>2, Shrink
<1>5. Unique(kept) /\ \A y \in kept : \E x \in s.timers : x.id = y.id
  <2> DEFINE g == [t \in s.timers |-> IF t \in acked THEN Acknowledge(t) ELSE t]
  <2>1. acked \subseteq s.timers
    OBVIOUS
  <2> HIDE DEF acked
  <2>2. \A t \in s.timers : g[t].id = t.id
    BY <1>2 DEF Acknowledge, TimerType
  <2>3. \A y \in kept : \E t \in s.timers : y = g[t]
    BY <2>1
  <2>4. Unique(s.timers)
    BY <1>1 DEF Named3
  <2> HIDE DEF g, kept
  <2> QED
    BY <2>2, <2>3, <2>4, Rewrite
<1>6. sc.timer \in {"keep", "once", "every", "cancel"}
  BY DEF ScriptType
<1>7. /\ c.queue = left /\ c.hist = hist \cup Added(s, sc)
      /\ c.timers = TimersAfter(s, sc, s.queue \ left)
      /\ c.idc = s.idc + IdsTaken(sc)
  BY DEF Commit, Sane, StateType
<1>8. /\ sc.timer = "keep" => TimersAfter(s, sc, s.queue \ left) = kept
      /\ sc.timer = "cancel" => TimersAfter(s, sc, s.queue \ left) = {}
      /\ sc.timer \in {"once", "every"}
           => TimersAfter(s, sc, s.queue \ left) = kept \cup {new}
  BY DEF TimersAfter
<1>9. new.id = s.idc
  OBVIOUS
<1> HIDE DEF kept, new, c
<1>10. Named3(left \cup f, hist, kept, s.idc)
  BY <1>4, <1>5, Replace
<1>11. Named3(left \cup f, hist, {}, s.idc)
  <2>1. s.idc <= s.idc
    BY <1>1
  <2> QED
    BY <1>1, <1>4, <2>1, Shrink
<1>12. Named3(left \cup f, hist, kept \cup {new}, s.idc + 1)
  BY <1>9, <1>10, Add
<1> DEFINE T == TimersAfter(s, sc, s.queue \ left)
           m == s.idc + TimerIds(sc)
<1>13. Named3(left \cup f, hist, T, m) /\ m \in Nat
  <2>1. /\ sc.timer \in {"once", "every"} => m = s.idc + 1
        /\ sc.timer \in {"keep", "cancel"} => m = s.idc
    BY <1>1, IdsTakenTyped
  <2> HIDE DEF m
  <2>2. CASE sc.timer = "keep"
    BY <1>1, <1>8, <1>10, <2>1, <2>2
  <2>3. CASE sc.timer = "cancel"
    BY <1>1, <1>8, <1>11, <2>1, <2>3
  <2>4. CASE sc.timer \in {"once", "every"}
    <3>1. m = s.idc + 1 /\ T = kept \cup {new}
      BY <1>8, <2>1, <2>4
    <3>2. m \in Nat
      BY <1>1, <3>1
    <3> HIDE DEF T
    <3> QED BY <1>12, <3>1, <3>2
  <2> QED
    BY <1>6, <2>2, <2>3, <2>4
<1>14. /\ s.idc + IdsTaken(sc) \in Nat /\ m <= s.idc + IdsTaken(sc)
       /\ sc.adds => m + 1 <= s.idc + IdsTaken(sc)
  BY <1>1, IdsTakenTyped
<1>15. /\ sc.adds => Added(s, sc) = {Entry(m, "summary")}
       /\ ~sc.adds => Added(s, sc) = {}
  BY DEF Added
<1>16. Entry(m, "summary").id = m
  BY DEF Entry
<1> HIDE DEF T, m
<1>17. Named3(left \cup f, hist \cup Added(s, sc), T, s.idc + IdsTaken(sc))
  <2>1. CASE sc.adds
    <3>1. Named3(left \cup f, hist \cup {Entry(m, "summary")}, T, m + 1)
      BY <1>13, <1>16, Add
    <3> QED BY <1>14, <1>15, <2>1, <3>1, Shrink
  <2>2. CASE ~sc.adds
    <3>1. hist \cup Added(s, sc) = hist
      BY <1>15, <2>2
    <3> QED BY <1>13, <1>14, <3>1, Shrink
  <2> QED BY <2>1, <2>2
<1>18. Distinct(c, f)
  BY <1>7, <1>17 DEF Distinct, T
<1> QED
  BY <1>18 DEF c

-----------------------------------------------------------------------------
(* Every step keeps ids distinct.                                          *)

\* No registered hook raises.
HooksDoNotRaise == \A h \in HookRuns : h.out # "failed"

LEMMA ReceiveIds ==
  ASSUME HooksDoNotRaise, TypeInv, Distinct(st, fired), Receive
  PROVE  Distinct(st', fired)
<1>1. PICK h \in HookRuns : ApplyEvent(Head(chan), h)
  BY DEF Receive
<1>2. Sane(st)
  BY DEF TypeInv, TypeOK, FiniteTimers, Sane
<1>3. h \in HookRunType /\ h.out # "failed"
  BY HookRunsAssumption DEF HooksDoNotRaise
<1>4. CASE Head(chan) = KillSignal
  <2>1. st' = st
    BY <1>1, <1>4, InputsAssumption DEF ApplyEvent
  <2> QED
    BY <2>1, Zenon
<1>5. CASE Head(chan) = HooksMessage
  <2>1. st' \in HooksCommand(st)
    BY <1>1, <1>5, InputsAssumption DEF ApplyEvent
  <2> QED
    BY <1>2, <2>1, AddsIds
<1>6. CASE Head(chan) \notin {KillSignal, HooksMessage}
  <2> DEFINE item == Item(st.idc, "event", Head(chan))
             s == [st EXCEPT !.idc = st.idc + 1]
  <2>1. st' = PushItem(s, item, h)
    BY <1>1, <1>6 DEF ApplyEvent
  <2>2. Sane(s) /\ Distinct(s, fired \cup {item})
    BY <1>2, NextIdTyped, NextIds
  <2> HIDE DEF item, s
  <2> QED
    BY <1>3, <2>1, <2>2, PushIds
<1> QED
  BY <1>4, <1>5, <1>6

LEMMA CommitTurnIds ==
  ASSUME HooksDoNotRaise, TypeInv, Distinct(st, fired),
         NEW sc \in Scripts, NEW over \in BOOLEAN, NEW h \in HookRuns,
         NEW left \in Leaves(sc), NEW hist \in Histories(sc),
         CommitTurn(sc, left, hist, over, h)
  PROVE  Distinct(st', fired)
<1>1. sc \in ScriptType /\ h \in HookRunType /\ h.out # "failed"
  BY ScriptsAssumption, HookRunsAssumption DEF HooksDoNotRaise
<1>2. Sane(st) /\ now \in Nat
  BY DEF TypeInv, TypeOK, FiniteTimers, Sane
<1>3. left \in SUBSET st.queue
  <2>1. sc.pops \in {"none", "all", "any"}
    BY <1>1 DEF ScriptType
  <2> QED
    BY <2>1 DEF Leaves
<1>4. Modifiable \in SUBSET st.hist /\ hist \in Edited(st.hist, Modifiable) \cup {st.hist}
  BY DEF Modifiable, Histories
<1> DEFINE s0 == [st EXCEPT !.over = over]
           s1 == Commit(s0, sc, left, hist)
           s2 == Notice(s1, sc, h)
           s3 == IF Requested(sc) THEN TriggerCompaction(s2) ELSE s2
<1>5. /\ s0.queue = st.queue /\ s0.hist = st.hist
      /\ s0.timers = st.timers /\ s0.idc = st.idc
  BY <1>2 DEF Sane, StateType
<1>6. Sane(s0) /\ Distinct(s0, fired)
  <2>1. s0 \in StateType
    BY <1>2 DEF Sane, StateType
  <2> HIDE DEF s0
  <2> QED
    BY <1>2, <1>5, <2>1 DEF Sane, Distinct
<1>7. Sane(s1) /\ Distinct(s1, fired)
  <2> HIDE DEF s0
  <2>1. s0.queue \subseteq ItemType /\ s0.hist \subseteq EntryType
    BY <1>6 DEF Sane, StateType
  <2>2. hist \in SUBSET EntryType
    <3>1. Edited(st.hist, Modifiable) \subseteq SUBSET EntryType
      BY <1>4, <1>5, <2>1, EditedTyped
    <3> QED
      BY <1>4, <1>5, <2>1, <3>1
  <2>3. left \in SUBSET ItemType
    BY <1>3, <1>5, <2>1
  <2>4. Sane(s1)
    BY <1>1, <1>2, <1>6, <2>2, <2>3, CommitTyped
  <2>5. left \in SUBSET s0.queue /\ Modifiable \in SUBSET s0.hist
        /\ hist \in Edited(s0.hist, Modifiable) \cup {s0.hist}
    BY <1>3, <1>4, <1>5
  <2>6. Distinct(s1, fired)
    BY <1>1, <1>2, <1>6, <2>5, CommitIds
  <2> QED
    BY <2>4, <2>6
<1>8. Sane(s2) /\ Distinct(s2, fired)
  <2> HIDE DEF s1
  <2>1. Sane(s2)
    BY <1>1, <1>7, NoticeTyped
  <2>2. CASE sc.notice
    <3> DEFINE item == Item(s1.idc, "notice", None)
               t == [s1 EXCEPT !.idc = s1.idc + 1]
    <3>1. s2 = PushItem(t, item, h)
      BY <2>2 DEF Notice
    <3>2. Sane(t) /\ Distinct(t, fired \cup {item})
      BY <1>7, NextIdTyped, NextIds
    <3> HIDE DEF t, item
    <3> QED
      BY <1>1, <2>1, <3>1, <3>2, PushIds
  <2>3. CASE ~sc.notice
    BY <1>7, <2>1, <2>3 DEF Notice
  <2> QED
    BY <2>2, <2>3
<1>9. Sane(s3) /\ Distinct(s3, fired)
  <2> HIDE DEF s2
  <2>1. Sane(TriggerCompaction(s2)) /\ Distinct(TriggerCompaction(s2), fired)
    BY <1>8, AddsTyped, AddsIds
  <2> QED
    BY <1>8, <2>1
<1>10. FinishEffects(s2, sc)
  BY DEF CommitTurn
<1>11. \/ st' = CompactFailed(s3)
       \/ \E kept \in Edited(s3.hist, s3.hist) : st' = Compacted(s3, kept)
       \/ st' = s3
  <2> HIDE DEF s2
  <2> QED
    BY <1>10 DEF FinishEffects
<1> HIDE DEF s3
<1> QED
  BY <1>9, <1>11, AddsIds, CompactedIds

LEMMA StepIds ==
  ASSUME HooksDoNotRaise, TypeInv, IdInv, [Next]_vars
  PROVE  IdInv'
<1>1. Sane(st) /\ Sane(disk)
  BY DEF TypeInv, TypeOK, FiniteTimers, Sane
<1>2. Distinct(st, fired) /\ Distinct(disk, {})
  BY DEF IdInv
<1>3. Distinct(st, {})
  <2>1. st.queue \cup {} \subseteq st.queue \cup fired /\ st.idc \in Nat /\ st.idc <= st.idc
    BY <1>2 DEF Distinct, Named3
  <2> QED
    BY <1>2, <2>1, Shrink DEF Distinct
<1>4. SUFFICES Distinct(st', fired') /\ Distinct(disk', {})
  BY DEF IdInv
<1>5. CASE Drain \/ IdleReceive \/ DeferredDrain
  <2>1. Receive /\ disk' = disk /\ fired' = fired
    BY <1>5 DEF Drain, IdleReceive, DeferredDrain, Receive
  <2>2. Distinct(st', fired)
    BY <1>2, <2>1, ReceiveIds
  <2> QED
    BY <1>2, <2>1, <2>2, Zenon
<1>6. CASE CheckTimers \/ IdleTimer
  <2>1. st' = AfterFiring(st) /\ fired' = Firings(st) /\ disk' = disk /\ now \in Nat
    BY <1>6 DEF CheckTimers, IdleTimer, TypeInv, TypeOK
  <2>2. Distinct(AfterFiring(st), Firings(st))
    BY <1>1, <1>3, <2>1, FiringIds
  <2> QED
    BY <1>2, <2>1, <2>2, Zenon
<1>7. CASE PushFired
  <2>1. PICK item \in fired, h \in HookRuns :
          st' = PushItem(st, item, h) /\ fired' = fired \ {item}
    BY <1>7 DEF PushFired
  <2>2. h \in HookRunType /\ h.out # "failed"
    BY HookRunsAssumption DEF HooksDoNotRaise
  <2>3. fired' \cup {item} = fired
    BY <2>1
  <2>4. Distinct(PushItem(st, item, h), fired')
    BY <1>1, <1>2, <2>2, <2>3, PushIds
  <2>5. disk' = disk
    BY <1>7 DEF PushFired
  <2> QED
    BY <1>2, <2>1, <2>4, <2>5, Zenon
<1>8. CASE Gate
  <2> DEFINE s1 == IF Triggers THEN TriggerCompaction(st) ELSE st
  <2>1. Sane(s1) /\ Distinct(s1, fired)
    <3>1. Sane(TriggerCompaction(st)) /\ Distinct(TriggerCompaction(st), fired)
      BY <1>1, <1>2, AddsTyped, AddsIds
    <3> QED
      BY <1>1, <1>2, <3>1
  <2>2. st' \in {FlushTelemetry(s1), s1} /\ disk' = disk /\ fired' = fired
    BY <1>8 DEF Gate
  <2> HIDE DEF s1
  <2>3. Distinct(FlushTelemetry(s1), fired)
    BY <2>1, AddsIds
  <2>4. Distinct(st', fired)
    BY <2>1, <2>2, <2>3
  <2> QED
    BY <1>2, <2>2, <2>4, Zenon
<1>9. CASE FailedScript
  <2>1. PICK over \in BOOLEAN : st' = [st EXCEPT !.over = over]
    BY <1>9 DEF FailedScript
  <2>2. /\ st'.queue = st.queue /\ st'.hist = st.hist
        /\ st'.timers = st.timers /\ st'.idc = st.idc
    BY <1>1, <2>1 DEF Sane, StateType
  <2>3. Distinct(st', fired)
    BY <1>2, <2>2 DEF Distinct
  <2>4. disk' = disk /\ fired' = fired
    BY <1>9 DEF FailedScript
  <2> QED
    BY <1>2, <2>3, <2>4, Zenon
<1>10. CASE AppliedScript
  <2>1. PICK sc \in Scripts, over \in BOOLEAN, h \in HookRuns :
          \E left \in Leaves(sc), hist \in Histories(sc) :
            CommitTurn(sc, left, hist, over, h)
    BY <1>10 DEF AppliedScript
  <2>2. Distinct(st', fired)
    BY <1>2, <2>1, CommitTurnIds
  <2>3. disk' = disk /\ fired' = fired
    BY <1>10 DEF AppliedScript
  <2> QED
    BY <1>2, <2>2, <2>3, Zenon
<1>11. CASE Record
  <2>1. st' = CompactFailed(st) /\ disk' = disk /\ fired' = fired
    BY <1>11 DEF Record, CompactFailed
  <2>2. Distinct(CompactFailed(st), fired)
    BY <1>1, <1>2, AddsIds
  <2> QED
    BY <1>2, <2>1, <2>2, Zenon
<1>12. CASE Save \/ Exit
  <2>1. st' = st /\ fired' = fired /\ disk' \in {st, disk}
    BY <1>12 DEF Save, Exit
  <2>2. Distinct(disk', {})
    BY <1>2, <1>3, <2>1
  <2> QED
    BY <1>2, <2>1, <2>2, Zenon
<1>13. CASE Restart
  <2> DEFINE s == [disk EXCEPT !.queue = disk.queue \cup {Item(disk.idc, "startup", None)},
                               !.idc = disk.idc + 1]
  <2>1. st' = s /\ fired' = {} /\ disk' = disk
    BY <1>13 DEF Restart
  <2>2. Distinct(s, {})
    BY <1>1, <1>2, AddsIds
  <2> HIDE DEF s
  <2> QED
    BY <1>2, <2>1, <2>2, Zenon
<1>14. CASE \/ IdleShutdown \/ Continue \/ ApiError \/ WaitOver \/ Drained
            \/ Settled \/ BackoffOver \/ ShutdownMidTurn \/ Crash \/ Tick
            \/ RequestShutdown \/ (\E ev \in Inputs : Send(ev)) \/ UNCHANGED vars
  <2>1. st' = st /\ fired' = fired /\ disk' = disk
    BY <1>14 DEF IdleShutdown, Continue, ApiError, WaitOver, Drained, Settled,
                 BackoffOver, ShutdownMidTurn, Crash, Tick, RequestShutdown, Send,
                 vars, loopVars
  <2> QED
    BY <1>2, <2>1, Zenon
<1> QED
  BY <1>5, <1>6, <1>7, <1>8, <1>9, <1>10, <1>11, <1>12, <1>13, <1>14 DEF Next, Loop

LEMMA InitIds ==
  ASSUME Init
  PROVE  IdInv
<1>1. \A n \in Nat : Named3({}, {}, {}, n)
  BY DEF Named3, Unique, Apart, Below
<1>2. Distinct(FreshState, {})
  BY <1>1 DEF Distinct, FreshState
<1>3. ASSUME NEW f \in Forks PROVE Distinct(ChildState(f), {})
  <2> DEFINE task == Item(1, "event", None)
             view == Item(2, "notice", None)
  <2>1. PICK type \in {"execution", "alert"} : ChildState(f).hist = {Entry(0, type)}
    BY ForkStarts
  <2>2. task.id = 1 /\ view.id = 2 /\ Entry(0, type).id = 0
    BY DEF Item, Entry
  <2> HIDE DEF task, view
  <2>4. Named3({task} \cup {}, {Entry(0, type)}, {}, 2)
    BY <2>2 DEF Named3, Unique, Apart, Below
  <2>5. Named3({task, view} \cup {}, {Entry(0, type)}, {}, 3)
    BY <2>2 DEF Named3, Unique, Apart, Below
  <2>6. /\ \/ ChildState(f).queue = {task} /\ ChildState(f).idc = 2
           \/ ChildState(f).queue = {task, view} /\ ChildState(f).idc = 3
        /\ ChildState(f).timers = {}
    BY ForkStarts DEF task, view
  <2> QED
    BY <2>1, <2>4, <2>5, <2>6 DEF Distinct
<1> QED
  BY <1>2, <1>3 DEF Init, IdInv

LEMMA DistinctUnique ==
  ASSUME IdInv
  PROVE  IdsUnique
<1>1. Named3(st.queue \cup fired, st.hist, st.timers, st.idc)
  BY DEF IdInv, Distinct
<1> QED
  BY <1>1 DEF Named3, Unique, Apart, IdsUnique, Named

(***************************************************************************)
(* Unless a hook raises, ids are unique among queued items, fired timers,  *)
(* history entries and timers, across firings, edits of the history,       *)
(* compactions, failed turns, crashes and restarts from the saved row      *)
(* (types.rs: "IDs remain unique across daemon restarts").  An id is the   *)
(* counter before it is shuffled, so this is about the first 2^16 ids.     *)
(***************************************************************************)
THEOREM UniqueIds == ASSUME HooksDoNotRaise PROVE Spec => []IdsUnique
<1>1. Init => TypeInv /\ IdInv
  BY InitTyped, InitIds
<1>2. TypeInv /\ IdInv /\ [Next]_vars => (TypeInv /\ IdInv)'
  BY StepTyped, StepIds
<1>3. IdInv => IdsUnique
  BY DistinctUnique
<1> QED
  BY <1>1, <1>2, <1>3, PTL DEF Spec
-----------------------------------------------------------------------------
(***************************************************************************)
(* The firings of recurring timers.  FiringPending is not inductive: it    *)
(* does not tell queued firings from those still to be pushed, lets the    *)
(* next timer take the id of one that was cancelled while its firing is    *)
(* queued, and is silent about the saved row.  Q are the queued items, F   *)
(* the firings still to be pushed, T the timers and n is the next id.      *)
(***************************************************************************)
One(Q, i) == \E it : About(Q, i) = {it}

Awaited(Q, F, t) ==
  IF t.pending
  THEN \/ One(Q, t.id) /\ About(F, t.id) = {}
       \/ About(Q, t.id) = {} /\ One(F, t.id)
  ELSE About(Q, t.id) = {} /\ About(F, t.id) = {}

\* A firing is of a timer that got its id before, and no Compaction item is one.
Firing(it, n) == (it.of \in Nat => it.of < n) /\ (it.type = "compaction" => it.of \notin Nat)

Waits(Q, F, T, n) ==
  /\ n \in Nat /\ T \subseteq TimerType /\ Unique(T) /\ Below(T, n)
  /\ \A it \in Q \cup F : Firing(it, n)
  /\ \A t \in T : t.every => Awaited(Q, F, t)

Waiting(s, f) == Waits(s.queue, f, s.timers, s.idc)

\* Firings are pushed in the steps firing and waking only.
WaitInv ==
  /\ Waiting(st, fired) /\ Waiting(disk, {})
  /\ pc \notin {"firing", "waking", "crashed"} => fired = {}

\* An item about no timer comes, and ids may be left out.
LEMMA WaitsMore ==
  ASSUME NEW Q, NEW F, NEW T, NEW n, Waits(Q, F, T, n), NEW m \in Nat, n <= m,
         NEW X, \A x \in X : x.of \notin Nat
  PROVE  Waits(Q \cup X, F, T, m)
<1>1. n \in Nat /\ T \subseteq TimerType /\ Unique(T) /\ Below(T, n)
  BY DEF Waits
<1>2. Below(T, m)
  BY <1>1 DEF Below
<1>3. ASSUME NEW it \in (Q \cup X) \cup F PROVE Firing(it, m)
  <2>1. CASE it \in X
    BY <2>1 DEF Firing
  <2>2. CASE it \in Q \cup F
    BY <1>1, <2>2 DEF Waits, Firing
  <2> QED BY <2>1, <2>2
<1>4. ASSUME NEW t \in T, t.every PROVE Awaited(Q \cup X, F, t)
  <2>1. t.id \in Nat
    BY <1>1 DEF TimerType
  <2>2. About(Q \cup X, t.id) = About(Q, t.id)
    <3>1. \A x \in X : x.of # t.id
      BY <2>1
    <3> QED BY ONLY <3>1, AboutAdds
  <2>3. Awaited(Q, F, t)
    BY <1>4 DEF Waits
  <2> QED BY <2>2, <2>3 DEF Awaited, One
<1> QED BY <1>1, <1>2, <1>3, <1>4 DEF Waits

\* Items about no timer go.
LEMMA WaitsLess ==
  ASSUME NEW Q, NEW F, NEW T, NEW n, Waits(Q, F, T, n), NEW X, \A x \in X : x.of \notin Nat
  PROVE  Waits(Q \ X, F, T, n)
<1>1. ASSUME NEW t \in T, t.every PROVE Awaited(Q \ X, F, t)
  <2>1. t.id \in Nat
    BY DEF Waits, TimerType
  <2>2. About(Q \ X, t.id) = About(Q, t.id)
    BY <2>1 DEF About
  <2>3. Awaited(Q, F, t)
    BY <1>1 DEF Waits
  <2> QED BY <2>2, <2>3 DEF Awaited, One
<1> QED BY <1>1 DEF Waits

\* A firing is pushed: it, or the HookException about it, is in the queue.
LEMMA WaitsPushed ==
  ASSUME NEW Q, NEW F, NEW T, NEW n, Waits(Q, F, T, n), NEW m \in Nat, n <= m,
         NEW item \in F, NEW x, x.of = item.of, x = item \/ x.type # "compaction"
  PROVE  Waits(Q \cup {x}, F \ {item}, T, m)
<1>1. n \in Nat /\ T \subseteq TimerType /\ Unique(T) /\ Below(T, n)
  BY DEF Waits
<1>2. Below(T, m)
  BY <1>1 DEF Below
<1>3. ASSUME NEW it \in (Q \cup {x}) \cup (F \ {item}) PROVE Firing(it, m)
  <2>1. Firing(item, n)
    BY DEF Waits
  <2>2. CASE it = x
    BY <1>1, <2>1, <2>2 DEF Firing
  <2>3. CASE it \in Q \cup F
    BY <1>1, <2>3 DEF Waits, Firing
  <2> QED BY <2>2, <2>3
<1>4. ASSUME NEW t \in T, t.every PROVE Awaited(Q \cup {x}, F \ {item}, t)
  <2>1. Awaited(Q, F, t)
    BY <1>4 DEF Waits
  <2>2. CASE t.id = item.of
    <3>1. item \in About(F, t.id)
      BY <2>2 DEF About
    <3>2. t.pending /\ About(Q, t.id) = {} /\ One(F, t.id)
      BY <2>1, <3>1 DEF Awaited
    <3>3. About(F, t.id) = {item}
      BY <3>1, <3>2 DEF One
    <3>4. About(Q \cup {x}, t.id) = {x} /\ About(F \ {item}, t.id) = {}
      BY <2>2, <3>2, <3>3 DEF About
    <3> QED BY <3>2, <3>4 DEF Awaited, One
  <2>3. CASE t.id # item.of
    <3>1. About(Q \cup {x}, t.id) = About(Q, t.id) /\ About(F \ {item}, t.id) = About(F, t.id)
      BY <2>3 DEF About
    <3> QED BY <2>1, <3>1 DEF Awaited, One
  <2> QED BY <2>2, <2>3
<1> QED BY <1>1, <1>2, <1>3, <1>4 DEF Waits

\* push_item leaves the timers alone and lets the generator advance.
LEMMA PushRest ==
  ASSUME NEW s, Sane(s), NEW item, NEW h \in HookRunType
  PROVE  /\ PushItem(s, item, h).timers = s.timers
         /\ PushItem(s, item, h).idc \in Nat /\ s.idc \in Nat /\ s.idc <= PushItem(s, item, h).idc
<1>1. h.ids \in Nat /\ s.idc \in Nat
  BY DEF HookRunType, Sane, StateType
<1>2. CASE ~s.hooked \/ h.out = "nomatch"
  BY <1>1, <1>2 DEF PushItem, Sane, StateType
<1>3. CASE ~(~s.hooked \/ h.out = "nomatch")
  BY <1>1, <1>3 DEF PushItem, Sane, StateType
<1> QED BY <1>2, <1>3

\* push_item for an item about no timer
LEMMA PushOther ==
  ASSUME NEW s, Sane(s), NEW f, Waiting(s, f), NEW item \in ItemType, NEW h \in HookRunType,
         item.of \notin Nat
  PROVE  Waiting(PushItem(s, item, h), f)
<1> DEFINE t == PushItem(s, item, h)
           e == Item(s.idc, "exception", item.of)
<1>1. t.timers = s.timers /\ t.idc \in Nat /\ s.idc <= t.idc
  BY PushRest
<1>2. t.queue = s.queue \cup {item} \/ t.queue = s.queue \cup {e} \/ t.queue = s.queue \cup {}
  BY PushItemQueue
<1>3. e.of \notin Nat
  BY DEF Item
<1> HIDE DEF t, e
<1>4. PICK X : X = t.queue \ s.queue
  OBVIOUS
<1>5. t.queue = s.queue \cup X /\ \A x \in X : x.of \notin Nat
  BY <1>2, <1>3, <1>4
<1>6. Waits(s.queue \cup X, f, s.timers, t.idc)
  BY <1>1, <1>5, WaitsMore DEF Waiting
<1>7. Waiting(t, f)
  BY <1>1, <1>5, <1>6 DEF Waiting
<1> QED BY <1>7 DEF t

\* push_item for a firing, with a hook that does not consume it
LEMMA PushFiring ==
  ASSUME NEW s, Sane(s), NEW f \in SUBSET ItemType, Waiting(s, f), NEW item \in f,
         NEW h \in HookRunType, h.out # "consumed"
  PROVE  Waiting(PushItem(s, item, h), f \ {item})
<1> DEFINE t == PushItem(s, item, h)
           e == Item(s.idc, "exception", item.of)
<1>1. t.timers = s.timers /\ t.idc \in Nat /\ s.idc <= t.idc
  BY PushRest
<1>2. t.queue = s.queue \cup {item} \/ t.queue = s.queue \cup {e}
  BY PushItemQueue
<1>3. e.of = item.of /\ e.type # "compaction"
  BY DEF Item
<1> HIDE DEF t, e
<1>4. PICK x : t.queue = s.queue \cup {x} /\ x.of = item.of /\ (x = item \/ x.type # "compaction")
  BY <1>2, <1>3
<1>5. Waits(s.queue \cup {x}, f \ {item}, s.timers, t.idc)
  BY <1>1, <1>4, WaitsPushed DEF Waiting
<1>6. Waiting(t, f \ {item})
  BY <1>1, <1>4, <1>5 DEF Waiting
<1> QED BY <1>6 DEF t

\* id_gen.next
LEMMA NextWaits ==
  ASSUME NEW s, Sane(s), NEW f, Waiting(s, f)
  PROVE  Waiting([s EXCEPT !.idc = s.idc + 1], f)
<1> DEFINE t == [s EXCEPT !.idc = s.idc + 1]
<1>1. t.queue = s.queue \cup {} /\ t.timers = s.timers /\ t.idc = s.idc + 1
      /\ s.idc \in Nat /\ t.idc \in Nat /\ s.idc <= t.idc
  BY DEF Sane, StateType
<1> HIDE DEF t
<1>2. Waits(s.queue \cup {}, f, s.timers, t.idc)
  BY <1>1, WaitsMore DEF Waiting
<1>3. Waiting(t, f)
  BY <1>1, <1>2 DEF Waiting
<1> QED BY <1>3 DEF t

\* An element more in the queue or the history, with the next id
LEMMA AddsWait ==
  ASSUME NEW s, Sane(s), NEW f, Waiting(s, f)
  PROVE  /\ Waiting(TriggerCompaction(s), f) /\ Waiting(FlushTelemetry(s), f)
         /\ Waiting(CompactFailed(s), f)
         /\ \A t \in HooksCommand(s) : Waiting(t, f)
         /\ Waiting([s EXCEPT !.queue = s.queue \cup {Item(s.idc, "startup", None)},
                              !.idc = s.idc + 1], f)
<1> DEFINE i(type) == Item(s.idc, type, None)
<1>1. s.idc \in Nat /\ s.idc + 1 \in Nat /\ s.idc <= s.idc + 1
  BY DEF Sane, StateType
<1>2. \A type : i(type).of \notin Nat
  BY InputsAssumption DEF Item
<1>3. Waits(s.queue, f, s.timers, s.idc)
  BY DEF Waiting
<1>4. ASSUME NEW type PROVE Waits(s.queue \cup {i(type)}, f, s.timers, s.idc + 1)
  <2> HIDE DEF i
  <2> QED BY <1>1, <1>2, <1>3, WaitsMore
<1>5. Waits(s.queue, f, s.timers, s.idc + 1)
  <2>1. Waits(s.queue \cup {}, f, s.timers, s.idc + 1)
    BY <1>1, <1>3, WaitsMore
  <2>2. s.queue \cup {} = s.queue
    OBVIOUS
  <2> QED BY <2>1, <2>2
<1>6. Waiting(TriggerCompaction(s), f)
  BY <1>4 DEF Waiting, TriggerCompaction, Sane, StateType
<1>7. Waiting(FlushTelemetry(s), f)
  <2>1. FlushTelemetry(s).queue = s.queue /\ FlushTelemetry(s).timers = s.timers
        /\ FlushTelemetry(s).idc \in {s.idc, s.idc + 1}
    BY DEF FlushTelemetry, Sane, StateType
  <2> QED BY <1>3, <1>5, <2>1 DEF Waiting
<1>8. Waiting(CompactFailed(s), f)
  BY <1>5 DEF Waiting, CompactFailed, Sane, StateType
<1>9. \A t \in HooksCommand(s) : Waiting(t, f)
  <2> TAKE t \in HooksCommand(s)
  <2>1. t.queue = s.queue /\ t.timers = s.timers /\ t.idc = s.idc + 1
    BY DEF HooksCommand, Sane, StateType
  <2> QED BY <1>5, <2>1 DEF Waiting
<1>10. Waiting([s EXCEPT !.queue = s.queue \cup {Item(s.idc, "startup", None)},
                         !.idc = s.idc + 1], f)
  BY <1>4 DEF Waiting, Sane, StateType
<1> QED BY <1>6, <1>7, <1>8, <1>9, <1>10

\* compact() removes no firing.
LEMMA CompactedWaits ==
  ASSUME NEW s, Sane(s), NEW f, Waiting(s, f), NEW hist
  PROVE  Waiting(Compacted(s, hist), f)
<1>1. \A x \in Compactions(s.queue) : x.of \notin Nat
  BY DEF Waiting, Waits, Firing, Compactions
<1>2. Waits(s.queue \ Compactions(s.queue), f, s.timers, s.idc)
  BY <1>1, WaitsLess DEF Waiting
<1>3. s.idc \in Nat /\ s.idc + 1 \in Nat /\ s.idc <= s.idc + 1
  BY DEF Sane, StateType
<1>4. Waits((s.queue \ Compactions(s.queue)) \cup {}, f, s.timers, s.idc + 1)
  BY <1>2, <1>3, WaitsMore
<1>5. /\ Compacted(s, hist).queue = (s.queue \ Compactions(s.queue)) \cup {}
      /\ Compacted(s, hist).timers = s.timers /\ Compacted(s, hist).idc = s.idc + 1
  BY DEF Compacted, Sane, StateType
<1> QED BY <1>4, <1>5 DEF Waiting

\* check_and_fire: a recurring timer is due only if nothing of it is queued, and
\* then has one firing, because timers have ids of their own.
LEMMA FiringWaits ==
  ASSUME now \in Nat, NEW s, Sane(s), Waiting(s, {})
  PROVE  Waiting(AfterFiring(s), Firings(s))
<1> DEFINE due == Due(s)
           rank(t) == s.idc + Cardinality({u \in due : u.id < t.id})
           after == (s.timers \ due) \cup
                    {[t EXCEPT !.pending = TRUE] : t \in {u \in due : u.every}}
           k == Cardinality(due)
<1>1. /\ due \subseteq s.timers /\ s.timers \subseteq TimerType /\ s.idc \in Nat
      /\ IsFiniteSet(s.timers) /\ Unique(s.timers) /\ Below(s.timers, s.idc)
      /\ \A t \in due : ~(t.every /\ t.pending)
  BY DEF Due, Sane, StateType, Waiting, Waits
<1>2. k \in Nat
  BY <1>1, FS_Subset, FS_CardinalityType
<1>3. \A it : it \in Firings(s) <=> \E t \in due : it = Item(rank(t), "timer", t.id)
  BY DEF Firings
<1>4. /\ AfterFiring(s).queue = s.queue /\ AfterFiring(s).timers = after
      /\ AfterFiring(s).idc = s.idc + k
  BY DEF AfterFiring, Sane, StateType
<1> HIDE DEF due, rank, k
<1>5. \A it \in Firings(s) : \E t \in due : it = Item(rank(t), "timer", t.id) /\ it.of = t.id /\ it.type = "timer"
  BY <1>3 DEF Item
<1>6. ASSUME NEW t \in due PROVE About(Firings(s), t.id) = {Item(rank(t), "timer", t.id)}
  <2>1. Item(rank(t), "timer", t.id) \in Firings(s) /\ Item(rank(t), "timer", t.id).of = t.id
    BY <1>3 DEF Item
  <2>2. ASSUME NEW it \in Firings(s), it.of = t.id PROVE it = Item(rank(t), "timer", t.id)
    <3>1. PICK u \in due : it = Item(rank(u), "timer", u.id) /\ it.of = u.id
      BY <1>5
    <3>2. u = t
      BY <1>1, <2>2, <3>1 DEF Unique
    <3> QED BY <3>1, <3>2
  <2> QED BY <2>1, <2>2 DEF About
<1>7. ASSUME NEW t \in s.timers \ due PROVE About(Firings(s), t.id) = {}
  <2>1. ASSUME NEW it \in Firings(s) PROVE it.of # t.id
    <3>1. PICK u \in due : it.of = u.id
      BY <1>5
    <3> QED BY <1>1, <3>1 DEF Unique
  <2> QED BY <2>1 DEF About
<1>8. \A y \in after : \/ y \in s.timers \ due
                       \/ \E t \in due : t.every /\ y.id = t.id /\ y.pending /\ y \in TimerType /\ y = [t EXCEPT !.pending = TRUE]
  <2>1. ASSUME NEW t \in due PROVE /\ [t EXCEPT !.pending = TRUE] \in TimerType
                                   /\ [t EXCEPT !.pending = TRUE].id = t.id
                                   /\ [t EXCEPT !.pending = TRUE].pending
    BY <1>1 DEF TimerType
  <2> QED BY <2>1
<1> HIDE DEF after
<1>9. after \subseteq TimerType /\ \A y \in after : \E t \in s.timers : y.id = t.id
  BY <1>1, <1>8
<1>10. Unique(after)
  <2> SUFFICES ASSUME NEW y \in after, NEW z \in after, y.id = z.id PROVE y = z
    BY DEF Unique
  <2>1. CASE y \in s.timers \ due /\ z \in s.timers \ due
    BY <1>1, <2>1 DEF Unique
  <2>2. CASE y \in s.timers \ due /\ z \notin s.timers \ due
    BY <1>1, <1>8, <2>2 DEF Unique
  <2>3. CASE y \notin s.timers \ due /\ z \in s.timers \ due
    BY <1>1, <1>8, <2>3 DEF Unique
  <2>4. CASE y \notin s.timers \ due /\ z \notin s.timers \ due
    <3>1. PICK t \in due : y.id = t.id /\ y = [t EXCEPT !.pending = TRUE]
      BY <1>8, <2>4
    <3>2. PICK u \in due : z.id = u.id /\ z = [u EXCEPT !.pending = TRUE]
      BY <1>8, <2>4
    <3>3. t = u
      BY <1>1, <3>1, <3>2 DEF Unique
    <3> QED BY <3>1, <3>2, <3>3
  <2> QED BY <2>1, <2>2, <2>3, <2>4
<1>11. s.idc + k \in Nat /\ s.idc <= s.idc + k /\ Below(after, s.idc + k)
  BY <1>1, <1>2, <1>9 DEF Below
<1>12. ASSUME NEW it \in s.queue \cup Firings(s) PROVE Firing(it, s.idc + k)
  <2>1. CASE it \in s.queue
    <3>1. Firing(it, s.idc)
      BY <2>1 DEF Waiting, Waits
    <3> QED BY <1>1, <1>2, <3>1 DEF Firing
  <2>2. CASE it \in Firings(s)
    <3>1. PICK t \in due : it.of = t.id /\ it.type = "timer"
      BY <1>5, <2>2
    <3>2. t.id \in Nat /\ t.id < s.idc
      BY <1>1 DEF Below
    <3> QED BY <1>1, <1>2, <3>1, <3>2 DEF Firing
  <2> QED BY <2>1, <2>2
<1>13. ASSUME NEW y \in after, y.every PROVE Awaited(s.queue, Firings(s), y)
  <2>1. CASE y \in s.timers \ due
    <3>1. Awaited(s.queue, {}, y)
      BY <1>13, <2>1 DEF Waiting, Waits
    <3>2. About(Firings(s), y.id) = {} /\ About({}, y.id) = {}
      BY <1>7, <2>1 DEF About
    <3> QED BY <3>1, <3>2 DEF Awaited, One
  <2>2. CASE y \notin s.timers \ due
    <3>1. PICK t \in due : t.every /\ y.id = t.id /\ y.pending
      BY <1>8, <2>2
    <3>2. Awaited(s.queue, {}, t)
      BY <1>1, <3>1 DEF Waiting, Waits
    <3>3. About(s.queue, t.id) = {}
      BY <1>1, <3>1, <3>2 DEF Awaited
    <3>4. One(Firings(s), t.id)
      BY <1>6 DEF One
    <3> QED BY <3>1, <3>3, <3>4 DEF Awaited
  <2> QED BY <2>1, <2>2
<1>14. Waits(s.queue, Firings(s), after, s.idc + k)
  BY <1>9, <1>10, <1>11, <1>12, <1>13 DEF Waits
<1> QED BY <1>4, <1>14 DEF Waiting

\* The script's clone: what is removed is acknowledged, so the timers left waiting
\* are those whose firing is left.
LEMMA CommitWaits ==
  ASSUME now \in Nat, NEW s, Sane(s), Waiting(s, {}), NEW sc \in ScriptType,
         NEW left \in SUBSET s.queue, sc.acks \/ left = s.queue, NEW hist
  PROVE  Waiting(Commit(s, sc, left, hist), {})
<1> DEFINE popped == s.queue \ left
           acked == IF sc.acks THEN {t \in s.timers : t.every /\ t.id \in Sources(popped)} ELSE {}
           kept == (s.timers \ acked) \cup {Acknowledge(t) : t \in acked}
           new == [id |-> s.idc, every |-> sc.timer = "every", at |-> now + Period,
                   pending |-> FALSE]
           c == Commit(s, sc, left, hist)
           n == s.idc
<1>1. /\ Waits(s.queue, {}, s.timers, n) /\ n \in Nat /\ s.timers \subseteq TimerType
      /\ Unique(s.timers) /\ Below(s.timers, n)
  BY DEF Waiting, Waits
<1>2. now + Period \in Nat
  BY LimitsAssumption
<1>3. ASSUME NEW t \in s.timers
      PROVE  /\ t.id \in Nat /\ t.id # None /\ Acknowledge(t) \in TimerType /\ Acknowledge(t).id = t.id
             /\ Acknowledge(t).every = t.every /\ ~Acknowledge(t).pending
  BY <1>1, <1>2, InputsAssumption DEF TimerType, Acknowledge
<1>4. acked \subseteq s.timers
  OBVIOUS
<1>5. ASSUME NEW t \in s.timers \ acked, t.every PROVE About(left, t.id) = About(s.queue, t.id)
  <2>1. CASE sc.acks
    <3>1. t.id \notin Sources(popped)
      BY <1>5, <2>1
    <3>2. \A it \in popped : it.of # t.id
      BY <1>3, <3>1 DEF Sources
    <3> QED BY <3>2 DEF About
  <2>2. CASE left = s.queue
    BY <2>2
  <2> QED BY <2>1, <2>2
<1>6. ASSUME NEW t \in acked PROVE t.every /\ About(left, t.id) = {}
  <2>1. t.every /\ t.id \in Sources(popped) /\ t \in s.timers
    OBVIOUS
  <2>2. PICK it \in popped : it.of = t.id
    BY <2>1 DEF Sources
  <2>3. Awaited(s.queue, {}, t)
    BY <1>1, <2>1 DEF Waits
  <2>4. it \in About(s.queue, t.id) /\ About({}, t.id) = {}
    BY <2>2 DEF About
  <2>5. One(s.queue, t.id)
    BY <2>3, <2>4 DEF Awaited, One
  <2>6. About(s.queue, t.id) = {it}
    BY <2>4, <2>5 DEF One
  <2> QED BY <2>1, <2>2, <2>6 DEF About
<1> HIDE DEF acked
<1>7. \A y \in kept : \/ y \in s.timers \ acked
                      \/ \E t \in acked : y = Acknowledge(t)
  OBVIOUS
<1>8. Unique(kept) /\ \A y \in kept : \E x \in s.timers : x.id = y.id
  <2> DEFINE g == [t \in s.timers |-> IF t \in acked THEN Acknowledge(t) ELSE t]
  <2>1. \A t \in s.timers : g[t].id = t.id
    BY <1>3
  <2>2. \A y \in kept : \E t \in s.timers : y = g[t]
    BY <1>4
  <2> HIDE DEF g, kept
  <2> QED BY <1>1, <2>1, <2>2, Rewrite
<1> HIDE DEF kept
<1>9. kept \subseteq TimerType /\ Below(kept, n)
  <2>1. kept \subseteq TimerType
    BY <1>1, <1>3, <1>4, <1>7
  <2> QED BY <1>1, <1>8, <2>1 DEF Below
<1>10. \A it \in left : Firing(it, n)
  BY <1>1 DEF Waits
<1>11. ASSUME NEW y \in kept, y.every PROVE Awaited(left, {}, y)
  <2>1. CASE y \in s.timers \ acked
    <3>1. Awaited(s.queue, {}, y)
      BY <1>1, <1>11, <2>1 DEF Waits
    <3>2. About(left, y.id) = About(s.queue, y.id)
      BY <1>5, <1>11, <2>1
    <3> QED BY <3>1, <3>2 DEF Awaited, One
  <2>2. CASE \E t \in acked : y = Acknowledge(t)
    <3>1. PICK t \in acked : y = Acknowledge(t)
      BY <2>2
    <3>2. y.id = t.id /\ ~y.pending /\ About(left, t.id) = {}
      BY <1>3, <1>4, <1>6, <3>1
    <3> QED BY <3>2 DEF Awaited, About
  <2> QED BY <1>7, <2>1, <2>2
<1>12. Waits(left, {}, kept, n)
  BY <1>1, <1>8, <1>9, <1>10, <1>11 DEF Waits
<1>13. Waits(left, {}, {}, n)
  BY <1>1, <1>10 DEF Waits, Unique, Below
<1>14. Waits(left, {}, kept \cup {new}, n + 1)
  <2>1. new \in TimerType /\ new.id = n /\ ~new.pending
    BY <1>1, <1>2 DEF TimerType
  <2> HIDE DEF new
  <2>2. Unique(kept \cup {new}) /\ Below(kept \cup {new}, n + 1)
    BY <1>1, <1>8, <1>9, <2>1, UniqueAdd
  <2>3. \A it \in left : Firing(it, n + 1)
    BY <1>1, <1>10 DEF Firing
  <2>4. Awaited(left, {}, new)
    <3>1. \A it \in left : it.of # n
      BY <1>1, <1>10 DEF Firing
    <3> QED BY <2>1, <3>1 DEF Awaited, About
  <2>5. kept \cup {new} \subseteq TimerType /\ n + 1 \in Nat
    BY <1>1, <1>9, <2>1
  <2> QED BY <1>11, <2>2, <2>3, <2>4, <2>5 DEF Waits
<1>15. sc.timer \in {"keep", "once", "every", "cancel"}
  BY DEF ScriptType
<1>16. /\ c.queue = left /\ c.timers = TimersAfter(s, sc, popped)
       /\ c.idc = n + IdsTaken(sc)
  BY DEF Commit, Sane, StateType
<1>17. /\ sc.timer = "keep" => TimersAfter(s, sc, popped) = kept
       /\ sc.timer = "cancel" => TimersAfter(s, sc, popped) = {}
       /\ sc.timer \in {"once", "every"} => TimersAfter(s, sc, popped) = kept \cup {new}
  BY DEF TimersAfter, kept, acked
<1>18. /\ n + IdsTaken(sc) \in Nat /\ n <= n + IdsTaken(sc)
       /\ sc.timer \in {"once", "every"} => n + 1 <= n + IdsTaken(sc)
  BY <1>1, IdsTakenTyped
<1>19. ASSUME NEW T, NEW k \in Nat, k <= n + IdsTaken(sc), Waits(left, {}, T, k)
       PROVE  Waits(left, {}, T, n + IdsTaken(sc))
  <2>1. left \cup {} = left /\ \A x \in {} : x.of \notin Nat
    OBVIOUS
  <2> QED BY <1>18, <1>19, <2>1, WaitsMore
<1>20. n \in Nat /\ n + 1 \in Nat
  BY <1>1
<1> HIDE DEF new, c, n, popped
<1>21. Waiting(c, {})
  <2>1. CASE sc.timer = "keep"
    BY <1>12, <1>16, <1>17, <1>18, <1>19, <1>20, <2>1 DEF Waiting
  <2>2. CASE sc.timer = "cancel"
    BY <1>13, <1>16, <1>17, <1>18, <1>19, <1>20, <2>2 DEF Waiting
  <2>3. CASE sc.timer \in {"once", "every"}
    BY <1>14, <1>16, <1>17, <1>18, <1>19, <1>20, <2>3 DEF Waiting
  <2> QED BY <1>15, <2>1, <2>2, <2>3
<1> QED BY <1>21 DEF c

(***************************************************************************)
(* What the agent's scripts and hooks must do: acknowledge the timers      *)
(* whose firings they remove, and consume no firing.                       *)
(***************************************************************************)
FiringsAnswered ==
  /\ \A sc \in Scripts : sc.acks \/ sc.pops = "none"
  /\ \A h \in HookRuns : h.out # "consumed"

LEMMA ReceiveWaits ==
  ASSUME TypeInv, Waiting(st, fired), Receive
  PROVE  Waiting(st', fired)
<1>1. PICK h \in HookRuns : ApplyEvent(Head(chan), h)
  BY DEF Receive
<1>2. Sane(st) /\ h \in HookRunType
  BY HookRunsAssumption DEF TypeInv, TypeOK, FiniteTimers, Sane
<1>3. Head(chan) \in Inputs
  BY DEF Receive, TypeInv, TypeOK
<1>4. CASE Head(chan) = KillSignal
  <2>1. st' = st
    BY <1>1, <1>4, InputsAssumption DEF ApplyEvent
  <2> QED BY <2>1, Zenon
<1>5. CASE Head(chan) = HooksMessage
  <2>1. st' \in HooksCommand(st)
    BY <1>1, <1>5, InputsAssumption DEF ApplyEvent
  <2> QED BY <1>2, <2>1, AddsWait
<1>6. CASE Head(chan) \notin {KillSignal, HooksMessage}
  <2> DEFINE item == Item(st.idc, "event", Head(chan))
             s == [st EXCEPT !.idc = st.idc + 1]
  <2>1. st' = PushItem(s, item, h)
    BY <1>1, <1>6 DEF ApplyEvent
  <2>2. Head(chan) \in Works /\ Head(chan) \notin Nat
    BY <1>3, <1>6, InputsAssumption
  <2>3. Sane(s) /\ Waiting(s, fired) /\ st.idc \in Nat
    BY <1>2, NextIdTyped, NextWaits
  <2>4. item \in ItemType /\ item.of \notin Nat
    BY <2>2, <2>3 DEF Item, ItemType
  <2> HIDE DEF item, s
  <2> QED BY <1>2, <2>1, <2>3, <2>4, PushOther
<1> QED BY <1>4, <1>5, <1>6

LEMMA CommitTurnWaits ==
  ASSUME FiringsAnswered, TypeInv, Waiting(st, {}),
         NEW sc \in Scripts, NEW over \in BOOLEAN, NEW h \in HookRuns,
         NEW left \in Leaves(sc), NEW hist \in Histories(sc),
         CommitTurn(sc, left, hist, over, h)
  PROVE  Waiting(st', {})
<1>1. sc \in ScriptType /\ h \in HookRunType /\ (sc.acks \/ sc.pops = "none")
  BY ScriptsAssumption, HookRunsAssumption DEF FiringsAnswered
<1>2. Sane(st) /\ now \in Nat
  BY DEF TypeInv, TypeOK, FiniteTimers, Sane
<1>3. left \in SUBSET st.queue /\ (sc.acks \/ left = st.queue)
  <2>1. sc.pops \in {"none", "all", "any"}
    BY <1>1 DEF ScriptType
  <2> QED BY <1>1, <2>1 DEF Leaves
<1>4. Modifiable \in SUBSET st.hist /\ hist \in Edited(st.hist, Modifiable) \cup {st.hist}
  BY DEF Modifiable, Histories
<1> DEFINE s0 == [st EXCEPT !.over = over]
           s1 == Commit(s0, sc, left, hist)
           s2 == Notice(s1, sc, h)
           s3 == IF Requested(sc) THEN TriggerCompaction(s2) ELSE s2
<1>5. /\ s0.queue = st.queue /\ s0.hist = st.hist
      /\ s0.timers = st.timers /\ s0.idc = st.idc
  BY <1>2 DEF Sane, StateType
<1>6. Sane(s0) /\ Waiting(s0, {})
  <2>1. s0 \in StateType
    BY <1>2 DEF Sane, StateType
  <2> HIDE DEF s0
  <2> QED BY <1>2, <1>5, <2>1 DEF Sane, Waiting
<1>7. Sane(s1) /\ Waiting(s1, {})
  <2> HIDE DEF s0
  <2>1. s0.queue \subseteq ItemType /\ s0.hist \subseteq EntryType
    BY <1>6 DEF Sane, StateType
  <2>2. hist \in SUBSET EntryType
    <3>1. Edited(st.hist, Modifiable) \subseteq SUBSET EntryType
      BY <1>4, <1>5, <2>1, EditedTyped
    <3> QED BY <1>4, <1>5, <2>1, <3>1
  <2>3. left \in SUBSET ItemType
    BY <1>3, <1>5, <2>1
  <2>4. Sane(s1)
    BY <1>1, <1>2, <1>6, <2>2, <2>3, CommitTyped
  <2>5. left \in SUBSET s0.queue /\ (sc.acks \/ left = s0.queue)
    BY <1>3, <1>5
  <2>6. Waiting(s1, {})
    BY <1>1, <1>2, <1>6, <2>5, CommitWaits
  <2> QED BY <2>4, <2>6
<1>8. Sane(s2) /\ Waiting(s2, {})
  <2> HIDE DEF s1
  <2>1. Sane(s2)
    BY <1>1, <1>7, NoticeTyped
  <2>2. CASE sc.notice
    <3> DEFINE item == Item(s1.idc, "notice", None)
               t == [s1 EXCEPT !.idc = s1.idc + 1]
    <3>1. s2 = PushItem(t, item, h)
      BY <2>2 DEF Notice
    <3>2. Sane(t) /\ Waiting(t, {}) /\ s1.idc \in Nat
      BY <1>7, NextIdTyped, NextWaits
    <3>3. item \in ItemType /\ item.of \notin Nat
      BY <3>2, InputsAssumption DEF Item, ItemType
    <3> HIDE DEF t, item
    <3> QED BY <1>1, <2>1, <3>1, <3>2, <3>3, PushOther
  <2>3. CASE ~sc.notice
    BY <1>7, <2>1, <2>3 DEF Notice
  <2> QED BY <2>2, <2>3
<1>9. Sane(s3) /\ Waiting(s3, {})
  <2> HIDE DEF s2
  <2>1. Sane(TriggerCompaction(s2)) /\ Waiting(TriggerCompaction(s2), {})
    BY <1>8, AddsTyped, AddsWait
  <2> QED BY <1>8, <2>1
<1>10. FinishEffects(s2, sc)
  BY DEF CommitTurn
<1>11. \/ st' = CompactFailed(s3)
       \/ \E kept : st' = Compacted(s3, kept)
       \/ st' = s3
  <2> HIDE DEF s2
  <2> QED BY <1>10 DEF FinishEffects
<1> HIDE DEF s3
<1> QED BY <1>9, <1>11, AddsWait, CompactedWaits

LEMMA StepWaits ==
  ASSUME FiringsAnswered, TypeInv, WaitInv, [Next]_vars
  PROVE  WaitInv'
<1>1. Sane(st) /\ Sane(disk) /\ fired \in SUBSET ItemType /\ now \in Nat
  BY DEF TypeInv, TypeOK, FiniteTimers, Sane
<1>2. /\ Waiting(st, fired) /\ Waiting(disk, {})
      /\ pc \notin {"firing", "waking", "crashed"} => fired = {}
  BY DEF WaitInv
<1>3. SUFFICES /\ Waiting(st', fired') /\ Waiting(disk', {})
               /\ pc' \notin {"firing", "waking", "crashed"} => fired' = {}
  BY DEF WaitInv
<1>5. CASE Drain \/ IdleReceive \/ DeferredDrain
  <2>1. Receive /\ disk' = disk /\ fired' = fired /\ fired = {}
    BY <1>2, <1>5 DEF Drain, IdleReceive, DeferredDrain, Receive, Goto
  <2>2. Waiting(st', fired)
    BY <1>2, <2>1, ReceiveWaits
  <2> QED BY <1>2, <2>1, <2>2, Zenon
<1>6. CASE CheckTimers \/ IdleTimer
  <2>1. /\ st' = AfterFiring(st) /\ fired' = Firings(st) /\ disk' = disk /\ fired = {}
        /\ pc' \in {"firing", "waking"}
    BY <1>2, <1>6 DEF CheckTimers, IdleTimer, Goto
  <2>2. Waiting(AfterFiring(st), Firings(st))
    BY <1>1, <1>2, <2>1, FiringWaits
  <2>3. Waiting(st', fired') /\ Waiting(disk', {})
    BY <1>2, <2>1, <2>2, Zenon
  <2> QED BY <2>1, <2>3
<1>7. CASE PushFired
  <2>1. PICK item \in fired, h \in HookRuns :
          st' = PushItem(st, item, h) /\ fired' = fired \ {item}
    BY <1>7 DEF PushFired
  <2>2. h \in HookRunType /\ h.out # "consumed"
    BY HookRunsAssumption DEF FiringsAnswered
  <2>3. Waiting(PushItem(st, item, h), fired \ {item})
    BY <1>1, <1>2, <2>2, PushFiring
  <2>4. disk' = disk /\ pc' \in {"firing", "waking"}
    BY <1>7 DEF PushFired
  <2>5. Waiting(st', fired') /\ Waiting(disk', {})
    BY <1>2, <2>1, <2>3, <2>4, Zenon
  <2> QED BY <2>4, <2>5
<1>8. CASE Gate
  <2> DEFINE s1 == IF Triggers THEN TriggerCompaction(st) ELSE st
  <2>1. Sane(s1) /\ Waiting(s1, fired)
    <3>1. Sane(TriggerCompaction(st)) /\ Waiting(TriggerCompaction(st), fired)
      BY <1>1, <1>2, AddsTyped, AddsWait
    <3> QED BY <1>1, <1>2, <3>1
  <2>2. st' \in {FlushTelemetry(s1), s1} /\ disk' = disk /\ fired' = fired /\ fired = {}
    BY <1>8 DEF Gate
  <2> HIDE DEF s1
  <2>3. Waiting(FlushTelemetry(s1), fired)
    BY <2>1, AddsWait
  <2>4. Waiting(st', fired)
    BY <2>1, <2>2, <2>3
  <2> QED BY <1>2, <2>2, <2>4, Zenon
<1>9. CASE FailedScript
  <2>1. PICK over \in BOOLEAN : st' = [st EXCEPT !.over = over]
    BY <1>9 DEF FailedScript
  <2>2. st'.queue = st.queue /\ st'.timers = st.timers /\ st'.idc = st.idc
    BY <1>1, <2>1 DEF Sane, StateType
  <2>3. Waiting(st', fired)
    BY <1>2, <2>2 DEF Waiting
  <2>4. disk' = disk /\ fired' = fired /\ fired = {}
    BY <1>2, <1>9 DEF FailedScript, Goto
  <2> QED BY <1>2, <2>3, <2>4, Zenon
<1>10. CASE AppliedScript
  <2>1. PICK sc \in Scripts, over \in BOOLEAN, h \in HookRuns :
          \E left \in Leaves(sc), hist \in Histories(sc) :
            CommitTurn(sc, left, hist, over, h)
    BY <1>10 DEF AppliedScript
  <2>2. disk' = disk /\ fired' = fired /\ fired = {}
    BY <1>2, <1>10 DEF AppliedScript
  <2>3. Waiting(st', {})
    BY <1>2, <2>1, <2>2, CommitTurnWaits
  <2> QED BY <1>2, <2>2, <2>3, Zenon
<1>11. CASE Record
  <2>1. st' = CompactFailed(st) /\ disk' = disk /\ fired' = fired /\ fired = {}
    BY <1>2, <1>11 DEF Record, CompactFailed
  <2>2. Waiting(CompactFailed(st), fired)
    BY <1>1, <1>2, AddsWait
  <2> QED BY <1>2, <2>1, <2>2, Zenon
<1>12. CASE Save \/ Exit
  <2>1. st' = st /\ fired' = fired /\ disk' \in {st, disk} /\ fired = {}
    BY <1>2, <1>12 DEF Save, Exit, Goto
  <2>2. Waiting(disk', {})
    BY <1>2, <2>1
  <2> QED BY <1>2, <2>1, <2>2, Zenon
<1>13. CASE Restart
  <2> DEFINE s == [disk EXCEPT !.queue = disk.queue \cup {Item(disk.idc, "startup", None)},
                               !.idc = disk.idc + 1]
  <2>1. st' = s /\ fired' = {} /\ disk' = disk
    BY <1>13 DEF Restart
  <2>2. Waiting(s, {})
    BY <1>1, <1>2, AddsWait
  <2> HIDE DEF s
  <2> QED BY <1>2, <2>1, <2>2, Zenon
<1>14. CASE \/ IdleShutdown \/ Continue \/ ApiError \/ WaitOver \/ Drained
            \/ Settled \/ BackoffOver \/ ShutdownMidTurn
  <2>1. st' = st /\ fired' = fired /\ disk' = disk /\ fired = {}
    BY <1>2, <1>14 DEF IdleShutdown, Continue, ApiError, WaitOver, Drained, Settled,
                       BackoffOver, ShutdownMidTurn, Goto
  <2> QED BY <1>2, <2>1, Zenon
<1>15. CASE Crash \/ Tick \/ RequestShutdown \/ (\E ev \in Inputs : Send(ev)) \/ UNCHANGED vars
  <2>1. st' = st /\ fired' = fired /\ disk' = disk /\ (pc' = pc \/ pc' = "crashed")
    BY <1>15 DEF Crash, Tick, RequestShutdown, Send, vars, loopVars
  <2>2. Waiting(st', fired') /\ Waiting(disk', {})
    BY <1>2, <2>1, Zenon
  <2> QED BY <1>2, <2>1, <2>2
<1> QED
  BY <1>5, <1>6, <1>7, <1>8, <1>9, <1>10, <1>11, <1>12, <1>13, <1>14, <1>15 DEF Next, Loop

LEMMA InitWaits ==
  ASSUME Init
  PROVE  WaitInv
<1>1. ASSUME NEW n \in Nat, NEW Q, \A it \in Q : it.of \notin Nat PROVE Waits(Q, {}, {}, n)
  BY <1>1 DEF Waits, Unique, Below, Firing
<1>2. Waiting(FreshState, {})
  BY <1>1 DEF Waiting, FreshState
<1>3. ASSUME NEW f \in Forks PROVE Waiting(ChildState(f), {})
  <2>1. Item(1, "event", None).of \notin Nat /\ Item(2, "notice", None).of \notin Nat
    BY InputsAssumption DEF Item
  <2>2. \A it \in ChildState(f).queue : it.of \notin Nat
    BY <2>1, ForkStarts
  <2>3. ChildState(f).timers = {} /\ ChildState(f).idc \in {2, 3}
    BY ForkStarts
  <2> QED BY <1>1, <2>2, <2>3 DEF Waiting
<1> QED BY <1>2, <1>3 DEF Init, WaitInv

\* A timer has as many firings before the agent as it waits for.
LEMMA WaitsCounted ==
  ASSUME WaitInv
  PROVE  FiringPending
<1> SUFFICES ASSUME NEW t \in st.timers, t.every
             PROVE  Cardinality({it \in st.queue \cup fired : it.of = t.id})
                      = (IF t.pending THEN 1 ELSE 0)
  BY DEF FiringPending
<1>1. Awaited(st.queue, fired, t)
  BY DEF WaitInv, Waiting, Waits
<1>2. {it \in st.queue \cup fired : it.of = t.id} = About(st.queue, t.id) \cup About(fired, t.id)
  BY DEF About
<1>3. CASE t.pending
  <2>1. PICK it : About(st.queue, t.id) \cup About(fired, t.id) = {it}
    BY <1>1, <1>3 DEF Awaited, One
  <2>2. Cardinality({it}) = 1
    BY FS_Singleton
  <2> QED BY <1>2, <1>3, <2>1, <2>2
<1>4. CASE ~t.pending
  <2>1. About(st.queue, t.id) \cup About(fired, t.id) = {}
    BY <1>1, <1>4 DEF Awaited
  <2>2. Cardinality({}) = 0
    BY FS_EmptySet
  <2> QED BY <1>2, <1>4, <2>1, <2>2
<1> QED BY <1>3, <1>4

(***************************************************************************)
(* If scripts acknowledge the timers whose firings they remove and no hook *)
(* consumes one, a recurring timer that waits for its acknowledgement has  *)
(* exactly one firing in front of the agent, as itself or inside a         *)
(* HookException, and one that does not wait has none: across firings that *)
(* are pushed one by one, failed turns, cancellations, compactions,        *)
(* crashes and restarts from the saved row (check_and_fire, acknowledge;   *)
(* README: "Recurring timers keep firing until cancelled").                *)
(***************************************************************************)
THEOREM FiringsWait == ASSUME FiringsAnswered PROVE Spec => []FiringPending
<1>1. Init => TypeInv /\ WaitInv
  BY InitTyped, InitWaits
<1>2. TypeInv /\ WaitInv /\ [Next]_vars => (TypeInv /\ WaitInv)'
  BY StepTyped, StepWaits
<1>3. WaitInv => FiringPending
  BY WaitsCounted
<1> QED BY <1>1, <1>2, <1>3, PTL DEF Spec
=============================================================================
