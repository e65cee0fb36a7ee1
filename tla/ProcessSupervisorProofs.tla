---------------------- MODULE ProcessSupervisorProofs ----------------------
(***************************************************************************)
(* Proofs about ProcessSupervisor, for any processes, programs, pipe       *)
(* capacity and order of the tasks: what shell_status and the work items   *)
(* say about the end of a process, when an interactive process sees the    *)
(* end of its input, and what the preview of its output holds.             *)
(***************************************************************************)
EXTENDS ProcessSupervisor, FiniteSetTheorems, TLAPS

Kinds == {"completed", "failed", "timeout"}
ReportType == [kind : Kinds, preview : Seq(LineType)]
EventType == [kind : Kinds, proc : Procs]
OsStates == {"none", "live", "zero", "nonzero", "gone"}
Statuses == {"absent", "running", "completed", "failed"}

\* The types of the variables the proofs are about
TypeOK ==
  /\ play \in Plays /\ req \in [Procs -> RequestType]
  /\ entry \in [Procs -> Statuses] /\ report \in [Procs -> Seq(ReportType)]
  /\ idc \in Nat /\ saved \in Nat /\ pid \in [Procs -> Nat]
  /\ task \in [Procs -> TaskType] /\ stdins \subseteq Procs
  /\ inbox \in [Procs -> Seq({"data", "close"})]
  /\ accepted \in [Procs -> Nat] /\ given \in [Procs -> Nat]
  /\ chan \in Seq(EventType) /\ stored \in [0..Cardinality(Procs) -> Seq(LineType)]
  /\ os \in [Procs -> OsStates] /\ wrote \in [Procs -> [out : Nat, err : Nat]]
  /\ heirs \subseteq Procs /\ lost \in [Procs -> [out : Nat, err : Nat]]

\* The counter does not run ahead of the pids given: each has a row to store
\* its output in.
Known == {p \in Procs : pid[p] # 0}

PidsInv ==
  /\ idc <= Cardinality(Known) /\ saved <= Cardinality(Known)
  /\ \A p \in Procs : pid[p] <= Cardinality(Known)

TypeInv == TypeOK /\ PidsInv

LEMMA PidStored ==
  ASSUME TypeInv, NEW p \in Procs
  PROVE  pid[p] \in 0..Cardinality(Procs) /\ Output(p) \in Seq(LineType)
<1>1. Known \subseteq Procs /\ IsFiniteSet(Procs)
  BY ProcsAssumption DEF Known
<1>2. /\ Cardinality(Known) \in Nat /\ Cardinality(Procs) \in Nat
      /\ Cardinality(Known) <= Cardinality(Procs)
  BY <1>1, FS_Subset, FS_CardinalityType
<1>3. pid[p] \in Nat /\ pid[p] <= Cardinality(Known)
  BY DEF TypeInv, TypeOK, PidsInv
<1>4. pid[p] \in 0..Cardinality(Procs)
  BY <1>2, <1>3
<1> QED BY <1>4 DEF Output, TypeInv, TypeOK

LEMMA LineTyped ==
  ASSUME NEW p \in Procs, NEW s \in {"out", "err"}
  PROVE  Line(p, s) \in LineType
BY DEF Line, LineType

\* What a started call changes
Started(p, r) ==
  /\ pid[p] = 0 /\ r \in RequestType
  /\ idc' = idc + 1 /\ pid' = [pid EXCEPT ![p] = idc + 1]
  /\ req' = [req EXCEPT ![p] = r]
  /\ \/ Spawn(p, r)
     \/ SpawnFails(p)
     \/ entry' = [entry EXCEPT ![p] = "running"] /\ UNCHANGED <<os, heirs, task, report>>
  /\ UNCHANGED <<play, saved, stdins, inbox, accepted, chan, stored, lost, wrote, given>>

\* What the steps change that are about no process
Unrelated ==
  /\ UNCHANGED <<play, req, entry, report, idc, pid, task, stdins, inbox, accepted, chan,
                 stored, lost, os, heirs, wrote, given>>
  /\ saved' = saved \/ saved' = idc

\* The actions that are left when those are put together
LEMMA StepForms ==
  ASSUME TypeInv, [Next]_vars
  PROVE  \/ Unrelated \/ ApplyEvent \/ Restart
         \/ \E p \in Procs : \E r : Started(p, r)
         \/ \E p \in Procs : \/ SendStdin(p) \/ CloseStdin(p)
                             \/ InsertRunning(p) \/ Writer(p) \/ Reader(p) \/ Monitor(p)
                             \/ Alert(p) \/ ProcessStep(p)
<1>1. CASE ScriptWithoutStart \/ Drained \/ WaitOver \/ Save
  <2>1. Unrelated
    BY <1>1 DEF ScriptWithoutStart, Drained, WaitOver, Save, Unrelated, osVars
  <2> QED BY <2>1
<1>2. CASE KillDone \/ \E p \in Procs : Kill(p)
  <2>1. Unrelated
    BY <1>2 DEF Kill, KillDone, OpFrame, Unrelated
  <2> QED BY <2>1
<1>r. play.requests \subseteq RequestType
  BY PlaysAssumption DEF TypeInv, TypeOK
<1>3. ASSUME NEW p \in Procs, NEW r \in play.requests, ScriptWithStart(p, r)
      PROVE  Started(p, r)
  BY <1>3, <1>r DEF ScriptWithStart, ShellExec, Started
<1>4. ASSUME NEW p \in Procs, NEW r \in play.requests, HookStart(p, r) PROVE Started(p, r)
  BY <1>4, <1>r DEF HookStart, ShellExec, Started
<1>5. CASE UNCHANGED vars
  <2>1. Unrelated
    BY <1>5 DEF vars, agentVars, osVars, Unrelated
  <2> QED BY <2>1
<1> QED
  BY <1>1, <1>2, <1>3, <1>4, <1>5 DEF Next, AgentStep

LEMMA TasksTyped ==
  ASSUME NEW r
  PROVE  /\ Tasks(r) \in TaskType /\ Nothing \in TaskType
         /\ Tasks(r).insert = "pending" /\ Tasks(r).writer \in {"pending", "none"}
         /\ Tasks(r).reader = "out" /\ Tasks(r).monitor = "wait" /\ Tasks(r).alert = "armed"
BY DEF Tasks, Nothing, TaskType

-----------------------------------------------------------------------------
(* A task of a process moves on; the others stay where they are.           *)

LEMMA InsertMoves ==
  ASSUME TypeOK, NEW p \in Procs, NEW x \in {"done"},
         task' = [task EXCEPT ![p].insert = x]
  PROVE  /\ task' \in [Procs -> TaskType] /\ task'[p].insert = x
         /\ task'[p].writer = task[p].writer /\ task'[p].reader = task[p].reader
         /\ task'[p].monitor = task[p].monitor /\ task'[p].alert = task[p].alert
         /\ \A q \in Procs : q # p => task'[q] = task[q]
<1>1. task \in [Procs -> TaskType]
  BY DEF TypeOK
<1>2. task[p] \in TaskType
  BY <1>1
<1> DEFINE t == [task[p] EXCEPT !.insert = x]
<1>3. task' = [task EXCEPT ![p] = t]
  OBVIOUS
<1>4. /\ t \in TaskType /\ t.insert = x
      /\ t.writer = task[p].writer /\ t.reader = task[p].reader
      /\ t.monitor = task[p].monitor /\ t.alert = task[p].alert
  BY <1>2 DEF TaskType
<1> HIDE DEF t
<1> QED BY <1>1, <1>3, <1>4

LEMMA WriterMoves ==
  ASSUME TypeOK, NEW p \in Procs, NEW x \in {"open", "closing", "done"},
         task' = [task EXCEPT ![p].writer = x]
  PROVE  /\ task' \in [Procs -> TaskType] /\ task'[p].writer = x
         /\ task'[p].insert = task[p].insert /\ task'[p].reader = task[p].reader
         /\ task'[p].monitor = task[p].monitor /\ task'[p].alert = task[p].alert
         /\ \A q \in Procs : q # p => task'[q] = task[q]
<1>1. task \in [Procs -> TaskType]
  BY DEF TypeOK
<1>2. task[p] \in TaskType
  BY <1>1
<1> DEFINE t == [task[p] EXCEPT !.writer = x]
<1>3. task' = [task EXCEPT ![p] = t]
  OBVIOUS
<1>4. /\ t \in TaskType /\ t.writer = x
      /\ t.insert = task[p].insert /\ t.reader = task[p].reader
      /\ t.monitor = task[p].monitor /\ t.alert = task[p].alert
  BY <1>2 DEF TaskType
<1> HIDE DEF t
<1> QED BY <1>1, <1>3, <1>4

LEMMA ReaderMoves ==
  ASSUME TypeOK, NEW p \in Procs, NEW x \in {"err", "done"},
         task' = [task EXCEPT ![p].reader = x]
  PROVE  /\ task' \in [Procs -> TaskType] /\ task'[p].reader = x
         /\ task'[p].insert = task[p].insert /\ task'[p].writer = task[p].writer
         /\ task'[p].monitor = task[p].monitor /\ task'[p].alert = task[p].alert
         /\ \A q \in Procs : q # p => task'[q] = task[q]
<1>1. task \in [Procs -> TaskType]
  BY DEF TypeOK
<1>2. task[p] \in TaskType
  BY <1>1
<1> DEFINE t == [task[p] EXCEPT !.reader = x]
<1>3. task' = [task EXCEPT ![p] = t]
  OBVIOUS
<1>4. /\ t \in TaskType /\ t.reader = x
      /\ t.insert = task[p].insert /\ t.writer = task[p].writer
      /\ t.monitor = task[p].monitor /\ t.alert = task[p].alert
  BY <1>2 DEF TaskType
<1> HIDE DEF t
<1> QED BY <1>1, <1>3, <1>4

LEMMA MonitorMoves ==
  ASSUME TypeOK, NEW p \in Procs, NEW x \in {"signal", "send", "done"},
         task' = [task EXCEPT ![p].monitor = x]
  PROVE  /\ task' \in [Procs -> TaskType] /\ task'[p].monitor = x
         /\ task'[p].insert = task[p].insert /\ task'[p].writer = task[p].writer
         /\ task'[p].reader = task[p].reader /\ task'[p].alert = task[p].alert
         /\ \A q \in Procs : q # p => task'[q] = task[q]
<1>1. task \in [Procs -> TaskType]
  BY DEF TypeOK
<1>2. task[p] \in TaskType
  BY <1>1
<1> DEFINE t == [task[p] EXCEPT !.monitor = x]
<1>3. task' = [task EXCEPT ![p] = t]
  OBVIOUS
<1>4. /\ t \in TaskType /\ t.monitor = x
      /\ t.insert = task[p].insert /\ t.writer = task[p].writer
      /\ t.reader = task[p].reader /\ t.alert = task[p].alert
  BY <1>2 DEF TaskType
<1> HIDE DEF t
<1> QED BY <1>1, <1>3, <1>4

LEMMA AlertMoves ==
  ASSUME TypeOK, NEW p \in Procs, NEW x \in {"fire", "done"},
         task' = [task EXCEPT ![p].alert = x]
  PROVE  /\ task' \in [Procs -> TaskType] /\ task'[p].alert = x
         /\ task'[p].insert = task[p].insert /\ task'[p].writer = task[p].writer
         /\ task'[p].reader = task[p].reader /\ task'[p].monitor = task[p].monitor
         /\ \A q \in Procs : q # p => task'[q] = task[q]
<1>1. task \in [Procs -> TaskType]
  BY DEF TypeOK
<1>2. task[p] \in TaskType
  BY <1>1
<1> DEFINE t == [task[p] EXCEPT !.alert = x]
<1>3. task' = [task EXCEPT ![p] = t]
  OBVIOUS
<1>4. /\ t \in TaskType /\ t.alert = x
      /\ t.insert = task[p].insert /\ t.writer = task[p].writer
      /\ t.reader = task[p].reader /\ t.monitor = task[p].monitor
  BY <1>2 DEF TaskType
<1> HIDE DEF t
<1> QED BY <1>1, <1>3, <1>4

\* The process writes a line.
LEMMA WroteMoves ==
  ASSUME TypeOK, NEW p \in Procs, NEW s \in {"out", "err"},
         wrote' = [wrote EXCEPT ![p][s] = wrote[p][s] + 1]
  PROVE  /\ wrote' \in [Procs -> [out : Nat, err : Nat]]
         /\ wrote'[p].out = wrote[p].out + (IF s = "out" THEN 1 ELSE 0)
         /\ wrote'[p].err = wrote[p].err + (IF s = "err" THEN 1 ELSE 0)
         /\ \A q \in Procs : q # p => wrote'[q] = wrote[q]
<1>1. wrote \in [Procs -> [out : Nat, err : Nat]]
  BY DEF TypeOK
<1>2. wrote[p] \in [out : Nat, err : Nat]
  BY <1>1
<1> DEFINE w == [wrote[p] EXCEPT ![s] = wrote[p][s] + 1]
<1>3. wrote' = [wrote EXCEPT ![p] = w]
  OBVIOUS
<1>4. /\ w \in [out : Nat, err : Nat]
      /\ w.out = wrote[p].out + (IF s = "out" THEN 1 ELSE 0)
      /\ w.err = wrote[p].err + (IF s = "err" THEN 1 ELSE 0)
  <2>1. CASE s = "out"
    BY <1>2, <2>1
  <2>2. CASE s = "err"
    BY <1>2, <2>2
  <2> QED BY <2>1, <2>2
<1> HIDE DEF w
<1> QED BY <1>1, <1>3, <1>4

\* A line that was read is not stored.
LEMMA LostMoves ==
  ASSUME TypeOK, NEW p \in Procs, NEW s \in {"out", "err"},
         lost' = [lost EXCEPT ![p][s] = lost[p][s] + 1]
  PROVE  /\ lost' \in [Procs -> [out : Nat, err : Nat]]
         /\ lost'[p].out = lost[p].out + (IF s = "out" THEN 1 ELSE 0)
         /\ lost'[p].err = lost[p].err + (IF s = "err" THEN 1 ELSE 0)
         /\ \A q \in Procs : q # p => lost'[q] = lost[q]
<1>1. lost \in [Procs -> [out : Nat, err : Nat]]
  BY DEF TypeOK
<1>2. lost[p] \in [out : Nat, err : Nat]
  BY <1>1
<1> DEFINE w == [lost[p] EXCEPT ![s] = lost[p][s] + 1]
<1>3. lost' = [lost EXCEPT ![p] = w]
  OBVIOUS
<1>4. /\ w \in [out : Nat, err : Nat]
      /\ w.out = lost[p].out + (IF s = "out" THEN 1 ELSE 0)
      /\ w.err = lost[p].err + (IF s = "err" THEN 1 ELSE 0)
  <2>1. CASE s = "out"
    BY <1>2, <2>1
  <2>2. CASE s = "err"
    BY <1>2, <2>2
  <2> QED BY <2>1, <2>2
<1> HIDE DEF w
<1> QED BY <1>1, <1>3, <1>4

-----------------------------------------------------------------------------
(* Types.                                                                  *)

LEMMA PidsStarted ==
  ASSUME TypeInv, NEW p \in Procs, pid[p] = 0, idc' = idc + 1,
         pid' = [pid EXCEPT ![p] = idc + 1], saved' = saved
  PROVE  PidsInv'
<1>0. pid \in [Procs -> Nat] /\ idc \in Nat /\ saved \in Nat
  BY DEF TypeInv, TypeOK
<1>1. IsFiniteSet(Known) /\ Cardinality(Known) \in Nat
  BY ProcsAssumption, FS_Subset, FS_CardinalityType DEF Known
<1>2. Known' = Known \cup {p} /\ p \notin Known
  BY <1>0 DEF Known
<1>3. Cardinality(Known') = Cardinality(Known) + 1
  BY <1>1, <1>2, FS_AddElement
<1>4. \A q \in Procs : pid'[q] = IF q = p THEN idc + 1 ELSE pid[q]
  BY <1>0
<1>5. idc <= Cardinality(Known) /\ saved <= Cardinality(Known)
      /\ \A q \in Procs : pid[q] <= Cardinality(Known)
  BY DEF TypeInv, PidsInv
<1>6. \A q \in Procs : pid'[q] <= Cardinality(Known')
  BY <1>0, <1>1, <1>3, <1>4, <1>5
<1>7. idc' <= Cardinality(Known') /\ saved' <= Cardinality(Known')
  BY <1>0, <1>1, <1>3, <1>5
<1> QED BY <1>6, <1>7 DEF PidsInv

LEMMA StepTyped ==
  ASSUME TypeInv, [Next]_vars
  PROVE  TypeInv'
<1> USE DEF TypeInv
<1> DEFINE Pids == UNCHANGED <<idc, saved, pid>>
<1>0. ASSUME Pids PROVE PidsInv'
  BY <1>0 DEF PidsInv, Known
<1>1. CASE Unrelated
  <2>1. PidsInv'
    BY <1>1 DEF PidsInv, Known, Unrelated
  <2> QED BY <1>1, <2>1 DEF Unrelated, TypeOK
<1>2. CASE ApplyEvent
  <2> DEFINE e == Head(chan)
             seen == IF e.kind = "timeout" THEN <<>> ELSE Output(e.proc)
  <2>1. e \in EventType /\ chan' \in Seq(EventType)
    BY <1>2 DEF ApplyEvent, TypeOK
  <2>2. e.kind \in Kinds /\ e.proc \in Procs
    BY <2>1 DEF EventType
  <2>3. seen \in Seq(LineType)
    BY <2>2, PidStored
  <2>4. entry' \in [Procs -> Statuses]
    BY <1>2, <2>2 DEF ApplyEvent, TypeOK, Terminal, Statuses
  <2>5. /\ report' = [report EXCEPT ![e.proc] = Append(report[e.proc], [kind |-> e.kind, preview |-> seen])]
        /\ UNCHANGED <<play, req, idc, saved, pid, task, stdins, inbox, accepted, given, stored,
                       lost, os, heirs, wrote>>
    BY <1>2 DEF ApplyEvent, osVars
  <2> HIDE DEF e, seen
  <2>6. [kind |-> e.kind, preview |-> seen] \in ReportType
    BY <2>2, <2>3 DEF ReportType
  <2>7. Append(report[e.proc], [kind |-> e.kind, preview |-> seen]) \in Seq(ReportType)
    BY <2>2, <2>6 DEF TypeOK
  <2>8. report' \in [Procs -> Seq(ReportType)]
    BY <2>2, <2>5, <2>7 DEF TypeOK
  <2>9. PidsInv'
    BY <1>0, <2>5
  <2> QED BY <2>1, <2>4, <2>5, <2>8, <2>9 DEF TypeOK
<1>3. CASE Restart
  <2>1. PidsInv'
    BY <1>3 DEF Restart, PidsInv, Known
  <2>2. /\ task' \in [Procs -> TaskType] /\ os' \in [Procs -> OsStates]
        /\ entry' \in [Procs -> Statuses] /\ inbox' \in [Procs -> Seq({"data", "close"})]
        /\ chan' \in Seq(EventType) /\ heirs' \subseteq Procs
    BY <1>3, TasksTyped DEF Restart, OsStates, Statuses
  <2> QED BY <1>3, <2>1, <2>2 DEF Restart, TypeOK
<1>4. ASSUME NEW p \in Procs, NEW r, Started(p, r) PROVE TypeInv'
  <2>1. PidsInv'
    BY <1>4, PidsStarted DEF Started
  <2>2. idc' \in Nat /\ pid' \in [Procs -> Nat] /\ req' \in [Procs -> RequestType]
    BY <1>4 DEF Started, TypeOK
  <2>3. [kind |-> "failed", preview |-> <<>>] \in ReportType
    BY DEF ReportType, Kinds
  <2>4. Append(report[p], [kind |-> "failed", preview |-> <<>>]) \in Seq(ReportType)
    BY <2>3 DEF TypeOK
  <2>5. /\ task' \in [Procs -> TaskType] /\ os' \in [Procs -> OsStates]
        /\ entry' \in [Procs -> Statuses] /\ heirs' \subseteq Procs
    <3>1. task' = task \/ task' = [task EXCEPT ![p] = Tasks(r)]
      BY <1>4 DEF Started, Spawn, SpawnFails
    <3>2. os' \in [Procs -> OsStates] /\ entry' \in [Procs -> Statuses] /\ heirs' \subseteq Procs
      BY <1>4 DEF Started, Spawn, SpawnFails, TypeOK, OsStates, Statuses
    <3>3. task \in [Procs -> TaskType] /\ Tasks(r) \in TaskType
      BY TasksTyped DEF TypeOK
    <3> QED BY <3>1, <3>2, <3>3
  <2>6. report' \in [Procs -> Seq(ReportType)]
    BY <1>4, <2>4 DEF Started, Spawn, SpawnFails, TypeOK
  <2> QED BY <1>4, <2>1, <2>2, <2>5, <2>6 DEF Started, TypeOK
<1>5. ASSUME NEW p \in Procs, SendStdin(p) \/ CloseStdin(p) PROVE TypeInv'
  <2>1. /\ UNCHANGED <<play, req, entry, report, task, chan, stored, lost, os, heirs, wrote, given>>
        /\ Pids
        /\ stdins' \subseteq stdins
    BY <1>5 DEF SendStdin, CloseStdin, OpFrame
  <2>2. Append(inbox[p], "data") \in Seq({"data", "close"}) /\ Append(inbox[p], "close") \in Seq({"data", "close"})
    BY DEF TypeOK
  <2>3. inbox' \in [Procs -> Seq({"data", "close"})]
    BY <1>5, <2>2 DEF SendStdin, CloseStdin, TypeOK
  <2>4. accepted' \in [Procs -> Nat]
    <3>1. accepted' = accepted \/ accepted' = [accepted EXCEPT ![p] = accepted[p] + 1]
      BY <1>5 DEF SendStdin, CloseStdin
    <3>2. accepted \in [Procs -> Nat]
      BY DEF TypeOK
    <3> HIDE DEF TypeInv
    <3> QED BY <3>1, <3>2
  <2> QED BY <1>0, <2>1, <2>3, <2>4 DEF TypeOK
<1>6. ASSUME NEW p \in Procs, InsertRunning(p) \/ Writer(p) \/ Reader(p) \/ Monitor(p) \/ Alert(p)
      PROVE  TypeInv'
  <2>1. UNCHANGED <<play, req, entry, report, accepted, os, heirs, wrote>> /\ Pids
    BY <1>6 DEF InsertRunning, Writer, Reader, Monitor, Alert, RegisterStdin, WriteStdin,
                EndWriter, ReadLine, EndOfStream, MonitorRemoves, MonitorSignals, MonitorSends,
                AlertChecks, AlertSends, TaskFrame, agentVars
  <2>2. task' \in [Procs -> TaskType]
    <3>1. CASE InsertRunning(p)
      BY <3>1, InsertMoves DEF InsertRunning
    <3>2. CASE Writer(p)
      <4>1. task' = task \/ \E x \in {"open", "closing", "done"} :
                                task' = [task EXCEPT ![p].writer = x]
        BY <3>2 DEF Writer, RegisterStdin, WriteStdin, EndWriter
      <4> QED BY <4>1, WriterMoves DEF TypeOK
    <3>3. CASE Reader(p)
      <4>1. task' = task \/ \E x \in {"err", "done"} : task' = [task EXCEPT ![p].reader = x]
        BY <3>3 DEF Reader, ReadLine, EndOfStream
      <4> QED BY <4>1, ReaderMoves DEF TypeOK
    <3>4. CASE Monitor(p)
      <4>1. \E x \in {"signal", "send", "done"} : task' = [task EXCEPT ![p].monitor = x]
        BY <3>4 DEF Monitor, MonitorRemoves, MonitorSignals, MonitorSends
      <4> QED BY <4>1, MonitorMoves
    <3>5. CASE Alert(p)
      <4>1. \E x \in {"fire", "done"} : task' = [task EXCEPT ![p].alert = x]
        BY <3>5 DEF Alert, AlertChecks, AlertSends
      <4> QED BY <4>1, AlertMoves
    <3> QED BY <1>6, <3>1, <3>2, <3>3, <3>4, <3>5
  <2>3. stdins' \subseteq Procs
    BY <1>6 DEF InsertRunning, Writer, Reader, Monitor, Alert, RegisterStdin, WriteStdin,
                EndWriter, ReadLine, EndOfStream, MonitorRemoves, MonitorSignals, MonitorSends,
                AlertChecks, AlertSends, TypeOK
  <2>4. inbox' \in [Procs -> Seq({"data", "close"})] /\ given' \in [Procs -> Nat]
    <3>1. CASE WriteStdin(p)
      <4>1. inbox[p] \in Seq({"data", "close"}) /\ inbox[p] # <<>>
        BY <3>1 DEF WriteStdin, TypeOK
      <4>2. Tail(inbox[p]) \in Seq({"data", "close"})
        BY <4>1
      <4>3. inbox' \in [Procs -> Seq({"data", "close"})]
        BY <3>1, <4>2 DEF WriteStdin, TypeOK
      <4>4. given' = given \/ given' = [given EXCEPT ![p] = given[p] + 1]
        BY <3>1 DEF WriteStdin
      <4>5. given \in [Procs -> Nat]
        BY DEF TypeOK
      <4> HIDE DEF TypeInv
      <4>6. given' \in [Procs -> Nat]
        BY <4>4, <4>5
      <4> QED BY <4>3, <4>6
    <3>2. CASE ~WriteStdin(p)
      <4>1. inbox' = inbox /\ given' = given
        BY <1>6, <3>2
           DEF InsertRunning, Writer, Reader, Monitor, Alert, RegisterStdin,
               EndWriter, ReadLine, EndOfStream, MonitorRemoves, MonitorSignals, MonitorSends,
               AlertChecks, AlertSends
      <4> QED BY <4>1 DEF TypeOK
    <3> QED BY <3>1, <3>2
  <2>5. chan' \in Seq(EventType)
    <3>1. chan' = chan \/ \E k \in Kinds : chan' = Append(chan, Event(k, p))
      BY <1>6 DEF InsertRunning, Writer, Reader, Monitor, Alert, RegisterStdin, WriteStdin,
                EndWriter, ReadLine, EndOfStream, MonitorRemoves, MonitorSignals, MonitorSends,
                AlertChecks, AlertSends, Kinds
    <3>2. \A k \in Kinds : Event(k, p) \in EventType
      BY DEF Event, EventType
    <3>3. chan \in Seq(EventType)
      BY DEF TypeOK
    <3> HIDE DEF TypeInv
    <3> QED BY <3>1, <3>2, <3>3
  <2>6. stored' \in [0..Cardinality(Procs) -> Seq(LineType)]
    <3>1. stored' = stored \/ \E s \in {"out", "err"} :
                                stored' = [stored EXCEPT ![pid[p]] = Append(stored[pid[p]], Line(p, s))]
      BY <1>6 DEF InsertRunning, Writer, Reader, Monitor, Alert, RegisterStdin, WriteStdin,
                EndWriter, ReadLine, EndOfStream, MonitorRemoves, MonitorSignals, MonitorSends,
                AlertChecks, AlertSends
    <3>2. \A s \in {"out", "err"} : Append(stored[pid[p]], Line(p, s)) \in Seq(LineType)
      BY PidStored, LineTyped DEF Output
    <3> QED BY <3>1, <3>2 DEF TypeOK
  <2>7. lost' \in [Procs -> [out : Nat, err : Nat]]
    <3>1. lost' = lost \/ \E s \in {"out", "err"} : lost' = [lost EXCEPT ![p][s] = lost[p][s] + 1]
      BY <1>6 DEF InsertRunning, Writer, Reader, Monitor, Alert, RegisterStdin, WriteStdin,
                EndWriter, ReadLine, EndOfStream, MonitorRemoves, MonitorSignals, MonitorSends,
                AlertChecks, AlertSends
    <3> QED BY <3>1, LostMoves DEF TypeOK
  <2> QED BY <1>0, <2>1, <2>2, <2>3, <2>4, <2>5, <2>6, <2>7 DEF TypeOK
<1>7. ASSUME NEW p \in Procs, ProcessStep(p) PROVE TypeInv'
  <2>1. /\ UNCHANGED <<play, req, entry, report, task, stdins, inbox, accepted, chan, stored,
                       lost, given>>
        /\ Pids
    BY <1>7 DEF ProcessStep, ProcessWrites, BrokenPipe, ProcessExits, HeirEnds, OsFrame, agentVars
  <2>2. os' \in [Procs -> OsStates] /\ heirs' \subseteq Procs
    BY <1>7 DEF ProcessStep, ProcessWrites, BrokenPipe, ProcessExits, HeirEnds, TypeOK, OsStates
  <2>3. wrote' \in [Procs -> [out : Nat, err : Nat]]
    <3>1. CASE \E s \in {"out", "err"} : ProcessWrites(p, s)
      <4>1. PICK s \in {"out", "err"} : wrote' = [wrote EXCEPT ![p][s] = wrote[p][s] + 1]
        BY <3>1 DEF ProcessWrites
      <4> QED BY <4>1, WroteMoves
    <3>2. CASE wrote' = wrote
      BY <3>2 DEF TypeOK
    <3> QED BY <1>7, <3>1, <3>2 DEF ProcessStep, BrokenPipe, ProcessExits, HeirEnds
  <2> QED BY <1>0, <2>1, <2>2, <2>3 DEF TypeOK
<1> QED
  BY <1>1, <1>2, <1>3, <1>4, <1>5, <1>6, <1>7, StepForms

LEMMA InitTyped ==
  ASSUME Init
  PROVE  TypeInv
<1>1. TypeOK
  <2>1. Nothing \in TaskType
    BY TasksTyped
  <2>2. chan \in Seq(EventType) /\ <<>> \in Seq(ReportType) /\ <<>> \in Seq(LineType)
        /\ <<>> \in Seq({"data", "close"})
    BY DEF Init
  <2>3. NoRequest \in RequestType /\ Zeros \in [out : Nat, err : Nat]
    BY DEF NoRequest, RequestType, Counts, Zeros
  <2> QED BY <2>1, <2>2, <2>3 DEF Init, TypeOK, Statuses, OsStates
<1>2. Known = {}
  BY DEF Init, Known
<1>3. Cardinality(Known) = 0
  BY <1>2, FS_EmptySet
<1> QED BY <1>1, <1>3 DEF Init, TypeInv, PidsInv

-----------------------------------------------------------------------------
(* A call that has not happened has left nothing behind.                   *)

FreshInv ==
  /\ \A p \in Procs : pid[p] = 0 =>
       /\ os[p] = "none" /\ task[p] = Nothing /\ report[p] = <<>> /\ entry[p] = "absent"
       /\ inbox[p] = <<>> /\ accepted[p] = 0 /\ given[p] = 0 /\ p \notin stdins
  /\ \A p \in Procs : os[p] = "none" =>
       /\ task[p] = Nothing /\ wrote[p] = Zeros /\ lost[p] = Zeros /\ p \notin heirs
  /\ \A k \in DOMAIN chan : pid[chan[k].proc] # 0

\* A process whose tasks move has been started.
LEMMA BusyKnown ==
  ASSUME FreshInv, NEW p \in Procs,
         \/ task[p].insert # "none" \/ task[p].writer # "none" \/ task[p].reader # "none"
         \/ task[p].monitor # "none" \/ task[p].alert # "none" \/ os[p] # "none" \/ p \in heirs
  PROVE  pid[p] # 0 /\ os[p] # "none"
BY DEF FreshInv, Nothing

\* What a step of one of the tasks changes
TaskStep(p) ==
  /\ pid[p] # 0 /\ os[p] # "none"
  /\ \A q \in Procs : q # p => /\ task'[q] = task[q] /\ inbox'[q] = inbox[q]
                               /\ given'[q] = given[q] /\ (q \in stdins' <=> q \in stdins)
                               /\ lost'[q] = lost[q]
  /\ chan' = chan \/ \E k \in Kinds : chan' = Append(chan, Event(k, p))
  /\ UNCHANGED <<req, entry, report, pid, accepted, os, heirs, wrote>>

LEMMA TaskSteps ==
  ASSUME TypeInv, FreshInv, NEW p \in Procs,
         InsertRunning(p) \/ Writer(p) \/ Reader(p) \/ Monitor(p) \/ Alert(p)
  PROVE  TaskStep(p)
<1>1. UNCHANGED <<req, entry, report, pid, accepted, os, heirs, wrote>>
  BY DEF InsertRunning, Writer, Reader, Monitor, Alert, RegisterStdin, WriteStdin,
         EndWriter, ReadLine, EndOfStream, MonitorRemoves, MonitorSignals, MonitorSends,
         AlertChecks, AlertSends, TaskFrame, agentVars
<1>2. chan' = chan \/ \E k \in Kinds : chan' = Append(chan, Event(k, p))
  BY DEF InsertRunning, Writer, Reader, Monitor, Alert, RegisterStdin, WriteStdin,
         EndWriter, ReadLine, EndOfStream, MonitorRemoves, MonitorSignals, MonitorSends,
         AlertChecks, AlertSends, Kinds
<1>3. pid[p] # 0 /\ os[p] # "none"
  <2>1. \/ task[p].insert = "pending" \/ task[p].writer \in {"pending", "open", "closing"}
        \/ task[p].reader \in {"out", "err"} \/ task[p].monitor \in {"wait", "signal", "send"}
        \/ task[p].alert \in {"armed", "fire"}
    BY DEF InsertRunning, Writer, Reader, Monitor, Alert, RegisterStdin, WriteStdin,
           EndWriter, ReadLine, EndOfStream, MonitorRemoves, MonitorSignals, MonitorSends,
           AlertChecks, AlertSends
  <2> QED BY <2>1, BusyKnown
<1>4. \A q \in Procs : q # p => (q \in stdins' <=> q \in stdins)
  BY DEF InsertRunning, Writer, Reader, Monitor, Alert, RegisterStdin, WriteStdin,
         EndWriter, ReadLine, EndOfStream, MonitorRemoves, MonitorSignals, MonitorSends,
         AlertChecks, AlertSends
<1>5. \A q \in Procs : q # p => inbox'[q] = inbox[q] /\ given'[q] = given[q]
  <2>1. /\ inbox' = inbox \/ inbox' = [inbox EXCEPT ![p] = Tail(inbox[p])]
        /\ given' = given \/ given' = [given EXCEPT ![p] = given[p] + 1]
    BY DEF InsertRunning, Writer, Reader, Monitor, Alert, RegisterStdin, WriteStdin,
           EndWriter, ReadLine, EndOfStream, MonitorRemoves, MonitorSignals, MonitorSends,
           AlertChecks, AlertSends
  <2> QED BY <2>1 DEF TypeInv, TypeOK
<1>6. \A q \in Procs : q # p => task'[q] = task[q]
  <2>1. \/ task' = task
        \/ \E x : \/ task' = [task EXCEPT ![p].insert = x]
                  \/ task' = [task EXCEPT ![p].writer = x]
                  \/ task' = [task EXCEPT ![p].reader = x]
                  \/ task' = [task EXCEPT ![p].monitor = x]
                  \/ task' = [task EXCEPT ![p].alert = x]
    BY DEF InsertRunning, Writer, Reader, Monitor, Alert, RegisterStdin, WriteStdin,
           EndWriter, ReadLine, EndOfStream, MonitorRemoves, MonitorSignals, MonitorSends,
           AlertChecks, AlertSends
  <2>2. task \in [Procs -> TaskType]
    BY DEF TypeInv, TypeOK
  <2> QED BY <2>1, <2>2
<1>7. \A q \in Procs : q # p => lost'[q] = lost[q]
  <2>1. lost' = lost \/ \E s \in {"out", "err"} : lost' = [lost EXCEPT ![p][s] = lost[p][s] + 1]
    BY DEF InsertRunning, Writer, Reader, Monitor, Alert, RegisterStdin, WriteStdin,
           EndWriter, ReadLine, EndOfStream, MonitorRemoves, MonitorSignals, MonitorSends,
           AlertChecks, AlertSends
  <2> QED BY <2>1, LostMoves DEF TypeInv
<1> QED BY <1>1, <1>2, <1>3, <1>4, <1>5, <1>6, <1>7 DEF TaskStep

\* What a call of shell_exec changes
LEMMA StartedChanges ==
  ASSUME TypeInv, NEW p \in Procs, NEW r, Started(p, r)
  PROVE  /\ pid'[p] = idc + 1 /\ idc + 1 # 0 /\ idc + 1 \in Nat
         /\ \A q \in Procs : q # p =>
              /\ pid'[q] = pid[q] /\ entry'[q] = entry[q] /\ task'[q] = task[q]
              /\ os'[q] = os[q] /\ report'[q] = report[q] /\ req'[q] = req[q]
              /\ (q \in heirs' <=> q \in heirs)
         /\ \/ os'[p] = "live" /\ task'[p] = Tasks(r) /\ entry'[p] = "running"
               /\ report'[p] = report[p]
            \/ os'[p] = os[p] /\ task'[p] = task[p] /\ entry'[p] = "running"
               /\ report'[p] = report[p] /\ heirs' = heirs
            \/ os'[p] = os[p] /\ task'[p] = task[p] /\ entry'[p] = "failed" /\ heirs' = heirs
               /\ report'[p] = Append(report[p], [kind |-> "failed", preview |-> <<>>])
<1> USE DEF TypeInv, TypeOK
<1>1. pid'[p] = idc + 1 /\ idc + 1 # 0 /\ idc + 1 \in Nat
      /\ \A q \in Procs : q # p => pid'[q] = pid[q] /\ req'[q] = req[q]
  BY DEF Started
<1>2. CASE Spawn(p, r)
  <2>1. \A q \in Procs : q # p => entry'[q] = entry[q] /\ task'[q] = task[q] /\ os'[q] = os[q]
                                  /\ report'[q] = report[q] /\ (q \in heirs' <=> q \in heirs)
    BY <1>2 DEF Spawn
  <2>2. os'[p] = "live" /\ task'[p] = Tasks(r) /\ entry'[p] = "running" /\ report'[p] = report[p]
    BY <1>2 DEF Spawn
  <2> QED BY <1>1, <2>1, <2>2
<1>3. CASE SpawnFails(p)
  <2>1. \A q \in Procs : q # p => entry'[q] = entry[q] /\ task'[q] = task[q] /\ os'[q] = os[q]
                                  /\ report'[q] = report[q] /\ heirs' = heirs
    BY <1>3 DEF SpawnFails
  <2>2. os'[p] = os[p] /\ heirs' = heirs /\ task'[p] = task[p] /\ entry'[p] = "failed"
        /\ report'[p] = Append(report[p], [kind |-> "failed", preview |-> <<>>])
    BY <1>3 DEF SpawnFails
  <2> QED BY <1>1, <2>1, <2>2
<1>4. CASE entry' = [entry EXCEPT ![p] = "running"] /\ UNCHANGED <<os, heirs, task, report>>
  BY <1>1, <1>4
<1> QED BY <1>2, <1>3, <1>4 DEF Started

LEMMA FreshStep ==
  ASSUME TypeInv, FreshInv, [Next]_vars
  PROVE  FreshInv'
<1>0. /\ chan \in Seq(EventType) /\ \A k \in DOMAIN chan : chan[k].proc \in Procs
      /\ task \in [Procs -> TaskType] /\ os \in [Procs -> OsStates]
  <2>1. chan \in Seq(EventType)
    BY DEF TypeInv, TypeOK
  <2>2. \A k \in DOMAIN chan : chan[k] \in EventType
    BY <2>1
  <2> QED BY <2>1, <2>2 DEF EventType, TypeInv, TypeOK
<1> DEFINE F(p) == pid[p] = 0 =>
             /\ os[p] = "none" /\ task[p] = Nothing /\ report[p] = <<>> /\ entry[p] = "absent"
             /\ inbox[p] = <<>> /\ accepted[p] = 0 /\ given[p] = 0 /\ p \notin stdins
           G(p) == os[p] = "none" =>
             /\ task[p] = Nothing /\ wrote[p] = Zeros /\ lost[p] = Zeros /\ p \notin heirs
           H == \A k \in DOMAIN chan : pid[chan[k].proc] # 0
<1>a. (\A p \in Procs : F(p) /\ G(p)) /\ H
  BY DEF FreshInv
<1>b. SUFFICES (\A p \in Procs : F(p)' /\ G(p)') /\ H'
  BY DEF FreshInv
<1>1. CASE Unrelated
  BY <1>1, <1>a DEF Unrelated
<1>2. CASE ApplyEvent
  <2> DEFINE e == Head(chan)
  <2>1. /\ chan # <<>> /\ chan' = Tail(chan)
        /\ UNCHANGED <<pid, os, heirs, task, inbox, accepted, given, stdins, wrote, lost>>
    BY <1>2 DEF ApplyEvent, osVars
  <2>2. e = chan[1] /\ 1 \in DOMAIN chan /\ e.proc \in Procs
    BY <1>0, <2>1
  <2>3. pid[e.proc] # 0
    BY <1>a, <2>2
  <2>4. \A q \in Procs : q # e.proc => entry'[q] = entry[q] /\ report'[q] = report[q]
    BY <1>2, <2>2 DEF ApplyEvent, TypeInv, TypeOK
  <2>5. H'
    <3>1. \A k \in DOMAIN chan' : k + 1 \in DOMAIN chan /\ chan'[k] = chan[k + 1]
      BY <1>0, <2>1
    <3> QED BY <1>a, <2>1, <3>1
  <2> HIDE DEF e
  <2>6. ASSUME NEW q \in Procs PROVE F(q)' /\ G(q)'
    <3>1. F(q) /\ G(q)
      BY <1>a
    <3>2. CASE q = e.proc
      BY <2>1, <2>3, <3>1, <3>2
    <3>3. CASE q # e.proc
      BY <2>1, <2>4, <3>1, <3>3
    <3> QED BY <3>2, <3>3
  <2> QED BY <2>5, <2>6
<1>3. CASE Restart
  <2>1. chan' = <<>> /\ stdins' = {} /\ heirs' = {}
        /\ UNCHANGED <<report, pid, accepted, stored, lost, wrote, given>>
    BY <1>3 DEF Restart
  <2>2. \A q \in Procs : /\ entry'[q] = "absent" /\ task'[q] = Nothing /\ inbox'[q] = <<>>
                         /\ os'[q] = "none" <=> os[q] = "none"
    BY <1>3 DEF Restart
  <2>3. H'
    BY <2>1
  <2> QED BY <1>a, <2>1, <2>2, <2>3
<1>4. ASSUME NEW p \in Procs, NEW r, Started(p, r) PROVE (\A q \in Procs : F(q)' /\ G(q)') /\ H'
  <2>1. UNCHANGED <<stdins, inbox, accepted, chan, stored, lost, wrote, given>> /\ pid[p] = 0
    BY <1>4 DEF Started
  <2>2. H'
    <3>1. \A q \in Procs : pid[q] # 0 => pid'[q] # 0
      BY <1>4, <2>1, StartedChanges
    <3> QED BY <1>0, <1>a, <2>1, <3>1
  <2>3. ASSUME NEW q \in Procs PROVE F(q)' /\ G(q)'
    <3>1. F(q) /\ G(q)
      BY <1>a
    <3>2. CASE q = p
      BY <1>4, <2>1, <3>1, <3>2, StartedChanges
    <3>3. CASE q # p
      BY <1>4, <2>1, <3>1, <3>3, StartedChanges
    <3> QED BY <3>2, <3>3
  <2> QED BY <2>2, <2>3
<1>5. ASSUME NEW p \in Procs, SendStdin(p) \/ CloseStdin(p)
      PROVE  (\A q \in Procs : F(q)' /\ G(q)') /\ H'
  <2>1. /\ UNCHANGED <<entry, report, pid, task, chan, stored, lost, os, heirs, wrote, given>>
        /\ stdins' \subseteq stdins
        /\ UNCHANGED <<inbox, accepted>>
           \/ /\ p \in stdins
              /\ \A q \in Procs : q # p => inbox'[q] = inbox[q] /\ accepted'[q] = accepted[q]
    BY <1>5 DEF SendStdin, CloseStdin, OpFrame, TypeInv, TypeOK
  <2> QED BY <1>a, <2>1
<1>6. ASSUME NEW p \in Procs, InsertRunning(p) \/ Writer(p) \/ Reader(p) \/ Monitor(p) \/ Alert(p)
      PROVE  (\A q \in Procs : F(q)' /\ G(q)') /\ H'
  <2>1. TaskStep(p)
    BY <1>6, TaskSteps
  <2>2. H'
    <3>1. CASE chan' = chan
      BY <1>a, <2>1, <3>1 DEF TaskStep
    <3>2. CASE \E k \in Kinds : chan' = Append(chan, Event(k, p))
      <4>1. PICK k \in Kinds : chan' = Append(chan, Event(k, p))
        BY <3>2
      <4>2. Event(k, p) \in EventType /\ Event(k, p).proc = p
        BY DEF Event, EventType
      <4>3. \A i \in DOMAIN chan' : \/ i \in DOMAIN chan /\ chan'[i] = chan[i]
                                    \/ chan'[i] = Event(k, p)
        BY <1>0, <4>1, <4>2
      <4> QED BY <1>a, <2>1, <4>2, <4>3 DEF TaskStep
    <3> QED BY <2>1, <3>1, <3>2 DEF TaskStep
  <2> QED BY <1>a, <2>1, <2>2 DEF TaskStep
<1>7. ASSUME NEW p \in Procs, ProcessStep(p) PROVE (\A q \in Procs : F(q)' /\ G(q)') /\ H'
  <2>1. /\ UNCHANGED <<entry, report, pid, task, stdins, inbox, accepted, chan, stored, lost, given>>
        /\ os[p] # "none" /\ pid[p] # 0
    <3>1. os[p] = "live" \/ p \in heirs
      BY <1>7 DEF ProcessStep, ProcessWrites, BrokenPipe, ProcessExits, HeirEnds, Alive
    <3>2. os[p] # "none" /\ pid[p] # 0
      BY <3>1, BusyKnown
    <3> QED
      BY <1>7, <3>2 DEF ProcessStep, ProcessWrites, BrokenPipe, ProcessExits, HeirEnds, OsFrame,
                        agentVars
  <2>2. os'[p] # "none" /\ heirs' \subseteq heirs /\ \A q \in Procs : q # p => os'[q] = os[q]
    BY <1>0, <1>7, <2>1 DEF ProcessStep, ProcessWrites, BrokenPipe, ProcessExits, HeirEnds
  <2>3. \A q \in Procs : q # p => wrote'[q] = wrote[q]
    BY <1>7 DEF ProcessStep, ProcessWrites, BrokenPipe, ProcessExits, HeirEnds, TypeInv, TypeOK
  <2> QED BY <1>a, <2>1, <2>2, <2>3
<1> QED
  BY <1>1, <1>2, <1>3, <1>4, <1>5, <1>6, <1>7, StepForms

\* The writer is moved on by its own steps only.
LEMMA SameWriter ==
  ASSUME TypeInv, NEW p \in Procs, InsertRunning(p) \/ Reader(p) \/ Monitor(p) \/ Alert(p)
  PROVE  task'[p].writer = task[p].writer
<1>0. TypeOK
  BY DEF TypeInv
<1>1. CASE InsertRunning(p)
  BY <1>0, <1>1, InsertMoves DEF InsertRunning
<1>2. CASE Reader(p)
  <2>1. task' = task \/ \E x \in {"err", "done"} : task' = [task EXCEPT ![p].reader = x]
    BY <1>2 DEF Reader, ReadLine, EndOfStream
  <2> QED BY <1>0, <2>1, ReaderMoves
<1>3. CASE Monitor(p)
  <2>1. \E x \in {"signal", "send", "done"} : task' = [task EXCEPT ![p].monitor = x]
    BY <1>3 DEF Monitor, MonitorRemoves, MonitorSignals, MonitorSends
  <2> QED BY <1>0, <2>1, MonitorMoves
<1>4. CASE Alert(p)
  <2>1. \E x \in {"fire", "done"} : task' = [task EXCEPT ![p].alert = x]
    BY <1>4 DEF Alert, AlertChecks, AlertSends
  <2> QED BY <1>0, <2>1, AlertMoves
<1> QED BY <1>1, <1>2, <1>3, <1>4

\* The monitor is moved on by its own steps only.
LEMMA SameMonitor ==
  ASSUME TypeInv, NEW p \in Procs, InsertRunning(p) \/ Writer(p) \/ Reader(p) \/ Alert(p)
  PROVE  task'[p].monitor = task[p].monitor
<1>0. TypeOK
  BY DEF TypeInv
<1>1. CASE InsertRunning(p)
  BY <1>0, <1>1, InsertMoves DEF InsertRunning
<1>2. CASE Writer(p)
  <2>1. task' = task \/ \E x \in {"open", "closing", "done"} :
                            task' = [task EXCEPT ![p].writer = x]
    BY <1>2 DEF Writer, RegisterStdin, WriteStdin, EndWriter
  <2> QED BY <1>0, <2>1, WriterMoves
<1>3. CASE Reader(p)
  <2>1. task' = task \/ \E x \in {"err", "done"} : task' = [task EXCEPT ![p].reader = x]
    BY <1>3 DEF Reader, ReadLine, EndOfStream
  <2> QED BY <1>0, <2>1, ReaderMoves
<1>4. CASE Alert(p)
  <2>1. \E x \in {"fire", "done"} : task' = [task EXCEPT ![p].alert = x]
    BY <1>4 DEF Alert, AlertChecks, AlertSends
  <2> QED BY <1>0, <2>1, AlertMoves
<1> QED BY <1>1, <1>2, <1>3, <1>4

\* The reader is moved on by its own steps only.
LEMMA SameReader ==
  ASSUME TypeInv, NEW p \in Procs, InsertRunning(p) \/ Writer(p) \/ Monitor(p) \/ Alert(p)
  PROVE  task'[p].reader = task[p].reader
<1>0. TypeOK
  BY DEF TypeInv
<1>1. CASE InsertRunning(p)
  BY <1>0, <1>1, InsertMoves DEF InsertRunning
<1>2. CASE Writer(p)
  <2>1. task' = task \/ \E x \in {"open", "closing", "done"} :
                            task' = [task EXCEPT ![p].writer = x]
    BY <1>2 DEF Writer, RegisterStdin, WriteStdin, EndWriter
  <2> QED BY <1>0, <2>1, WriterMoves
<1>3. CASE Monitor(p)
  <2>1. \E x \in {"signal", "send", "done"} : task' = [task EXCEPT ![p].monitor = x]
    BY <1>3 DEF Monitor, MonitorRemoves, MonitorSignals, MonitorSends
  <2> QED BY <1>0, <2>1, MonitorMoves
<1>4. CASE Alert(p)
  <2>1. \E x \in {"fire", "done"} : task' = [task EXCEPT ![p].alert = x]
    BY <1>4 DEF Alert, AlertChecks, AlertSends
  <2> QED BY <1>0, <2>1, AlertMoves
<1> QED BY <1>1, <1>2, <1>3, <1>4

LEMMA FreshInit ==
  ASSUME Init
  PROVE  FreshInv
BY DEF Init, FreshInv

LEMMA FreshKept == Spec => [](TypeInv /\ FreshInv)
<1>1. Init => TypeInv /\ FreshInv
  BY InitTyped, FreshInit
<1>2. TypeInv /\ FreshInv /\ [Next]_vars => (TypeInv /\ FreshInv)'
  BY StepTyped, FreshStep
<1> QED BY <1>1, <1>2, PTL DEF Spec

-----------------------------------------------------------------------------
(* The input of a live process: what was accepted and not yet written is in *)
(* the channel, and nothing is accepted behind the end.                    *)

Pending(s) == IF s # <<>> /\ s[Len(s)] = "close" THEN Len(s) - 1 ELSE Len(s)

Input(p) ==
  os[p] = "live" =>
    /\ task[p].writer \in {"none", "pending"} =>
         inbox[p] = <<>> /\ p \notin stdins /\ given[p] = accepted[p]
    /\ task[p].writer = "open" =>
         /\ \A i \in DOMAIN inbox[p] :
              inbox[p][i] = "close" => i = Len(inbox[p]) /\ p \notin stdins
         /\ accepted[p] = given[p] + Pending(inbox[p])
    /\ task[p].writer \in {"closing", "done"} => given[p] = accepted[p] /\ p \notin stdins

InputInv == \A p \in Procs : Input(p)

Texts == {"data", "close"}

LEMMA PendingAppend ==
  ASSUME NEW s \in Seq(Texts), \A i \in DOMAIN s : s[i] # "close"
  PROVE  /\ Pending(s) = Len(s) /\ Pending(Append(s, "data")) = Len(s) + 1
         /\ Pending(Append(s, "close")) = Len(s)
         /\ \A i \in DOMAIN Append(s, "data") : Append(s, "data")[i] # "close"
         /\ \A i \in DOMAIN Append(s, "close") :
              Append(s, "close")[i] = "close" => i = Len(Append(s, "close"))
<1>1. Len(s) \in Nat /\ DOMAIN s = 1..Len(s)
  OBVIOUS
<1>2. Pending(s) = Len(s)
  <2>1. s # <<>> => Len(s) \in DOMAIN s
    BY <1>1
  <2> QED BY <2>1 DEF Pending
<1>3. ASSUME NEW x \in Texts
      PROVE  /\ Append(s, x) # <<>> /\ Len(Append(s, x)) = Len(s) + 1
             /\ DOMAIN Append(s, x) = 1..(Len(s) + 1)
             /\ Append(s, x)[Len(s) + 1] = x
             /\ \A i \in DOMAIN Append(s, x) : i = Len(s) + 1 \/ (i \in DOMAIN s /\ Append(s, x)[i] = s[i])
  BY <1>1
<1>4. "data" \in Texts /\ "close" \in Texts
  BY DEF Texts
<1>5. Pending(Append(s, "data")) = Len(s) + 1
  BY <1>1, <1>3, <1>4 DEF Pending
<1>6. Pending(Append(s, "close")) = Len(s)
  <2> DEFINE c == Append(s, "close")
  <2>1. c # <<>> /\ Len(c) = Len(s) + 1 /\ c[Len(c)] = "close"
    BY <1>3, <1>4
  <2> HIDE DEF c
  <2>2. Pending(c) = Len(s)
    BY <1>1, <2>1 DEF Pending
  <2> QED BY <2>2 DEF c
<1>7. \A i \in DOMAIN Append(s, "data") : Append(s, "data")[i] # "close"
  BY <1>3, <1>4
<1>8. \A i \in DOMAIN Append(s, "close") :
        Append(s, "close")[i] = "close" => i = Len(Append(s, "close"))
  BY <1>3, <1>4
<1> QED BY <1>2, <1>5, <1>6, <1>7, <1>8

LEMMA PendingTail ==
  ASSUME NEW s \in Seq(Texts), s # <<>>,
         \A i \in DOMAIN s : s[i] = "close" => i = Len(s)
  PROVE  /\ Head(s) = "data" => Pending(s) = 1 + Pending(Tail(s))
         /\ Head(s) # "data" => Pending(s) = 0
         /\ \A i \in DOMAIN Tail(s) : i + 1 \in DOMAIN s /\ Tail(s)[i] = s[i + 1]
         /\ Len(Tail(s)) = Len(s) - 1 /\ Pending(Tail(s)) \in Nat
<1>1. /\ Len(s) \in Nat \ {0} /\ DOMAIN s = 1..Len(s) /\ 1 \in DOMAIN s
      /\ Head(s) = s[1] /\ s[1] \in Texts
  OBVIOUS
<1>2. /\ Tail(s) \in Seq(Texts) /\ Len(Tail(s)) = Len(s) - 1 /\ DOMAIN Tail(s) = 1..(Len(s) - 1)
      /\ \A i \in DOMAIN Tail(s) : i + 1 \in DOMAIN s /\ Tail(s)[i] = s[i + 1]
  BY <1>1
<1>3. CASE Len(s) = 1
  <2>1. Tail(s) = <<>>
    BY <1>2, <1>3
  <2>2. Pending(Tail(s)) = 0
    BY <2>1 DEF Pending
  <2>3. Pending(s) = IF s[1] = "close" THEN 0 ELSE 1
    BY <1>1, <1>3 DEF Pending
  <2> QED BY <1>1, <1>2, <2>2, <2>3 DEF Texts
<1>4. CASE Len(s) # 1
  <2>1. Head(s) = "data"
    BY <1>1, <1>4 DEF Texts
  <2>2. Tail(s) # <<>> /\ Tail(s)[Len(Tail(s))] = s[Len(s)]
    BY <1>1, <1>2, <1>4
  <2>3. Pending(s) = 1 + Pending(Tail(s)) /\ Pending(Tail(s)) \in Nat
    BY <1>1, <1>2, <1>4, <2>2 DEF Pending
  <2> QED BY <1>2, <2>1, <2>3
<1> QED BY <1>3, <1>4

LEMMA InputStep ==
  ASSUME TypeInv, FreshInv, InputInv, [Next]_vars
  PROVE  InputInv'
<1>0. /\ inbox \in [Procs -> Seq(Texts)] /\ os \in [Procs -> OsStates]
      /\ given \in [Procs -> Nat] /\ accepted \in [Procs -> Nat]
  BY DEF TypeInv, TypeOK, Texts
<1>a. \A p \in Procs : Input(p)
  BY DEF InputInv
<1>b. SUFFICES \A p \in Procs : Input(p)'
  BY DEF InputInv
\* Nothing about q has changed.
<1>c. ASSUME NEW q \in Procs, os'[q] = os[q], task'[q] = task[q], inbox'[q] = inbox[q],
             q \in stdins' <=> q \in stdins, given'[q] = given[q], accepted'[q] = accepted[q]
      PROVE  Input(q)'
  BY <1>a, <1>c DEF Input
<1>1. CASE Unrelated \/ ApplyEvent
  BY <1>1, <1>c DEF Unrelated, ApplyEvent, osVars
<1>2. CASE Restart
  <2>1. \A p \in Procs : os'[p] # "live"
    BY <1>2 DEF Restart
  <2> QED BY <2>1 DEF Input
<1>3. ASSUME NEW p \in Procs, NEW r, Started(p, r) PROVE \A q \in Procs : Input(q)'
  <2>1. UNCHANGED <<stdins, inbox, accepted, given>> /\ pid[p] = 0
    BY <1>3 DEF Started
  <2>2. ASSUME NEW q \in Procs, q # p PROVE Input(q)'
    BY <1>3, <1>c, <2>1, <2>2, StartedChanges
  <2>3. /\ inbox[p] = <<>> /\ accepted[p] = 0 /\ given[p] = 0 /\ p \notin stdins
        /\ os[p] = "none"
    BY <2>1 DEF FreshInv
  <2>4. os'[p] = os[p] \/ task'[p] = Tasks(r)
    BY <1>3, StartedChanges
  <2>5. os'[p] = "live" => task'[p].writer \in {"none", "pending"}
    BY <2>3, <2>4, TasksTyped
  <2>6. Input(p)'
    BY <2>1, <2>3, <2>5 DEF Input
  <2> QED BY <2>2, <2>6
<1>4. ASSUME NEW p \in Procs, SendStdin(p) PROVE \A q \in Procs : Input(q)'
  <2>1. CASE p \in stdins
    <3>1. /\ UNCHANGED <<os, task, given, stdins>>
          /\ inbox' = [inbox EXCEPT ![p] = Append(inbox[p], "data")]
          /\ accepted' = [accepted EXCEPT ![p] = accepted[p] + 1]
      BY <1>4, <2>1 DEF SendStdin, OpFrame
    <3>2. inbox'[p] = Append(inbox[p], "data") /\ accepted'[p] = accepted[p] + 1
      BY <1>0, <3>1
    <3>3. \A q \in Procs : q # p => inbox'[q] = inbox[q] /\ accepted'[q] = accepted[q]
      BY <1>0, <3>1
    <3>4. CASE os[p] = "live"
      <4>w. task[p].writer = "open"
        <5>1. task[p].writer \in {"none", "pending", "open", "closing", "done"}
          BY DEF TypeInv, TypeOK, TaskType
        <5> QED BY <1>a, <2>1, <3>4, <5>1 DEF Input
      <4>1. /\ \A i \in DOMAIN inbox[p] : inbox[p][i] # "close"
            /\ accepted[p] = given[p] + Pending(inbox[p])
        BY <1>a, <2>1, <3>4, <4>w DEF Input
      <4>2. /\ inbox[p] \in Seq(Texts) /\ Len(inbox[p]) \in Nat
            /\ given[p] \in Nat /\ accepted[p] \in Nat
        BY <1>0
      <4>3. /\ Pending(inbox[p]) = Len(inbox[p]) /\ Pending(inbox'[p]) = Len(inbox[p]) + 1
            /\ \A i \in DOMAIN inbox'[p] : inbox'[p][i] # "close"
        BY <3>2, <4>1, <4>2, PendingAppend
      <4>4. accepted'[p] = given'[p] + Pending(inbox'[p])
        BY <3>1, <3>2, <4>1, <4>2, <4>3
      <4> QED BY <1>c, <2>1, <3>1, <3>3, <4>3, <4>4, <4>w DEF Input
    <3>5. CASE os[p] # "live"
      BY <1>c, <3>1, <3>3, <3>5 DEF Input
    <3> QED BY <3>4, <3>5
  <2>2. CASE p \notin stdins
    BY <1>4, <1>c, <2>2 DEF SendStdin, OpFrame
  <2> QED BY <2>1, <2>2
<1>5. ASSUME NEW p \in Procs, CloseStdin(p) PROVE \A q \in Procs : Input(q)'
  <2>1. UNCHANGED <<os, task, given, accepted>> /\ stdins' = stdins \ {p}
    BY <1>5 DEF CloseStdin, OpFrame
  <2>2. CASE p \in stdins
    <3>1. inbox' = [inbox EXCEPT ![p] = Append(inbox[p], "close")]
      BY <1>5, <2>2 DEF CloseStdin
    <3>2. inbox'[p] = Append(inbox[p], "close")
          /\ \A q \in Procs : q # p => inbox'[q] = inbox[q]
      BY <1>0, <3>1
    <3>3. CASE os[p] = "live" /\ task[p].writer = "open"
      <4>1. /\ \A i \in DOMAIN inbox[p] : inbox[p][i] # "close"
            /\ accepted[p] = given[p] + Pending(inbox[p])
        BY <1>a, <2>2, <3>3 DEF Input
      <4>2. inbox[p] \in Seq(Texts)
        BY <1>0
      <4>3. /\ Pending(inbox'[p]) = Pending(inbox[p])
            /\ \A i \in DOMAIN inbox'[p] : inbox'[p][i] = "close" => i = Len(inbox'[p])
        BY <3>2, <4>1, <4>2, PendingAppend
      <4>4. Input(p)'
        BY <2>1, <3>3, <4>1, <4>3 DEF Input
      <4> QED BY <1>c, <2>1, <3>2, <4>4
    <3>4. CASE ~(os[p] = "live" /\ task[p].writer = "open")
      <4>1. Input(p)'
        BY <1>a, <2>1, <2>2, <3>4 DEF Input
      <4> QED BY <1>c, <2>1, <3>2, <4>1
    <3> QED BY <3>3, <3>4
  <2>3. CASE p \notin stdins
    <3>1. inbox' = inbox /\ stdins' = stdins
      BY <1>5, <2>1, <2>3 DEF CloseStdin
    <3> QED BY <1>c, <2>1, <3>1
  <2> QED BY <2>2, <2>3
<1>6. ASSUME NEW p \in Procs, InsertRunning(p) \/ Reader(p) \/ Monitor(p) \/ Alert(p)
      PROVE  \A q \in Procs : Input(q)'
  <2>1. TaskStep(p)
    BY <1>6, TaskSteps
  <2>2. UNCHANGED <<stdins, inbox, given>>
    BY <1>6 DEF InsertRunning, Reader, Monitor, Alert, ReadLine, EndOfStream, MonitorRemoves,
                MonitorSignals, MonitorSends, AlertChecks, AlertSends
  <2>3. task'[p].writer = task[p].writer
    BY <1>6, SameWriter
  <2>4. Input(p)'
    BY <1>a, <2>1, <2>2, <2>3 DEF Input, TaskStep
  <2> QED BY <1>c, <2>1, <2>2, <2>4 DEF TaskStep
<1>7. ASSUME NEW p \in Procs, Writer(p) PROVE \A q \in Procs : Input(q)'
  <2>1. TaskStep(p)
    BY <1>7, TaskSteps
  <2>2. SUFFICES ASSUME os[p] = "live" PROVE Input(p)'
    BY <1>c, <2>1 DEF TaskStep, Input
  <2>3. CASE RegisterStdin(p)
    <3>1. task'[p].writer = "open"
      BY <2>3, WriterMoves DEF RegisterStdin, TypeInv
    <3>2. inbox'[p] = <<>> /\ given'[p] = accepted'[p] /\ given[p] \in Nat /\ given' = given
      BY <1>0, <1>a, <2>1, <2>2, <2>3 DEF RegisterStdin, Input, TaskStep
    <3>3. Pending(inbox'[p]) = 0 /\ DOMAIN inbox'[p] = {}
      BY <3>2 DEF Pending
    <3> QED BY <3>1, <3>2, <3>3 DEF Input
  <2>4. CASE WriteStdin(p)
    <3>1. /\ inbox[p] \in Seq(Texts) /\ inbox[p] # <<>> /\ given[p] \in Nat
          /\ task[p].writer = "open" /\ inbox'[p] = Tail(inbox[p]) /\ stdins' = stdins
          /\ accepted' = accepted
      BY <1>0, <2>1, <2>4 DEF WriteStdin, TaskStep
    <3>2. /\ \A i \in DOMAIN inbox[p] :
               inbox[p][i] = "close" => i = Len(inbox[p]) /\ p \notin stdins
          /\ accepted[p] = given[p] + Pending(inbox[p])
      BY <1>a, <2>2, <3>1 DEF Input
    <3>3. /\ Head(inbox[p]) = "data" => Pending(inbox[p]) = 1 + Pending(inbox'[p])
          /\ Head(inbox[p]) # "data" => Pending(inbox[p]) = 0
          /\ \A i \in DOMAIN inbox'[p] :
               i + 1 \in DOMAIN inbox[p] /\ inbox'[p][i] = inbox[p][i + 1] /\ i \in Nat
          /\ Len(inbox'[p]) = Len(inbox[p]) - 1 /\ Pending(inbox'[p]) \in Nat
          /\ Len(inbox[p]) \in Nat
      BY <3>1, <3>2, PendingTail
    <3>4. CASE Head(inbox[p]) = "data"
      <4>1. given' = [given EXCEPT ![p] = given[p] + 1] /\ task' = task
        BY <2>2, <2>4, <3>4 DEF WriteStdin, Alive
      <4>2. given'[p] = given[p] + 1
        BY <1>0, <4>1
      <4>3. accepted'[p] = given'[p] + Pending(inbox'[p])
        BY <3>1, <3>2, <3>3, <3>4, <4>2
      <4>4. \A i \in DOMAIN inbox'[p] :
               inbox'[p][i] = "close" => i = Len(inbox'[p]) /\ p \notin stdins'
        BY <3>1, <3>2, <3>3
      <4> QED BY <3>1, <4>1, <4>3, <4>4 DEF Input
    <3>5. CASE Head(inbox[p]) # "data"
      <4>1. given' = given /\ task'[p].writer = "closing"
        BY <2>4, <3>5, WriterMoves DEF WriteStdin, TypeInv
      <4>2. accepted'[p] = given'[p]
        BY <3>1, <3>2, <3>3, <3>5, <4>1
      <4>3. p \notin stdins'
        <5>1. 1 \in DOMAIN inbox[p] /\ inbox[p][1] = "close"
          BY <3>1, <3>5 DEF Texts
        <5> QED BY <3>1, <3>2, <5>1
      <4> QED BY <4>1, <4>2, <4>3 DEF Input
    <3> QED BY <3>4, <3>5
  <2>5. CASE EndWriter(p)
    <3>1. task'[p].writer = "done" /\ given' = given /\ p \notin stdins'
      BY <2>5, WriterMoves DEF EndWriter, TypeInv
    <3>2. given[p] = accepted[p]
      BY <1>a, <2>2, <2>5 DEF EndWriter, Input
    <3> QED BY <2>1, <3>1, <3>2 DEF Input, TaskStep
  <2> QED BY <1>7, <2>3, <2>4, <2>5 DEF Writer
<1>8. ASSUME NEW p \in Procs, ProcessStep(p) PROVE \A q \in Procs : Input(q)'
  <2>1. UNCHANGED <<task, stdins, inbox, accepted, given>>
    BY <1>8 DEF ProcessStep, ProcessWrites, BrokenPipe, ProcessExits, HeirEnds, OsFrame, agentVars
  <2>2. \A q \in Procs : os'[q] = os[q] \/ os'[q] # "live"
    BY <1>0, <1>8 DEF ProcessStep, ProcessWrites, BrokenPipe, ProcessExits, HeirEnds
  <2> QED BY <1>a, <2>1, <2>2 DEF Input
<1> QED
  BY <1>1, <1>2, <1>3, <1>4, <1>5, <1>6, <1>7, <1>8, StepForms

(***************************************************************************)
(* send_stdin, close_stdin and the writer task: however the calls of the   *)
(* agent, the writer and a kill interleave, a live interactive process     *)
(* never sees the end of its input before an input that was accepted.      *)
(***************************************************************************)
THEOREM InputKept == Spec => []InputBeforeEnd
<1>1. Init => InputInv
  BY DEF Init, InputInv, Input
<1>2. TypeInv /\ FreshInv /\ InputInv /\ [Next]_vars => InputInv'
  BY InputStep
<1>3. InputInv => InputBeforeEnd
  BY DEF InputInv, Input, InputBeforeEnd
<1> QED BY <1>1, <1>2, <1>3, FreshKept, PTL DEF Spec

-----------------------------------------------------------------------------
(* The end of a process is told once: by the item that a failed spawn       *)
(* pushes, or by the one event that the monitor sends.                     *)

Status(p) ==
  /\ \A k, l \in Ends(p) : k = l
  /\ \A k, l \in Coming(p) : k = l
  /\ Coming(p) # {} => Ends(p) = {} /\ task[p].monitor = "done" /\ entry[p] # "absent"
  /\ task[p].monitor \in {"wait", "signal", "send"} => Ends(p) = {} /\ Coming(p) = {}
  /\ task[p].monitor # "none" => entry[p] # "absent"
  /\ entry[p] \in Terminal => Ends(p) # {}
  /\ entry[p] = "running" => Ends(p) = {}
  /\ entry[p] \in Terminal => \A k \in Ends(p) : report[p][k].kind = entry[p]

StatusInv == \A p \in Procs : Status(p)

LEMMA ReportGrows ==
  ASSUME TypeInv, NEW p \in Procs, NEW i \in ReportType,
         report'[p] = Append(report[p], i)
  PROVE  /\ i.kind \in Terminal => Ends(p)' = Ends(p) \cup {Len(report[p]) + 1}
         /\ i.kind \notin Terminal => Ends(p)' = Ends(p)
         /\ \A k \in Ends(p) : report'[p][k] = report[p][k]
         /\ report'[p][Len(report[p]) + 1] = i
<1> DEFINE s == report[p]
<1>1. s \in Seq(ReportType)
  BY DEF TypeInv, TypeOK
<1>2. report'[p] = Append(s, i)
  OBVIOUS
<1> HIDE DEF s
<1>3. Len(s) \in Nat /\ DOMAIN s = 1..Len(s)
  BY <1>1
<1>4. /\ DOMAIN Append(s, i) = DOMAIN s \cup {Len(s) + 1}
      /\ \A k \in DOMAIN s : Append(s, i)[k] = s[k]
      /\ Append(s, i)[Len(s) + 1] = i
  BY <1>1, <1>3
<1>5. Ends(p) = {k \in DOMAIN s : s[k].kind \in Terminal}
  BY DEF Ends, s
<1>6. Ends(p)' = {k \in DOMAIN Append(s, i) : Append(s, i)[k].kind \in Terminal}
  BY <1>2 DEF Ends
<1>7. i.kind \in Terminal => Ends(p)' = Ends(p) \cup {Len(s) + 1}
  BY <1>4, <1>5, <1>6
<1>8. i.kind \notin Terminal => Ends(p)' = Ends(p)
  BY <1>4, <1>5, <1>6
<1> QED BY <1>2, <1>4, <1>5, <1>7, <1>8 DEF s

LEMMA ChanTyped ==
  ASSUME TypeInv
  PROVE  /\ chan \in Seq(EventType)
         /\ \A k \in DOMAIN chan : chan[k].proc \in Procs /\ chan[k].kind \in Kinds
<1>1. chan \in Seq(EventType)
  BY DEF TypeInv, TypeOK
<1>2. \A k \in DOMAIN chan : chan[k] \in EventType
  BY <1>1
<1> QED BY <1>1, <1>2 DEF EventType

LEMMA EventSent ==
  ASSUME TypeInv, NEW p \in Procs, NEW e \in Kinds, chan' = Append(chan, Event(e, p))
  PROVE  /\ \A q \in Procs : q # p => Coming(q)' = Coming(q)
         /\ e \in Terminal => Coming(p)' = Coming(p) \cup {Len(chan) + 1}
         /\ e \notin Terminal => Coming(p)' = Coming(p)
<1> DEFINE v == Event(e, p)
<1>1. v.kind = e /\ v.proc = p /\ v \in EventType /\ chan' = Append(chan, v)
  BY DEF Event, EventType
<1> HIDE DEF v
<1>2. chan \in Seq(EventType) /\ Len(chan) \in Nat /\ DOMAIN chan = 1..Len(chan)
  BY ChanTyped
<1>3. /\ DOMAIN chan' = DOMAIN chan \cup {Len(chan) + 1}
      /\ \A k \in DOMAIN chan : chan'[k] = chan[k]
      /\ chan'[Len(chan) + 1] = v
  BY <1>1, <1>2
<1>4. \A q \in Procs : q # p => Coming(q)' = Coming(q)
  BY <1>1, <1>3 DEF Coming
<1>5. e \in Terminal => Coming(p)' = Coming(p) \cup {Len(chan) + 1}
  BY <1>1, <1>3 DEF Coming
<1>6. e \notin Terminal => Coming(p)' = Coming(p)
  BY <1>1, <1>3 DEF Coming
<1> QED BY <1>4, <1>5, <1>6

LEMMA EventTaken ==
  ASSUME TypeInv, chan # <<>>, chan' = Tail(chan)
  PROVE  /\ \A q \in Procs : \A k \in Coming(q)' : k \in Nat \ {0} /\ k + 1 \in Coming(q)
         /\ Head(chan).kind \in Terminal => 1 \in Coming(Head(chan).proc)
         /\ Head(chan).proc \in Procs /\ Head(chan).kind \in Kinds
<1>1. chan \in Seq(EventType) /\ Len(chan) \in Nat \ {0} /\ DOMAIN chan = 1..Len(chan)
      /\ Head(chan) = chan[1] /\ 1 \in DOMAIN chan
  BY ChanTyped
<1>2. \A k \in DOMAIN chan' : k \in Nat \ {0} /\ k + 1 \in DOMAIN chan /\ chan'[k] = chan[k + 1]
  BY <1>1
<1>3. \A q \in Procs : \A k \in Coming(q)' : k \in Nat \ {0} /\ k + 1 \in Coming(q)
  BY <1>2 DEF Coming
<1>4. Head(chan).kind \in Terminal => 1 \in Coming(Head(chan).proc)
  BY <1>1 DEF Coming
<1> QED BY <1>1, <1>3, <1>4, ChanTyped

LEMMA StatusStep ==
  ASSUME TypeInv, FreshInv, StatusInv, [Next]_vars
  PROVE  StatusInv'
<1>0. entry \in [Procs -> Statuses] /\ task \in [Procs -> TaskType]
  BY DEF TypeInv, TypeOK
<1>a. \A p \in Procs : Status(p)
  BY DEF StatusInv
<1>b. SUFFICES \A p \in Procs : Status(p)'
  BY DEF StatusInv
<1>c. ASSUME NEW q \in Procs, entry'[q] = entry[q], task'[q].monitor = task[q].monitor,
             report'[q] = report[q], Coming(q)' = Coming(q)
      PROVE  Status(q)'
  <2>1. Ends(q)' = Ends(q)
    BY <1>c DEF Ends
  <2> QED BY <1>a, <1>c, <2>1 DEF Status
<1>d. ASSUME chan' = chan PROVE \A q \in Procs : Coming(q)' = Coming(q)
  BY <1>d DEF Coming
<1>e. ASSUME NEW q \in Procs, pid[q] = 0 PROVE Coming(q) = {} /\ Ends(q) = {} /\ report[q] = <<>>
  <2>1. report[q] = <<>> /\ \A k \in DOMAIN chan : pid[chan[k].proc] # 0
    BY <1>e DEF FreshInv
  <2> QED BY <1>e, <2>1 DEF Coming, Ends
<1>1. CASE Unrelated
  BY <1>1, <1>c, <1>d DEF Unrelated
<1>2. CASE ApplyEvent
  <2> DEFINE e == Head(chan)
             it == [kind |-> e.kind, preview |-> IF e.kind = "timeout" THEN <<>> ELSE Output(e.proc)]
  <2>1. /\ chan # <<>> /\ chan' = Tail(chan) /\ task' = task
        /\ report' = [report EXCEPT ![e.proc] = Append(report[e.proc], it)]
        /\ entry' = IF e.kind \in Terminal /\ entry[e.proc] # "absent"
                      THEN [entry EXCEPT ![e.proc] = e.kind] ELSE entry
    BY <1>2 DEF ApplyEvent
  <2>2. /\ \A q \in Procs : \A k \in Coming(q)' : k \in Nat \ {0} /\ k + 1 \in Coming(q)
        /\ e.kind \in Terminal => 1 \in Coming(e.proc)
        /\ e.proc \in Procs /\ e.kind \in Kinds
    BY <2>1, EventTaken
  <2>3. it \in ReportType /\ it.kind = e.kind
    BY <2>2, PidStored DEF ReportType
  <2> HIDE DEF e, it
  <2>p. PICK p \in Procs : p = e.proc
    BY <2>2
  <2>i. PICK i \in ReportType : i = it
    BY <2>3
  <2>4. /\ report'[p] = Append(report[p], i)
        /\ \A q \in Procs : q # p => report'[q] = report[q] /\ entry'[q] = entry[q]
    BY <2>1, <2>p, <2>i DEF TypeInv, TypeOK
  <2>5. \A q \in Procs : (\A k, l \in Coming(q)' : k = l) /\ (Coming(q)' # {} => Coming(q) # {})
    <3>1. SUFFICES ASSUME NEW q \in Procs
                   PROVE  (\A k, l \in Coming(q)' : k = l) /\ (Coming(q)' # {} => Coming(q) # {})
      OBVIOUS
    <3>2. \A k, l \in Coming(q) : k = l
      BY <1>a DEF Status
    <3> QED BY <2>2, <3>2
  <2>6. ASSUME NEW q \in Procs, q # p PROVE Status(q)'
    <3>1. Ends(q)' = Ends(q)
      BY <2>4, <2>6 DEF Ends
    <3> QED BY <1>a, <2>1, <2>4, <2>5, <2>6, <3>1 DEF Status
  <2>7. /\ i.kind \in Terminal => Ends(p)' = Ends(p) \cup {Len(report[p]) + 1}
        /\ i.kind \notin Terminal => Ends(p)' = Ends(p)
        /\ \A k \in Ends(p) : report'[p][k] = report[p][k]
        /\ report'[p][Len(report[p]) + 1] = i
    BY <2>4, ReportGrows
  <2>8. CASE e.kind \in Terminal
    <3>1. 1 \in Coming(p) /\ Status(p)
      BY <1>a, <2>2, <2>p, <2>8
    <3>2. Coming(p)' = {}
      BY <2>2, <3>1 DEF Status
    <3>3. Ends(p) = {} /\ entry[p] # "absent" /\ task[p].monitor = "done"
      BY <3>1 DEF Status
    <3>4. entry'[p] = i.kind
      BY <1>0, <2>1, <2>3, <2>i, <2>p, <2>8, <3>3
    <3>5. Ends(p)' = {Len(report[p]) + 1}
      BY <2>3, <2>7, <2>8, <2>i, <3>3
    <3>6. \A k \in Ends(p)' : report'[p][k].kind = entry'[p]
      BY <2>7, <3>4, <3>5
    <3>7. task'[p].monitor = "done" /\ entry'[p] \in Terminal
      BY <2>1, <2>3, <2>8, <2>i, <3>3, <3>4
    <3>8. Status(p)'
      BY <3>2, <3>5, <3>6, <3>7 DEF Status, Terminal
    <3> QED BY <2>6, <3>8
  <2>9. CASE e.kind \notin Terminal
    <3>1. Ends(p)' = Ends(p) /\ entry' = entry
      BY <2>1, <2>3, <2>7, <2>9, <2>i
    <3>a. Status(p) /\ entry'[p] = entry[p] /\ task'[p].monitor = task[p].monitor
      BY <1>a, <2>1, <3>1
    <3>b. entry[p] \in Terminal => \A k \in Ends(p) : report'[p][k].kind = entry[p]
      BY <2>7, <3>a DEF Status
    <3>2. Status(p)'
      BY <2>5, <3>1, <3>a, <3>b DEF Status
    <3> QED BY <2>6, <3>2
  <2> QED BY <2>8, <2>9
<1>3. CASE Restart
  <2>1. chan' = <<>> /\ report' = report
    BY <1>3 DEF Restart
  <2>2. \A q \in Procs : entry'[q] = "absent" /\ task'[q].monitor = "none"
    BY <1>3 DEF Restart, Nothing
  <2>3. \A q \in Procs : Coming(q)' = {} /\ Ends(q)' = Ends(q)
    BY <2>1 DEF Coming, Ends
  <2> QED BY <1>a, <2>2, <2>3 DEF Status, Terminal
<1>4. ASSUME NEW p \in Procs, NEW r, Started(p, r) PROVE \A q \in Procs : Status(q)'
  <2>1. chan' = chan /\ pid[p] = 0
    BY <1>4 DEF Started
  <2>2. ASSUME NEW q \in Procs, q # p PROVE Status(q)'
    BY <1>4, <1>c, <1>d, <2>1, <2>2, StartedChanges
  <2>3. Coming(p)' = {} /\ Ends(p) = {} /\ report[p] = <<>> /\ task[p].monitor = "none"
    BY <1>d, <1>e, <2>1 DEF FreshInv, Nothing
  <2>4. CASE /\ entry'[p] = "running" /\ report'[p] = report[p]
    <3>1. Ends(p)' = {}
      BY <2>3, <2>4 DEF Ends
    <3>2. Status(p)'
      BY <2>3, <2>4, <3>1 DEF Status, Terminal
    <3> QED BY <2>2, <3>2
  <2>5. CASE /\ task'[p] = task[p] /\ entry'[p] = "failed"
             /\ report'[p] = Append(report[p], [kind |-> "failed", preview |-> <<>>])
    <3> DEFINE i == [kind |-> "failed", preview |-> <<>>]
    <3>1. i \in ReportType /\ i.kind = "failed" /\ "failed" \in Terminal
      BY DEF ReportType, Kinds, Terminal
    <3>2. report'[p] = Append(report[p], i)
      BY <2>5
    <3> HIDE DEF i
    <3>g. /\ i.kind \in Terminal => Ends(p)' = Ends(p) \cup {Len(report[p]) + 1}
          /\ report'[p][Len(report[p]) + 1] = i
      BY <3>1, <3>2, ReportGrows
    <3>3. /\ Ends(p)' = {Len(report[p]) + 1}
          /\ report'[p][Len(report[p]) + 1] = i
      BY <2>3, <3>1, <3>g
    <3>4. \A k \in Ends(p)' : report'[p][k].kind = "failed"
      BY <3>1, <3>3
    <3>5. Status(p)'
      BY <2>3, <2>5, <3>3, <3>4 DEF Status
    <3> QED BY <2>2, <3>5
  <2> QED BY <1>4, <2>4, <2>5, StartedChanges
<1>5. ASSUME NEW p \in Procs, SendStdin(p) \/ CloseStdin(p) \/ ProcessStep(p)
      PROVE  \A q \in Procs : Status(q)'
  <2>1. UNCHANGED <<entry, report, task, chan>>
    BY <1>5 DEF SendStdin, CloseStdin, OpFrame, ProcessStep, ProcessWrites, BrokenPipe,
                ProcessExits, HeirEnds, OsFrame, agentVars
  <2> QED BY <1>c, <1>d, <2>1
<1>6. ASSUME NEW p \in Procs, InsertRunning(p) \/ Writer(p) \/ Reader(p) \/ Alert(p)
      PROVE  \A q \in Procs : Status(q)'
  <2>1. TaskStep(p)
    BY <1>6, TaskSteps
  <2>2. task'[p].monitor = task[p].monitor
    BY <1>6, SameMonitor
  <2>3. chan' = chan \/ chan' = Append(chan, Event("timeout", p))
    BY <1>6 DEF InsertRunning, Writer, Reader, Alert, RegisterStdin, WriteStdin, EndWriter,
                ReadLine, EndOfStream, AlertChecks, AlertSends
  <2>4. \A q \in Procs : Coming(q)' = Coming(q)
    <3>1. "timeout" \in Kinds /\ "timeout" \notin Terminal
      BY DEF Kinds, Terminal
    <3> QED BY <1>d, <2>3, <3>1, EventSent
  <2> QED BY <1>c, <2>1, <2>2, <2>4 DEF TaskStep
<1>7. ASSUME NEW p \in Procs, Monitor(p) PROVE \A q \in Procs : Status(q)'
  <2>1. TaskStep(p)
    BY <1>7, TaskSteps
  <2>2. /\ task[p].monitor \in {"wait", "signal", "send"} /\ Status(p)
        /\ report' = report /\ entry' = entry
    BY <1>7, <1>a, <2>1
       DEF Monitor, MonitorRemoves, MonitorSignals, MonitorSends, TaskStep
  <2>3. Ends(p) = {} /\ Coming(p) = {} /\ entry[p] # "absent" /\ Ends(p)' = Ends(p)
    BY <2>2 DEF Status, Ends
  <2>4. CASE MonitorRemoves(p) \/ MonitorSignals(p)
    <3>1. chan' = chan
      BY <2>4 DEF MonitorRemoves, MonitorSignals
    <3>2. task'[p].monitor \in {"signal", "send"}
      <4>1. \E x \in {"signal", "send"} : task' = [task EXCEPT ![p].monitor = x]
        BY <2>4 DEF MonitorRemoves, MonitorSignals
      <4> QED BY <4>1, MonitorMoves DEF TypeInv
    <3>3. Status(p)'
      BY <1>d, <2>2, <2>3, <3>1, <3>2 DEF Status
    <3> QED BY <1>c, <1>d, <2>1, <3>1, <3>3 DEF TaskStep
  <2>5. CASE MonitorSends(p)
    <3>1. \E k \in Terminal : chan' = Append(chan, Event(k, p))
      BY <2>5 DEF MonitorSends, Terminal
    <3>2. PICK k \in Terminal : chan' = Append(chan, Event(k, p))
      BY <3>1
    <3>3. k \in Kinds
      BY DEF Terminal, Kinds
    <3>4. /\ \A q \in Procs : q # p => Coming(q)' = Coming(q)
          /\ Coming(p)' = {Len(chan) + 1}
      BY <2>3, <3>2, <3>3, EventSent
    <3>5. task'[p].monitor = "done"
      BY <2>5, MonitorMoves DEF MonitorSends, TypeInv
    <3>6. Status(p)'
      BY <2>2, <2>3, <3>4, <3>5 DEF Status
    <3> QED BY <1>c, <2>1, <3>4, <3>6 DEF TaskStep
  <2> QED BY <1>7, <2>4, <2>5 DEF Monitor
<1> QED
  BY <1>1, <1>2, <1>3, <1>4, <1>5, <1>6, <1>7, StepForms

LEMMA StatusInvKept == Spec => []StatusInv
<1>1. Init => StatusInv
  <2>1. ASSUME Init, NEW p \in Procs PROVE Status(p)
    <3>1. Ends(p) = {} /\ Coming(p) = {} /\ entry[p] = "absent" /\ task[p].monitor = "none"
      BY <2>1 DEF Init, Ends, Coming, Nothing
    <3> QED BY <3>1 DEF Status, Terminal
  <2> QED BY <2>1 DEF StatusInv
<1>2. TypeInv /\ FreshInv /\ StatusInv /\ [Next]_vars => StatusInv'
  BY StatusStep
<1> QED BY <1>1, <1>2, FreshKept, PTL DEF Spec

(***************************************************************************)
(* The monitor, apply_event and a failed spawn: whatever the order of the  *)
(* tasks, a process has at most one item about its end, no second event is *)
(* on its way, and shell_status agrees with what the item said.            *)
(***************************************************************************)
THEOREM StatusKept == Spec => []StatusMatchesReport
<1>1. TypeInv /\ StatusInv => StatusMatchesReport
  <2>1. ASSUME TypeInv, NEW p \in Procs, Status(p)
        PROVE  entry[p] \in Terminal <=> (Reported(p) /\ entry[p] # "absent")
    <3>1. entry[p] \in Statuses
      BY <2>1 DEF TypeInv, TypeOK
    <3> QED BY <2>1, <3>1 DEF Status, Statuses, Terminal, Reported
  <2> QED BY <2>1 DEF StatusInv, Status, StatusMatchesReport, Reported
<1> QED BY <1>1, FreshKept, StatusInvKept, PTL

-----------------------------------------------------------------------------
(* The output of a process that does not share its pid: some lines of      *)
(* stdout, then some of stderr.  A stream is settled once it is known how  *)
(* many of its lines can be read: one that is not UTF-8 is written, or     *)
(* nobody is left who could write.                                         *)

Sole(p) == pid[p] # 0 /\ OwnPid(p)

Settled(p, s) == wrote[p][s] > req[p].good[s] \/ ~Alive(p)

\* The reader leaves a stream once it is settled, the monitor waits for the reader.
Ended(p) ==
  /\ task[p].reader \in {"err", "done"} => Settled(p, "out")
  /\ task[p].reader = "done" => Settled(p, "err")
  /\ task[p].monitor \in {"signal", "send", "done"} => task[p].reader = "done"
  /\ task[p].reader # "none" => task[p].monitor # "none"
  /\ Ends(p) # {} => Settled(p, "out") /\ Settled(p, "err")

Read(p) ==
  \E a, b \in Nat :
    /\ Output(p) = Text(p, a, b)
    /\ a + lost[p].out <= Readable(p, "out") /\ b + lost[p].err <= Readable(p, "err")
    /\ task[p].reader = "out" => b = 0
    /\ task[p].reader \in {"err", "done"} => a + lost[p].out = Readable(p, "out")
    /\ task[p].reader = "done" => b + lost[p].err = Readable(p, "err")

Told(p) == \A k \in Ends(p) : report[p][k].preview = Text(p, Kept(p, "out"), Kept(p, "err"))

OutputInv ==
  /\ \A n \in DOMAIN stored : stored[n] # <<>> => n # 0 /\ \E q \in Procs : pid[q] = n
  /\ \A p \in Procs : Ended(p) /\ (Sole(p) => Read(p) /\ Told(p))

LEMMA Numbers ==
  ASSUME TypeInv, NEW p \in Procs, NEW s \in {"out", "err"}
  PROVE  /\ wrote[p][s] \in Nat /\ lost[p][s] \in Nat /\ req[p].good[s] \in Nat
         /\ Lines(p, s, Output(p)) \in Nat
         /\ Readable(p, s) \in Nat /\ Readable(p, s) <= wrote[p][s]
         /\ Readable(p, s) <= req[p].good[s]
<1>1. wrote[p] \in [out : Nat, err : Nat] /\ lost[p] \in [out : Nat, err : Nat]
  BY DEF TypeInv, TypeOK
<1>2. req[p] \in RequestType
  BY DEF TypeInv, TypeOK
<1>3. req[p].good \in [out : Nat, err : Nat]
  BY <1>2 DEF RequestType, Counts
<1>4. wrote[p][s] \in Nat /\ lost[p][s] \in Nat /\ req[p].good[s] \in Nat
  BY <1>1, <1>3
<1>5. Lines(p, s, Output(p)) \in Nat
  <2>1. Output(p) \in Seq(LineType)
    BY PidStored
  <2>2. DOMAIN Output(p) = 1..Len(Output(p)) /\ Len(Output(p)) \in Nat
    BY <2>1
  <2>3. IsFiniteSet(DOMAIN Output(p))
    BY <2>2, FS_Interval
  <2>4. IsFiniteSet({i \in DOMAIN Output(p) : Output(p)[i] = Line(p, s)})
    BY <2>3, FS_Subset
  <2> QED BY <2>4, FS_CardinalityType DEF Lines
<1> QED BY <1>4, <1>5 DEF Readable

LEMMA TextLines ==
  ASSUME NEW p, NEW a \in Nat, NEW b \in Nat
  PROVE  Lines(p, "out", Text(p, a, b)) = a /\ Lines(p, "err", Text(p, a, b)) = b
<1> DEFINE t == Text(p, a, b)
<1>0. Line(p, "out") # Line(p, "err")
  BY DEF Line
<1>1. DOMAIN t = 1..(a + b)
      /\ \A i \in 1..(a + b) : t[i] = Line(p, IF i <= a THEN "out" ELSE "err")
  BY DEF Text
<1> HIDE DEF t
<1>2. {i \in DOMAIN t : t[i] = Line(p, "out")} = 1..a
  BY <1>0, <1>1
<1>3. {i \in DOMAIN t : t[i] = Line(p, "err")} = (a + 1)..(a + b)
  BY <1>0, <1>1
<1>4. Cardinality(1..a) = a
  BY FS_Interval
<1>5. Cardinality((a + 1)..(a + b)) = b
  <2>1. a + 1 \in Int /\ a + b \in Int
    OBVIOUS
  <2>2. Cardinality((a + 1)..(a + b)) = IF a + 1 > a + b THEN 0 ELSE (a + b) - (a + 1) + 1
    BY <2>1, FS_Interval
  <2> QED BY <2>2
<1> QED BY <1>2, <1>3, <1>4, <1>5 DEF Lines, t

LEMMA TextGrows ==
  ASSUME NEW p \in Procs, NEW a \in Nat, NEW b \in Nat
  PROVE  /\ Text(p, 0, 0) = <<>>
         /\ b = 0 => Append(Text(p, a, b), Line(p, "out")) = Text(p, a + 1, b)
         /\ Append(Text(p, a, b), Line(p, "err")) = Text(p, a, b + 1)
<1>1. Text(p, 0, 0) = <<>>
  BY DEF Text
<1>2. ASSUME NEW c \in Nat, NEW d \in Nat
      PROVE  /\ Text(p, c, d) \in Seq(LineType) /\ Len(Text(p, c, d)) = c + d
             /\ DOMAIN Text(p, c, d) = 1..(c + d)
             /\ \A i \in 1..(c + d) :
                  Text(p, c, d)[i] = IF i <= c THEN Line(p, "out") ELSE Line(p, "err")
  <2>1. \A i \in 1..(c + d) : Line(p, IF i <= c THEN "out" ELSE "err") \in LineType
    BY LineTyped
  <2> QED BY <2>1 DEF Text
<1>3. Append(Text(p, a, 0), Line(p, "out")) = Text(p, a + 1, 0)
  <2> DEFINE t == Text(p, a, 0)
             u == Text(p, a + 1, 0)
  <2>0. 0 \in Nat /\ a + 1 \in Nat /\ a + 0 = a /\ a + 1 + 0 = a + 1
    OBVIOUS
  <2>1. /\ t \in Seq(LineType) /\ Len(t) = a
        /\ \A i \in 1..a : t[i] = Line(p, "out")
    <3>1. /\ t \in Seq(LineType) /\ Len(t) = a
          /\ \A i \in 1..a : t[i] = IF i <= a THEN Line(p, "out") ELSE Line(p, "err")
      BY <1>2, <2>0
    <3> HIDE DEF t
    <3> QED BY <3>1
  <2>2. /\ u \in Seq(LineType) /\ Len(u) = a + 1
        /\ \A i \in 1..(a + 1) : u[i] = Line(p, "out")
    <3>1. /\ u \in Seq(LineType) /\ Len(u) = a + 1
          /\ \A i \in 1..(a + 1) : u[i] = IF i <= a + 1 THEN Line(p, "out") ELSE Line(p, "err")
      BY <1>2, <2>0
    <3> HIDE DEF u
    <3> QED BY <3>1
  <2> HIDE DEF t, u
  <2>3. Append(t, Line(p, "out")) = u
    BY <2>1, <2>2, LineTyped
  <2> QED BY <2>3 DEF t, u
<1>4. Append(Text(p, a, b), Line(p, "err")) = Text(p, a, b + 1)
  <2> DEFINE t == Text(p, a, b)
             u == Text(p, a, b + 1)
  <2>1. /\ t \in Seq(LineType) /\ Len(t) = a + b
        /\ \A i \in 1..(a + b) : t[i] = IF i <= a THEN Line(p, "out") ELSE Line(p, "err")
    BY <1>2
  <2>2. /\ u \in Seq(LineType) /\ Len(u) = a + b + 1
        /\ \A i \in 1..(a + b + 1) : u[i] = IF i <= a THEN Line(p, "out") ELSE Line(p, "err")
    <3>1. b + 1 \in Nat /\ a + (b + 1) = a + b + 1
      OBVIOUS
    <3> QED BY <1>2, <3>1
  <2> HIDE DEF t, u
  <2>3. Append(t, Line(p, "err")) = u
    BY <2>1, <2>2, LineTyped
  <2> QED BY <2>3 DEF t, u
<1> QED BY <1>1, <1>3, <1>4

LEMMA SoleBefore ==
  ASSUME TypeInv, NEW p \in Procs, NEW r, Started(p, r), NEW q \in Procs, q # p, Sole(q)'
  PROVE  Sole(q)
<1>1. pid[p] = 0 /\ \A x \in Procs : x # p => pid'[x] = pid[x]
  BY StartedChanges DEF Started
<1> QED BY <1>1 DEF Sole, OwnPid

\* Nothing that matters to the output of q has changed.
Still(q) ==
  /\ pid' = pid /\ Output(q)' = Output(q) /\ wrote'[q] = wrote[q] /\ lost'[q] = lost[q]
  /\ req'[q] = req[q] /\ os'[q] = os[q] /\ (q \in heirs' <=> q \in heirs)
  /\ task'[q].reader = task[q].reader /\ task'[q].monitor = task[q].monitor
  /\ report'[q] = report[q]

LEMMA StillKept ==
  ASSUME NEW q \in Procs, Still(q), Ended(q), Sole(q) => Read(q) /\ Told(q)
  PROVE  Ended(q)' /\ (Sole(q)' => Read(q)' /\ Told(q)')
<1>1. Ends(q)' = Ends(q) /\ Sole(q)' = Sole(q)
  BY DEF Still, Ends, Sole, OwnPid
<1>s. /\ Settled(q, "out")' = Settled(q, "out") /\ Settled(q, "err")' = Settled(q, "err")
      /\ Readable(q, "out")' = Readable(q, "out") /\ Readable(q, "err")' = Readable(q, "err")
      /\ Kept(q, "out")' = Kept(q, "out") /\ Kept(q, "err")' = Kept(q, "err")
  BY DEF Still, Settled, Readable, Kept, Alive
<1>2. Ended(q)'
  BY <1>1, <1>s DEF Still, Ended
<1>3. Read(q) => Read(q)'
  BY <1>s DEF Still, Read
<1>4. Told(q) => Told(q)'
  BY <1>1, <1>s DEF Still, Told
<1> QED BY <1>1, <1>2, <1>3, <1>4

LEMMA StoredSame ==
  ASSUME OutputInv, stored' = stored, \A q \in Procs : pid[q] # 0 => pid'[q] = pid[q]
  PROVE  \A n \in DOMAIN stored' : stored'[n] # <<>> => n # 0 /\ \E q \in Procs : pid'[q] = n
BY DEF OutputInv

\* The reader takes a line, or comes to the end of a stream.
LEMMA OutputReads ==
  ASSUME TypeInv, FreshInv, StatusInv, OutputInv, NEW p \in Procs, Reader(p)
  PROVE  OutputInv'
<1>0. stored \in [0..Cardinality(Procs) -> Seq(LineType)] /\ pid \in [Procs -> Nat]
  BY DEF TypeInv, TypeOK
<1>n. \A s \in {"out", "err"} :
        /\ wrote[p][s] \in Nat /\ lost[p][s] \in Nat /\ req[p].good[s] \in Nat
        /\ Lines(p, s, Output(p)) \in Nat
        /\ Readable(p, s) \in Nat /\ Readable(p, s) <= wrote[p][s]
        /\ Readable(p, s) <= req[p].good[s]
  BY Numbers
<1>1. TaskStep(p)
  BY TaskSteps
<1>2. /\ pid' = pid /\ wrote' = wrote /\ os' = os /\ heirs' = heirs /\ req' = req
      /\ report' = report /\ pid[p] # 0
  BY <1>1 DEF TaskStep
<1>3. /\ task'[p].monitor = task[p].monitor
      /\ \A q \in Procs : q # p => task'[q] = task[q] /\ lost'[q] = lost[q]
  BY <1>1, SameMonitor DEF TaskStep
<1>4. \A q \in Procs : Ended(q) /\ (Sole(q) => Read(q) /\ Told(q))
  BY DEF OutputInv
<1>5. /\ \A q \in Procs : Ends(q)' = Ends(q) /\ Sole(q)' = Sole(q)
      /\ \A q \in Procs, s \in {"out", "err"} :
           Settled(q, s)' = Settled(q, s) /\ Readable(q, s)' = Readable(q, s)
  BY <1>2 DEF Ends, Sole, OwnPid, Settled, Readable, Alive
<1>6. PICK s \in {"out", "err"} : ReadLine(p, s) \/ EndOfStream(p, s)
  BY DEF Reader
<1>a. ASSUME NEW a \in Nat, NEW b \in Nat, Output(p) = Text(p, a, b)
      PROVE  Taken(p, "out") = a + lost[p].out /\ Taken(p, "err") = b + lost[p].err
  BY <1>a, TextLines DEF Taken
<1>7. CASE ReadLine(p, s)
  <2>1. /\ task' = task /\ task[p].reader = s /\ InPipe(p, s) > 0
        /\ Taken(p, s) < req[p].good[s]
    BY <1>7 DEF ReadLine
  <2>2. Taken(p, s) < Readable(p, s)
    BY <1>n, <2>1 DEF InPipe, Taken, Readable
  <2>3. Ends(p) = {}
    <3>1. task[p].monitor = "wait"
      <4>1. task[p] \in TaskType /\ task[p].reader \notin {"none", "done"}
        BY <2>1 DEF TypeInv, TypeOK
      <4> QED BY <1>4, <4>1 DEF Ended, TaskType
    <3> QED BY <3>1 DEF StatusInv, Status
  <2>4. Ended(p)' /\ Told(p)'
    BY <1>4, <1>5, <2>1, <2>3 DEF Ended, Told
  <2>a. ASSUME Sole(p)
        PROVE  \E a, b \in Nat :
                 /\ Output(p) = Text(p, a, b)
                 /\ a + lost[p].out <= Readable(p, "out") /\ b + lost[p].err <= Readable(p, "err")
                 /\ s = "out" => b = 0 /\ a + lost[p].out < Readable(p, "out")
                 /\ s = "err" => /\ a + lost[p].out = Readable(p, "out")
                                 /\ b + lost[p].err < Readable(p, "err")
    <3>1. PICK a \in Nat, b \in Nat :
            /\ Output(p) = Text(p, a, b)
            /\ a + lost[p].out <= Readable(p, "out") /\ b + lost[p].err <= Readable(p, "err")
            /\ task[p].reader = "out" => b = 0
            /\ task[p].reader \in {"err", "done"} => a + lost[p].out = Readable(p, "out")
      BY <1>4, <2>a DEF Read
    <3> QED BY <1>a, <2>1, <2>2, <3>1
  <2>5. CASE /\ stored' = [stored EXCEPT ![pid[p]] = Append(stored[pid[p]], Line(p, s))]
             /\ lost' = lost
    <3>1. pid[p] \in DOMAIN stored
      BY <1>0, PidStored
    <3>2. \A n \in DOMAIN stored' : stored'[n] # <<>> => n # 0 /\ \E q \in Procs : pid'[q] = n
      <4>1. DOMAIN stored' = DOMAIN stored
            /\ \A n \in DOMAIN stored : n # pid[p] => stored'[n] = stored[n]
        BY <2>5
      <4> QED BY <1>2, <4>1 DEF OutputInv
    <3>3. Output(p)' = Append(Output(p), Line(p, s))
      BY <1>0, <1>2, <2>5, <3>1 DEF Output
    <3>4. ASSUME NEW q \in Procs, q # p PROVE Ended(q)' /\ (Sole(q)' => Read(q)' /\ Told(q)')
      <4>1. CASE pid[q] = pid[p]
        <5>1. ~Sole(q)'
          BY <1>2, <3>4, <4>1 DEF Sole, OwnPid
        <5>2. Ended(q)'
          BY <1>4, <1>5, <2>1 DEF Ended
        <5> QED BY <5>1, <5>2
      <4>2. CASE pid[q] # pid[p]
        <5>1. stored'[pid[q]] = stored[pid[q]]
          BY <1>0, <2>5, <4>2, PidStored
        <5>2. Still(q)
          BY <1>2, <2>1, <2>5, <5>1 DEF Still, Output
        <5> QED BY <1>4, <5>2, StillKept
      <4> QED BY <4>1, <4>2
    <3>5. ASSUME Sole(p) PROVE Read(p)'
      <4>1. PICK a \in Nat, b \in Nat :
              /\ Output(p) = Text(p, a, b)
              /\ a + lost[p].out <= Readable(p, "out") /\ b + lost[p].err <= Readable(p, "err")
              /\ s = "out" => b = 0 /\ a + lost[p].out < Readable(p, "out")
              /\ s = "err" => /\ a + lost[p].out = Readable(p, "out")
                              /\ b + lost[p].err < Readable(p, "err")
        BY <2>a, <3>5
      <4>2. CASE s = "out"
        <5>g. b = 0 => Append(Text(p, a, b), Line(p, "out")) = Text(p, a + 1, b) /\ a + 1 \in Nat
          BY TextGrows
        <5>1. Output(p)' = Text(p, a + 1, b) /\ a + 1 \in Nat
          BY <3>3, <4>1, <4>2, <5>g
        <5>2. a + 1 + lost'[p].out <= Readable(p, "out")'
          BY <1>5, <1>n, <2>5, <4>1, <4>2
        <5> QED BY <1>5, <2>1, <2>5, <4>1, <4>2, <5>1, <5>2 DEF Read
      <4>3. CASE s = "err"
        <5>g. Append(Text(p, a, b), Line(p, "err")) = Text(p, a, b + 1) /\ b + 1 \in Nat
          BY TextGrows
        <5>1. Output(p)' = Text(p, a, b + 1) /\ b + 1 \in Nat
          BY <3>3, <4>1, <4>3, <5>g
        <5>2. b + 1 + lost'[p].err <= Readable(p, "err")'
          BY <1>5, <1>n, <2>5, <4>1, <4>3
        <5> QED BY <1>5, <2>1, <2>5, <4>1, <4>3, <5>1, <5>2 DEF Read
      <4> QED BY <4>2, <4>3
    <3> QED BY <1>5, <2>4, <3>2, <3>4, <3>5 DEF OutputInv
  <2>6. CASE stored' = stored /\ lost' = [lost EXCEPT ![p][s] = lost[p][s] + 1]
    <3>1. /\ lost'[p].out = lost[p].out + (IF s = "out" THEN 1 ELSE 0)
          /\ lost'[p].err = lost[p].err + (IF s = "err" THEN 1 ELSE 0)
      BY <2>6, LostMoves DEF TypeInv
    <3>2. ASSUME NEW q \in Procs, q # p PROVE Ended(q)' /\ (Sole(q)' => Read(q)' /\ Told(q)')
      <4>1. Still(q)
        BY <1>2, <1>3, <2>6, <3>2 DEF Still, Output
      <4> QED BY <1>4, <4>1, StillKept
    <3>3. ASSUME Sole(p) PROVE Read(p)'
      <4>1. PICK a \in Nat, b \in Nat :
              /\ Output(p) = Text(p, a, b)
              /\ a + lost[p].out <= Readable(p, "out") /\ b + lost[p].err <= Readable(p, "err")
              /\ s = "out" => b = 0 /\ a + lost[p].out < Readable(p, "out")
              /\ s = "err" => /\ a + lost[p].out = Readable(p, "out")
                              /\ b + lost[p].err < Readable(p, "err")
        BY <2>a, <3>3
      <4>2. Output(p)' = Text(p, a, b)
        BY <1>2, <2>6, <4>1 DEF Output
      <4>3. lost[p].out \in Nat /\ lost[p].err \in Nat
            /\ Readable(p, "out") \in Nat /\ Readable(p, "err") \in Nat
        BY <1>n
      <4>4. CASE s = "out"
        <5>1. a + lost'[p].out <= Readable(p, "out")' /\ b + lost'[p].err <= Readable(p, "err")'
          BY <1>5, <3>1, <4>1, <4>3, <4>4
        <5> QED BY <2>1, <4>1, <4>2, <4>4, <5>1 DEF Read
      <4>5. CASE s = "err"
        <5>1. /\ a + lost'[p].out <= Readable(p, "out")' /\ b + lost'[p].err <= Readable(p, "err")'
              /\ a + lost'[p].out = Readable(p, "out")'
          BY <1>5, <3>1, <4>1, <4>3, <4>5
        <5> QED BY <2>1, <4>1, <4>2, <4>5, <5>1 DEF Read
      <4> QED BY <4>4, <4>5
    <3> QED BY <1>2, <1>5, <2>4, <2>6, <3>2, <3>3, StoredSame DEF OutputInv
  <2> QED BY <1>7, <2>5, <2>6 DEF ReadLine
<1>8. CASE EndOfStream(p, s)
  <2>1. /\ stored' = stored /\ lost' = lost /\ task[p].reader = s /\ StreamOver(p, s)
        /\ task' = [task EXCEPT ![p].reader = IF s = "out" THEN "err" ELSE "done"]
    BY <1>8 DEF EndOfStream
  <2>2. task'[p].reader = IF s = "out" THEN "err" ELSE "done"
    <3>1. (IF s = "out" THEN "err" ELSE "done") \in {"err", "done"}
      OBVIOUS
    <3> QED BY <2>1, <3>1, ReaderMoves DEF TypeInv
  <2>3. Settled(p, s) /\ (Taken(p, s) <= Readable(p, s) => Taken(p, s) = Readable(p, s))
    <3>1. CASE InPipe(p, s) = 0 /\ ~Alive(p)
      BY <1>n, <3>1 DEF InPipe, Taken, Readable, Settled
    <3>2. CASE InPipe(p, s) > 0 /\ Taken(p, s) >= req[p].good[s]
      BY <1>n, <3>2 DEF InPipe, Taken, Readable, Settled
    <3> QED BY <2>1, <3>1, <3>2 DEF StreamOver
  <2>4. ASSUME NEW q \in Procs, q # p PROVE Ended(q)' /\ (Sole(q)' => Read(q)' /\ Told(q)')
    <3>1. Still(q)
      BY <1>2, <1>3, <2>1, <2>4 DEF Still, Output
    <3> QED BY <1>4, <3>1, StillKept
  <2>5. Ended(p)'
    <3>1. task[p].monitor \notin {"signal", "send", "done"} /\ task[p].monitor # "none"
      BY <1>4, <2>1 DEF Ended
    <3> QED BY <1>3, <1>4, <1>5, <2>1, <2>2, <2>3, <3>1 DEF Ended
  <2>6. ASSUME Sole(p) PROVE Read(p)'
    <3>1. PICK a \in Nat, b \in Nat :
            /\ Output(p) = Text(p, a, b)
            /\ a + lost[p].out <= Readable(p, "out") /\ b + lost[p].err <= Readable(p, "err")
            /\ task[p].reader = "out" => b = 0
            /\ task[p].reader \in {"err", "done"} => a + lost[p].out = Readable(p, "out")
      BY <1>4, <2>6 DEF Read
    <3>2. Taken(p, "out") = a + lost[p].out /\ Taken(p, "err") = b + lost[p].err
      BY <1>a, <3>1
    <3>3. Output(p)' = Text(p, a, b)
      BY <1>2, <2>1, <3>1 DEF Output
    <3>4. CASE s = "out"
      <4>1. a + lost[p].out = Readable(p, "out") /\ task'[p].reader = "err"
        BY <2>2, <2>3, <3>1, <3>2, <3>4
      <4> QED BY <1>5, <2>1, <3>1, <3>3, <4>1 DEF Read
    <3>5. CASE s = "err"
      <4>1. /\ a + lost[p].out = Readable(p, "out") /\ b + lost[p].err = Readable(p, "err")
            /\ task'[p].reader = "done"
        BY <2>1, <2>2, <2>3, <3>1, <3>2, <3>5
      <4> QED BY <1>5, <2>1, <3>1, <3>3, <4>1 DEF Read
    <3> QED BY <3>4, <3>5
  <2>7. Told(p) => Told(p)'
    BY <1>2, <1>5, <2>1 DEF Told, Kept
  <2>8. \A n \in DOMAIN stored' : stored'[n] # <<>> => n # 0 /\ \E q \in Procs : pid'[q] = n
    BY <1>2, <2>1, StoredSame
  <2> QED BY <1>4, <1>5, <2>4, <2>5, <2>6, <2>7, <2>8 DEF OutputInv
<1> QED BY <1>6, <1>7, <1>8

\* A call of shell_exec: nothing has been stored under its pid, if it is new.
LEMMA OutputStarts ==
  ASSUME TypeInv, TypeInv', FreshInv, OutputInv, NEW p \in Procs, NEW r, Started(p, r)
  PROVE  OutputInv'
<1>1. UNCHANGED <<stored, lost, wrote>> /\ pid[p] = 0
  BY DEF Started
<1>2. /\ pid'[p] = idc + 1 /\ idc + 1 # 0 /\ idc + 1 \in Nat
      /\ \A q \in Procs : q # p =>
           /\ pid'[q] = pid[q] /\ task'[q] = task[q]
           /\ os'[q] = os[q] /\ report'[q] = report[q]
           /\ req'[q] = req[q] /\ (q \in heirs' <=> q \in heirs)
  BY StartedChanges
<1>3. /\ os[p] = "none" /\ task[p] = Nothing /\ report[p] = <<>> /\ p \notin heirs
      /\ wrote[p] = Zeros /\ lost[p] = Zeros
  BY <1>1 DEF FreshInv
<1>z. \A s \in {"out", "err"} :
        wrote'[p][s] = 0 /\ lost'[p][s] = 0 /\ Readable(p, s)' = 0 /\ Kept(p, s)' = 0
  <2>1. \A s \in {"out", "err"} : wrote'[p][s] = 0 /\ lost'[p][s] = 0
    BY <1>1, <1>3 DEF Zeros
  <2>2. \A s \in {"out", "err"} : (req[p].good[s] \in Nat)'
    <3>1. ASSUME NEW s \in {"out", "err"} PROVE (req[p].good[s] \in Nat)'
      BY Numbers, PTL
    <3> QED BY <3>1
  <2>3. \A s \in {"out", "err"} : Readable(p, s)' = 0
    BY <2>1, <2>2 DEF Readable
  <2> QED BY <2>1, <2>3 DEF Kept
<1>4. \A q \in Procs : Ended(q) /\ (Sole(q) => Read(q) /\ Told(q))
  BY DEF OutputInv
<1>5. \A n \in DOMAIN stored' : stored'[n] # <<>> => n # 0 /\ \E q \in Procs : pid'[q] = n
  BY <1>1, <1>2, StoredSame
<1>6. ASSUME NEW q \in Procs, q # p PROVE Ended(q)' /\ (Sole(q)' => Read(q)' /\ Told(q)')
  <2>1. Ends(q)' = Ends(q) /\ (Sole(q)' => Sole(q))
    BY <1>2, <1>6, SoleBefore DEF Ends
  <2>2. \A s \in {"out", "err"} :
          /\ Settled(q, s)' = Settled(q, s) /\ Readable(q, s)' = Readable(q, s)
          /\ Kept(q, s)' = Kept(q, s)
    BY <1>1, <1>2, <1>6 DEF Settled, Readable, Kept, Alive
  <2>3. Ended(q)'
    BY <1>2, <1>4, <1>6, <2>1, <2>2 DEF Ended
  <2>4. Output(q)' = Output(q) /\ lost' = lost /\ task'[q] = task[q] /\ report'[q] = report[q]
    BY <1>1, <1>2, <1>6 DEF Output
  <2>5. Read(q) => Read(q)'
    BY <2>2, <2>4 DEF Read
  <2>6. Told(q) => Told(q)'
    BY <2>1, <2>2, <2>4 DEF Told
  <2> QED BY <1>4, <2>1, <2>3, <2>5, <2>6
<1>7. Sole(p)' => Output(p)' = <<>>
  <2>1. pid'[p] \in 0..Cardinality(Procs) /\ stored' \in [0..Cardinality(Procs) -> Seq(LineType)]
    <3>1. (pid[p] \in 0..Cardinality(Procs))'
      BY PidStored, PTL
    <3> QED BY <3>1 DEF TypeInv, TypeOK
  <2>2. SUFFICES ASSUME Sole(p)', stored[pid'[p]] # <<>> PROVE FALSE
    BY <1>1 DEF Output
  <2>3. \E q \in Procs : pid[q] = pid'[p] /\ pid'[p] # 0
    BY <1>1, <2>1, <2>2 DEF OutputInv
  <2> QED BY <1>1, <1>2, <2>2, <2>3 DEF Sole, OwnPid
<1>8. ASSUME Sole(p)' PROVE Read(p)'
  <2>1. task'[p].reader \in {"none", "out"}
    BY <1>3, StartedChanges, TasksTyped DEF Nothing
  <2>2. 0 \in Nat /\ Text(p, 0, 0) = <<>>
    BY TextGrows
  <2>3. /\ Output(p)' = Text(p, 0, 0)
        /\ 0 + lost'[p].out <= Readable(p, "out")' /\ 0 + lost'[p].err <= Readable(p, "err")'
        /\ 0 + lost'[p].out = Readable(p, "out")' /\ 0 + lost'[p].err = Readable(p, "err")'
    BY <1>7, <1>8, <1>z, <2>2
  <2> QED BY <2>1, <2>2, <2>3, Zenon DEF Read
<1>9. Told(p)'
  <2>1. Text(p, 0, 0) = <<>>
    BY TextGrows
  <2>2. report'[p] = <<>> \/ report'[p] = Append(<<>>, [kind |-> "failed", preview |-> <<>>])
    BY <1>3, StartedChanges
  <2>3. \A k \in DOMAIN report'[p] : report'[p][k].preview = <<>>
    BY <2>2
  <2>4. Text(p, Kept(p, "out")', Kept(p, "err")') = <<>>
    BY <1>z, <2>1
  <2> QED BY <2>3, <2>4 DEF Told, Ends
<1>10. Ended(p)'
  <2>1. \/ /\ task'[p] = Tasks(r) /\ report'[p] = report[p]
        \/ /\ task'[p] = Nothing /\ os'[p] = "none" /\ heirs' = heirs
    BY <1>3, StartedChanges
  <2>2. /\ task'[p].reader \notin {"err", "done"} /\ task'[p].monitor \notin {"signal", "send", "done"}
        /\ task'[p].reader # "none" => task'[p].monitor # "none"
    BY <2>1, TasksTyped DEF Nothing
  <2>3. Ends(p)' # {} => Settled(p, "out")' /\ Settled(p, "err")'
    BY <1>3, <2>1 DEF Ends, Settled, Alive
  <2> QED BY <2>2, <2>3 DEF Ended
<1> QED BY <1>5, <1>6, <1>8, <1>9, <1>10 DEF OutputInv

\* An item about the end of p is pushed when its reader has ended.
LEMMA OutputTold ==
  ASSUME TypeInv, StatusInv, OutputInv, ApplyEvent
  PROVE  OutputInv'
<1> DEFINE e == Head(chan)
           it == [kind |-> e.kind, preview |-> IF e.kind = "timeout" THEN <<>> ELSE Output(e.proc)]
<1>1. /\ chan # <<>> /\ chan' = Tail(chan)
      /\ UNCHANGED <<task, pid, req, stored, lost, os, heirs, wrote>>
      /\ report' = [report EXCEPT ![e.proc] = Append(report[e.proc], it)]
  BY DEF ApplyEvent, osVars
<1>2. /\ e.kind \in Terminal => 1 \in Coming(e.proc)
      /\ e.proc \in Procs /\ e.kind \in Kinds
  BY <1>1, EventTaken
<1>3. /\ it \in ReportType /\ it.kind = e.kind
      /\ it.kind \in Terminal => it.preview = Output(e.proc)
  BY <1>2, PidStored DEF ReportType, Terminal
<1> HIDE DEF e, it
<1>p. PICK p \in Procs : p = e.proc
  BY <1>2
<1>i. PICK i \in ReportType : i = it
  BY <1>3
<1>4. \A q \in Procs : Ended(q) /\ (Sole(q) => Read(q) /\ Told(q))
  BY DEF OutputInv
<1>5. /\ report'[p] = Append(report[p], i)
      /\ \A q \in Procs : q # p => report'[q] = report[q]
  BY <1>1, <1>p, <1>i DEF TypeInv, TypeOK
<1>6. \A n \in DOMAIN stored' : stored'[n] # <<>> => n # 0 /\ \E q \in Procs : pid'[q] = n
  BY <1>1, StoredSame
<1>7. ASSUME NEW q \in Procs, q # p PROVE Ended(q)' /\ (Sole(q)' => Read(q)' /\ Told(q)')
  <2>1. Still(q)
    BY <1>1, <1>5, <1>7 DEF Still, Output
  <2> QED BY <1>4, <2>1, StillKept
<1>8. /\ i.kind \in Terminal => Ends(p)' = Ends(p) \cup {Len(report[p]) + 1}
      /\ i.kind \notin Terminal => Ends(p)' = Ends(p)
      /\ \A k \in Ends(p) : report'[p][k] = report[p][k]
      /\ report'[p][Len(report[p]) + 1] = i
  BY <1>5, ReportGrows
<1>9. /\ Sole(p)' = Sole(p) /\ Output(p)' = Output(p)
      /\ \A s \in {"out", "err"} :
           /\ Settled(p, s)' = Settled(p, s) /\ Readable(p, s)' = Readable(p, s)
           /\ Kept(p, s)' = Kept(p, s)
  BY <1>1 DEF Sole, OwnPid, Output, Settled, Readable, Kept, Alive
<1>r. Read(p) => Read(p)'
  BY <1>1, <1>9 DEF Read
<1>10. ASSUME i.kind \in Terminal
       PROVE  /\ Settled(p, "out") /\ Settled(p, "err") /\ task[p].reader = "done"
              /\ i.preview = Output(p)
  <2>1. Coming(p) # {}
    BY <1>2, <1>3, <1>10, <1>p, <1>i
  <2>2. task[p].monitor = "done"
    BY <2>1 DEF StatusInv, Status
  <2> QED BY <1>3, <1>4, <1>10, <1>p, <1>i, <2>2 DEF Ended
<1>11. Ended(p)'
  <2>1. Ends(p)' # {} => Settled(p, "out") /\ Settled(p, "err")
    BY <1>4, <1>8, <1>10 DEF Ended
  <2> QED BY <1>1, <1>4, <1>9, <2>1 DEF Ended
<1>12. ASSUME Sole(p) PROVE Told(p)'
  <2>1. Told(p) /\ Read(p)
    BY <1>4, <1>12
  <2>2. i.kind \in Terminal => i.preview = Text(p, Kept(p, "out"), Kept(p, "err"))
    <3>1. SUFFICES ASSUME i.kind \in Terminal
                   PROVE  Output(p) = Text(p, Kept(p, "out"), Kept(p, "err"))
      BY <1>10
    <3>2. PICK a \in Nat, b \in Nat :
            /\ Output(p) = Text(p, a, b)
            /\ a + lost[p].out = Readable(p, "out") /\ b + lost[p].err = Readable(p, "err")
      BY <1>10, <2>1, <3>1 DEF Read
    <3>3. lost[p].out \in Nat /\ lost[p].err \in Nat
          /\ Readable(p, "out") \in Nat /\ Readable(p, "err") \in Nat
      BY Numbers
    <3>4. a = Kept(p, "out") /\ b = Kept(p, "err")
      BY <3>2, <3>3 DEF Kept
    <3> QED BY <3>2, <3>4
  <2>3. \A k \in Ends(p)' : report'[p][k].preview = Text(p, Kept(p, "out"), Kept(p, "err"))
    <3>1. CASE i.kind \in Terminal
      BY <1>8, <2>1, <2>2, <3>1 DEF Told
    <3>2. CASE i.kind \notin Terminal
      BY <1>8, <2>1, <3>2 DEF Told
    <3> QED BY <3>1, <3>2
  <2> QED BY <1>9, <2>3 DEF Told
<1> QED BY <1>4, <1>6, <1>7, <1>9, <1>r, <1>11, <1>12 DEF OutputInv

LEMMA OutputStep ==
  ASSUME TypeInv, TypeInv', FreshInv, StatusInv, OutputInv, [Next]_vars
  PROVE  OutputInv'
<1>a. \A q \in Procs : Ended(q) /\ (Sole(q) => Read(q) /\ Told(q))
  BY DEF OutputInv
<1>b. ASSUME pid' = pid, stored' = stored, \A q \in Procs : Still(q) PROVE OutputInv'
  BY <1>a, <1>b, StillKept, StoredSame DEF OutputInv
<1>1. CASE Unrelated
  BY <1>1, <1>b DEF Unrelated, Still, Output
<1>2. ASSUME NEW p \in Procs, SendStdin(p) \/ CloseStdin(p) PROVE OutputInv'
  BY <1>2, <1>b DEF SendStdin, CloseStdin, OpFrame, Still, Output
<1>3. CASE Restart
  <2>1. UNCHANGED <<report, pid, req, stored, lost, wrote>>
    BY <1>3 DEF Restart
  <2>2. \A q \in Procs : /\ task'[q].reader = "none" /\ task'[q].monitor = "none" /\ ~Alive(q)'
    BY <1>3 DEF Restart, Nothing, Alive
  <2>3. ASSUME NEW q \in Procs PROVE Ended(q)' /\ (Sole(q)' => Read(q)' /\ Told(q)')
    <3>1. Ended(q)'
      BY <2>2 DEF Ended, Settled
    <3>2. /\ Sole(q)' = Sole(q) /\ Ends(q)' = Ends(q) /\ Output(q)' = Output(q)
          /\ \A s \in {"out", "err"} :
               Readable(q, s)' = Readable(q, s) /\ Kept(q, s)' = Kept(q, s)
      BY <2>1 DEF Sole, OwnPid, Ends, Output, Readable, Kept
    <3>3. Told(q) => Told(q)'
      BY <2>1, <3>2 DEF Told
    <3>4. Read(q) => Read(q)'
      BY <2>1, <2>2, <3>2 DEF Read
    <3> QED BY <1>a, <3>1, <3>2, <3>3, <3>4
  <2> QED BY <2>1, <2>3, StoredSame DEF OutputInv
<1>4. ASSUME NEW p \in Procs, InsertRunning(p) \/ Writer(p) \/ Alert(p) PROVE OutputInv'
  <2>1. TaskStep(p)
    BY <1>4, TaskSteps
  <2>2. stored' = stored /\ lost' = lost
    BY <1>4 DEF InsertRunning, Writer, RegisterStdin, WriteStdin, EndWriter, Alert, AlertChecks,
                AlertSends
  <2>3. task'[p].monitor = task[p].monitor /\ task'[p].reader = task[p].reader
    BY <1>4, SameMonitor, SameReader
  <2> QED BY <1>b, <2>1, <2>2, <2>3 DEF TaskStep, Still, Output
<1>5. ASSUME NEW p \in Procs, Monitor(p) PROVE OutputInv'
  <2>1. TaskStep(p)
    BY <1>5, TaskSteps
  <2>2. stored' = stored /\ lost' = lost
    BY <1>5 DEF Monitor, MonitorRemoves, MonitorSignals, MonitorSends
  <2>3. task'[p].reader = task[p].reader
    BY <1>5, SameReader
  <2>4. ASSUME NEW q \in Procs, q # p PROVE Ended(q)' /\ (Sole(q)' => Read(q)' /\ Told(q)')
    BY <1>a, <2>1, <2>2, <2>4, StillKept DEF TaskStep, Still, Output
  <2>5. task[p].reader = "done" /\ task'[p].monitor # "none"
    <3>1. \E x \in {"signal", "send", "done"} : task' = [task EXCEPT ![p].monitor = x]
      BY <1>5 DEF Monitor, MonitorRemoves, MonitorSignals, MonitorSends
    <3>2. task'[p].monitor # "none"
      BY <3>1, MonitorMoves DEF TypeInv
    <3> QED BY <3>2, <1>5, <1>a DEF Monitor, MonitorRemoves, MonitorSignals, MonitorSends, Ended
  <2>6. UNCHANGED <<pid, req, report, os, heirs, wrote>>
    BY <2>1 DEF TaskStep
  <2>7. /\ Sole(p)' = Sole(p) /\ Ends(p)' = Ends(p) /\ Output(p)' = Output(p)
        /\ \A s \in {"out", "err"} :
             /\ Settled(p, s)' = Settled(p, s) /\ Readable(p, s)' = Readable(p, s)
             /\ Kept(p, s)' = Kept(p, s)
    BY <2>2, <2>6 DEF Sole, OwnPid, Ends, Output, Settled, Readable, Kept, Alive
  <2>8. Ended(p)'
    BY <1>a, <2>3, <2>5, <2>7 DEF Ended
  <2>9. (Read(p) => Read(p)') /\ (Told(p) => Told(p)')
    BY <2>2, <2>3, <2>6, <2>7 DEF Read, Told
  <2> QED BY <1>a, <2>2, <2>4, <2>6, <2>7, <2>8, <2>9, StoredSame DEF OutputInv
<1>6. ASSUME NEW p \in Procs, ProcessStep(p) PROVE OutputInv'
  <2>1. UNCHANGED <<report, req, pid, task, stored, lost>>
    BY <1>6 DEF ProcessStep, ProcessWrites, BrokenPipe, ProcessExits, HeirEnds, OsFrame, agentVars
  <2>2. \A q \in Procs : q # p =>
          os'[q] = os[q] /\ wrote'[q] = wrote[q] /\ (q \in heirs' <=> q \in heirs)
    BY <1>6 DEF ProcessStep, ProcessWrites, BrokenPipe, ProcessExits, HeirEnds, TypeInv, TypeOK
  <2>3. /\ Alive(p)' => Alive(p)
        /\ \A s \in {"out", "err"} : wrote'[p][s] >= wrote[p][s]
        /\ ~Alive(p) => wrote' = wrote
    <3>0. /\ os[p] \in OsStates /\ os \in [Procs -> OsStates]
          /\ \A s \in {"out", "err"} : wrote[p][s] \in Nat
      BY Numbers DEF TypeInv, TypeOK
    <3>1. ASSUME NEW s \in {"out", "err"}, ProcessWrites(p, s)
          PROVE  /\ Alive(p) /\ (Alive(p)' => Alive(p))
                 /\ \A t \in {"out", "err"} : wrote'[p][t] >= wrote[p][t]
      <4>1. Alive(p) /\ wrote' = [wrote EXCEPT ![p][s] = wrote[p][s] + 1]
        BY <3>1 DEF ProcessWrites
      <4>2. /\ wrote'[p].out = wrote[p].out + (IF s = "out" THEN 1 ELSE 0)
            /\ wrote'[p].err = wrote[p].err + (IF s = "err" THEN 1 ELSE 0)
        BY <4>1, WroteMoves DEF TypeInv
      <4>3. wrote[p].out \in Nat /\ wrote[p].err \in Nat
        BY <3>0
      <4>4. wrote'[p].out >= wrote[p].out /\ wrote'[p].err >= wrote[p].err
        BY <4>2, <4>3
      <4> QED BY <4>1, <4>4
    <3>2. CASE wrote' = wrote /\ (Alive(p)' => Alive(p))
      BY <3>0, <3>2
    <3>3. ASSUME \/ ProcessExits(p) \/ HeirEnds(p)
                 \/ \E s \in {"out", "err"} : BrokenPipe(p, s)
          PROVE  wrote' = wrote /\ (Alive(p)' => Alive(p))
      BY <3>0, <3>3 DEF ProcessExits, HeirEnds, BrokenPipe, Alive
    <3> QED BY <1>6, <3>1, <3>2, <3>3 DEF ProcessStep
  <2>n. \A s \in {"out", "err"} :
          /\ wrote[p][s] \in Nat /\ req[p].good[s] \in Nat /\ (wrote[p][s] \in Nat)'
    <3>1. \A s \in {"out", "err"} : wrote[p][s] \in Nat /\ req[p].good[s] \in Nat
      BY Numbers
    <3>2. ASSUME NEW s \in {"out", "err"} PROVE (wrote[p][s] \in Nat)'
      BY Numbers, PTL
    <3> QED BY <3>1, <3>2
  <2>4. \A s \in {"out", "err"} :
          /\ Readable(p, s)' \in Nat /\ Readable(p, s) \in Nat /\ Readable(p, s) <= Readable(p, s)'
          /\ Settled(p, s) => Settled(p, s)' /\ Readable(p, s)' = Readable(p, s)
    BY <2>1, <2>3, <2>n DEF Readable, Settled
  <2>5. ASSUME NEW q \in Procs, q # p PROVE Ended(q)' /\ (Sole(q)' => Read(q)' /\ Told(q)')
    BY <1>a, <2>1, <2>2, <2>5, StillKept DEF Still, Output
  <2>6. Ends(p)' = Ends(p) /\ Sole(p)' = Sole(p) /\ Output(p)' = Output(p)
    BY <2>1 DEF Ends, Sole, OwnPid, Output
  <2>7. Ended(p)'
    BY <1>a, <2>1, <2>4, <2>6 DEF Ended
  <2>8. Told(p) => Told(p)'
    <3>1. CASE Ends(p) = {}
      BY <2>6, <3>1 DEF Told
    <3>2. CASE Ends(p) # {}
      <4>1. Kept(p, "out")' = Kept(p, "out") /\ Kept(p, "err")' = Kept(p, "err")
        BY <1>a, <2>1, <2>4, <3>2 DEF Ended, Kept
      <4> QED BY <2>1, <2>6, <4>1 DEF Told
    <3> QED BY <3>1, <3>2
  <2>9. ASSUME Read(p) PROVE Read(p)'
    <3>1. PICK a \in Nat, b \in Nat :
            /\ Output(p) = Text(p, a, b)
            /\ a + lost[p].out <= Readable(p, "out") /\ b + lost[p].err <= Readable(p, "err")
            /\ task[p].reader = "out" => b = 0
            /\ task[p].reader \in {"err", "done"} => a + lost[p].out = Readable(p, "out")
            /\ task[p].reader = "done" => b + lost[p].err = Readable(p, "err")
      BY <2>9 DEF Read
    <3>2. lost[p].out \in Nat /\ lost[p].err \in Nat
      BY Numbers
    <3>3. a + lost'[p].out <= Readable(p, "out")' /\ b + lost'[p].err <= Readable(p, "err")'
      BY <2>1, <2>4, <3>1, <3>2
    <3>4. /\ task'[p].reader \in {"err", "done"} => a + lost'[p].out = Readable(p, "out")'
          /\ task'[p].reader = "done" => b + lost'[p].err = Readable(p, "err")'
      BY <1>a, <2>1, <2>4, <3>1 DEF Ended
    <3>5. Output(p)' = Text(p, a, b) /\ (task'[p].reader = "out" => b = 0)
      BY <2>1, <2>6, <3>1
    <3> QED BY <3>3, <3>4, <3>5 DEF Read
  <2> QED BY <1>a, <2>1, <2>5, <2>6, <2>7, <2>8, <2>9, StoredSame DEF OutputInv
<1> QED
  BY <1>1, <1>2, <1>3, <1>4, <1>5, <1>6, OutputReads, OutputStarts, OutputTold, StepForms

(***************************************************************************)
(* The reader, the completion monitor and apply_event: the monitor waits   *)
(* for the reader, so the preview in the item about the end of a process   *)
(* holds stdout and then stderr, each up to its first line that is not     *)
(* UTF-8 and without the lines that the database failed to append, whoever *)
(* wrote them and whatever is written later, whenever no other process was *)
(* given its pid (which a restart behind an unsaved counter may do).       *)
(***************************************************************************)
THEOREM PreviewKept == Spec => []PreviewExact
<1>1. Init => OutputInv
  <2>1. ASSUME Init, NEW p \in Procs PROVE Ended(p) /\ ~Sole(p)
    BY <2>1 DEF Init, Ended, Ends, Sole, Nothing
  <2>2. ASSUME Init, NEW n \in DOMAIN stored PROVE stored[n] = <<>>
    BY <2>2 DEF Init
  <2> QED BY <2>1, <2>2 DEF OutputInv
<1>2. TypeInv /\ TypeInv' /\ FreshInv /\ StatusInv /\ OutputInv /\ [Next]_vars => OutputInv'
  BY OutputStep
<1>3. FreshInv /\ OutputInv => PreviewExact
  <2>1. SUFFICES ASSUME FreshInv, OutputInv, NEW p \in Procs, OwnPid(p), NEW k \in Ends(p)
                 PROVE  report[p][k].preview = Text(p, Kept(p, "out"), Kept(p, "err"))
    BY DEF PreviewExact
  <2>2. pid[p] # 0
    BY <2>1 DEF FreshInv, Ends
  <2> QED BY <2>1, <2>2 DEF OutputInv, Sole, Told
<1> QED BY <1>1, <1>2, <1>3, FreshKept, StatusInvKept, PTL DEF Spec

=============================================================================
