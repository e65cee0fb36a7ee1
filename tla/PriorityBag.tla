---------------------------- MODULE PriorityBag ----------------------------
(***************************************************************************)
(* What a work queue promises: items go in, any item can be taken out by   *)
(* name, and the front is the most urgent item: the highest priority, then *)
(* the earliest time, then the one that was queued first.                  *)
(***************************************************************************)
EXTENDS Integers

CONSTANTS Priorities, Times

VARIABLES content,  \* the items
          added     \* how many were put in so far

bagVars == <<content, added>>

BagItem == [priority: Priorities, time: Times, no: Nat]

\* a comes out before b
Before(a, b) ==
  \/ a.priority > b.priority
  \/ a.priority = b.priority /\ a.time < b.time
  \/ a.priority = b.priority /\ a.time = b.time /\ a.no < b.no

MostUrgent(S) == {e \in S : \A f \in S \ {e} : Before(e, f)}

Add ==
  /\ \E pr \in Priorities, tm \in Times :
       content' = content \cup {[priority |-> pr, time |-> tm, no |-> added]}
  /\ added' = added + 1

Take ==
  /\ \E e \in MostUrgent(content) : content' = content \ {e}
  /\ UNCHANGED added

Drop ==
  /\ \E e \in content : content' = content \ {e}
  /\ UNCHANGED added

Init == content = {} /\ added = 0
Next == Add \/ Take \/ Drop

Spec == Init /\ [][Next]_bagVars
=============================================================================
