----------------------------- MODULE WorkQueue -----------------------------
(***************************************************************************)
(* WorkQueue of src/src/types.rs and the pop_front and remove that a       *)
(* script calls (PyWorkQueue of src/src/python.rs), with the generator     *)
(* that names the items.                                                   *)
(*                                                                         *)
(* Times are those of the wall clock, which may be set back, so an item    *)
(* may be pushed with any time.  An item carries the number of its push,   *)
(* no, which the program does not have: the properties tell equal items    *)
(* apart by it.                                                            *)
(***************************************************************************)
EXTENDS Integers, Sequences

CONSTANTS
  Priorities,  \* WorkItem::priority, a u8
  Times,       \* WorkItem::time
  IdSpace,     \* 2^16: ids are four hex digits
  Multiplier,  \* the odd multiplier of the shuffle
  MaxPushes,   \* bound on the pushes
  MaxOthers    \* bound on the ids taken for other things

ASSUME PrioritiesAssumption == Priorities \subseteq 0..255
ASSUME TimesAssumption == Times \subseteq Nat
ASSUME IdsAssumption ==
  /\ IdSpace \in Nat \ {0} /\ Multiplier \in Nat
  /\ MaxPushes \in Nat /\ MaxOthers \in Nat
\* An odd number has an inverse modulo a power of two.
ASSUME MultiplierAssumption ==
  \E k \in 0..(IdSpace - 1) : (k * Multiplier) % IdSpace = 1 % IdSpace

VARIABLES
  items,    \* WorkQueue::items
  counter,  \* IdGenerator::counter
  pushes,   \* pushes so far
  others    \* ids taken for history entries, timers, processes

vars == <<items, counter, pushes, others>>

ItemType == [id: 0..(IdSpace - 1), priority: Priorities, time: Times, no: Nat]

\* Mutant: the shuffle loses a bit.
ShuffleLossy(n) == ((n - (n % 2)) * Multiplier) % IdSpace

\* IdGenerator::next: the low bits of the product
Shuffle(n) == (n * Multiplier) % IdSpace

\* Mutant: a later item of the same priority and time goes first.
StaysAheadStrict(existing, item) ==
  IF existing.priority # item.priority
  THEN existing.priority > item.priority
  ELSE existing.time < item.time

\* The predicate of push: the existing item stays in front of the new one.
StaysAhead(existing, item) ==
  IF existing.priority # item.priority
  THEN existing.priority > item.priority
  ELSE existing.time <= item.time

(***************************************************************************)
(* partition_point is a binary search: it ends at a place where the        *)
(* predicate changes from true to false, whatever the order of the items.  *)
(* Such a place is unique only when the items are partitioned.             *)
(***************************************************************************)
PartitionPoints(item) ==
  {p \in 0..Len(items) :
     /\ p > 0 => StaysAhead(items[p], item)
     /\ p < Len(items) => ~StaysAhead(items[p + 1], item)}

\* Mutant: the item at the place is overwritten.
InsertOverwrites(seq, p, item) ==
  [i \in 1..(IF p = Len(seq) THEN p + 1 ELSE Len(seq)) |->
     IF i = p + 1 THEN item ELSE seq[i]]

InsertAfter(seq, p, item) ==
  [i \in 1..(Len(seq) + 1) |->
     IF i <= p THEN seq[i] ELSE IF i = p + 1 THEN item ELSE seq[i - 1]]

RemoveIndex(seq, p) ==
  [i \in 1..(Len(seq) - 1) |-> IF i < p THEN seq[i] ELSE seq[i + 1]]

push(pr, tm) ==
  LET item == [id |-> Shuffle(counter), priority |-> pr, time |-> tm, no |-> pushes]
  IN  /\ pushes < MaxPushes
      /\ \E p \in PartitionPoints(item) : items' = InsertAfter(items, p, item)
      /\ counter' = counter + 1
      /\ pushes' = pushes + 1
      /\ UNCHANGED others

\* position: the first item with this id
FirstWith(id) ==
  {p \in DOMAIN items : items[p].id = id /\ \A q \in 1..(p - 1) : items[q].id # id}

remove(id) ==
  /\ \E p \in FirstWith(id) : items' = RemoveIndex(items, p)
  /\ UNCHANGED <<counter, pushes, others>>

\* Mutant: the last item is popped.
pop_back ==
  /\ items # <<>>
  /\ items' = RemoveIndex(items, Len(items))
  /\ UNCHANGED <<counter, pushes, others>>

\* pop_front removes by the id of the front item.
pop_front ==
  /\ items # <<>>
  /\ remove(items[1].id)

\* The generator also names history entries, timers and processes.
TakeId ==
  /\ others < MaxOthers
  /\ others' = others + 1
  /\ counter' = counter + 1
  /\ UNCHANGED <<items, pushes>>

Init == items = <<>> /\ counter = 0 /\ pushes = 0 /\ others = 0

Next ==
  \/ \E pr \in Priorities, tm \in Times : push(pr, tm)
  \/ \E id \in 0..(IdSpace - 1) : remove(id)
  \/ pop_front
  \/ TakeId

Spec == Init /\ [][Next]_vars

-----------------------------------------------------------------------------
(* Properties.                                                             *)

\* Every variable has its type.
TypeOK ==
  /\ items \in Seq(ItemType)
  /\ counter \in Nat /\ pushes \in Nat /\ others \in Nat

\* The queue as a set of items without their ids
Strip(e) == [priority |-> e.priority, time |-> e.time, no |-> e.no]

Content == {Strip(items[i]) : i \in DOMAIN items}

Bag == INSTANCE PriorityBag WITH content <- Content, added <- pushes

(***************************************************************************)
(* The items are in order of urgency, and items of the same priority and   *)
(* time in the order in which they were pushed (types.rs: "Sorted by       *)
(* (priority DESC, time ASC)"), although each push only looks at the place *)
(* that the binary search finds and times are not monotonic.               *)
(***************************************************************************)
Ordered ==
  \A i, j \in DOMAIN items : i < j => Bag!Before(items[i], items[j])

(***************************************************************************)
(* The queue implements the priority bag: no item is lost or doubled by an *)
(* insertion, and a removal takes one item.                                *)
(***************************************************************************)
ImplementsBag == Bag!Spec

(***************************************************************************)
(* pop_front takes the item the agent sees at the front, even when another *)
(* item has its id: what leaves by popping is the most urgent item.        *)
(***************************************************************************)
PopTakesMostUrgent ==
  [][pop_front => \E e \in Bag!MostUrgent(Content) : Content' = Content \ {e}]_vars

(***************************************************************************)
(* Two queued items have the same id only when the generator went through  *)
(* all its ids between them: until then remove(id) takes the item it names *)
(* and no other.                                                           *)
(***************************************************************************)
SameIdOnlyAfterWrap ==
  \A i, j \in DOMAIN items :
    i # j /\ items[i].id = items[j].id => counter > IdSpace

=============================================================================
