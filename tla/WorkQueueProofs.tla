-------------------------- MODULE WorkQueueProofs --------------------------
(***************************************************************************)
(* Proofs about WorkQueue, for all priorities, times, id spaces and        *)
(* bounds.                                                                 *)
(***************************************************************************)
EXTENDS WorkQueue, TLAPS

\* Shuffle yields one of the IdSpace ids, whatever the counter.
LEMMA ShuffleType ==
  ASSUME NEW n \in Nat
  PROVE  Shuffle(n) \in 0..(IdSpace - 1)
<1>1. n * Multiplier \in Nat
  BY IdsAssumption
<1> QED
  BY <1>1, IdsAssumption DEF Shuffle

(***************************************************************************)
(* InsertAfter is Vec::insert: one item more, the others keep their order. *)
(***************************************************************************)
LEMMA InsertAfterProperties ==
  ASSUME NEW seq \in Seq(ItemType), NEW p \in 0..Len(seq), NEW item \in ItemType
  PROVE  /\ InsertAfter(seq, p, item) \in Seq(ItemType)
         /\ Len(InsertAfter(seq, p, item)) = Len(seq) + 1
         /\ \A i \in 1..(Len(seq) + 1) :
              InsertAfter(seq, p, item)[i]
                = IF i <= p THEN seq[i] ELSE IF i = p + 1 THEN item ELSE seq[i - 1]
BY DEF InsertAfter

(***************************************************************************)
(* RemoveIndex is Vec::remove: one item less, the others keep their order. *)
(***************************************************************************)
LEMMA RemoveIndexProperties ==
  ASSUME NEW seq \in Seq(ItemType), NEW p \in 1..Len(seq)
  PROVE  /\ RemoveIndex(seq, p) \in Seq(ItemType)
         /\ Len(RemoveIndex(seq, p)) = Len(seq) - 1
         /\ \A i \in 1..(Len(seq) - 1) :
              RemoveIndex(seq, p)[i] = IF i < p THEN seq[i] ELSE seq[i + 1]
BY DEF RemoveIndex

\* The type invariant of the queue is preserved by every operation.
THEOREM TypeCorrect == Spec => []TypeOK
<1>1. Init => TypeOK
  BY DEF Init, TypeOK
<1>2. TypeOK /\ [Next]_vars => TypeOK'
  <2> SUFFICES ASSUME TypeOK, [Next]_vars PROVE TypeOK'
    OBVIOUS
  <2> USE DEF TypeOK
  <2>1. ASSUME NEW pr \in Priorities, NEW tm \in Times, push(pr, tm)
        PROVE  TypeOK'
    <3> DEFINE item == [id |-> Shuffle(counter), priority |-> pr, time |-> tm,
                        no |-> pushes]
    <3>1. item \in ItemType
      BY ShuffleType DEF ItemType
    <3>2. PICK p \in PartitionPoints(item) : items' = InsertAfter(items, p, item)
      BY <2>1 DEF push
    <3>3. p \in 0..Len(items)
      BY <3>2 DEF PartitionPoints
    <3>4. items' \in Seq(ItemType)
      BY <3>1, <3>2, <3>3, InsertAfterProperties
    <3> QED
      BY <2>1, <3>4 DEF push
  <2>2. ASSUME NEW id \in 0..(IdSpace - 1), remove(id)
        PROVE  TypeOK'
    BY <2>2, RemoveIndexProperties DEF remove, FirstWith
  <2>3. ASSUME pop_front PROVE TypeOK'
    <3>1. items[1] \in ItemType
      BY <2>3 DEF pop_front
    <3>2. items[1].id \in 0..(IdSpace - 1)
      BY <3>1 DEF ItemType
    <3> QED
      BY <2>2, <2>3, <3>2 DEF pop_front
  <2>4. CASE TakeId
    BY <2>4 DEF TakeId
  <2>5. CASE UNCHANGED vars
    BY <2>5 DEF vars
  <2> QED
    BY <2>1, <2>2, <2>3, <2>4, <2>5 DEF Next
<1> QED
  BY <1>1, <1>2, PTL DEF Spec

-----------------------------------------------------------------------------
(***************************************************************************)
(* The order.  Ordered alone is not inductive: that a pushed item goes     *)
(* behind its equals also needs that it has a larger number than all of    *)
(* them.                                                                   *)
(***************************************************************************)
NumbersBelow == \A i \in DOMAIN items : items[i].no < pushes

OrderInv == TypeOK /\ Ordered /\ NumbersBelow

\* What an item is made of, as numbers
LEMMA ItemFields ==
  ASSUME NEW e \in ItemType
  PROVE  e.priority \in Nat /\ e.time \in Nat /\ e.no \in Nat
<1>1. e.priority \in Priorities /\ e.time \in Times /\ e.no \in Nat
  BY DEF ItemType
<1>2. e.priority \in 0..255
  BY <1>1, PrioritiesAssumption
<1>3. e.time \in Nat
  BY <1>1, TimesAssumption
<1> QED
  BY <1>1, <1>2, <1>3

\* Urgency is transitive, which lets a push look at two neighbours only.
LEMMA BeforeTransitive ==
  ASSUME NEW a \in ItemType, NEW b \in ItemType, NEW c \in ItemType,
         Bag!Before(a, b), Bag!Before(b, c)
  PROVE  Bag!Before(a, c)
<1>1. /\ a.priority \in Nat /\ a.time \in Nat /\ a.no \in Nat
      /\ b.priority \in Nat /\ b.time \in Nat /\ b.no \in Nat
      /\ c.priority \in Nat /\ c.time \in Nat /\ c.no \in Nat
  BY ItemFields
<1> QED
  BY <1>1 DEF Bag!Before

(***************************************************************************)
(* What the predicate of push decides, for an item younger than all those  *)
(* in the queue: an existing item that stays ahead is before it, any other *)
(* one after it.                                                           *)
(***************************************************************************)
LEMMA StaysAheadIsBefore ==
  ASSUME NEW e \in ItemType, NEW item \in ItemType, e.no < item.no
  PROVE  /\ StaysAhead(e, item) => Bag!Before(e, item)
         /\ ~StaysAhead(e, item) => Bag!Before(item, e)
<1>1. /\ e.priority \in Nat /\ e.time \in Nat /\ e.no \in Nat
      /\ item.priority \in Nat /\ item.time \in Nat /\ item.no \in Nat
  BY ItemFields
<1> QED
  BY <1>1 DEF Bag!Before, StaysAhead

\* No item is before itself: items in order are different without their ids.
LEMMA BeforeStrip ==
  ASSUME NEW a \in ItemType, NEW b \in ItemType, Bag!Before(a, b)
  PROVE  Strip(a) # Strip(b) /\ Bag!Before(Strip(a), Strip(b))
<1>1. /\ a.priority \in Nat /\ a.time \in Nat /\ a.no \in Nat
      /\ b.priority \in Nat /\ b.time \in Nat /\ b.no \in Nat
  BY ItemFields
<1>2. /\ Strip(a).priority = a.priority /\ Strip(a).time = a.time
      /\ Strip(a).no = a.no
      /\ Strip(b).priority = b.priority /\ Strip(b).time = b.time
      /\ Strip(b).no = b.no
  BY DEF Strip
<1>3. Bag!Before(Strip(a), Strip(b))
  BY <1>2 DEF Bag!Before
<1>4. a.priority # b.priority \/ a.time # b.time \/ a.no # b.no
  BY <1>1 DEF Bag!Before
<1> QED
  BY <1>2, <1>3, <1>4

\* push keeps the order: the core of WorkQueue::push.
LEMMA PushOrdered ==
  ASSUME OrderInv, NEW pr \in Priorities, NEW tm \in Times, push(pr, tm)
  PROVE  Ordered' /\ NumbersBelow'
<1> DEFINE item == [id |-> Shuffle(counter), priority |-> pr, time |-> tm,
                    no |-> pushes]
<1> USE DEF OrderInv
<1>1. item \in ItemType /\ item.no = pushes
  BY ShuffleType DEF ItemType, TypeOK
<1>2. PICK p \in PartitionPoints(item) : items' = InsertAfter(items, p, item)
  BY DEF push
<1>3. p \in 0..Len(items)
  BY <1>2 DEF PartitionPoints
<1>4. /\ items' \in Seq(ItemType)
      /\ Len(items') = Len(items) + 1
      /\ \A i \in 1..(Len(items) + 1) :
           items'[i] = IF i <= p THEN items[i]
                       ELSE IF i = p + 1 THEN item ELSE items[i - 1]
  BY <1>1, <1>2, <1>3, InsertAfterProperties DEF TypeOK
<1>5. \A i \in 1..Len(items) : items[i] \in ItemType /\ items[i].no < item.no
  BY <1>1 DEF TypeOK, NumbersBelow
<1> HIDE DEF item
<1>6. \A i \in 1..p : Bag!Before(items[i], item)
  <2> SUFFICES ASSUME NEW i \in 1..p PROVE Bag!Before(items[i], item)
    OBVIOUS
  <2>1. p > 0 /\ p \in 1..Len(items) /\ i \in 1..Len(items)
    BY <1>3 DEF TypeOK
  <2>2. StaysAhead(items[p], item)
    BY <1>2, <2>1 DEF PartitionPoints
  <2>3. Bag!Before(items[p], item)
    BY <1>1, <1>5, <2>1, <2>2, StaysAheadIsBefore
  <2>4. i # p => Bag!Before(items[i], items[p])
    BY <2>1 DEF Ordered, TypeOK
  <2> QED
    BY <1>1, <1>5, <2>1, <2>3, <2>4, BeforeTransitive
<1>7. \A i \in (p + 1)..Len(items) : Bag!Before(item, items[i])
  <2> SUFFICES ASSUME NEW i \in (p + 1)..Len(items) PROVE Bag!Before(item, items[i])
    OBVIOUS
  <2>1. p < Len(items) /\ p + 1 \in 1..Len(items) /\ i \in 1..Len(items)
    BY <1>3 DEF TypeOK
  <2>2. ~StaysAhead(items[p + 1], item)
    BY <1>2, <2>1 DEF PartitionPoints
  <2>3. Bag!Before(item, items[p + 1])
    BY <1>1, <1>5, <2>1, <2>2, StaysAheadIsBefore
  <2>4. i # p + 1 => Bag!Before(items[p + 1], items[i])
    BY <2>1 DEF Ordered, TypeOK
  <2> QED
    BY <1>1, <1>5, <2>1, <2>3, <2>4, BeforeTransitive
<1>8. Ordered'
  <2> SUFFICES ASSUME NEW i \in 1..(Len(items) + 1), NEW j \in 1..(Len(items) + 1),
                      i < j
               PROVE  Bag!Before(items'[i], items'[j])
    BY <1>4 DEF Ordered, Bag!Before
  <2>1. Len(items) \in Nat
    BY DEF TypeOK
  <2>2. CASE j <= p
    BY <1>3, <1>4, <2>1, <2>2 DEF Ordered, TypeOK
  <2>3. CASE j = p + 1
    BY <1>3, <1>4, <1>6, <2>1, <2>3
  <2>4. CASE j > p + 1 /\ i <= p
    <3>1. items'[i] = items[i] /\ items'[j] = items[j - 1]
      BY <1>3, <1>4, <2>1, <2>4
    <3>2. i \in DOMAIN items /\ j - 1 \in DOMAIN items /\ i < j - 1
      BY <1>3, <2>1, <2>4 DEF TypeOK
    <3> QED
      BY <3>1, <3>2 DEF Ordered
  <2>5. CASE j > p + 1 /\ i = p + 1
    BY <1>3, <1>4, <1>7, <2>1, <2>5
  <2>6. CASE i > p + 1
    BY <1>3, <1>4, <2>1, <2>6 DEF Ordered, TypeOK
  <2> QED
    BY <1>3, <2>1, <2>2, <2>3, <2>4, <2>5, <2>6
<1>9. NumbersBelow'
  <2>1. pushes' = pushes + 1 /\ pushes \in Nat
    BY DEF push, TypeOK
  <2>2. ASSUME NEW i \in 1..(Len(items) + 1) PROVE items'[i].no < pushes + 1
    <3>1. Len(items) \in Nat
      BY DEF TypeOK
    <3>2. \A k \in 1..Len(items) : items[k].no \in Nat /\ items[k].no < pushes
      BY <1>1, <1>5 DEF ItemType
    <3>3. items'[i] = item \/ \E k \in 1..Len(items) : items'[i] = items[k]
      BY <1>3, <1>4, <3>1
    <3> QED
      BY <1>1, <2>1, <3>2, <3>3
  <2> QED
    BY <1>4, <2>1, <2>2 DEF NumbersBelow
<1> QED
  BY <1>8, <1>9

\* A removal keeps the order of what is left.
LEMMA RemoveOrdered ==
  ASSUME OrderInv, NEW id, remove(id)
  PROVE  Ordered' /\ NumbersBelow'
<1> USE DEF OrderInv
<1>1. PICK p \in 1..Len(items) : items' = RemoveIndex(items, p)
  BY DEF remove, FirstWith, TypeOK
<1>2. /\ items' \in Seq(ItemType)
      /\ Len(items') = Len(items) - 1
      /\ \A i \in 1..(Len(items) - 1) :
           items'[i] = IF i < p THEN items[i] ELSE items[i + 1]
  BY <1>1, RemoveIndexProperties DEF TypeOK
<1>3. Ordered'
  <2> SUFFICES ASSUME NEW i \in 1..(Len(items) - 1), NEW j \in 1..(Len(items) - 1),
                      i < j
               PROVE  Bag!Before(items'[i], items'[j])
    BY <1>2 DEF Ordered, Bag!Before
  <2> DEFINE old(k) == IF k < p THEN k ELSE k + 1
  <2>1. Len(items) \in Nat
    BY DEF TypeOK
  <2>2. old(i) \in 1..Len(items) /\ old(j) \in 1..Len(items) /\ old(i) < old(j)
    BY <2>1
  <2>3. items'[i] = items[old(i)] /\ items'[j] = items[old(j)]
    BY <1>2
  <2>4. DOMAIN items = 1..Len(items)
    BY DEF TypeOK
  <2>5. Bag!Before(items[old(i)], items[old(j)])
    BY <2>2, <2>4 DEF Ordered
  <2> QED
    BY <2>3, <2>5
<1>4. NumbersBelow'
  BY <1>2 DEF NumbersBelow, TypeOK, remove
<1> QED
  BY <1>3, <1>4

\* The inductive invariant holds of the specification.
LEMMA OrderInvariant == Spec => []OrderInv
<1>1. Init => OrderInv
  BY DEF Init, OrderInv, TypeOK, Ordered, NumbersBelow
<1>2. OrderInv /\ TypeOK' /\ [Next]_vars => OrderInv'
  <2> SUFFICES ASSUME OrderInv, TypeOK', [Next]_vars PROVE Ordered' /\ NumbersBelow'
    BY DEF OrderInv
  <2>1. CASE \E pr \in Priorities, tm \in Times : push(pr, tm)
    BY <2>1, PushOrdered
  <2>2. CASE \E id \in 0..(IdSpace - 1) : remove(id)
    BY <2>2, RemoveOrdered
  <2>3. CASE pop_front
    BY <2>3, RemoveOrdered DEF pop_front
  <2>4. CASE TakeId
    BY <2>4 DEF TakeId, OrderInv, Ordered, NumbersBelow, Bag!Before
  <2>5. CASE UNCHANGED vars
    BY <2>5 DEF vars, OrderInv, Ordered, NumbersBelow, Bag!Before
  <2> QED
    BY <2>1, <2>2, <2>3, <2>4, <2>5 DEF Next
<1> QED
  BY <1>1, <1>2, TypeCorrect, PTL DEF Spec

(***************************************************************************)
(* The queue is always in order of urgency, first in first out among       *)
(* equals: WorkQueue::push and remove never break it, for any priorities,  *)
(* any times and however the clock jumps.                                  *)
(***************************************************************************)
THEOREM AlwaysOrdered == Spec => []Ordered
<1>1. OrderInv => Ordered
  BY DEF OrderInv
<1> QED
  BY <1>1, OrderInvariant, PTL

-----------------------------------------------------------------------------
(* The refinement.                                                         *)

\* A push adds the new item to the content and keeps all the others.
LEMMA PushContent ==
  ASSUME OrderInv, NEW pr \in Priorities, NEW tm \in Times, push(pr, tm)
  PROVE  Content' = Content \cup {[priority |-> pr, time |-> tm, no |-> pushes]}
<1> DEFINE item == [id |-> Shuffle(counter), priority |-> pr, time |-> tm,
                    no |-> pushes]
<1>1. item \in ItemType /\ Strip(item) = [priority |-> pr, time |-> tm, no |-> pushes]
  BY ShuffleType DEF ItemType, TypeOK, OrderInv, Strip
<1>2. PICK p \in PartitionPoints(item) : items' = InsertAfter(items, p, item)
  BY DEF push
<1>3. p \in 0..Len(items) /\ Len(items) \in Nat /\ DOMAIN items = 1..Len(items)
  BY <1>2 DEF PartitionPoints, TypeOK, OrderInv
<1>4. /\ DOMAIN items' = 1..(Len(items) + 1)
      /\ \A i \in 1..(Len(items) + 1) :
           items'[i] = IF i <= p THEN items[i]
                       ELSE IF i = p + 1 THEN item ELSE items[i - 1]
  BY <1>2 DEF InsertAfter
<1> HIDE DEF item
<1>5. \A i \in 1..(Len(items) + 1) :
        items'[i] = item \/ \E k \in 1..Len(items) : items'[i] = items[k]
  BY <1>3, <1>4
<1>6. \A k \in 1..Len(items) : \E i \in 1..(Len(items) + 1) : items'[i] = items[k]
  <2> SUFFICES ASSUME NEW k \in 1..Len(items)
               PROVE  \E i \in 1..(Len(items) + 1) : items'[i] = items[k]
    OBVIOUS
  <2>1. CASE k <= p
    BY <1>3, <1>4, <2>1
  <2>2. CASE k > p
    <3>1. k + 1 \in 1..(Len(items) + 1) /\ ~(k + 1 <= p) /\ k + 1 # p + 1
      BY <1>3, <2>2
    <3>2. items'[k + 1] = items[k]
      BY <1>3, <1>4, <3>1
    <3> QED
      BY <3>1, <3>2
  <2> QED
    BY <1>3, <2>1, <2>2
<1>7. \E i \in 1..(Len(items) + 1) : items'[i] = item
  <2>1. p + 1 \in 1..(Len(items) + 1) /\ ~(p + 1 <= p)
    BY <1>3
  <2> QED
    BY <1>4, <2>1
<1>8. Content' = {Strip(items'[i]) : i \in 1..(Len(items) + 1)}
  BY <1>4 DEF Content, Strip
<1>9. Content = {Strip(items[i]) : i \in 1..Len(items)}
  BY <1>3 DEF Content
<1> QED
  BY <1>1, <1>5, <1>6, <1>7, <1>8, <1>9

\* Removing the item at a position removes it, and no other, from the content.
LEMMA RemoveContent ==
  ASSUME OrderInv, NEW p \in 1..Len(items), items' = RemoveIndex(items, p)
  PROVE  Strip(items[p]) \in Content /\ Content' = Content \ {Strip(items[p])}
<1>1. Len(items) \in Nat /\ DOMAIN items = 1..Len(items)
  BY DEF OrderInv, TypeOK
<1>2. /\ DOMAIN items' = 1..(Len(items) - 1)
      /\ \A i \in 1..(Len(items) - 1) :
           items'[i] = IF i < p THEN items[i] ELSE items[i + 1]
  BY DEF RemoveIndex
<1>3. \A i \in 1..(Len(items) - 1) :
        \E k \in 1..Len(items) : k # p /\ items'[i] = items[k]
  <2> SUFFICES ASSUME NEW i \in 1..(Len(items) - 1)
               PROVE  \E k \in 1..Len(items) : k # p /\ items'[i] = items[k]
    OBVIOUS
  <2>1. CASE i < p
    BY <1>1, <1>2, <2>1
  <2>2. CASE i >= p
    <3>1. i + 1 \in 1..Len(items) /\ i + 1 # p /\ items'[i] = items[i + 1]
      BY <1>1, <1>2, <2>2
    <3> QED
      BY <3>1
  <2> QED
    BY <2>1, <2>2
<1>4. \A k \in 1..Len(items) : k # p =>
        \E i \in 1..(Len(items) - 1) : items'[i] = items[k]
  <2> SUFFICES ASSUME NEW k \in 1..Len(items), k # p
               PROVE  \E i \in 1..(Len(items) - 1) : items'[i] = items[k]
    OBVIOUS
  <2>1. CASE k < p
    BY <1>1, <1>2, <2>1
  <2>2. CASE k > p
    <3>1. k - 1 \in 1..(Len(items) - 1) /\ ~(k - 1 < p) /\ (k - 1) + 1 = k
      BY <1>1, <2>2
    <3>2. items'[k - 1] = items[k]
      BY <1>2, <3>1
    <3> QED
      BY <3>1, <3>2
  <2> QED
    BY <1>1, <2>1, <2>2
<1>5. \A k \in 1..Len(items) : k # p => Strip(items[k]) # Strip(items[p])
  <2> SUFFICES ASSUME NEW k \in 1..Len(items), k # p
               PROVE  Strip(items[k]) # Strip(items[p])
    OBVIOUS
  <2>1. items[k] \in ItemType /\ items[p] \in ItemType
    BY <1>1 DEF OrderInv, TypeOK
  <2>2. Bag!Before(items[k], items[p]) \/ Bag!Before(items[p], items[k])
    BY <1>1 DEF OrderInv, Ordered
  <2> QED
    BY <2>1, <2>2, BeforeStrip
<1>6. Content' = {Strip(items'[i]) : i \in 1..(Len(items) - 1)}
  BY <1>2 DEF Content, Strip
<1>7. Content = {Strip(items[i]) : i \in 1..Len(items)}
  BY <1>1 DEF Content
<1>8. \A k \in 1..Len(items) : k # p => Strip(items[k]) \in Content'
  BY <1>4, <1>6
<1>9. \A i \in 1..(Len(items) - 1) : Strip(items'[i]) \in Content \ {Strip(items[p])}
  BY <1>3, <1>5, <1>7
<1>10. Content' \subseteq Content \ {Strip(items[p])}
  BY <1>6, <1>9
<1>11. Content \ {Strip(items[p])} \subseteq Content'
  BY <1>7, <1>8
<1> QED
  BY <1>7, <1>10, <1>11

(***************************************************************************)
(* The queue implements the priority bag: whatever the sequence of pushes, *)
(* pops and removals, no item is lost, doubled or invented.                *)
(***************************************************************************)
THEOREM QueueImplementsBag == Spec => ImplementsBag
<1>1. Init => Bag!Init
  BY DEF Init, Bag!Init, Content
<1>2. ASSUME OrderInv, [Next]_vars
      PROVE  [Bag!Next]_(Bag!bagVars)
  <2>1. ASSUME NEW pr \in Priorities, NEW tm \in Times, push(pr, tm)
        PROVE  Bag!Next
    <3>1. Content' = Content \cup {[priority |-> pr, time |-> tm, no |-> pushes]}
      BY <1>2, <2>1, PushContent
    <3>2. pushes' = pushes + 1
      BY <2>1 DEF push
    <3> QED
      BY <3>1, <3>2 DEF Bag!Next, Bag!Add
  <2>2. ASSUME NEW id, remove(id)
        PROVE  Bag!Next
    <3>1. PICK p \in 1..Len(items) : items' = RemoveIndex(items, p)
      BY <1>2, <2>2 DEF remove, FirstWith, OrderInv, TypeOK
    <3>2. pushes' = pushes
      BY <2>2 DEF remove
    <3> QED
      BY <1>2, <3>1, <3>2, RemoveContent DEF Bag!Next, Bag!Drop
  <2>3. CASE TakeId
    BY <2>3 DEF TakeId, Bag!bagVars, Content, Strip
  <2>4. CASE UNCHANGED vars
    BY <2>4 DEF vars, Bag!bagVars, Content, Strip
  <2> QED
    BY <1>2, <2>1, <2>2, <2>3, <2>4 DEF Next, pop_front
<1> QED
  BY <1>1, <1>2, OrderInvariant, PTL DEF Spec, ImplementsBag, Bag!Spec

(***************************************************************************)
(* pop_front takes the most urgent item, also when another item has the    *)
(* same id, because remove takes the first one with that id.               *)
(***************************************************************************)
THEOREM PopMostUrgent == Spec => PopTakesMostUrgent
<1>1. ASSUME OrderInv, pop_front
      PROVE  \E e \in Bag!MostUrgent(Content) : Content' = Content \ {e}
  <2>1. /\ Len(items) \in Nat \ {0} /\ DOMAIN items = 1..Len(items)
        /\ \A i \in 1..Len(items) : items[i] \in ItemType
    BY <1>1 DEF pop_front, OrderInv, TypeOK
  <2>2. items' = RemoveIndex(items, 1)
    BY <1>1, <2>1 DEF pop_front, remove, FirstWith
  <2>3. Strip(items[1]) \in Content /\ Content' = Content \ {Strip(items[1])}
    BY <1>1, <2>1, <2>2, RemoveContent
  <2>4. \A f \in Content \ {Strip(items[1])} : Bag!Before(Strip(items[1]), f)
    <3> SUFFICES ASSUME NEW i \in 1..Len(items), Strip(items[i]) # Strip(items[1])
                 PROVE  Bag!Before(Strip(items[1]), Strip(items[i]))
      BY <2>1 DEF Content
    <3>1. Bag!Before(items[1], items[i])
      BY <1>1, <2>1 DEF OrderInv, Ordered
    <3> QED
      BY <2>1, <3>1, BeforeStrip
  <2> QED
    BY <2>3, <2>4 DEF Bag!MostUrgent
<1> QED
  BY <1>1, OrderInvariant, PTL DEF PopTakesMostUrgent

-----------------------------------------------------------------------------
(***************************************************************************)
(* The ids.  Multiplication by a number that has an inverse does not       *)
(* confuse two counters less than IdSpace apart.                           *)
(***************************************************************************)
LEMMA DivMod ==
  ASSUME NEW a \in Int, NEW s \in Nat \ {0}
  PROVE  (a \div s) \in Int /\ a % s \in Int /\ a = s * (a \div s) + (a % s)
OBVIOUS

\* Zero is the only multiple of s closer to zero than s.
LEMMA SmallMultiple ==
  ASSUME NEW d \in Int, NEW s \in Nat \ {0}, NEW q \in Int, d = s * q, -s < d, d < s
  PROVE  d = 0
<1>1. CASE q >= 1
  <2>1. s * q >= s
   BY <1>1
  <2> QED BY <2>1
<1>2. CASE q <= -1
  <2>1. s * q <= -s
   BY <1>2
  <2> QED BY <2>1
<1>3. CASE q = 0
  BY <1>3
<1> QED BY <1>1, <1>2, <1>3

\* With k the inverse of m modulo s, whatever m makes a multiple of s is one.
LEMMA CancelMultiplier ==
  ASSUME NEW s \in Nat \ {0}, NEW m \in Int, NEW k \in Int, NEW t \in Int,
         k * m = 1 + s * t,
         NEW d \in Int, NEW q \in Int, d * m = s * q
  PROVE  d = s * (k * q - t * d)
<1> DEFINE x == s * (k * q)
           y == s * (t * d)
<1>1. d * (k * m) = k * (d * m)
  OBVIOUS
<1>2. d * (1 + s * t) = d + y
  OBVIOUS
<1>3. k * (s * q) = x
  OBVIOUS
<1>4. s * (k * q - t * d) = x - y
  OBVIOUS
<1>5. x \in Int /\ y \in Int
  OBVIOUS
<1>6. d + y = x
  BY <1>1, <1>2, <1>3
<1> HIDE DEF x, y
<1> QED BY <1>4, <1>5, <1>6

LEMMA ShuffleInjective ==
  ASSUME NEW c \in 0..(IdSpace - 1), NEW n \in 0..(IdSpace - 1), Shuffle(c) = Shuffle(n)
  PROVE  c = n
<1> DEFINE s == IdSpace
           m == Multiplier
<1>1. s \in Nat \ {0} /\ m \in Int /\ c \in Int /\ n \in Int
  BY IdsAssumption
<1>2. CASE s = 1
  BY <1>2
<1>3. CASE s # 1
  <2>1. PICK k \in 0..(s - 1) : (k * m) % s = 1 % s
    BY MultiplierAssumption
  <2>2. k \in Int /\ 1 % s = 1
    BY <1>1, <1>3
  <2> DEFINE t == (k * m) \div s
             u == (c * m) \div s
             v == (n * m) \div s
  <2>3. k * m \in Int /\ c * m \in Int /\ n * m \in Int
    BY <1>1, <2>2
  <2>4. t \in Int /\ k * m = s * t + 1
    BY <1>1, <2>1, <2>2, <2>3, DivMod
  <2>5. /\ u \in Int /\ v \in Int /\ (c * m) % s \in Int
        /\ c * m = s * u + ((c * m) % s) /\ n * m = s * v + ((n * m) % s)
    BY <1>1, <2>3, DivMod
  <2>6. (c * m) % s = (n * m) % s
    BY DEF Shuffle
  <2> HIDE DEF s, m, t, u, v
  <2>7. (c - n) * m = c * m - n * m /\ s * (u - v) = s * u - s * v
    BY <1>1, <2>5
  <2>8. s * u \in Int /\ s * v \in Int /\ s * t \in Int
    BY <1>1, <2>4, <2>5
  <2>9. (c - n) * m = s * (u - v) /\ k * m = 1 + s * t
    BY <2>3, <2>4, <2>5, <2>6, <2>7, <2>8
  <2>10. c - n \in Int /\ u - v \in Int
    BY <1>1, <2>5
  <2>11. c - n = s * (k * (u - v) - t * (c - n))
    <3> DEFINE d == c - n
               q == u - v
    <3>1. d \in Int /\ q \in Int /\ d * m = s * q
      BY <2>9, <2>10
    <3> HIDE DEF d, q
    <3>2. d = s * (k * q - t * d)
      BY <1>1, <2>2, <2>4, <2>9, <3>1, CancelMultiplier
    <3> QED BY <3>2 DEF d, q
  <2>12. k * (u - v) - t * (c - n) \in Int /\ -s < c - n /\ c - n < s
    BY <1>1, <2>2, <2>4, <2>10 DEF s
  <2>13. c - n = 0
    BY <1>1, <2>10, <2>11, <2>12, SmallMultiple
  <2> QED BY <1>1, <2>13
<1> QED BY <1>2, <1>3

(***************************************************************************)
(* Until the generator has gone through all its ids, each queued item has  *)
(* the id of a counter that is passed, and no two have the same.           *)
(***************************************************************************)
IdInv ==
  counter <= IdSpace =>
    /\ \A i \in DOMAIN items : \E c \in 0..(counter - 1) : items[i].id = Shuffle(c)
    /\ \A i, j \in DOMAIN items : i # j => items[i].id # items[j].id

LEMMA PushIds ==
  ASSUME TypeOK, IdInv, NEW pr \in Priorities, NEW tm \in Times, push(pr, tm)
  PROVE  IdInv'
<1> DEFINE item == [id |-> Shuffle(counter), priority |-> pr, time |-> tm, no |-> pushes]
<1>0. items \in Seq(ItemType) /\ counter \in Nat /\ pushes \in Nat /\ IdSpace \in Nat
  BY IdsAssumption DEF TypeOK
<1>1. item \in ItemType /\ item.id = Shuffle(counter)
  BY <1>0, ShuffleType DEF ItemType
<1>2. PICK p \in PartitionPoints(item) : items' = InsertAfter(items, p, item)
  BY DEF push
<1>3. p \in 0..Len(items) /\ counter' = counter + 1
  BY <1>2 DEF PartitionPoints, push
<1> HIDE DEF item
<1>4. /\ DOMAIN items' = 1..(Len(items) + 1) /\ DOMAIN items = 1..Len(items) /\ Len(items) \in Nat
      /\ \A i \in 1..(Len(items) + 1) :
           items'[i] = IF i <= p THEN items[i] ELSE IF i = p + 1 THEN item ELSE items[i - 1]
  BY <1>0, <1>1, <1>2, <1>3, InsertAfterProperties
<1>5. SUFFICES ASSUME counter + 1 <= IdSpace
               PROVE  /\ \A i \in DOMAIN items' : \E c \in 0..counter : items'[i].id = Shuffle(c)
                      /\ \A i, j \in DOMAIN items' : i # j => items'[i].id # items'[j].id
  BY <1>0, <1>3 DEF IdInv, Shuffle
<1> DEFINE old(i) == IF i <= p THEN i ELSE i - 1
<1>6. \A i \in DOMAIN items' : i # p + 1 => old(i) \in DOMAIN items /\ items'[i] = items[old(i)]
  BY <1>3, <1>4
<1>7. items'[p + 1] = item
  BY <1>3, <1>4
<1>8. \A i, j \in DOMAIN items' : i # j /\ i # p + 1 /\ j # p + 1 => old(i) # old(j)
  BY <1>3, <1>4
<1> HIDE DEF old
<1>9. /\ \A i \in DOMAIN items : \E c \in 0..(counter - 1) : items[i].id = Shuffle(c)
      /\ \A i, j \in DOMAIN items : i # j => items[i].id # items[j].id
  BY <1>0, <1>5 DEF IdInv
<1>10. \A i \in DOMAIN items : items[i].id # Shuffle(counter)
  <2>1. counter \in 0..(IdSpace - 1) /\ \A c \in 0..(counter - 1) : c \in 0..(IdSpace - 1) /\ c # counter
    BY <1>0, <1>5
  <2> QED BY <1>9, <2>1, ShuffleInjective
<1>11. ASSUME NEW i \in DOMAIN items' PROVE \E c \in 0..counter : items'[i].id = Shuffle(c)
  <2>1. counter \in 0..counter /\ \A c \in 0..(counter - 1) : c \in 0..counter
    BY <1>0
  <2> QED BY <1>1, <1>6, <1>7, <1>9, <2>1
<1>12. ASSUME NEW i \in DOMAIN items', NEW j \in DOMAIN items', i # j
       PROVE  items'[i].id # items'[j].id
  BY <1>1, <1>6, <1>7, <1>8, <1>9, <1>10, <1>12
<1> QED BY <1>11, <1>12

LEMMA RemoveIds ==
  ASSUME TypeOK, IdInv, NEW id, remove(id)
  PROVE  IdInv'
<1>0. items \in Seq(ItemType) /\ counter' = counter
  BY DEF TypeOK, remove
<1>1. PICK p \in DOMAIN items : items' = RemoveIndex(items, p)
  BY DEF remove, FirstWith
<1>2. /\ DOMAIN items' = 1..(Len(items) - 1) /\ DOMAIN items = 1..Len(items) /\ Len(items) \in Nat
      /\ \A i \in 1..(Len(items) - 1) : items'[i] = IF i < p THEN items[i] ELSE items[i + 1]
  BY <1>0, <1>1, RemoveIndexProperties
<1> DEFINE old(i) == IF i < p THEN i ELSE i + 1
<1>3. \A i \in DOMAIN items' : old(i) \in DOMAIN items /\ items'[i] = items[old(i)]
  BY <1>2
<1>4. \A i, j \in DOMAIN items' : i # j => old(i) # old(j)
  BY <1>2
<1> HIDE DEF old
<1> QED BY <1>0, <1>3, <1>4 DEF IdInv, Shuffle

(***************************************************************************)
(* IdGenerator::next ("a bijective shuffle"): two queued items never have  *)
(* the same id before the counter has passed IdSpace, for any size of the  *)
(* id space and any multiplier that has an inverse modulo it.              *)
(***************************************************************************)
THEOREM IdsDifferUntilWrap == Spec => []SameIdOnlyAfterWrap
<1>1. Init => IdInv
  BY DEF Init, IdInv
<1>2. TypeOK /\ IdInv /\ [Next]_vars => IdInv'
  <2> SUFFICES ASSUME TypeOK, IdInv, [Next]_vars PROVE IdInv'
    OBVIOUS
  <2>1. CASE \E pr \in Priorities, tm \in Times : push(pr, tm)
    BY <2>1, PushIds
  <2>2. CASE (\E id \in 0..(IdSpace - 1) : remove(id)) \/ pop_front
    BY <2>2, RemoveIds DEF pop_front
  <2>3. CASE TakeId
    <3>1. items' = items /\ counter' = counter + 1 /\ counter \in Nat /\ IdSpace \in Nat
      BY <2>3, IdsAssumption DEF TakeId, TypeOK
    <3>2. \A c \in 0..(counter - 1) : c \in 0..(counter' - 1)
      BY <3>1
    <3>3. counter' <= IdSpace => counter <= IdSpace
      BY <3>1
    <3> QED BY <3>1, <3>2, <3>3 DEF IdInv, Shuffle
  <2>4. CASE UNCHANGED vars
    BY <2>4 DEF vars, IdInv, Shuffle
  <2> QED
    BY <2>1, <2>2, <2>3, <2>4 DEF Next
<1>3. TypeOK /\ IdInv => SameIdOnlyAfterWrap
  BY IdsAssumption DEF TypeOK, IdInv, SameIdOnlyAfterWrap
<1> QED
  BY <1>1, <1>2, <1>3, TypeCorrect, PTL DEF Spec

=============================================================================
