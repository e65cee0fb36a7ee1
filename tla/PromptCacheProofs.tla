------------------------- MODULE PromptCacheProofs -------------------------
(***************************************************************************)
(* Proofs about PromptCache, for every configuration, size of the pieces   *)
(* and number of turns.                                                    *)
(*                                                                         *)
(* First that the functions the model defines by recursion exist.  Then    *)
(* that only a compaction changes what has left the modification window    *)
(* (FrozenKept); that the blocks of a request are its text, with at most   *)
(* four breakpoints and none inside the window (RequestsSound); that what  *)
(* follows the last breakpoint is bounded (UncachedKept); and that a       *)
(* breakpoint stays until its tier advances (CacheKept).                   *)
(***************************************************************************)
EXTENDS PromptCache, FiniteSetTheorems, SequenceTheorems, WellFoundedInduction, TLAPS

EntryType == [id : Nat, form : EntryForms, version : Nat]

-----------------------------------------------------------------------------
(***************************************************************************)
(* Recursive functions.  The library's induction theorems have an operator *)
(* as a parameter; the one below has a set, and the functions that the     *)
(* model defines by recursion are shown to exist with it.                  *)
(***************************************************************************)
LEMMA SetInduction ==
  ASSUME NEW S, 0 \in S, \A n \in Nat : n \in S => n + 1 \in S
  PROVE  Nat \subseteq S
<1> DEFINE R == OpToRel(<, Nat)
           T == Nat \ S
<1>1. \A m, n \in Nat : m < n => <<m, n>> \in R
  BY DEF OpToRel
<1>2. IsWellFoundedOn(R, Nat)
  BY NatLessThanWellFounded
<1> HIDE DEF R
<1> SUFFICES ASSUME T # {} PROVE FALSE
  OBVIOUS
<1>3. T \subseteq Nat
  OBVIOUS
<1>4. PICK x \in T : \A y \in T : ~ (<<y, x>> \in R)
  BY <1>2, <1>3, WFMin
<1>5. x \in Nat /\ x # 0
  OBVIOUS
<1>6. x - 1 \in Nat /\ x - 1 < x /\ (x - 1) + 1 = x
  BY <1>5
<1>7. x - 1 \notin S
  BY <1>6
<1> QED BY <1>1, <1>4, <1>5, <1>6, <1>7

\* Two functions that go on alike are alike.
Alike(f, g, n) == f[0] = g[0] /\ \A k \in 1 .. n : f[k - 1] = g[k - 1] => f[k] = g[k]

LEMMA SameRecursion ==
  ASSUME NEW n \in Nat, NEW f, NEW g, Alike(f, g, n)
  PROVE  \A k \in 0 .. n : f[k] = g[k]
<1> DEFINE S == {m \in Nat : m <= n => f[m] = g[m]}
<1>1. 0 \in S
  BY DEF Alike
<1>2. ASSUME NEW m \in Nat, m \in S PROVE m + 1 \in S
  <2> SUFFICES ASSUME m + 1 <= n PROVE f[m + 1] = g[m + 1]
    OBVIOUS
  <2>1. m + 1 \in 1 .. n /\ (m + 1) - 1 = m /\ m <= n
    OBVIOUS
  <2>2. f[m] = g[m]
    BY <1>2, <2>1
  <2> QED BY <2>1, <2>2 DEF Alike
<1> HIDE DEF S
<1>3. Nat \subseteq S
  BY <1>1, <1>2, SetInduction
<1> QED BY <1>3 DEF S

\* A function defined by a first value and a step
Steps(step, n, S) == \A k \in 1 .. n : \A x \in S : step[k][x] \in S
Recursive(f, b, step, n, S) ==
  f \in [0 .. n -> S] /\ f[0] = b /\ \A k \in 1 .. n : f[k] = step[k][f[k - 1]]

LEMMA RecursionExists ==
  ASSUME NEW S, NEW b \in S, NEW n \in Nat, NEW step, Steps(step, n, S)
  PROVE  \E f : Recursive(f, b, step, n, S)
<1> DEFINE Upto(m, f) == f[0] = b /\ \A k \in 1 .. m : f[k] = step[k][f[k - 1]]
           M == {m \in Nat : m <= n => \E f \in [0 .. m -> S] : Upto(m, f)}
<1>1. 0 \in M
  <2>1. [k \in 0 .. 0 |-> b] \in [0 .. 0 -> S] /\ Upto(0, [k \in 0 .. 0 |-> b])
    OBVIOUS
  <2> QED BY <2>1
<1>2. ASSUME NEW m \in Nat, m \in M PROVE m + 1 \in M
  <2> SUFFICES ASSUME m + 1 <= n PROVE \E f \in [0 .. m + 1 -> S] : Upto(m + 1, f)
    OBVIOUS
  <2>1. PICK f \in [0 .. m -> S] : Upto(m, f)
    BY <1>2
  <2> DEFINE g == [k \in 0 .. m + 1 |-> IF k = m + 1 THEN step[m + 1][f[m]] ELSE f[k]]
  <2>2. step[m + 1][f[m]] \in S
    <3>1. m + 1 \in 1 .. n /\ f[m] \in S
      OBVIOUS
    <3> QED BY <3>1 DEF Steps
  <2>3. g \in [0 .. m + 1 -> S]
    <3>1. \A k \in 0 .. m + 1 : k # m + 1 => k \in 0 .. m
      OBVIOUS
    <3> QED BY <2>2, <3>1
  <2>4. Upto(m + 1, g)
    <3>1. g[0] = b
      BY <2>1
    <3>2. ASSUME NEW k \in 1 .. m + 1 PROVE g[k] = step[k][g[k - 1]]
      <4>1. CASE k = m + 1
        <5>1. k - 1 = m /\ k - 1 \in 0 .. m + 1 /\ k - 1 # m + 1
          BY <4>1
        <5> QED BY <4>1, <5>1
      <4>2. CASE k # m + 1
        <5>1. k \in 1 .. m /\ k \in 0 .. m + 1 /\ k - 1 \in 0 .. m + 1 /\ k - 1 # m + 1
          BY <4>2
        <5>2. g[k] = f[k] /\ g[k - 1] = f[k - 1]
          BY <4>2, <5>1
        <5> QED BY <2>1, <5>1, <5>2
      <4> QED BY <4>1, <4>2
    <3> QED BY <3>1, <3>2
  <2> QED BY <2>3, <2>4
<1> HIDE DEF M
<1>3. Nat \subseteq M
  BY <1>1, <1>2, SetInduction
<1>4. n \in M /\ n <= n
  BY <1>3
<1>5. PICK f \in [0 .. n -> S] : Upto(n, f)
  BY <1>4 DEF M
<1> QED BY <1>5 DEF Recursive

\* The recursion of FlattenSeq
Flattens(f, ss, T) ==
  /\ f \in [0 .. Len(ss) -> Seq(T)]
  /\ f[0] = <<>> /\ \A k \in 1 .. Len(ss) : f[k] = f[k - 1] \o ss[k]
  /\ FlattenSeq(ss) = f[Len(ss)]

LEMMA FlattenRecursion ==
  ASSUME NEW T, NEW ss \in Seq(Seq(T))
  PROVE  \E f : Flattens(f, ss, T)
<1> DEFINE n == Len(ss)
           step == [k \in 1 .. n |-> [x \in Seq(T) |-> x \o ss[k]]]
<1>1. n \in Nat /\ \A k \in 1 .. n : ss[k] \in Seq(T)
  OBVIOUS
<1> HIDE DEF n
<1>2. Steps(step, n, Seq(T)) /\ <<>> \in Seq(T)
  BY <1>1 DEF Steps
<1>3. PICK f \in [0 .. n -> Seq(T)] : f[0] = <<>> /\ \A k \in 1 .. n : f[k] = step[k][f[k - 1]]
  <2>1. PICK f : Recursive(f, <<>>, step, n, Seq(T))
    BY <1>1, <1>2, RecursionExists
  <2> QED BY <2>1 DEF Recursive
<1>4. \A k \in 1 .. n : f[k] = f[k - 1] \o ss[k]
  <2> SUFFICES ASSUME NEW k \in 1 .. n PROVE f[k] = f[k - 1] \o ss[k]
    OBVIOUS
  <2>1. k - 1 \in 0 .. n
    BY <1>1
  <2>2. f[k - 1] \in Seq(T)
    BY <2>1
  <2> QED BY <1>3, <2>2
<1>5. CASE n = 0
  <2>1. ss = <<>>
    BY <1>5 DEF n
  <2>2. FlattenSeq(ss) = f[n]
    BY <1>3, <1>5, <2>1 DEF FlattenSeq
  <2> QED BY <1>3, <1>4, <2>2 DEF n, Flattens
<1>6. CASE n # 0
  <2> DEFINE Flat(h) == [i \in 1 .. n |-> IF i = 1 THEN ss[i] ELSE h[i - 1] \o ss[i]]
             h == CHOOSE h : h = Flat(h)
             g == [i \in 1 .. n |-> f[i]]
  <2>1. g = Flat(g)
    <3>1. ASSUME NEW i \in 1 .. n PROVE g[i] = IF i = 1 THEN ss[i] ELSE g[i - 1] \o ss[i]
      <4>1. g[i] = f[i - 1] \o ss[i]
        BY <1>4
      <4>2. CASE i = 1
        <5>1. f[i - 1] = <<>> /\ ss[i] \in Seq(T)
          BY <1>1, <1>3, <4>2
        <5> QED BY <4>1, <4>2, <5>1
      <4>3. CASE i # 1
        <5>1. i - 1 \in 1 .. n
          BY <1>1, <4>3
        <5> QED BY <4>1, <4>3, <5>1
      <4> QED BY <4>2, <4>3
    <3> QED BY <3>1
  <2>2. h = Flat(h)
    <3> HIDE DEF g
    <3> QED BY <2>1
  <2>3. FlattenSeq(ss) = h[n]
    BY <1>6 DEF FlattenSeq, n
  <2> HIDE DEF h
  <2>4. \A i \in 1 .. n : h[i] = IF i = 1 THEN ss[i] ELSE h[i - 1] \o ss[i]
    BY <2>2
  <2> DEFINE e == [k \in 0 .. n |-> IF k = 0 THEN <<>> ELSE h[k]]
  <2>5. \A k \in 0 .. n : e[k] = f[k]
    <3>1. e[0] = f[0]
      BY <1>1, <1>3
    <3>2. ASSUME NEW k \in 1 .. n, e[k - 1] = f[k - 1] PROVE e[k] = f[k]
      <4>1. k - 1 \in 0 .. n /\ k \in 0 .. n /\ k # 0
        BY <1>1
      <4>2. CASE k = 1
        <5>1. e[k] = ss[k] /\ f[k - 1] = <<>> /\ ss[k] \in Seq(T)
          BY <1>1, <1>3, <2>4, <4>1, <4>2
        <5>2. f[k] = <<>> \o ss[k]
          BY <1>4, <5>1
        <5> HIDE DEF e
        <5> QED BY <5>1, <5>2
      <4>3. CASE k # 1
        <5>1. e[k - 1] = h[k - 1]
          BY <4>1, <4>3
        <5>2. e[k] = h[k - 1] \o ss[k]
          BY <2>4, <4>1, <4>3
        <5> QED BY <1>4, <3>2, <5>1, <5>2
      <4> QED BY <4>2, <4>3
    <3> HIDE DEF e
    <3>3. Alike(e, f, n)
      BY <3>1, <3>2 DEF Alike
    <3> QED BY <1>1, <3>3, SameRecursion
  <2>6. FlattenSeq(ss) = f[n]
    <3>1. n \in 0 .. n
      BY <1>1
    <3> QED BY <1>6, <2>3, <2>5, <3>1
  <2> QED BY <1>3, <1>4, <2>6 DEF n, Flattens
<1> QED BY <1>5, <1>6

LEMMA FlattenTyped ==
  ASSUME NEW T, NEW ss \in Seq(Seq(T))
  PROVE  FlattenSeq(ss) \in Seq(T)
<1>1. PICK f \in [0 .. Len(ss) -> Seq(T)] : FlattenSeq(ss) = f[Len(ss)]
  BY FlattenRecursion DEF Flattens
<1>2. Len(ss) \in 0 .. Len(ss)
  OBVIOUS
<1> QED BY <1>1, <1>2

LEMMA FlattenEmpty == FlattenSeq(<<>>) = <<>>
BY DEF FlattenSeq

LEMMA FlattenAppend ==
  ASSUME NEW T, NEW ss \in Seq(Seq(T)), NEW s \in Seq(T)
  PROVE  FlattenSeq(Append(ss, s)) = FlattenSeq(ss) \o s
<1> DEFINE n == Len(ss)
           tt == Append(ss, s)
<1>1. n \in Nat /\ tt \in Seq(Seq(T)) /\ Len(tt) = n + 1 /\ tt[n + 1] = s
      /\ \A k \in 1 .. n : tt[k] = ss[k]
  OBVIOUS
<1> HIDE DEF n, tt
<1>2. PICK f \in [0 .. n -> Seq(T)] : /\ f[0] = <<>> /\ \A k \in 1 .. n : f[k] = f[k - 1] \o ss[k]
                                      /\ FlattenSeq(ss) = f[n]
  BY FlattenRecursion DEF n, Flattens
<1>3. PICK g : /\ g[0] = <<>> /\ \A k \in 1 .. n + 1 : g[k] = g[k - 1] \o tt[k]
               /\ FlattenSeq(tt) = g[n + 1]
  <2>1. PICK g : Flattens(g, tt, T)
    BY <1>1, FlattenRecursion
  <2> QED BY <1>1, <2>1 DEF Flattens
<1>4. \A k \in 0 .. n : f[k] = g[k]
  <2>1. f[0] = g[0]
    BY <1>2, <1>3
  <2>2. \A k \in 1 .. n : f[k - 1] = g[k - 1] => f[k] = g[k]
    <3> SUFFICES ASSUME NEW k \in 1 .. n, f[k - 1] = g[k - 1] PROVE f[k] = g[k]
      OBVIOUS
    <3>1. k \in 1 .. n + 1
      BY <1>1
    <3>2. g[k] = g[k - 1] \o tt[k] /\ f[k] = f[k - 1] \o ss[k] /\ tt[k] = ss[k]
      BY <1>1, <1>2, <1>3, <3>1
    <3> QED BY <3>2
  <2>3. Alike(f, g, n)
    BY <2>1, <2>2 DEF Alike
  <2> QED BY <1>1, <2>3, SameRecursion
<1>5. g[n + 1] = g[n] \o s
  <2>1. n + 1 \in 1 .. n + 1 /\ (n + 1) - 1 = n
    BY <1>1
  <2> QED BY <1>1, <1>3, <2>1
<1>6. n \in 0 .. n
  BY <1>1
<1> QED BY <1>2, <1>3, <1>4, <1>5, <1>6 DEF tt

LEMMA FlattenOne ==
  ASSUME NEW T, NEW s \in Seq(T)
  PROVE  FlattenSeq(<<s>>) = s
<1>1. <<s>> = Append(<<>>, s) /\ <<>> \in Seq(Seq(T))
  OBVIOUS
<1>2. FlattenSeq(<<s>>) = FlattenSeq(<<>>) \o s
  BY <1>1, FlattenAppend
<1> QED BY <1>2, FlattenEmpty

\* A sequence and its last element
Apart(t, u, x, X) == u \in Seq(X) /\ x \in X /\ Len(t) = Len(u) + 1 /\ Len(u) \in Nat /\ t = Append(u, x)

LEMMA LastApart ==
  ASSUME NEW X, NEW t \in Seq(X), NEW m \in Nat, Len(t) = m + 1
  PROVE  \E u, x : Apart(t, u, x, X)
<1> DEFINE u == SubSeq(t, 1, m)
           x == t[m + 1]
<1>1. u \in Seq(X) /\ Len(u) = m /\ \A k \in 1 .. m : u[k] = t[k]
  OBVIOUS
<1>2. x \in X
  OBVIOUS
<1> HIDE DEF u
<1>3. t = Append(u, x)
  <2> DEFINE v == Append(u, x)
  <2>1. v \in Seq(X) /\ Len(v) = m + 1 /\ v[m + 1] = x /\ \A k \in 1 .. m : v[k] = u[k]
    BY <1>1, <1>2
  <2> HIDE DEF v
  <2>2. \A k \in 1 .. m + 1 : v[k] = t[k]
    BY <1>1, <2>1
  <2> QED BY <2>1, <2>2 DEF v
<1> QED BY <1>1, <1>2, <1>3 DEF Apart

LEMMA FlattenConcat ==
  ASSUME NEW T, NEW ss \in Seq(Seq(T)), NEW tt \in Seq(Seq(T))
  PROVE  FlattenSeq(ss \o tt) = FlattenSeq(ss) \o FlattenSeq(tt)
<1> DEFINE X == Seq(T)
           M == {m \in Nat : \A t \in Seq(X) : Len(t) = m => FlattenSeq(ss \o t) = FlattenSeq(ss) \o FlattenSeq(t)}
<1>0. FlattenSeq(ss) \in X
  BY FlattenTyped
<1>1. 0 \in M
  <2> SUFFICES ASSUME NEW t \in Seq(X), Len(t) = 0 PROVE FlattenSeq(ss \o t) = FlattenSeq(ss) \o FlattenSeq(t)
    OBVIOUS
  <2>1. t = <<>> /\ ss \o t = ss
    OBVIOUS
  <2> QED BY <1>0, <2>1, FlattenEmpty
<1>2. ASSUME NEW m \in Nat, m \in M PROVE m + 1 \in M
  <2> SUFFICES ASSUME NEW t \in Seq(X), Len(t) = m + 1 PROVE FlattenSeq(ss \o t) = FlattenSeq(ss) \o FlattenSeq(t)
    OBVIOUS
  <2>1. PICK u \in Seq(X), x \in X : Len(u) = m /\ t = Append(u, x)
    <3>1. PICK u, x : Apart(t, u, x, X)
      BY LastApart
    <3>2. Len(u) + 1 = m + 1 /\ Len(u) \in Nat
      BY <3>1 DEF Apart
    <3>3. Len(u) = m
      BY ONLY <3>2, m \in Nat
    <3>4. u \in Seq(X) /\ x \in X /\ t = Append(u, x)
      BY <3>1 DEF Apart
    <3> QED BY ONLY <3>3, <3>4
  <2>2. ss \o t = Append(ss \o u, x) /\ ss \o u \in Seq(X)
    BY <2>1
  <2>3. FlattenSeq(ss \o t) = FlattenSeq(ss \o u) \o x
    BY <2>2, FlattenAppend
  <2>4. FlattenSeq(t) = FlattenSeq(u) \o x
    BY <2>1, FlattenAppend
  <2>5. FlattenSeq(ss \o u) = FlattenSeq(ss) \o FlattenSeq(u)
    BY <1>2, <2>1
  <2>6. FlattenSeq(u) \in X
    BY FlattenTyped
  <2>7. (FlattenSeq(ss) \o FlattenSeq(u)) \o x = FlattenSeq(ss) \o (FlattenSeq(u) \o x)
    <3> DEFINE p == FlattenSeq(ss)
               q == FlattenSeq(u)
    <3>1. p \in Seq(T) /\ q \in Seq(T) /\ x \in Seq(T)
      BY <1>0, <2>6
    <3> HIDE DEF p, q
    <3>2. (p \o q) \o x = p \o (q \o x)
      BY ONLY <3>1, ConcatAssociative, SMTT(30)
    <3> QED BY <3>2 DEF p, q
  <2> QED BY <2>3, <2>4, <2>5, <2>7
<1> HIDE DEF M
<1>3. Nat \subseteq M
  BY <1>1, <1>2, SetInduction
<1> QED BY <1>3 DEF M

LEMMA FlattenNothing ==
  ASSUME NEW T, NEW ss \in Seq(Seq(T)), \A k \in 1 .. Len(ss) : ss[k] = <<>>
  PROVE  FlattenSeq(ss) = <<>>
<1>1. PICK f \in [0 .. Len(ss) -> Seq(T)] :
        /\ f[0] = <<>> /\ \A k \in 1 .. Len(ss) : f[k] = f[k - 1] \o ss[k]
        /\ FlattenSeq(ss) = f[Len(ss)]
  BY FlattenRecursion DEF Flattens
<1> DEFINE g == [k \in 0 .. Len(ss) |-> <<>>]
<1>2. \A k \in 0 .. Len(ss) : f[k] = g[k]
  <2>1. f[0] = g[0]
    BY <1>1
  <2>2. \A k \in 1 .. Len(ss) : f[k - 1] = g[k - 1] => f[k] = g[k]
    <3> SUFFICES ASSUME NEW k \in 1 .. Len(ss), f[k - 1] = g[k - 1] PROVE f[k] = g[k]
      OBVIOUS
    <3>1. k - 1 \in 0 .. Len(ss) /\ k \in 0 .. Len(ss)
      OBVIOUS
    <3>2. f[k - 1] = <<>> /\ ss[k] = <<>>
      BY <3>1
    <3>3. f[k] = <<>> \o <<>>
      BY <1>1, <3>2
    <3>4. <<>> \o <<>> = <<>>
      OBVIOUS
    <3> QED BY <3>1, <3>3, <3>4
  <2> HIDE DEF g
  <2>3. Alike(f, g, Len(ss)) /\ Len(ss) \in Nat
    BY <2>1, <2>2 DEF Alike
  <2> QED BY <2>3, SameRecursion
<1>3. Len(ss) \in 0 .. Len(ss)
  OBVIOUS
<1> QED BY <1>1, <1>2, <1>3

-----------------------------------------------------------------------------
(***************************************************************************)
(* The frozen prefix.  That a commit keeps it depends on every edit since  *)
(* the turn began: the clone of the history agrees with the history up to  *)
(* its own modification window, which moves back with each removal.  Ids   *)
(* ascend, so an edit touches the entry that is_modifiable looked at.      *)
(***************************************************************************)
Ascending(h, n) ==
  /\ \A k \in DOMAIN h : h[k].id <= n
  /\ \A k, l \in DOMAIN h : k < l => h[k].id < h[l].id

Agrees(h, t) == \A k \in 1 .. ImmutableCount(t) : k \in DOMAIN h /\ t[k] = h[k]

FrozenInv ==
  /\ hist \in Seq(EntryType) /\ txn \in Seq(EntryType) /\ made \in Nat
  /\ Ascending(hist, made) /\ Ascending(txn, made)
  /\ active \in BOOLEAN /\ (pc = "compact" => active)
  /\ pc = "script" /\ ~active => Agrees(hist, txn)

\* saturating_sub
LEMMA MonusTyped ==
  ASSUME NEW m \in Nat, NEW n \in Nat
  PROVE  Monus(m, n) \in Nat /\ Monus(m, n) <= m
BY DEF Monus

LEMMA ImmutableTyped ==
  ASSUME NEW h \in Seq(EntryType)
  PROVE  ImmutableCount(h) \in Nat /\ ImmutableCount(h) <= Len(h) /\ Len(h) \in Nat
<1>1. Len(h) \in Nat /\ Window \in Nat
  BY SizesAssumption
<1> QED BY <1>1, MonusTyped DEF ImmutableCount

\* What an entry is
LEMMA EntryTyped ==
  ASSUME NEW h \in Seq(EntryType)
  PROVE  DOMAIN h \subseteq Nat /\ \A k \in DOMAIN h : h[k] \in EntryType /\ h[k].id \in Nat
<1>1. DOMAIN h \subseteq Nat /\ \A k \in DOMAIN h : h[k] \in EntryType
  OBVIOUS
<1>2. \A x \in EntryType : x.id \in Nat
  BY DEF EntryType
<1> QED BY <1>1, <1>2

\* A new entry takes an id beyond all.
LEMMA AppendAscends ==
  ASSUME NEW h \in Seq(EntryType), NEW n \in Nat, Ascending(h, n), NEW f \in EntryForms
  PROVE  /\ Append(h, Piece(n + 1, f)) \in Seq(EntryType)
         /\ Ascending(Append(h, Piece(n + 1, f)), n + 1)
<1> DEFINE x == Piece(n + 1, f)
           g == Append(h, x)
<1>1. x \in EntryType /\ x.id = n + 1
  BY DEF Piece, EntryType
<1> HIDE DEF x
<1>2. g \in Seq(EntryType) /\ Len(g) = Len(h) + 1 /\ Len(h) \in Nat
  BY <1>1
<1>3. \A k \in DOMAIN g : (k \in DOMAIN h /\ g[k] = h[k]) \/ (k = Len(h) + 1 /\ g[k] = x)
  BY <1>1, <1>2
<1>4. DOMAIN h \subseteq Nat /\ \A k \in DOMAIN h : h[k].id \in Nat
  BY EntryTyped
<1> HIDE DEF g
<1>5. ASSUME NEW k \in DOMAIN g PROVE g[k].id <= n + 1
  BY <1>1, <1>3, <1>4 DEF Ascending
<1>6. ASSUME NEW k \in DOMAIN g, NEW l \in DOMAIN g, k < l PROVE g[k].id < g[l].id
  <2>1. k \in DOMAIN h /\ g[k] = h[k]
    <3>1. k \in 1 .. Len(h) + 1 /\ l \in 1 .. Len(h) + 1
      BY <1>2, <1>6
    <3>2. k # Len(h) + 1
      BY <1>2, <1>6, <3>1
    <3> QED BY <1>3, <1>6, <3>2
  <2>2. CASE l \in DOMAIN h /\ g[l] = h[l]
    BY <1>6, <2>1, <2>2 DEF Ascending
  <2>3. CASE g[l] = x
    BY <1>1, <1>4, <2>1, <2>3 DEF Ascending
  <2> QED BY <1>3, <2>2, <2>3
<1> QED BY <1>2, <1>5, <1>6 DEF Ascending, g, x

\* Without the entry at p
LEMMA RemovedAt ==
  ASSUME NEW h \in Seq(EntryType), NEW p \in DOMAIN h, NEW g, g = RemoveAt(h, p)
  PROVE  /\ g \in Seq(EntryType) /\ Len(g) = Len(h) - 1 /\ Len(h) \in Nat
         /\ \A k \in DOMAIN g : /\ k \in Nat /\ k < p => k \in DOMAIN h /\ g[k] = h[k]
                                /\ k >= p => k + 1 \in DOMAIN h /\ g[k] = h[k + 1]
<1> DEFINE a == SubSeq(h, 1, p - 1)
           b == SubSeq(h, p + 1, Len(h))
<1>1. p \in 1 .. Len(h) /\ Len(h) \in Nat
  OBVIOUS
<1>2. a \in Seq(EntryType) /\ Len(a) = p - 1 /\ \A k \in 1 .. p - 1 : a[k] = h[k]
  BY <1>1
<1>3. b \in Seq(EntryType) /\ Len(b) = Len(h) - p /\ \A k \in 1 .. Len(h) - p : b[k] = h[p + k]
  BY <1>1
<1>4. g = a \o b
  BY DEF RemoveAt
<1> HIDE DEF a, b
<1>5. g \in Seq(EntryType) /\ Len(g) = Len(h) - 1
  BY <1>1, <1>2, <1>3, <1>4
<1>6. ASSUME NEW k \in 1 .. Len(h) - 1
      PROVE  /\ k < p => k \in 1 .. Len(h) /\ g[k] = h[k]
             /\ k >= p => k + 1 \in 1 .. Len(h) /\ g[k] = h[k + 1]
  <2>1. k < p => g[k] = a[k]
    BY <1>1, <1>2, <1>3, <1>4
  <2>2. ASSUME k >= p PROVE g[k] = b[k - (p - 1)]
    <3>1. k - Len(a) \in 1 .. Len(b) /\ k \in 1 .. Len(a) + Len(b) /\ ~ (k <= Len(a)) /\ k - Len(a) = k - (p - 1)
      BY <1>1, <1>2, <1>3, <2>2, SMTT(30)
    <3>2. (a \o b)[k] = b[k - Len(a)]
      BY <1>2, <1>3, <3>1, SMTT(30)
    <3> QED BY <1>4, <3>1, <3>2
  <2>3. k >= p => b[k - (p - 1)] = h[k + 1]
    BY <1>1, <1>3
  <2> QED BY <1>1, <1>2, <2>1, <2>2, <2>3
<1>7. DOMAIN g = 1 .. Len(h) - 1 /\ DOMAIN h = 1 .. Len(h)
  BY <1>5
<1> QED BY <1>1, <1>5, <1>6, <1>7

\* The entry with an id, if there is one
LEMMA PositionFound ==
  ASSUME NEW h \in Seq(EntryType), NEW n, Ascending(h, n), NEW i, NEW k \in DOMAIN h, h[k].id = i
  PROVE  Position(h, i) = k
<1>1. DOMAIN h \subseteq Nat /\ \A l \in DOMAIN h : h[l].id \in Nat
  BY EntryTyped
<1>2. \A l \in DOMAIN h : h[l].id = i => l = k
  BY <1>1 DEF Ascending
<1>3. h[k].id = i /\ \A l \in DOMAIN h : h[l].id = i => k <= l
  BY <1>1, <1>2
<1> QED BY <1>2, <1>3 DEF Position

\* Removing an entry keeps the order; one in the window leaves what is before
\* the window, which the removal moves back.
LEMMA RemovesEntry ==
  ASSUME NEW h \in Seq(EntryType), NEW n, Ascending(h, n), NEW i, NEW p \in DOMAIN h, h[p].id = i,
         NEW g, g = RemoveEntry(h, i)
  PROVE  /\ g \in Seq(EntryType) /\ Ascending(g, n)
         /\ \A o : Agrees(o, h) /\ IsModifiable(h, i) => Agrees(o, g)
<1>1. Position(h, i) = p
  BY PositionFound
<1>2. g = RemoveAt(h, p)
  BY <1>1 DEF RemoveEntry
<1>3. /\ g \in Seq(EntryType) /\ Len(g) = Len(h) - 1 /\ Len(h) \in Nat
      /\ \A k \in DOMAIN g : /\ k \in Nat /\ k < p => k \in DOMAIN h /\ g[k] = h[k]
                             /\ k >= p => k + 1 \in DOMAIN h /\ g[k] = h[k + 1]
  BY <1>2, RemovedAt
<1>4. p \in Nat /\ DOMAIN g \subseteq Nat /\ DOMAIN h \subseteq Nat
  BY <1>3
<1>5. Ascending(g, n)
  <2>1. ASSUME NEW k \in DOMAIN g PROVE g[k].id <= n
    BY <1>3, <1>4 DEF Ascending
  <2>2. ASSUME NEW k \in DOMAIN g, NEW l \in DOMAIN g, k < l PROVE g[k].id < g[l].id
    <3>1. CASE l < p
      BY <1>3, <1>4, <2>2, <3>1 DEF Ascending
    <3>2. CASE k >= p
      <4>1. k + 1 < l + 1 /\ l >= p
        BY <1>4, <2>2, <3>2
      <4> QED BY <1>3, <3>2, <4>1 DEF Ascending
    <3>3. CASE k < p /\ l >= p
      <4>1. k < l + 1
        BY <1>4, <2>2
      <4> QED BY <1>3, <1>4, <3>3, <4>1 DEF Ascending
    <3> QED BY <1>4, <3>1, <3>2, <3>3
  <2> QED BY <2>1, <2>2 DEF Ascending
<1>6. ASSUME NEW o, Agrees(o, h), IsModifiable(h, i) PROVE Agrees(o, g)
  <2>1. PICK q \in ImmutableCount(h) + 1 .. Len(h) : h[q].id = i
    BY <1>6 DEF IsModifiable
  <2>2. ImmutableCount(h) \in Nat /\ ImmutableCount(h) <= Len(h)
    BY ImmutableTyped
  <2>3. q \in DOMAIN h
    BY <2>1, <2>2
  <2>4. q = p
    BY <1>1, <2>1, <2>3, PositionFound
  <2>5. ImmutableCount(g) \in Nat /\ ImmutableCount(g) <= ImmutableCount(h) /\ ImmutableCount(g) <= Len(g)
    BY <1>3, SizesAssumption DEF ImmutableCount, Monus
  <2> SUFFICES ASSUME NEW k \in 1 .. ImmutableCount(g) PROVE k \in DOMAIN o /\ g[k] = o[k]
    BY DEF Agrees
  <2>6. k \in 1 .. ImmutableCount(h) /\ k < p /\ k \in 1 .. Len(g)
    BY <1>3, <2>1, <2>2, <2>4, <2>5
  <2>7. g[k] = h[k]
    <3>1. k \in DOMAIN g
      BY <1>3, <2>6
    <3> QED BY <1>3, <2>6, <3>1
  <2> QED BY <1>6, <2>6, <2>7 DEF Agrees
<1> QED BY <1>3, <1>5, <1>6

\* The same for a description in the place of an entry.
LEMMA ReplacesEntry ==
  ASSUME NEW h \in Seq(EntryType), NEW n, Ascending(h, n), NEW i, NEW p \in DOMAIN h, h[p].id = i,
         NEW d \in Descriptions, NEW g, g = ReplaceWithSummary(h, i, d)
  PROVE  /\ g \in Seq(EntryType) /\ Ascending(g, n)
         /\ \A o : Agrees(o, h) /\ IsModifiable(h, i) => Agrees(o, g)
<1>1. Position(h, i) = p
  BY PositionFound
<1>2. g = [h EXCEPT ![p] = Piece(i, d)]
  BY <1>1 DEF ReplaceWithSummary
<1>3. i \in Nat /\ Piece(i, d) \in EntryType /\ Piece(i, d).id = i
  <2>1. i \in Nat
    BY EntryTyped
  <2> QED BY <2>1 DEF EntryType, Piece, EntryForms
<1>4. /\ g \in Seq(EntryType) /\ Len(g) = Len(h) /\ DOMAIN g = DOMAIN h
      /\ \A k \in DOMAIN h : g[k].id = h[k].id /\ (k # p => g[k] = h[k])
  BY <1>2, <1>3
<1>5. Ascending(g, n)
  BY <1>4 DEF Ascending
<1>6. ASSUME NEW o, Agrees(o, h), IsModifiable(h, i) PROVE Agrees(o, g)
  <2>1. PICK q \in ImmutableCount(h) + 1 .. Len(h) : h[q].id = i
    BY <1>6 DEF IsModifiable
  <2>2. ImmutableCount(h) \in Nat /\ ImmutableCount(h) <= Len(h) /\ Len(h) \in Nat
    BY ImmutableTyped
  <2>3. q \in DOMAIN h
    BY <2>1, <2>2
  <2>4. q = p
    BY <1>1, <2>1, <2>3, PositionFound
  <2>5. ImmutableCount(g) = ImmutableCount(h)
    BY <1>4 DEF ImmutableCount
  <2> SUFFICES ASSUME NEW k \in 1 .. ImmutableCount(h) PROVE k \in DOMAIN o /\ g[k] = o[k]
    BY <2>5 DEF Agrees
  <2>6. k # p /\ k \in 1 .. Len(h)
    BY <2>1, <2>2, <2>4
  <2>7. g[k] = h[k]
    <3>1. k \in DOMAIN h
      BY <2>6
    <3> QED BY <1>4, <2>6, <3>1
  <2> QED BY <1>6, <2>7 DEF Agrees
<1> QED BY <1>4, <1>5, <1>6

\* A clone agrees with what it is a clone of.
LEMMA CloneAgrees ==
  ASSUME NEW h \in Seq(EntryType)
  PROVE  Agrees(h, h)
<1>1. ImmutableCount(h) \in Nat /\ ImmutableCount(h) <= Len(h) /\ Len(h) \in Nat
  BY ImmutableTyped
<1>2. \A k \in 1 .. ImmutableCount(h) : k \in 1 .. Len(h)
  BY <1>1
<1> QED BY <1>2 DEF Agrees

\* The histories a script leaves behind, with and without the alert of a fork
LEMMA InstalledKeeps ==
  ASSUME FrozenInv, NEW forked \in BOOLEAN, Installed(forked)
  PROVE  hist' \in Seq(EntryType) /\ made' \in Nat /\ Ascending(hist', made') /\ made <= made'
<1>1. CASE forked
  <2>1. made' = made + 1 /\ hist' = Append(txn, Piece(made + 1, "alert"))
    BY <1>1 DEF Installed
  <2>2. txn \in Seq(EntryType) /\ made \in Nat /\ Ascending(txn, made) /\ "alert" \in EntryForms
    BY DEF FrozenInv, EntryForms
  <2> QED BY ONLY <2>1, <2>2, AppendAscends
<1>2. CASE ~ forked
  BY <1>2 DEF FrozenInv, Installed
<1> QED BY <1>1, <1>2

LEMMA AscendsOn ==
  ASSUME NEW h \in Seq(EntryType), NEW m \in Nat, NEW n \in Nat, m <= n, Ascending(h, m)
  PROVE  Ascending(h, n)
BY EntryTyped DEF Ascending

LEMMA FrozenInitially == Init => FrozenInv
<1> SUFFICES ASSUME Init PROVE FrozenInv
  OBVIOUS
<1>1. /\ hist \in Seq(EntryType) /\ txn \in Seq(EntryType) /\ made \in Nat
      /\ Ascending(hist, made) /\ Ascending(txn, made)
  BY DEF Init, Ascending
<1>2. active = FALSE /\ pc = "render"
  BY DEF Init
<1> QED BY <1>1, <1>2 DEF FrozenInv

\* An edit of the clone
LEMMA EditFrozen ==
  ASSUME FrozenInv, Edit
  PROVE  FrozenInv'
<1>1. ASSUME NEW i, MayEdit(i), UNCHANGED <<hist, made, pc, active>>, NEW g, txn' = g,
             g = RemoveEntry(txn, i) \/ \E d \in Descriptions : g = ReplaceWithSummary(txn, i, d)
      PROVE  FrozenInv'
  <2>1. PICK p \in DOMAIN txn : txn[p].id = i
    BY <1>1 DEF MayEdit
  <2>2. txn \in Seq(EntryType) /\ Ascending(txn, made)
    BY DEF FrozenInv
  <2>3. /\ g \in Seq(EntryType) /\ Ascending(g, made)
        /\ \A o : Agrees(o, txn) /\ IsModifiable(txn, i) => Agrees(o, g)
    BY <1>1, <2>1, <2>2, RemovesEntry, ReplacesEntry
  <2>4. pc = "script" /\ ~active => Agrees(hist, g)
    BY <1>1, <2>3 DEF FrozenInv, MayEdit, IsCompaction
  <2> QED BY <1>1, <2>3, <2>4 DEF FrozenInv
<1>2. ASSUME NEW d \in Descriptions, HistoryAdd(d)
      PROVE  FrozenInv'
  <2>1. txn' \in Seq(EntryType) /\ Ascending(txn', made') /\ made' \in Nat /\ made <= made'
    <3>1. made' = made + 1 /\ txn' = Append(txn, Piece(made + 1, d))
      BY <1>2 DEF HistoryAdd
    <3>2. txn \in Seq(EntryType) /\ made \in Nat /\ Ascending(txn, made) /\ d \in EntryForms
      BY DEF FrozenInv, EntryForms
    <3> QED BY ONLY <3>1, <3>2, AppendAscends
  <2>2. Ascending(hist, made')
    BY <2>1, AscendsOn DEF FrozenInv
  <2> QED BY <1>2, <2>1, <2>2 DEF HistoryAdd, IsCompaction, FrozenInv
<1>3. CASE \E i \in 1 .. MaxEntries : HistoryRemove(i)
  BY <1>1, <1>3 DEF HistoryRemove
<1>4. CASE \E i \in 1 .. MaxEntries : \E d \in Descriptions : ReplaceWithDescription(i, d)
  BY <1>1, <1>4 DEF ReplaceWithDescription
<1> QED BY <1>2, <1>3, <1>4 DEF Edit

\* An entry at the end of the history
LEMMA PushFrozen ==
  ASSUME FrozenInv, NEW f \in EntryForms, pc' \notin {"script", "compact"}, active' = active,
         made' = made + 1, hist' = Append(hist, Piece(made + 1, f)), txn' \in {txn, <<>>}
  PROVE  FrozenInv'
<1>1. hist' \in Seq(EntryType) /\ Ascending(hist', made') /\ made' \in Nat /\ made <= made'
  BY AppendAscends DEF FrozenInv
<1>2. txn' \in Seq(EntryType) /\ Ascending(txn', made')
  <2>1. CASE txn' = txn
    BY <1>1, <2>1, AscendsOn DEF FrozenInv
  <2>2. CASE txn' = <<>>
    BY <2>2 DEF Ascending
  <2> QED BY <2>1, <2>2
<1> QED BY <1>1, <1>2 DEF FrozenInv

LEMMA FrozenStep ==
  ASSUME FrozenInv, [Next]_vars
  PROVE  FrozenInv'
<1>1. CASE UNCHANGED <<hist, txn, pc, active, made>>
  BY <1>1 DEF FrozenInv
<1>2. CASE PinnedChanges \/ FileChanges \/ HeadItemChanges \/ UNCHANGED vars
  BY <1>1, <1>2 DEF PinnedChanges, FileChanges, HeadItemChanges, vars
<1>3. CASE AlertPushed
  BY <1>3, PushFrozen DEF AlertPushed, EntryForms
<1>4. CASE RunTurn
  BY <1>4, CloneAgrees DEF RunTurn, FrozenInv
<1>5. CASE Edit
  BY <1>5, EditFrozen
<1>6. CASE Commit
  <2>1. PICK forked \in BOOLEAN : Installed(forked)
    BY <1>6 DEF Commit
  <2>2. hist' \in Seq(EntryType) /\ made' \in Nat /\ Ascending(hist', made') /\ made <= made'
    BY <2>1, InstalledKeeps
  <2>3. txn' = txn /\ pc' = "record" /\ active' \in BOOLEAN
    BY <1>6 DEF Commit, FrozenInv
  <2> QED BY <2>2, <2>3, AscendsOn DEF FrozenInv
<1>7. CASE CommitAndCompact
  <2>1. PICK forked \in BOOLEAN : Installed(forked)
    BY <1>7 DEF CommitAndCompact
  <2>2. hist' \in Seq(EntryType) /\ made' \in Nat /\ Ascending(hist', made')
    BY <2>1, InstalledKeeps
  <2> QED BY <1>7, <2>2 DEF CommitAndCompact, FrozenInv
<1>8. CASE Raise
  BY <1>8 DEF Raise, FrozenInv
<1>9. CASE CompactDone
  BY <1>9 DEF CompactDone, FrozenInv
<1>10. CASE CompactRaises
  BY <1>10, PushFrozen DEF CompactRaises, EntryForms
<1>11. CASE Record
  BY <1>11, PushFrozen DEF Record, EntryForms
<1>12. CASE TriggerCompaction
  BY <1>12 DEF TriggerCompaction, FrozenInv
<1> QED BY <1>2, <1>3, <1>4, <1>5, <1>6, <1>7, <1>8, <1>9, <1>10, <1>11, <1>12 DEF Next

\* Sequences that agree on their first m elements
LEMMA SamePrefix ==
  ASSUME NEW s \in Seq(EntryType), NEW t \in Seq(EntryType), NEW m \in Nat,
         m <= Len(s), m <= Len(t), \A k \in 1 .. m : s[k] = t[k]
  PROVE  IsPrefix(SubSeq(s, 1, m), t)
<1> DEFINE u == SubSeq(s, 1, m)
<1>1. u \in Seq(EntryType) /\ Len(u) = m /\ \A k \in 1 .. m : u[k] = s[k]
  OBVIOUS
<1> HIDE DEF u
<1>2. Len(u) <= Len(t)
  BY <1>1
<1>3. SubSeq(u, 1, Len(u)) = SubSeq(t, 1, Len(u))
  <2> DEFINE a == SubSeq(u, 1, Len(u))
             b == SubSeq(t, 1, Len(u))
  <2>1. a \in Seq(EntryType) /\ Len(a) = m /\ \A k \in 1 .. m : a[k] = u[k]
    BY <1>1
  <2>2. b \in Seq(EntryType) /\ Len(b) = m /\ \A k \in 1 .. m : b[k] = t[k]
    BY <1>1
  <2> HIDE DEF a, b
  <2>3. \A k \in 1 .. m : a[k] = b[k]
    BY <1>1, <2>1, <2>2
  <2>4. a = b
    BY <2>1, <2>2, <2>3
  <2> QED BY <2>4 DEF a, b
<1>4. IsPrefix(u, t)
  BY <1>2, <1>3 DEF IsPrefix
<1> QED BY <1>4 DEF u

\* As many entries are gone as the clone is shorter, or more: those that are
\* not have each an entry of their own in the clone.
LEMMA GoneCount ==
  ASSUME FrozenInv, NEW forked \in BOOLEAN, Installed(forked)
  PROVE  Cardinality(Gone) \in Nat /\ Len(hist) - Cardinality(Gone) <= Len(txn)
<1> DEFINE D == DOMAIN hist
           Stay == D \ Gone
           At == [k \in Stay |-> CHOOSE l \in DOMAIN txn : txn[l].id = hist[k].id]
<1>1. /\ hist \in Seq(EntryType) /\ txn \in Seq(EntryType) /\ made \in Nat
      /\ Ascending(hist, made) /\ Ascending(txn, made)
  BY DEF FrozenInv
<1>2. /\ IsFiniteSet(D) /\ Cardinality(D) = Len(hist)
      /\ IsFiniteSet(DOMAIN txn) /\ Cardinality(DOMAIN txn) = Len(txn)
      /\ Len(hist) \in Nat /\ Len(txn) \in Nat
  <2>1. D = 1 .. Len(hist) /\ DOMAIN txn = 1 .. Len(txn) /\ Len(hist) \in Nat /\ Len(txn) \in Nat
    BY <1>1
  <2>2. \A n \in Nat : IsFiniteSet(1 .. n) /\ Cardinality(1 .. n) = n
    <3> SUFFICES ASSUME NEW n \in Nat PROVE IsFiniteSet(1 .. n) /\ Cardinality(1 .. n) = n
      OBVIOUS
    <3>1. IsFiniteSet(1 .. n) /\ Cardinality(1 .. n) = IF 1 > n THEN 0 ELSE n - 1 + 1
      BY FS_Interval
    <3> QED BY <3>1
  <2> QED BY <2>1, <2>2
<1>3. Gone \subseteq D
  BY DEF Gone
<1>4. IsFiniteSet(Gone) /\ IsFiniteSet(Stay) /\ Cardinality(Gone) \in Nat /\ Cardinality(Stay) \in Nat
      /\ Cardinality(Stay) = Cardinality(D) - Cardinality(Gone)
  <2>1. IsFiniteSet(Gone) /\ IsFiniteSet(Stay)
    BY <1>2, <1>3, FS_Subset
  <2>2. Cardinality(Gone) \in Nat /\ Cardinality(Stay) \in Nat
    BY <2>1, FS_CardinalityType
  <2>3. D \cap Gone = Gone
    BY <1>3
  <2>4. Cardinality(Stay) = Cardinality(D) - Cardinality(D \cap Gone)
    BY <1>2, FS_Difference
  <2> QED BY <2>1, <2>2, <2>3, <2>4
<1>5. \A k \in Stay : \E l \in DOMAIN txn : txn[l].id = hist[k].id
  <2> SUFFICES ASSUME NEW k \in Stay PROVE \E l \in DOMAIN txn : txn[l].id = hist[k].id
    OBVIOUS
  <2>1. PICK l \in DOMAIN hist' : hist'[l].id = hist[k].id
    BY DEF Gone
  <2>2. hist[k].id \in Nat /\ hist[k].id <= made
    BY <1>1, EntryTyped DEF Ascending
  <2>3. CASE ~ forked
    BY <2>1, <2>3 DEF Installed
  <2>4. CASE forked
    <3> DEFINE x == Piece(made + 1, "alert")
    <3>1. hist' = Append(txn, x)
      BY <2>4 DEF Installed
    <3>2. x \in EntryType /\ x.id = made + 1
      BY <1>1 DEF Piece, EntryType, EntryForms
    <3> HIDE DEF x
    <3>3. (l \in DOMAIN txn /\ hist'[l] = txn[l]) \/ hist'[l] = x
      BY <1>1, <2>1, <3>1, <3>2
    <3>4. hist'[l] # x
      BY <1>1, <2>1, <2>2, <3>2
    <3> QED BY <2>1, <3>3, <3>4
  <2> QED BY <2>3, <2>4
<1>6. At \in [Stay -> DOMAIN txn] /\ \A k \in Stay : txn[At[k]].id = hist[k].id
  BY <1>5
<1>7. \A k, l \in Stay : At[k] = At[l] => k = l
  <2> SUFFICES ASSUME NEW k \in Stay, NEW l \in Stay, At[k] = At[l] PROVE k = l
    OBVIOUS
  <2>1. hist[k].id = hist[l].id
    BY <1>6
  <2>2. k \in DOMAIN hist /\ l \in DOMAIN hist /\ k \in Nat /\ l \in Nat /\ hist[k].id \in Nat
    BY <1>1, EntryTyped
  <2> QED BY <1>1, <2>1, <2>2 DEF Ascending
<1> HIDE DEF At, Stay
<1>8. At \in Injection(Stay, DOMAIN txn)
  BY <1>6, <1>7 DEF Injection, IsInjective
<1>9. Cardinality(Stay) <= Cardinality(DOMAIN txn)
  BY <1>2, <1>8, FS_Injection
<1> QED BY <1>2, <1>4, <1>9

\* What a step leaves of the frozen prefix
LEMMA FrozenKeptStep ==
  ASSUME FrozenInv, [Next]_vars, hist' # hist, ~active
  PROVE  FrozenStays
<1> DEFINE frozen == Monus(ImmutableCount(hist), Cardinality(Gone))
<1> SUFFICES IsPrefix(SubSeq(hist, 1, frozen), hist')
  BY DEF FrozenStays
<1>1. /\ hist \in Seq(EntryType) /\ txn \in Seq(EntryType) /\ made \in Nat
      /\ Len(hist) \in Nat /\ Len(txn) \in Nat /\ Window \in Nat
  BY SizesAssumption DEF FrozenInv
<1>2. ImmutableCount(hist) \in Nat /\ ImmutableCount(hist) <= Len(hist)
  BY <1>1, ImmutableTyped
<1>3. CASE \E f \in EntryForms : hist' = Append(hist, Piece(made + 1, f))
  <2>1. PICK f \in EntryForms : hist' = Append(hist, Piece(made + 1, f))
    BY <1>3
  <2> DEFINE x == Piece(made + 1, f)
  <2>2. x \in EntryType
    BY <1>1 DEF Piece, EntryType
  <2> HIDE DEF x
  <2>3. hist' \in Seq(EntryType) /\ Len(hist') = Len(hist) + 1 /\ \A k \in 1 .. Len(hist) : hist[k] = hist'[k]
    BY <1>1, <2>1, <2>2 DEF x
  <2>4. Gone = {}
    <3>1. \A k \in DOMAIN hist : k \in DOMAIN hist' /\ hist'[k] = hist[k]
      BY <1>1, <2>3
    <3> QED BY <3>1 DEF Gone
  <2>5. frozen = ImmutableCount(hist)
    BY <1>2, <2>4, FS_EmptySet DEF Monus
  <2>6. frozen \in Nat /\ frozen <= Len(hist) /\ frozen <= Len(hist')
    BY <1>1, <1>2, <2>3, <2>5
  <2>7. \A k \in 1 .. frozen : hist[k] = hist'[k]
    BY <1>1, <2>3, <2>6
  <2> QED BY <1>1, <2>3, <2>6, <2>7, SamePrefix
<1>4. CASE pc = "script" /\ \E forked \in BOOLEAN : Installed(forked)
  <2>1. PICK forked \in BOOLEAN : Installed(forked)
    BY <1>4
  <2>2. Cardinality(Gone) \in Nat /\ Len(hist) - Cardinality(Gone) <= Len(txn)
    BY <2>1, GoneCount
  <2>3. ImmutableCount(txn) \in Nat /\ ImmutableCount(txn) <= Len(txn)
    BY <1>1, ImmutableTyped
  <2>4. frozen \in Nat /\ frozen <= ImmutableCount(txn) /\ frozen <= Len(hist)
    BY <1>1, <1>2, <2>2, <2>3 DEF Monus, ImmutableCount
  <2>5. hist' \in Seq(EntryType) /\ Len(txn) <= Len(hist') /\ \A k \in 1 .. Len(txn) : hist'[k] = txn[k]
    <3>1. CASE ~ forked
      BY <1>1, <2>1, <3>1 DEF Installed
    <3>2. CASE forked
      <4> DEFINE x == Piece(made + 1, "alert")
      <4>1. x \in EntryType /\ hist' = Append(txn, x)
        BY <1>1, <2>1, <3>2 DEF Piece, EntryType, EntryForms, Installed
      <4> HIDE DEF x
      <4> QED BY <1>1, <4>1
    <3> QED BY <3>1, <3>2
  <2>6. \A k \in 1 .. ImmutableCount(txn) : txn[k] = hist[k]
    BY <1>4 DEF FrozenInv, Agrees
  <2> HIDE DEF frozen
  <2>7. \A k \in 1 .. frozen : hist[k] = hist'[k]
    BY <1>1, <2>3, <2>4, <2>5, <2>6
  <2>8. frozen <= Len(hist')
    <3>1. Len(hist') \in Nat
      BY <2>5
    <3> QED BY <1>1, <2>3, <2>4, <2>5, <3>1
  <2>9. IsPrefix(SubSeq(hist, 1, frozen), hist')
    BY <1>1, <2>4, <2>5, <2>7, <2>8, SamePrefix
  <2> QED BY <2>9 DEF frozen
<1>5. CASE AlertPushed \/ Record
  BY <1>3, <1>5 DEF AlertPushed, Record, EntryForms
<1>6. CASE Commit \/ CommitAndCompact
  BY <1>4, <1>6 DEF Commit, CommitAndCompact
<1>7. ~ (CompactDone \/ CompactRaises)
  BY DEF CompactDone, CompactRaises, FrozenInv
<1>8. ~ (PinnedChanges \/ FileChanges \/ HeadItemChanges \/ TriggerCompaction \/ RunTurn \/ Raise \/ UNCHANGED vars)
  BY DEF PinnedChanges, FileChanges, HeadItemChanges, TriggerCompaction, RunTurn, Raise, vars
<1>9. ~ Edit
  BY DEF Edit, HistoryRemove, HistoryAdd, ReplaceWithDescription
<1> QED BY <1>5, <1>6, <1>7, <1>8, <1>9 DEF Next

\* The entries that have aged out of the modification window change only while
\* a compaction is active, whatever edits the scripts of python.rs chain, for
\* every window, every configuration and any number of entries.
THEOREM FrozenKept == Spec => FrozenPrefixKept
<1>1. Init => FrozenInv
  BY FrozenInitially
<1>2. FrozenInv /\ [Next]_vars => FrozenInv'
  BY FrozenStep
<1>3. FrozenInv /\ [Next]_vars => [active \/ FrozenStays]_hist
  BY FrozenKeptStep
<1> QED BY <1>1, <1>2, <1>3, PTL DEF Spec, FrozenPrefixKept

-----------------------------------------------------------------------------
(***************************************************************************)
(* cache_splits.                                                           *)
(***************************************************************************)

LEMMA PowRecursion ==
  ASSUME NEW b \in Nat \ {0}, NEW e \in Nat
  PROVE  \E f : f \in [0 .. e -> Nat \ {0}] /\ f[0] = 1 /\ (\A k \in 1 .. e : f[k] = f[k - 1] * b) /\ Pow(b, e) = f[e]
<1> DEFINE S == Nat \ {0}
           step == [k \in 1 .. e |-> [x \in S |-> x * b]]
           P == CHOOSE P : P = [k \in 0 .. e |-> IF k = 0 THEN 1 ELSE P[k - 1] * b]
<1>1. \A x \in S : x * b \in S
  OBVIOUS
<1>2. Steps(step, e, S) /\ 1 \in S
  BY <1>1 DEF Steps
<1>3. PICK f : Recursive(f, 1, step, e, S)
  BY <1>2, RecursionExists
<1>4. f \in [0 .. e -> S] /\ f[0] = 1 /\ \A k \in 1 .. e : f[k] = f[k - 1] * b
  <2>1. f \in [0 .. e -> S] /\ f[0] = 1 /\ \A k \in 1 .. e : f[k] = step[k][f[k - 1]]
    BY <1>3 DEF Recursive
  <2>2. ASSUME NEW k \in 1 .. e PROVE f[k] = f[k - 1] * b
    <3>1. k - 1 \in 0 .. e
      OBVIOUS
    <3>2. f[k - 1] \in S
      BY <2>1, <3>1
    <3> QED BY <2>1, <3>2
  <2> QED BY <2>1, <2>2
<1> HIDE DEF step, S
<1>5. f = [k \in 0 .. e |-> IF k = 0 THEN 1 ELSE f[k - 1] * b]
  <2>1. \A k \in 0 .. e : k # 0 => k \in 1 .. e
    OBVIOUS
  <2> QED BY <1>4, <2>1
<1>6. P = [k \in 0 .. e |-> IF k = 0 THEN 1 ELSE P[k - 1] * b]
  BY <1>5
<1>7. Pow(b, e) = P[e]
  BY DEF Pow
<1> HIDE DEF P
<1>8. Alike(P, f, e)
  <2>1. \A k \in 1 .. e : k \in 0 .. e /\ k # 0
    OBVIOUS
  <2>2. \A k \in 1 .. e : P[k] = P[k - 1] * b
    BY <1>6, <2>1
  <2>3. P[0] = 1
    BY <1>6
  <2> QED BY <1>4, <2>2, <2>3 DEF Alike
<1>9. P[e] = f[e]
  BY <1>8, SameRecursion
<1> QED BY <1>4, <1>7, <1>9 DEF S

LEMMA PowNext ==
  ASSUME NEW b \in Nat \ {0}, NEW e \in Nat
  PROVE  /\ Pow(b, e) \in Nat \ {0} /\ Pow(b, e + 1) = Pow(b, e) * b
         /\ e = 0 => Pow(b, e + 1) = b
<1>1. PICK f : f \in [0 .. e -> Nat \ {0}] /\ f[0] = 1 /\ (\A k \in 1 .. e : f[k] = f[k - 1] * b) /\ Pow(b, e) = f[e]
  BY PowRecursion
<1>2. e + 1 \in Nat
  OBVIOUS
<1>3. PICK g : /\ g \in [0 .. e + 1 -> Nat \ {0}] /\ g[0] = 1
               /\ (\A k \in 1 .. e + 1 : g[k] = g[k - 1] * b) /\ Pow(b, e + 1) = g[e + 1]
  BY <1>2, PowRecursion
<1>4. Alike(f, g, e)
  <2>1. \A k \in 1 .. e : k \in 1 .. e + 1
    OBVIOUS
  <2> QED BY <1>1, <1>3, <2>1 DEF Alike
<1>5. f[e] = g[e]
  BY <1>4, SameRecursion
<1>6. g[e + 1] = g[e] * b
  <2>1. e + 1 \in 1 .. e + 1 /\ (e + 1) - 1 = e
    OBVIOUS
  <2> QED BY <1>3, <2>1
<1>7. f[e] \in Nat \ {0}
  BY <1>1
<1>8. e = 0 => f[e] * b = b
  BY <1>1
<1> QED BY <1>1, <1>3, <1>5, <1>6, <1>7, <1>8

\* Multiples of a divisor's multiple
LEMMA DivDown ==
  ASSUME NEW n \in Nat, NEW a \in Nat \ {0}
  PROVE  /\ n \div a \in Nat /\ (n \div a) * a \in Nat
         /\ (n \div a) * a <= n /\ n - (n \div a) * a <= a - 1
         /\ \A q \in Nat : q * a <= n => q <= n \div a
<1> DEFINE d == n \div a
<1>1. d \in Nat /\ d * a <= n /\ n < d * a + a
  OBVIOUS
<1> HIDE DEF d
<1>2. ASSUME NEW q \in Nat, q * a <= n PROVE q <= d
  <2> SUFFICES ASSUME q >= d + 1 PROVE FALSE
    BY <1>1
  <2>1. q * a >= (d + 1) * a
    BY <1>1
  <2>2. (d + 1) * a = d * a + a
    BY <1>1
  <2>3. q * a \in Nat /\ d * a \in Nat
    BY <1>1
  <2> QED BY <1>1, <1>2, <2>1, <2>2, <2>3
<1>3. d * a \in Nat
  BY <1>1
<1> QED BY <1>1, <1>2, <1>3 DEF d

LEMMA DivCoarser ==
  ASSUME NEW n \in Nat, NEW a \in Nat \ {0}, NEW b \in Nat \ {0}
  PROVE  (n \div (a * b)) * (a * b) <= (n \div a) * a
<1> DEFINE q == n \div (a * b)
           d == n \div a
<1>1. a * b \in Nat \ {0}
  OBVIOUS
<1>2. q \in Nat /\ q * (a * b) <= n
  BY <1>1, DivDown
<1>3. d \in Nat /\ \A k \in Nat : k * a <= n => k <= d
  BY DivDown
<1> HIDE DEF q, d
<1>4. q * b \in Nat /\ (q * b) * a = q * (a * b)
  BY <1>2
<1>5. q * b <= d
  BY <1>2, <1>3, <1>4
<1>6. (q * b) * a <= d * a
  BY <1>3, <1>4, <1>5
<1> QED BY <1>4, <1>6 DEF q, d

\* The splits ascend and stay outside the window.
Splits(sp, n) ==
  /\ sp \in Seq(Nat) /\ Len(sp) \in Nat \ {0}
  /\ \A i \in 1 .. Len(sp) : sp[i] \in Nat /\ sp[i] <= n
  /\ \A i \in 2 .. Len(sp) : sp[i - 1] <= sp[i]

LEMMA SplitsSound ==
  ASSUME NEW h \in Seq(EntryType), NEW s \in Nat, NEW t \in Nat, NEW sp, sp = CacheSplits(h, s, t)
  PROVE  /\ Splits(sp, ImmutableCount(h))
         /\ IF s = 0 \/ t = 0 THEN Len(sp) = 1
            ELSE Len(sp) = t /\ ImmutableCount(h) - sp[Len(sp)] <= s - 1
<1> DEFINE n == ImmutableCount(h)
<1>1. n \in Nat
  BY ImmutableTyped
<1> HIDE DEF n
<1>2. CASE s = 0 \/ t = 0
  <2>1. sp = <<n>>
    BY <1>2 DEF CacheSplits, n
  <2> QED BY <1>1, <1>2, <2>1 DEF Splits, n
<1>3. CASE s # 0 /\ t # 0
  <2>1. sp = [i \in 1 .. t |-> (n \div Pow(s, t - i + 1)) * Pow(s, t - i + 1)]
    BY <1>3 DEF CacheSplits, n
  <2>2. \A i \in 1 .. t : Pow(s, t - i + 1) \in Nat \ {0}
    <3> SUFFICES ASSUME NEW i \in 1 .. t PROVE Pow(s, t - i + 1) \in Nat \ {0}
      OBVIOUS
    <3>1. t - i + 1 \in Nat /\ s \in Nat \ {0}
      BY <1>3
    <3> QED BY <3>1, PowNext
  <2>3. \A i \in 1 .. t : sp[i] \in Nat /\ sp[i] <= n
    BY <1>1, <2>1, <2>2, DivDown
  <2>4. ASSUME NEW i \in 2 .. t PROVE sp[i - 1] <= sp[i]
    <3> DEFINE e == t - i + 1
               a == Pow(s, e)
    <3>1. e \in Nat /\ s \in Nat \ {0} /\ t - (i - 1) + 1 = e + 1 /\ i \in 1 .. t /\ i - 1 \in 1 .. t
      BY <1>3
    <3> HIDE DEF e
    <3>2. a \in Nat \ {0} /\ Pow(s, e + 1) = a * s
      BY <3>1, PowNext
    <3>3. sp[i] = (n \div a) * a
      BY <2>1, <3>1 DEF e
    <3>4. sp[i - 1] = (n \div (a * s)) * (a * s)
      BY <2>1, <3>1, <3>2
    <3> HIDE DEF a
    <3> QED BY <1>1, <3>1, <3>2, <3>3, <3>4, DivCoarser
  <2>5. sp \in Seq(Nat) /\ Len(sp) = t
    BY <2>1, <2>3
  <2>6. n - sp[t] <= s - 1
    <3>1. t \in 1 .. t /\ t - t + 1 = 0 + 1 /\ s \in Nat \ {0}
      BY <1>3
    <3>2. Pow(s, 0 + 1) = s
      BY <3>1, PowNext
    <3>3. sp[t] = (n \div s) * s
      BY <2>1, <3>1, <3>2
    <3> QED BY <1>1, <3>1, <3>3, DivDown
  <2> QED BY <1>3, <2>3, <2>4, <2>5, <2>6 DEF Splits, n
<1> QED BY <1>2, <1>3

-----------------------------------------------------------------------------
(***************************************************************************)
(* render_context.                                                         *)
(***************************************************************************)
PlainType == [id : Nat, form : Forms \ {"file"}, version : Nat]
Text == Seq(PlainType)
Pre == IF conf.attach = 0 THEN Header \o Open ELSE Open

LEMMA EntriesPlain == Seq(EntryType) \subseteq Text
<1>1. EntryType \subseteq PlainType
  BY DescriptionsAssumption DEF EntryType, PlainType, EntryForms, Forms
<1> QED BY <1>1 DEF Text

\* Where the elements of a concatenation are
LEMMA TextConcat ==
  ASSUME NEW x \in Text, NEW y \in Text
  PROVE  /\ x \o y \in Text /\ Len(x) \in Nat /\ Len(y) \in Nat /\ Len(x \o y) = Len(x) + Len(y)
         /\ \A k \in 1 .. Len(x) : (x \o y)[k] = x[k]
         /\ \A k \in 1 .. Len(y) : (x \o y)[Len(x) + k] = y[k]
BY DEF Text

LEMMA TextAssociative ==
  ASSUME NEW x \in Text, NEW y \in Text, NEW z \in Text
  PROVE  (x \o y) \o z = x \o (y \o z)
BY ConcatAssociative, SMTT(30) DEF Text

LEMMA HeadTyped ==
  ASSUME conf \in Configs
  PROVE  /\ Header \in Text /\ Open \in Text /\ Pre \in Text
         /\ Len(Header) = 1 /\ Len(Open) = 1
         /\ Header[1].form \notin EntryForms /\ Open[1].form \notin EntryForms
         /\ Pre = (IF conf.attach = 0 THEN Header \o Open ELSE Open)
         /\ conf.attach \in Nat /\ conf.stride \in Nat /\ conf.tiers \in Nat
<1>1. conf.header \in {"short", "long"} /\ conf.attach \in Nat /\ conf.stride \in Nat /\ conf.tiers \in Nat
  BY ConfigsAssumption
<1>2. Piece(0, conf.header) \in PlainType /\ Piece(0, conf.header).form \notin EntryForms
  BY <1>1, DescriptionsAssumption DEF Piece, PlainType, Forms, EntryForms
<1>3. Piece(0, "open") \in PlainType /\ Piece(0, "open").form \notin EntryForms
  BY DescriptionsAssumption DEF Piece, PlainType, Forms, EntryForms
<1>4. Header \in Text /\ Len(Header) = 1 /\ Header[1] = Piece(0, conf.header)
  BY <1>2 DEF Header, Text
<1>5. Open \in Text /\ Len(Open) = 1 /\ Open[1] = Piece(0, "open")
  BY <1>3 DEF Open, Text
<1>6. Pre \in Text
  <2>1. Header \o Open \in Text
    BY <1>4, <1>5 DEF Text
  <2> QED BY <1>5, <2>1 DEF Pre
<1> QED BY <1>1, <1>2, <1>3, <1>4, <1>5, <1>6 DEF Pre

\* The segments up to a split are the history up to it.
UpToSplits(f, segs, h, sp) ==
  Flattens(f, segs, PlainType) /\ \A k \in 1 .. Len(sp) : f[k] = Pre \o SubSeq(h, 1, sp[k])

LEMMA SegmentsText ==
  ASSUME NEW h \in Seq(EntryType), NEW sp, NEW n \in Nat, n <= Len(h), Splits(sp, n), conf \in Configs,
         NEW segs, segs = Segments(h, sp)
  PROVE  /\ segs \in Seq(Text) /\ Len(segs) = Len(sp)
         /\ \E f : UpToSplits(f, segs, h, sp)
<1> DEFINE m == Len(sp)
           Upto(k) == Pre \o SubSeq(h, 1, sp[k])
<1>1. /\ m \in Nat \ {0}
      /\ \A i \in 1 .. m : sp[i] \in Nat /\ sp[i] <= n
      /\ \A i \in 2 .. m : sp[i - 1] <= sp[i]
  BY DEF Splits
<1>2. DOMAIN sp = 1 .. m
  BY DEF Splits
<1>3. h \in Text /\ Pre \in Text /\ Len(h) \in Nat
  BY EntriesPlain, HeadTyped
<1>4. segs = [i \in 1 .. m |-> IF i = 1 THEN Pre \o SubSeq(h, 1, sp[1]) ELSE SubSeq(h, sp[i - 1] + 1, sp[i])]
  BY <1>2 DEF Segments, Pre
<1> HIDE DEF m
<1>5. \A a, b \in Nat : b <= n => SubSeq(h, a + 1, b) \in Text
  BY <1>3 DEF Text
<1>6. \A i \in 1 .. m : SubSeq(h, 1, sp[i]) \in Text
  <2> SUFFICES ASSUME NEW i \in 1 .. m PROVE SubSeq(h, 1, sp[i]) \in Text
    OBVIOUS
  <2>1. SubSeq(h, 0 + 1, sp[i]) \in Text
    BY <1>1, <1>5
  <2> QED BY <2>1
<1>7. segs \in Seq(Text) /\ Len(segs) = m
  <2>1. ASSUME NEW i \in 1 .. m PROVE segs[i] \in Text
    <3>1. CASE i = 1
      <4>1. segs[i] = Pre \o SubSeq(h, 1, sp[i])
        BY <1>4, <3>1
      <4> QED BY <1>3, <1>6, <4>1 DEF Text
    <3>2. CASE i # 1
      <4>1. i - 1 \in 1 .. m
        BY <1>1, <3>2
      <4> QED BY <1>1, <1>4, <1>5, <3>2, <4>1
    <3> QED BY <3>1, <3>2
  <2> HIDE DEF Upto
  <2> QED BY <1>1, <1>4, <2>1
<1>8. PICK f : Flattens(f, segs, PlainType)
  BY <1>7, FlattenRecursion DEF Text
<1>9. f[0] = <<>> /\ \A k \in 1 .. m : f[k] = f[k - 1] \o segs[k]
  BY <1>7, <1>8 DEF Flattens
<1> DEFINE g == [k \in 0 .. m |-> IF k = 0 THEN <<>> ELSE Upto(k)]
<1>10. Alike(f, g, m)
  <2>1. f[0] = g[0]
    BY <1>1, <1>9
  <2>2. ASSUME NEW k \in 1 .. m, f[k - 1] = g[k - 1] PROVE f[k] = g[k]
    <3>1. k \in 0 .. m /\ k # 0 /\ k - 1 \in 0 .. m
      BY <1>1
    <3>2. g[k] = Upto(k) /\ f[k] = g[k - 1] \o segs[k]
      BY <1>9, <2>2, <3>1
    <3>3. CASE k = 1
      <4>1. g[k - 1] = <<>> /\ segs[k] = Upto(k)
        BY <1>1, <1>4, <3>3
      <4>2. Upto(k) \in Text
        BY <1>3, <1>6 DEF Text
      <4> HIDE DEF Upto
      <4>3. <<>> \o Upto(k) = Upto(k)
        BY <4>2, ConcatEmptySeq DEF Text
      <4> QED BY <3>2, <4>1, <4>3
    <3>4. CASE k # 1
      <4> DEFINE a == SubSeq(h, 1, sp[k - 1])
                 b == SubSeq(h, sp[k - 1] + 1, sp[k])
      <4>1. k - 1 \in 1 .. m /\ k - 1 # 0 /\ k \in 2 .. m
        BY <1>1, <3>4
      <4>2. g[k - 1] = Pre \o a /\ segs[k] = b
        BY <1>4, <3>1, <3>4, <4>1
      <4>3. a \in Text /\ b \in Text
        BY <1>1, <1>5, <1>6, <4>1
      <4>4. a \o b = SubSeq(h, 1, sp[k])
        <5>1. 1 \in 1 .. Len(h) + 1 /\ sp[k - 1] \in 1 - 1 .. Len(h) /\ sp[k] \in sp[k - 1] .. Len(h)
          BY <1>1, <1>3, <4>1
        <5> QED BY <1>3, <5>1, ConcatAdjacentSubSeq DEF Text
      <4> HIDE DEF a, b
      <4>5. (Pre \o a) \o b = Pre \o (a \o b)
        <5>1. Pre \in Text
          BY <1>3
        <5> QED BY ONLY <4>3, <5>1, TextAssociative
      <4> QED BY <3>2, <4>2, <4>4, <4>5
    <3> QED BY <3>3, <3>4
  <2> HIDE DEF g, Upto
  <2> QED BY <2>1, <2>2 DEF Alike
<1>11. \A k \in 1 .. m : f[k] = Upto(k)
  <2>1. \A k \in 1 .. m : k \in 0 .. m /\ k # 0 /\ g[k] = Upto(k)
    BY <1>1, SMTT(30)
  <2>2. \A k \in 0 .. m : f[k] = g[k]
    <3> HIDE DEF g
    <3> QED BY <1>1, <1>10, SameRecursion
  <2> HIDE DEF g, Upto
  <2> QED BY <2>1, <2>2
<1> QED BY <1>7, <1>8, <1>11 DEF m, UpToSplits

\* The size of a text
Sizes(f, t) ==
  /\ f \in [0 .. Len(t) -> Nat]
  /\ f[0] = 0 /\ \A k \in 1 .. Len(t) : f[k] = f[k - 1] + Size[t[k].form]
  /\ SizeOf(t) = f[Len(t)]

LEMMA FormsSized ==
  ASSUME NEW t \in Text
  PROVE  \A k \in 1 .. Len(t) : t[k].form \in Forms \ {"file"} /\ Size[t[k].form] \in Nat
<1>1. \A k \in 1 .. Len(t) : t[k] \in PlainType
  BY DEF Text
<1>2. \A x \in PlainType : x.form \in Forms \ {"file"}
  BY DEF PlainType
<1>3. \A x \in Forms : Size[x] \in Nat
  BY SizesAssumption
<1> QED BY <1>1, <1>2, <1>3

LEMMA SizeRecursion ==
  ASSUME NEW t \in Text
  PROVE  \E f : Sizes(f, t)
<1> DEFINE n == Len(t)
           w == [k \in 1 .. n |-> Size[t[k].form]]
           step == [k \in 1 .. n |-> [x \in Nat |-> x + w[k]]]
           P == CHOOSE P : P = [k \in 0 .. n |-> IF k = 0 THEN 0 ELSE P[k - 1] + Size[t[k].form]]
<1>1. n \in Nat /\ \A k \in 1 .. n : w[k] \in Nat /\ w[k] = Size[t[k].form]
  BY FormsSized DEF Text
<1>2. SizeOf(t) = P[n]
  BY DEF SizeOf
<1> HIDE DEF n, w
<1>3. Steps(step, n, Nat)
  BY <1>1 DEF Steps
<1>4. PICK f : Recursive(f, 0, step, n, Nat)
  BY <1>1, <1>3, RecursionExists
<1>5. f \in [0 .. n -> Nat] /\ f[0] = 0 /\ \A k \in 1 .. n : f[k] = f[k - 1] + Size[t[k].form]
  <2>1. f \in [0 .. n -> Nat] /\ f[0] = 0 /\ \A k \in 1 .. n : f[k] = step[k][f[k - 1]]
    BY <1>4 DEF Recursive
  <2>2. ASSUME NEW k \in 1 .. n PROVE f[k] = f[k - 1] + Size[t[k].form]
    <3>1. k - 1 \in 0 .. n
      BY <1>1
    <3>2. f[k - 1] \in Nat
      BY <2>1, <3>1
    <3>3. f[k] = f[k - 1] + w[k]
      BY <2>1, <3>2
    <3> QED BY <1>1, <3>3
  <2> QED BY <2>1, <2>2
<1> HIDE DEF step
<1>6. f = [k \in 0 .. n |-> IF k = 0 THEN 0 ELSE f[k - 1] + Size[t[k].form]]
  <2>1. \A k \in 0 .. n : k # 0 => k \in 1 .. n
    BY <1>1
  <2> QED BY <1>5, <2>1
<1>7. P = [k \in 0 .. n |-> IF k = 0 THEN 0 ELSE P[k - 1] + Size[t[k].form]]
  BY <1>6
<1> HIDE DEF P
<1>8. Alike(P, f, n)
  <2>1. \A k \in 1 .. n : k \in 0 .. n /\ k # 0
    BY <1>1
  <2>2. \A k \in 1 .. n : P[k] = P[k - 1] + Size[t[k].form]
    BY <1>7, <2>1
  <2>3. P[0] = 0
    BY <1>1, <1>7
  <2> QED BY <1>5, <2>2, <2>3 DEF Alike
<1>9. P[n] = f[n]
  <2>1. n \in 0 .. n
    BY <1>1
  <2> QED BY <1>1, <1>8, <2>1, SameRecursion
<1> QED BY <1>2, <1>5, <1>9 DEF Sizes, n

LEMMA SizeTyped ==
  ASSUME NEW t \in Text
  PROVE  SizeOf(t) \in Nat
<1>1. PICK f : Sizes(f, t)
  BY SizeRecursion
<1>2. Len(t) \in 0 .. Len(t)
  BY DEF Text
<1> QED BY <1>1, <1>2 DEF Sizes

LEMMA SizeConcat ==
  ASSUME NEW s \in Text, NEW t \in Text
  PROVE  SizeOf(s \o t) = SizeOf(s) + SizeOf(t)
<1> DEFINE u == s \o t
           m == Len(s)
           n == Len(t)
<1>1. m \in Nat /\ n \in Nat /\ u \in Text /\ Len(u) = m + n
  BY DEF Text
<1>2. (\A k \in 1 .. m : u[k] = s[k]) /\ \A k \in 1 .. n : u[m + k] = t[k]
  BY <1>1 DEF Text
<1>3. PICK e : Sizes(e, s)
  BY SizeRecursion
<1>4. PICK f : Sizes(f, t)
  BY SizeRecursion
<1>5. PICK g : Sizes(g, u)
  BY <1>1, SizeRecursion
<1> HIDE DEF u
<1>6. Alike(g, e, m)
  <2>1. ASSUME NEW k \in 1 .. m, g[k - 1] = e[k - 1] PROVE g[k] = e[k]
    <3>1. k \in 1 .. Len(u)
      BY <1>1
    <3> QED BY <1>2, <1>3, <1>5, <2>1, <3>1 DEF Sizes
  <2>2. g[0] = e[0]
    BY <1>3, <1>5 DEF Sizes
  <2> QED BY <2>1, <2>2 DEF Alike
<1>7. g[m] = e[m]
  <2>1. m \in 0 .. m
    BY <1>1
  <2> QED BY <1>1, <1>6, <2>1, SameRecursion
<1> DEFINE d == [k \in 0 .. n |-> g[m + k]]
           b == [k \in 0 .. n |-> e[m] + f[k]]
<1>8. e[m] \in Nat /\ \A k \in 0 .. n : f[k] \in Nat
  <2>1. m \in 0 .. m
    BY <1>1
  <2> QED BY <1>3, <1>4, <2>1 DEF Sizes
<1>9. d[0] = b[0]
  <2>1. 0 \in 0 .. n /\ m + 0 = m
    BY <1>1
  <2>2. d[0] = g[m] /\ b[0] = e[m] + 0
    BY <1>4, <2>1 DEF Sizes
  <2> QED BY <1>7, <1>8, <2>2
<1>10. ASSUME NEW k \in 1 .. n, d[k - 1] = b[k - 1] PROVE d[k] = b[k]
  <2>1. k \in 0 .. n /\ k - 1 \in 0 .. n /\ m + k \in 1 .. m + n /\ (m + k) - 1 = m + (k - 1)
    BY <1>1
  <2> DEFINE z == Size[t[k].form]
  <2>2. z \in Nat
    BY FormsSized
  <2>3. g[m + k] = g[m + (k - 1)] + Size[u[m + k].form]
    BY <1>1, <1>5, <2>1 DEF Sizes
  <2>4. d[k] = d[k - 1] + z
    BY <1>2, <2>1, <2>3
  <2>5. f[k] = f[k - 1] + z
    BY <1>4 DEF Sizes
  <2>6. f[k - 1] \in Nat /\ f[k] \in Nat
    BY <1>8, <2>1
  <2>7. d[k - 1] = e[m] + f[k - 1] /\ b[k] = e[m] + f[k]
    BY <1>10, <2>1
  <2> HIDE DEF d, b, z
  <2> QED BY <1>8, <2>2, <2>4, <2>5, <2>6, <2>7
<1>11. d[n] = b[n] /\ d[n] = g[m + n] /\ b[n] = e[m] + f[n]
  <2>1. n \in 0 .. n
    BY <1>1
  <2>2. d[n] = g[m + n] /\ b[n] = e[m] + f[n]
    BY <2>1
  <2> HIDE DEF d, b
  <2>3. Alike(d, b, n)
    BY <1>9, <1>10 DEF Alike
  <2> QED BY <1>1, <2>1, <2>2, <2>3, SameRecursion
<1>12. SizeOf(u) = g[m + n] /\ SizeOf(s) = e[m] /\ SizeOf(t) = f[n]
  BY <1>1, <1>3, <1>4, <1>5 DEF Sizes
<1> QED BY <1>11, <1>12 DEF u

-----------------------------------------------------------------------------
(* The segments merged so far *)

MergeType == [out : Seq(Text), acc : Text, effective : Nat]

\* a merges k segments that together are t: what is not in a segment of its
\* own yet is pending, and too small to be one.
MergedTo(a, t, k, boost, c) ==
  /\ a \in MergeType /\ Len(a.out) <= k
  /\ FlattenSeq(a.out) \o a.acc = t
  /\ a.out # <<>> => Len(FlattenSeq(a.out)) >= c /\ a.effective = SizeOf(a.acc)
  /\ a.out = <<>> => a.effective = boost + SizeOf(a.acc)
  /\ k > 0 => a.effective < MinChars

LEMMA MergeTyped ==
  ASSUME NEW a \in MergeType, NEW seg \in Text
  PROVE  MergeSegment(a, seg) \in MergeType
<1>1. a.out \in Seq(Text) /\ a.acc \in Text /\ a.effective \in Nat /\ SizeOf(seg) \in Nat
  BY SizeTyped DEF MergeType
<1>2. a.acc \o seg \in Text /\ a.effective + SizeOf(seg) \in Nat /\ <<>> \in Text
  BY <1>1 DEF Text
<1>3. Append(a.out, a.acc \o seg) \in Seq(Text)
  BY <1>1, <1>2
<1> QED BY <1>1, <1>2, <1>3 DEF MergeSegment, MergeType

LEMMA MergeStep ==
  ASSUME NEW boost \in Nat, NEW c \in Nat, NEW k \in Nat \ {0}, NEW a, NEW t, MergedTo(a, t, k - 1, boost, c),
         NEW seg \in Text, Len(t \o seg) >= c
  PROVE  MergedTo(MergeSegment(a, seg), t \o seg, k, boost, c)
<1> DEFINE b == MergeSegment(a, seg)
           F == FlattenSeq(a.out)
           acc == a.acc \o seg
           effective == a.effective + SizeOf(seg)
<1>1. a \in MergeType /\ a.out \in Seq(Text) /\ a.acc \in Text /\ a.effective \in Nat /\ Len(a.out) \in Nat
  BY DEF MergedTo, MergeType
<1>2. b \in MergeType
  BY <1>1, MergeTyped
<1>3. F \in Text
  BY <1>1, FlattenTyped DEF Text
<1>4. acc \in Text /\ F \o acc = t \o seg
  <2>1. (F \o a.acc) \o seg = F \o (a.acc \o seg)
    <3> DEFINE q == a.acc
    <3>1. F \in Text /\ q \in Text /\ seg \in Text
      BY <1>1, <1>3
    <3> HIDE DEF F, q
    <3>2. (F \o q) \o seg = F \o (q \o seg)
      BY ONLY <3>1, TextAssociative
    <3> QED BY <3>2 DEF q
  <2>2. F \o a.acc = t
    BY DEF MergedTo
  <2>3. acc \in Text
    BY <1>1 DEF Text
  <2> HIDE DEF F
  <2> QED BY <2>1, <2>2, <2>3
<1>5. SizeOf(acc) = SizeOf(a.acc) + SizeOf(seg) /\ SizeOf(a.acc) \in Nat /\ SizeOf(seg) \in Nat
  BY <1>1, SizeConcat, SizeTyped
<1>6. CASE effective >= MinChars
  <2>1. b.out = Append(a.out, acc) /\ b.acc = <<>> /\ b.effective = 0
    BY <1>6 DEF MergeSegment
  <2>2. FlattenSeq(b.out) = t \o seg
    BY <1>1, <1>4, <2>1, FlattenAppend DEF Text
  <2>3. t \o seg \in Text
    <3>1. acc \in Text
      BY <1>4
    <3> HIDE DEF F, acc
    <3>2. F \o acc \in Text
      BY ONLY <1>3, <3>1 DEF Text
    <3> QED BY <1>4, <3>2
  <2>4. FlattenSeq(b.out) \o b.acc = t \o seg
    BY <2>1, <2>2, <2>3, ConcatEmptySeq DEF Text
  <2>5. b.out # <<>> /\ Len(b.out) <= k
    <3>1. Len(b.out) = Len(a.out) + 1
      BY <1>1, <1>4, <2>1
    <3>2. Len(a.out) <= k - 1
      BY DEF MergedTo
    <3>3. Len(b.out) # 0 /\ Len(b.out) <= k
      BY <1>1, <3>1, <3>2
    <3> QED BY <3>3
  <2>6. SizeOf(<<>>) = 0
    <3>1. <<>> \in Text /\ Len(<<>>) = 0
      BY DEF Text
    <3>2. PICK f : Sizes(f, <<>>)
      BY <3>1, SizeRecursion
    <3> QED BY <3>1, <3>2 DEF Sizes
  <2>7. b.effective < MinChars
    BY <2>1, SizesAssumption
  <2>8. Len(FlattenSeq(b.out)) >= c /\ b.effective = SizeOf(b.acc)
    BY <2>1, <2>2, <2>6
  <2> HIDE DEF b
  <2>9. MergedTo(b, t \o seg, k, boost, c)
    BY <1>2, <2>4, <2>5, <2>7, <2>8 DEF MergedTo
  <2> QED BY <2>9 DEF b
<1>7. CASE ~ (effective >= MinChars)
  <2>1. b.out = a.out /\ b.acc = acc /\ b.effective = effective
    BY <1>7 DEF MergeSegment
  <2>2. effective < MinChars
    <3>1. effective \in Nat /\ MinChars \in Nat
      BY <1>1, <1>5, SizesAssumption
    <3> QED BY <1>7, <3>1
  <2>3. Len(b.out) <= k
    <3>1. Len(a.out) <= k - 1
      BY DEF MergedTo
    <3> QED BY <1>1, <2>1, <3>1
  <2>4. a.out # <<>> => Len(F) >= c /\ effective = SizeOf(acc)
    <3>1. a.out # <<>> => Len(F) >= c /\ a.effective = SizeOf(a.acc)
      BY DEF MergedTo
    <3> QED BY <1>5, <3>1
  <2>5. a.out = <<>> => effective = boost + SizeOf(acc)
    <3>1. a.out = <<>> => a.effective = boost + SizeOf(a.acc)
      BY DEF MergedTo
    <3> HIDE DEF acc
    <3> QED BY <1>5, <3>1
  <2>6. FlattenSeq(b.out) = F
    BY <2>1
  <2> HIDE DEF b, acc, effective, F
  <2>7. MergedTo(b, t \o seg, k, boost, c)
    BY <1>2, <1>4, <2>1, <2>2, <2>3, <2>4, <2>5, <2>6 DEF MergedTo
  <2> QED BY <2>7 DEF b
<1> QED BY <1>6, <1>7

\* g merges one segment after the other.
Merging(g, segs, f, boost, c) ==
  /\ g[0] = [out |-> <<>>, acc |-> <<>>, effective |-> boost]
  /\ \A k \in 1 .. Len(segs) : g[k] = MergeSegment(g[k - 1], segs[k])
  /\ \A k \in 0 .. Len(segs) : MergedTo(g[k], f[k], k, boost, c)
  /\ MergedSegments(segs, boost) = g[Len(segs)]

LEMMA MergedEach ==
  ASSUME NEW segs \in Seq(Text), NEW f, Flattens(f, segs, PlainType), NEW boost \in Nat, NEW c \in Nat,
         \A k \in 1 .. Len(segs) : Len(f[k]) >= c
  PROVE  \E g : Merging(g, segs, f, boost, c)
<1> DEFINE n == Len(segs)
           b == [out |-> <<>>, acc |-> <<>>, effective |-> boost]
           step == [k \in 1 .. n |-> [x \in MergeType |-> MergeSegment(x, segs[k])]]
           P == CHOOSE P : P = [i \in 0 .. n |-> IF i = 0 THEN b ELSE MergeSegment(P[i - 1], segs[i])]
<1>1. n \in Nat /\ \A k \in 1 .. n : segs[k] \in Text
  OBVIOUS
<1>2. MergedSegments(segs, boost) = P[n]
  BY DEF MergedSegments
<1>3. /\ f \in [0 .. n -> Text] /\ f[0] = <<>> /\ \A k \in 1 .. n : f[k] = f[k - 1] \o segs[k]
      /\ FlattenSeq(segs) = f[n]
  BY DEF Flattens, Text
<1>4. b \in MergeType
  BY DEF MergeType, Text
<1> HIDE DEF n
<1>5. Steps(step, n, MergeType)
  BY <1>1, MergeTyped DEF Steps
<1>6. MergedTo(b, <<>>, 0, boost, c)
  <2>1. FlattenSeq(b.out) \o b.acc = <<>>
    BY FlattenEmpty
  <2>2. SizeOf(<<>>) = 0
    <3>1. <<>> \in Text /\ Len(<<>>) = 0
      BY DEF Text
    <3>2. PICK g : Sizes(g, <<>>)
      BY <3>1, SizeRecursion
    <3> QED BY <3>1, <3>2 DEF Sizes
  <2>3. b.out = <<>> /\ b.acc = <<>> /\ b.effective = boost /\ Len(b.out) = 0
    OBVIOUS
  <2> HIDE DEF b
  <2>4. b.effective = boost + SizeOf(b.acc)
    BY <2>2, <2>3
  <2> QED BY <1>4, <2>1, <2>3, <2>4 DEF MergedTo
<1> HIDE DEF b
<1>7. PICK g : Recursive(g, b, step, n, MergeType)
  BY <1>1, <1>4, <1>5, RecursionExists
<1>8. g \in [0 .. n -> MergeType] /\ g[0] = b /\ \A k \in 1 .. n : g[k] = MergeSegment(g[k - 1], segs[k])
  <2>1. g \in [0 .. n -> MergeType] /\ g[0] = b /\ \A k \in 1 .. n : g[k] = step[k][g[k - 1]]
    BY <1>7 DEF Recursive
  <2>2. ASSUME NEW k \in 1 .. n PROVE g[k] = MergeSegment(g[k - 1], segs[k])
    <3>1. k - 1 \in 0 .. n
      BY <1>1
    <3>2. g[k - 1] \in MergeType
      BY <2>1, <3>1
    <3> QED BY <2>1, <3>2
  <2> QED BY <2>1, <2>2
<1> HIDE DEF step
<1>9. P = [i \in 0 .. n |-> IF i = 0 THEN b ELSE MergeSegment(P[i - 1], segs[i])]
  <2>1. \A k \in 0 .. n : k # 0 => k \in 1 .. n
    BY <1>1
  <2>2. g = [i \in 0 .. n |-> IF i = 0 THEN b ELSE MergeSegment(g[i - 1], segs[i])]
    BY <1>8, <2>1
  <2> QED BY <2>2
<1> HIDE DEF P
<1>10. P[n] = g[n]
  <2>1. \A k \in 1 .. n : k \in 0 .. n /\ k # 0
    BY <1>1
  <2>2. \A k \in 1 .. n : P[k] = MergeSegment(P[k - 1], segs[k])
    BY <1>9, <2>1
  <2>3. P[0] = b
    BY <1>1, <1>9
  <2>4. Alike(P, g, n)
    BY <1>8, <2>2, <2>3 DEF Alike
  <2>5. n \in 0 .. n
    BY <1>1
  <2> QED BY <1>1, <2>4, <2>5, SameRecursion
<1> DEFINE M == {k \in Nat : k <= n => MergedTo(g[k], f[k], k, boost, c)}
<1>11. 0 \in M
  BY <1>3, <1>6, <1>8
<1>12. ASSUME NEW m \in Nat, m \in M PROVE m + 1 \in M
  <2> SUFFICES ASSUME m + 1 <= n PROVE MergedTo(g[m + 1], f[m + 1], m + 1, boost, c)
    OBVIOUS
  <2> DEFINE k == m + 1
  <2>1. k \in 1 .. n /\ k \in Nat \ {0} /\ k - 1 = m /\ m <= n
    BY <1>1
  <2>2. MergedTo(g[m], f[m], m, boost, c)
    BY <1>12, <2>1
  <2>3. g[k] = MergeSegment(g[m], segs[k]) /\ f[k] = f[m] \o segs[k] /\ segs[k] \in Text
    BY <1>1, <1>3, <1>8, <2>1
  <2>4. Len(f[m] \o segs[k]) >= c
    BY <2>1, <2>3 DEF n
  <2> HIDE DEF k
  <2>5. MergedTo(MergeSegment(g[m], segs[k]), f[m] \o segs[k], k, boost, c)
    BY <2>1, <2>2, <2>3, <2>4, MergeStep
  <2> QED BY <2>3, <2>5 DEF k
<1> HIDE DEF M
<1>13. Nat \subseteq M
  BY <1>11, <1>12, SetInduction
<1>14. \A k \in 0 .. n : MergedTo(g[k], f[k], k, boost, c)
  BY <1>1, <1>13 DEF M
<1>15. Merging(g, segs, f, boost, c)
  BY <1>2, <1>8, <1>10, <1>14 DEF Merging, n, b
<1> QED BY <1>15

LEMMA MergedAll ==
  ASSUME NEW segs \in Seq(Text), NEW f, Flattens(f, segs, PlainType), NEW boost \in Nat, NEW c \in Nat,
         \A k \in 1 .. Len(segs) : Len(f[k]) >= c
  PROVE  MergedTo(MergedSegments(segs, boost), FlattenSeq(segs), Len(segs), boost, c)
<1>1. PICK g : Merging(g, segs, f, boost, c)
  BY MergedEach
<1>2. FlattenSeq(segs) = f[Len(segs)] /\ Len(segs) \in 0 .. Len(segs)
  BY DEF Flattens
<1> QED BY <1>1, <1>2 DEF Merging

-----------------------------------------------------------------------------
(***************************************************************************)
(* build_request.  A block is a text or a file.                            *)
(***************************************************************************)
TextBlock == [text : Text, cc : BOOLEAN]
FileBlock == [text : {<<x>> : x \in [id : Nat, form : {"file"}, version : Nat]}, cc : BOOLEAN]

SaidBy(block) == IF IsFile(block) THEN <<>> ELSE block.text
Said(bs) == [j \in 1 .. Len(bs) |-> SaidBy(bs[j])]

LEMMA SaidBlock ==
  /\ \A b \in FileBlock : SaidBy(b) = <<>>
  /\ \A b \in TextBlock : SaidBy(b) = b.text
  /\ \A b \in TextBlock \cup FileBlock : SaidBy(b) \in Text
<1>1. ASSUME NEW b \in FileBlock PROVE SaidBy(b) = <<>>
  <2>1. PICK x \in [id : Nat, form : {"file"}, version : Nat] : b.text = <<x>>
    BY DEF FileBlock
  <2>2. x.form = "file" /\ b.text # <<>> /\ b.text[1] = x
    BY <2>1
  <2> QED BY <2>2 DEF SaidBy, IsFile
<1>2. ASSUME NEW b \in TextBlock PROVE SaidBy(b) = b.text
  <2>1. b.text \in Text
    BY DEF TextBlock
  <2>2. b.text # <<>> => b.text[1].form # "file"
    <3> SUFFICES ASSUME b.text # <<>> PROVE b.text[1].form # "file"
      OBVIOUS
    <3>1. 1 \in 1 .. Len(b.text)
      BY <2>1 DEF Text
    <3>2. b.text[1].form \in Forms \ {"file"}
      BY <2>1, <3>1, FormsSized
    <3> QED BY <3>2
  <2> QED BY <2>2 DEF SaidBy, IsFile
<1>3. \A b \in TextBlock : b.text \in Text
  BY DEF TextBlock
<1>4. <<>> \in Text
  BY DEF Text
<1> QED BY <1>1, <1>2, <1>3, <1>4

LEMMA SaidConcat ==
  ASSUME NEW x \in Seq(TextBlock \cup FileBlock), NEW y \in Seq(TextBlock \cup FileBlock)
  PROVE  /\ Said(x) \in Seq(Text) /\ Said(y) \in Seq(Text)
         /\ Said(x \o y) = Said(x) \o Said(y)
         /\ FlattenSeq(Said(x \o y)) = FlattenSeq(Said(x)) \o FlattenSeq(Said(y))
<1> DEFINE B == TextBlock \cup FileBlock
<1>1. \A b \in B : SaidBy(b) \in Text
  BY SaidBlock
<1> HIDE DEF B
<1>2. ASSUME NEW z \in Seq(B) PROVE Said(z) \in Seq(Text) /\ Len(Said(z)) = Len(z) /\ Len(z) \in Nat
                                    /\ \A k \in 1 .. Len(z) : Said(z)[k] = SaidBy(z[k])
  <2>1. Len(z) \in Nat /\ \A k \in 1 .. Len(z) : z[k] \in B
    OBVIOUS
  <2>2. \A k \in 1 .. Len(z) : SaidBy(z[k]) \in Text
    BY <1>1, <2>1
  <2> QED BY <2>1, <2>2 DEF Said
<1>3. x \in Seq(B) /\ y \in Seq(B)
  BY DEF B
<1>4. x \o y \in Seq(B) /\ Len(x \o y) = Len(x) + Len(y)
  BY <1>3
<1> DEFINE u == Said(x)
           v == Said(y)
           w == Said(x \o y)
<1>5. u \in Seq(Text) /\ v \in Seq(Text) /\ w \in Seq(Text) /\ Len(u) = Len(x) /\ Len(v) = Len(y)
      /\ Len(w) = Len(x) + Len(y) /\ Len(x) \in Nat /\ Len(y) \in Nat
  BY <1>2, <1>3, <1>4
<1>6. ASSUME NEW k \in 1 .. Len(x) + Len(y) PROVE w[k] = (u \o v)[k]
  <2>1. w[k] = SaidBy((x \o y)[k])
    BY <1>2, <1>4
  <2>2. CASE k <= Len(x)
    <3>1. k \in 1 .. Len(x)
      BY <2>2, <1>5
    <3>2. (x \o y)[k] = x[k]
      BY <1>3, <3>1
    <3>3. u[k] = SaidBy(x[k])
      BY <1>2, <1>3, <3>1
    <3> HIDE DEF u, v, w
    <3>4. (u \o v)[k] = u[k]
      BY <1>5, <3>1
    <3> QED BY <2>1, <3>2, <3>3, <3>4
  <2>3. CASE ~ (k <= Len(x))
    <3> DEFINE l == k - Len(x)
    <3>1. l \in 1 .. Len(y)
      BY <2>3, <1>5
    <3>2. (x \o y)[k] = y[l]
      BY <1>3, <1>5, <2>3
    <3>3. v[l] = SaidBy(y[l])
      BY <1>2, <1>3, <3>1
    <3> HIDE DEF u, v, w
    <3>4. (u \o v)[k] = v[l]
      BY <1>5, <2>3
    <3> QED BY <2>1, <3>2, <3>3, <3>4
  <2> QED BY <2>2, <2>3
<1>7. w = u \o v
  <2> HIDE DEF u, v, w
  <2> DEFINE z == u \o v
  <2>1. z \in Seq(Text) /\ Len(z) = Len(x) + Len(y)
    <3>1. z \in Seq(Text) /\ Len(z) = Len(u) + Len(v)
      BY <1>5, ConcatProperties
    <3> QED BY <1>5, <3>1
  <2>2. \A k \in 1 .. Len(x) + Len(y) : w[k] = z[k]
    BY <1>6
  <2> HIDE DEF z
  <2>3. w = z
    BY <1>5, <2>1, <2>2
  <2> QED BY <2>3 DEF z
<1>8. FlattenSeq(u \o v) = FlattenSeq(u) \o FlattenSeq(v)
  <2> HIDE DEF u, v
  <2> QED BY <1>5, FlattenConcat DEF Text
<1> QED BY <1>5, <1>7, <1>8

LEMMA FunctionSeq ==
  ASSUME NEW S, NEW n \in Nat, NEW e \in [1 .. n -> S]
  PROVE  e \in Seq(S) /\ Len(e) = n
OBVIOUS

LEMMA SaidFiles ==
  ASSUME NEW bs \in Seq(FileBlock)
  PROVE  FlattenSeq(Said(bs)) = <<>>
<1>1. Len(bs) \in Nat /\ \A k \in 1 .. Len(bs) : bs[k] \in FileBlock
  OBVIOUS
<1>2. \A k \in 1 .. Len(bs) : SaidBy(bs[k]) = <<>>
  BY <1>1, SaidBlock
<1>3. <<>> \in Seq(PlainType)
  OBVIOUS
<1>4. Said(bs) \in [1 .. Len(bs) -> Seq(PlainType)] /\ \A k \in 1 .. Len(bs) : Said(bs)[k] = <<>>
  BY <1>2, <1>3 DEF Said
<1>5. Said(bs) \in Seq(Seq(PlainType)) /\ Len(Said(bs)) = Len(bs)
  BY <1>1, <1>4, FunctionSeq
<1> QED BY <1>4, <1>5, FlattenNothing

LEMMA SaidTexts ==
  ASSUME NEW bs \in Seq(TextBlock), NEW ss \in Seq(Text), Len(bs) = Len(ss),
         \A k \in 1 .. Len(ss) : bs[k].text = ss[k]
  PROVE  Said(bs) = ss
<1>1. Len(bs) \in Nat /\ \A k \in 1 .. Len(bs) : bs[k] \in TextBlock
  OBVIOUS
<1>2. \A k \in 1 .. Len(bs) : SaidBy(bs[k]) = ss[k]
  BY <1>1, SaidBlock
<1>3. Said(bs) = [k \in 1 .. Len(ss) |-> ss[k]]
  BY <1>2 DEF Said
<1> QED BY <1>3

LEMMA SaidOne ==
  ASSUME NEW b \in TextBlock
  PROVE  /\ <<b>> \in Seq(TextBlock) /\ Len(<<b>>) = 1 /\ <<b>>[1] = b
         /\ FlattenSeq(Said(<<b>>)) = b.text
<1> DEFINE bs == <<b>>
           t == b.text
           ss == <<t>>
<1>1. bs \in Seq(TextBlock) /\ Len(bs) = 1 /\ bs[1] = b
  OBVIOUS
<1>2. t \in Text /\ bs[1].text = t
  BY DEF TextBlock
<1> HIDE DEF t, bs
<1>3. ss \in Seq(Text) /\ Len(ss) = 1 /\ ss[1] = t
  BY <1>2
<1> HIDE DEF ss
<1>4. \A k \in 1 .. Len(ss) : bs[k].text = ss[k]
  BY <1>2, <1>3
<1>5. Said(bs) = ss
  BY <1>1, <1>3, <1>4, SaidTexts
<1>6. FlattenSeq(<<t>>) = t
  BY <1>2, FlattenOne DEF Text
<1> QED BY <1>1, <1>5, <1>6 DEF ss, bs, t

LEMMA SaidUpTo ==
  ASSUME NEW r, NEW bs \in Seq(TextBlock \cup FileBlock), r.blocks = bs, NEW k \in 0 .. Len(bs),
         NEW x, x = SubSeq(bs, 1, k)
  PROVE  TextUpTo(r, k) = FlattenSeq(Said(x))
<1> DEFINE B == TextBlock \cup FileBlock
<1>1. bs \in Seq(B) /\ Len(bs) \in Nat
  OBVIOUS
<1> HIDE DEF B
<1>2. x \in Seq(B) /\ Len(x) = k /\ \A j \in 1 .. k : x[j] = bs[j]
  BY <1>1
<1>3. Said(x) = [j \in 1 .. k |-> SaidBy(bs[j])]
  BY <1>2 DEF Said
<1>4. TextUpTo(r, k) = FlattenSeq([j \in 1 .. k |-> SaidBy(bs[j])])
  BY DEF TextUpTo, SaidBy
<1> QED BY <1>3, <1>4

\* The parts of a request: what each breakpoint covers, and the whole
Shape(r, a, pre, out, text) ==
  /\ TextUpTo(r, Len(r.blocks)) = text
  /\ \A k \in Breakpoints(r) :
       /\ k \in a .. a + Len(out) /\ (pre = <<>> => k # a)
       /\ TextUpTo(r, k) = pre \o FlattenSeq(SubSeq(out, 1, k - a))
  /\ \A k \in a + 1 .. a + Len(out) : k \in Breakpoints(r)

\* The blocks up to the last cached segment: a text before n files, then the segments.
HeadLen(pre, n) == (IF pre = <<>> THEN 0 ELSE 1) + n
HeadBlock(k, pre, n, v) ==
  IF k = 1 THEN Block(pre, FALSE)
  ELSE Block(<<[id |-> k - 1, form |-> "file", version |-> v]>>, k - 1 = n)
Blocks(r, pre, out, n, v) ==
  /\ r.blocks \in Seq(TextBlock \cup FileBlock) /\ Len(r.blocks) >= HeadLen(pre, n) + Len(out)
  /\ \A k \in 1 .. HeadLen(pre, n) : r.blocks[k] = HeadBlock(k, pre, n, v)
  /\ \A k \in 1 .. Len(out) : r.blocks[HeadLen(pre, n) + k] = Block(out[k], TRUE)

\* build_request on a rendered context
LEMMA BuiltShape ==
  ASSUME NEW R, NEW pre \in Text, NEW out \in Seq(Text), NEW rest \in Text,
         NEW n \in Nat, NEW m \in Nat, conf \in Configs, files \in Nat,
         R.prefixText = pre, (pre = <<>>) <=> (n = 0), R.prefixAttachments = n, R.cachedSegments = out,
         R.attachments = m, UncachedTail(R) = rest,
         NEW r, r = BuildRequest(R), NEW text, text = pre \o (FlattenSeq(out) \o rest)
  PROVE  Shape(r, HeadLen(pre, n), pre, out, text) /\ Blocks(r, pre, out, n, files)
<1> DEFINE B == TextBlock \cup FileBlock
           A == IF pre = <<>> THEN <<>> ELSE <<Block(pre, FALSE)>>
           F == [i \in 1 .. n |-> Attachment(i, i = n)]
           C == [i \in DOMAIN out |-> Block(out[i], TRUE)]
           D == <<Block(rest, FALSE)>>
           E == [i \in 1 .. m |-> Attachment(conf.attach + i, FALSE)]
           H == A \o F
           bs == ((H \o C) \o D) \o E
           a == Len(A) + n
           o == Len(out)
<1>1. r.blocks = bs
  BY DEF BuildRequest
<1>2. \A t \in Text, cc \in BOOLEAN : Block(t, cc) \in TextBlock /\ Block(t, cc).text = t /\ Block(t, cc).cc = cc
  BY DEF Block, TextBlock
<1>3. \A i \in Nat, cc \in BOOLEAN : Attachment(i, cc) \in FileBlock /\ Attachment(i, cc).cc = cc
  <2> SUFFICES ASSUME NEW i \in Nat, NEW cc \in BOOLEAN PROVE Attachment(i, cc) \in FileBlock /\ Attachment(i, cc).cc = cc
    OBVIOUS
  <2> DEFINE x == [id |-> i, form |-> "file", version |-> files]
  <2>1. x \in [id : Nat, form : {"file"}, version : Nat]
    OBVIOUS
  <2>2. Attachment(i, cc) = [text |-> <<x>>, cc |-> cc]
    BY DEF Attachment, Block
  <2> HIDE DEF x
  <2> QED BY <2>1, <2>2 DEF FileBlock
<1>4. conf.attach \in Nat /\ o \in Nat /\ DOMAIN out = 1 .. o /\ \A i \in 1 .. o : out[i] \in Text
  BY HeadTyped
<1>5. A \in Seq(TextBlock) /\ Len(A) \in Nat /\ (\A k \in 1 .. Len(A) : A[k].cc = FALSE)
      /\ FlattenSeq(Said(A)) = pre
  <2>1. CASE pre = <<>>
    <3>1. A = <<>> /\ Said(A) = <<>>
      BY <2>1 DEF Said
    <3> QED BY <2>1, <3>1, FlattenEmpty
  <2>2. CASE pre # <<>>
    <3>1. A = <<Block(pre, FALSE)>>
      BY <2>2
    <3>2. Block(pre, FALSE) \in TextBlock /\ Block(pre, FALSE).text = pre /\ Block(pre, FALSE).cc = FALSE
      BY <1>2
    <3> DEFINE d == Block(pre, FALSE)
    <3> HIDE DEF d
    <3>3. <<d>> \in Seq(TextBlock) /\ Len(<<d>>) = 1 /\ <<d>>[1] = d /\ FlattenSeq(Said(<<d>>)) = d.text
      BY <3>2, SaidOne DEF d
    <3>4. A = <<d>> /\ d.text = pre /\ d.cc = FALSE
      BY <3>1, <3>2 DEF d
    <3> HIDE DEF A
    <3> QED BY <3>3, <3>4
  <2> QED BY <2>1, <2>2
<1>6. F \in Seq(FileBlock) /\ Len(F) = n /\ \A k \in 1 .. n : F[k].cc <=> k = n
  <2>1. \A i \in 1 .. n : (i = n) \in BOOLEAN /\ i \in Nat
    OBVIOUS
  <2>2. \A i \in 1 .. n : Attachment(i, i = n) \in FileBlock /\ Attachment(i, i = n).cc = (i = n)
    BY <1>3, <2>1
  <2>3. F \in [1 .. n -> FileBlock] /\ \A k \in 1 .. n : F[k].cc <=> k = n
    BY <2>2
  <2> HIDE DEF F
  <2> QED BY <2>3, FunctionSeq
<1>7. C \in Seq(TextBlock) /\ Len(C) = o /\ \A k \in 1 .. o : C[k].cc = TRUE /\ C[k].text = out[k]
  <2>1. \A i \in 1 .. o : Block(out[i], TRUE) \in TextBlock /\ Block(out[i], TRUE).text = out[i] /\ Block(out[i], TRUE).cc = TRUE
    BY <1>2, <1>4
  <2>2. C = [i \in 1 .. o |-> Block(out[i], TRUE)]
    BY <1>4
  <2> HIDE DEF C, o
  <2>3. C \in [1 .. o -> TextBlock] /\ \A k \in 1 .. o : C[k].cc = TRUE /\ C[k].text = out[k]
    BY <2>1, <2>2
  <2>4. o \in Nat
    BY <1>4
  <2>5. C \in Seq(TextBlock) /\ Len(C) = o
    BY ONLY <2>3, <2>4, FunctionSeq
  <2> QED BY <2>3, <2>5
<1>8. D \in Seq(TextBlock) /\ Len(D) = 1 /\ D[1].cc = FALSE /\ FlattenSeq(Said(D)) = rest
  <2> DEFINE d == Block(rest, FALSE)
  <2>1. d \in TextBlock /\ d.text = rest /\ d.cc = FALSE
    BY <1>2
  <2> HIDE DEF d
  <2>2. D = <<d>>
    BY DEF d
  <2> HIDE DEF D
  <2> QED BY <2>1, <2>2, SaidOne
<1>9. E \in Seq(FileBlock) /\ Len(E) = m /\ \A k \in 1 .. m : E[k].cc = FALSE
  <2>1. \A i \in 1 .. m : conf.attach + i \in Nat
    BY <1>4
  <2>2. \A i \in 1 .. m : Attachment(conf.attach + i, FALSE) \in FileBlock /\ Attachment(conf.attach + i, FALSE).cc = FALSE
    BY <1>3, <2>1
  <2>3. E \in [1 .. m -> FileBlock] /\ \A k \in 1 .. m : E[k].cc = FALSE
    BY <2>2
  <2> HIDE DEF E
  <2> QED BY <2>3, FunctionSeq
<1>a. Len(A) = (IF pre = <<>> THEN 0 ELSE 1) /\ (pre # <<>> => A[1] = Block(pre, FALSE))
  OBVIOUS
<1>b. \A k \in 1 .. n : F[k] = Block(<<[id |-> k, form |-> "file", version |-> files]>>, k = n)
  BY DEF Attachment
<1>c. \A k \in 1 .. o : C[k] = Block(out[k], TRUE)
  BY <1>4
<1> HIDE DEF A, F, C, D, E
<1>10. FlattenSeq(Said(F)) = <<>> /\ FlattenSeq(Said(E)) = <<>>
  BY <1>6, <1>9, SaidFiles
<1>11. Said(C) = out
  BY <1>4, <1>7, SaidTexts
<1>12. A \in Seq(B) /\ F \in Seq(B) /\ C \in Seq(B) /\ D \in Seq(B) /\ E \in Seq(B)
  <2>1. Seq(TextBlock) \subseteq Seq(B) /\ Seq(FileBlock) \subseteq Seq(B)
    OBVIOUS
  <2> QED BY <1>5, <1>6, <1>7, <1>8, <1>9, <2>1
<1>13. ASSUME NEW x \in Seq(B), NEW y \in Seq(B)
       PROVE  /\ x \o y \in Seq(B) /\ Len(x \o y) = Len(x) + Len(y)
              /\ FlattenSeq(Said(x \o y)) = FlattenSeq(Said(x)) \o FlattenSeq(Said(y))
              /\ FlattenSeq(Said(x)) \in Text
  <2>1. Said(x) \in Seq(Text) /\ FlattenSeq(Said(x \o y)) = FlattenSeq(Said(x)) \o FlattenSeq(Said(y))
    BY SaidConcat
  <2>2. FlattenSeq(Said(x)) \in Text
    BY <2>1, FlattenTyped DEF Text
  <2> HIDE DEF B
  <2>3. x \o y \in Seq(B) /\ Len(x \o y) = Len(x) + Len(y)
    OBVIOUS
  <2> QED BY <2>1, <2>2, <2>3
<1>14. H \in Seq(B) /\ Len(H) = a /\ a \in Nat /\ FlattenSeq(Said(H)) = pre
  <2>1. H \in Seq(B) /\ Len(H) = Len(A) + Len(F) /\ FlattenSeq(Said(H)) = FlattenSeq(Said(A)) \o FlattenSeq(Said(F))
    BY <1>12, <1>13
  <2>2. pre \o <<>> = pre
    BY ConcatEmptySeq DEF Text
  <2> QED BY <1>5, <1>6, <1>10, <2>1, <2>2
<1> HIDE DEF H
<1>15. H \o C \in Seq(B) /\ Len(H \o C) = a + o /\ FlattenSeq(Said(H \o C)) = pre \o FlattenSeq(out)
  <2>1. H \o C \in Seq(B) /\ Len(H \o C) = Len(H) + Len(C) /\ FlattenSeq(Said(H \o C)) = FlattenSeq(Said(H)) \o FlattenSeq(Said(C))
    BY <1>12, <1>13, <1>14
  <2> QED BY <1>7, <1>11, <1>14, <2>1
<1>16. bs \in Seq(B) /\ Len(bs) = a + o + 1 + m /\ FlattenSeq(Said(bs)) = text
  <2> DEFINE G == H \o C
             I == G \o D
             q == FlattenSeq(out)
  <2>1. q \in Text
    BY FlattenTyped DEF Text
  <2>2. G \in Seq(B) /\ Len(G) = a + o /\ FlattenSeq(Said(G)) = pre \o q
    BY <1>15
  <2> HIDE DEF G, q
  <2>3. I \in Seq(B) /\ Len(I) = Len(G) + Len(D) /\ FlattenSeq(Said(I)) = FlattenSeq(Said(G)) \o FlattenSeq(Said(D))
    BY <1>12, <1>13, <2>2
  <2> HIDE DEF I
  <2>4. I \o E \in Seq(B) /\ Len(I \o E) = Len(I) + Len(E) /\ FlattenSeq(Said(I \o E)) = FlattenSeq(Said(I)) \o FlattenSeq(Said(E))
        /\ FlattenSeq(Said(I)) \in Text
    BY <1>12, <1>13, <2>3
  <2>5. FlattenSeq(Said(I)) = text
    <3>1. (pre \o q) \o rest = pre \o (q \o rest)
      <4>1. pre \in Text /\ q \in Text /\ rest \in Text
        BY <2>1
      <4> QED BY ONLY <4>1, TextAssociative
    <3> QED BY <1>8, <2>2, <2>3, <3>1 DEF q
  <2>6. text \o <<>> = text
    <3>1. text \in Seq(PlainType)
      BY <2>4, <2>5 DEF Text
    <3> QED BY <3>1, ConcatEmptySeq
  <2>7. Len(I \o E) = a + o + 1 + m
    BY <1>4, <1>8, <1>9, <1>14, <2>2, <2>3, <2>4
  <2>8. bs = I \o E
    BY DEF G, I
  <2> HIDE DEF bs
  <2> QED BY <1>10, <2>4, <2>5, <2>6, <2>7, <2>8
<1>17. /\ \A k \in 1 .. a : bs[k] = H[k]
       /\ \A k \in 1 .. o : bs[a + k] = C[k]
       /\ bs[a + o + 1] = D[1]
       /\ \A k \in 1 .. m : bs[a + o + 1 + k] = E[k]
       /\ \A k \in 1 .. Len(A) : H[k] = A[k]
       /\ \A k \in 1 .. n : H[Len(A) + k] = F[k]
  <2> DEFINE G == H \o C
             I == G \o D
  <2>1. o \in Nat /\ Len(A) \in Nat /\ a \in Nat
    BY <1>4, <1>5, <1>14
  <2>2. \A x, y \in Seq(B) : /\ \A k \in 1 .. Len(x) : (x \o y)[k] = x[k]
                             /\ \A k \in 1 .. Len(y) : (x \o y)[Len(x) + k] = y[k]
    <3> HIDE DEF B
    <3> QED OBVIOUS
  <2>3. G \in Seq(B) /\ Len(G) = a + o /\ I \in Seq(B) /\ Len(I) = a + o + 1
    <3>1. G \in Seq(B) /\ Len(G) = a + o
      BY <1>15
    <3> HIDE DEF G
    <3>2. I \in Seq(B) /\ Len(I) = Len(G) + Len(D)
      BY <1>12, <1>13, <3>1
    <3> QED BY <1>8, <3>1, <3>2
  <2>4. \A k \in 1 .. a + o + 1 : bs[k] = I[k]
    BY <1>12, <2>2, <2>3
  <2>5. \A k \in 1 .. m : bs[a + o + 1 + k] = E[k]
    <3>1. bs = I \o E
      OBVIOUS
    <3> HIDE DEF I, bs
    <3>2. \A k \in 1 .. Len(E) : (I \o E)[Len(I) + k] = E[k]
      BY <1>12, <2>2, <2>3
    <3> QED BY <1>9, <2>3, <3>1, <3>2
  <2>6. \A k \in 1 .. a + o : I[k] = G[k]
    BY <1>12, <2>2, <2>3, SMTT(30)
  <2>7. I[a + o + 1] = D[1]
    <3>1. 1 \in 1 .. Len(D) /\ Len(G) + 1 = a + o + 1
      BY <1>8, <2>3
    <3> QED BY <1>12, <2>2, <2>3, <3>1, SMTT(30)
  <2>8. \A k \in 1 .. a : G[k] = H[k]
    BY <1>12, <1>14, <2>2
  <2>9. \A k \in 1 .. o : G[a + k] = C[k]
    BY <1>7, <1>12, <1>14, <2>2, SMTT(30)
  <2>10. (\A k \in 1 .. Len(A) : H[k] = A[k]) /\ \A k \in 1 .. n : H[Len(A) + k] = F[k]
    BY <1>6, <1>12, <2>2 DEF H
  <2> HIDE DEF G, I, bs, a, o
  <2>11. \A k \in 1 .. a : k \in 1 .. a + o /\ k \in 1 .. a + o + 1
    BY <2>1
  <2>12. \A k \in 1 .. o : a + k \in 1 .. a + o /\ a + k \in 1 .. a + o + 1
    BY <2>1
  <2>13. a + o + 1 \in 1 .. a + o + 1
    BY <2>1
  <2>14. \A k \in 1 .. a : bs[k] = H[k]
    BY ONLY <2>4, <2>6, <2>8, <2>11
  <2>15. \A k \in 1 .. o : bs[a + k] = C[k]
    BY ONLY <2>4, <2>6, <2>9, <2>12
  <2>16. bs[a + o + 1] = D[1]
    BY ONLY <2>4, <2>7, <2>13
  <2> QED BY ONLY <2>5, <2>10, <2>14, <2>15, <2>16
<1>18. a = Len(A) + n /\ a \in Nat /\ o \in Nat /\ Len(A) \in Nat
  BY <1>4, <1>5, <1>14
<1> HIDE DEF bs, a, o
<1>19. Breakpoints(r) \subseteq a .. a + o /\ a + 1 .. a + o \subseteq Breakpoints(r)
       /\ (n = 0 => a \notin Breakpoints(r))
  <2>1. \A k : k \in Breakpoints(r) <=> k \in 1 .. a + o + 1 + m /\ bs[k].cc
    BY <1>1, <1>16 DEF Breakpoints
  <2>2. \A k \in 1 .. Len(A) : ~ bs[k].cc
    <3>1. \A k \in 1 .. Len(A) : k \in 1 .. a
      BY <1>18
    <3>2. \A k \in 1 .. Len(A) : bs[k] = A[k] /\ A[k].cc = FALSE
      BY ONLY <1>5, <1>17, <3>1
    <3> QED BY ONLY <3>2
  <2>3. \A k \in Len(A) + 1 .. a : bs[k].cc => k = a
    <3> SUFFICES ASSUME NEW k \in Len(A) + 1 .. a, bs[k].cc PROVE k = a
      OBVIOUS
    <3> DEFINE l == k - Len(A)
    <3>1. l \in 1 .. n /\ k = Len(A) + l /\ k \in 1 .. a
      BY <1>18
    <3>2. bs[k] = F[l]
      BY <1>17, <3>1
    <3>3. l = n
      BY <1>6, <3>1, <3>2
    <3> QED BY <1>18, <3>1, <3>3
  <2>4. \A k \in a + 1 .. a + o : bs[k].cc
    <3> SUFFICES ASSUME NEW k \in a + 1 .. a + o PROVE bs[k].cc
      OBVIOUS
    <3> DEFINE l == k - a
    <3>1. l \in 1 .. o /\ k = a + l
      BY <1>18
    <3>2. bs[k] = C[l]
      BY <1>17, <3>1
    <3> QED BY <1>7, <3>1, <3>2
  <2>5. ~ bs[a + o + 1].cc
    BY <1>8, <1>17
  <2>6. \A k \in a + o + 2 .. a + o + 1 + m : ~ bs[k].cc
    <3> SUFFICES ASSUME NEW k \in a + o + 2 .. a + o + 1 + m PROVE ~ bs[k].cc
      OBVIOUS
    <3> DEFINE l == k - (a + o + 1)
    <3>1. l \in 1 .. m /\ k = a + o + 1 + l
      BY <1>18
    <3>2. bs[k] = E[l]
      BY <1>17, <3>1
    <3> QED BY <1>9, <3>1, <3>2
  <2>7. ASSUME NEW k \in Breakpoints(r) PROVE k \in a .. a + o /\ (n = 0 => k # a)
    <3>1. k \in 1 .. a + o + 1 + m /\ bs[k].cc
      BY <2>1
    <3>2. k \notin 1 .. Len(A) /\ k # a + o + 1 /\ k \notin a + o + 2 .. a + o + 1 + m
      BY <2>2, <2>5, <2>6, <3>1
    <3>3. k \in Len(A) + 1 .. a => k = a
      BY <2>3, <3>1
    <3>4. k >= Len(A) + 1 /\ k <= a + o
      <4>1. k \in Int /\ 1 <= k /\ k <= a + o + 1 + m
        BY <1>18, <3>1
      <4>2. ~ (k <= Len(A))
        BY <1>18, <3>2, <4>1
      <4>3. ~ (a + o + 2 <= k)
        BY <1>18, <3>2, <4>1
      <4>4. k # a + o + 1
        BY <3>2
      <4>5. a \in Nat /\ o \in Nat /\ Len(A) \in Nat /\ m \in Nat
        BY <1>18
      <4>6. k >= Len(A) + 1
        BY ONLY <4>1, <4>2, <4>5
      <4>7. k <= a + o
        BY ONLY <4>1, <4>3, <4>4, <4>5
      <4> QED BY <4>6, <4>7
    <3>5. k >= a /\ (n = 0 => k # a)
      BY <1>18, <3>1, <3>3, <3>4
    <3> QED BY <1>18, <3>1, <3>4, <3>5
  <2>8. \A k \in a + 1 .. a + o : k \in 1 .. a + o + 1 + m
    BY <1>18
  <2> QED BY <2>1, <2>4, <2>7, <2>8
<1>20. ASSUME NEW k \in a .. a + o PROVE TextUpTo(r, k) = pre \o FlattenSeq(SubSeq(out, 1, k - a))
  <2> DEFINE j == k - a
             x == SubSeq(bs, 1, k)
             c == SubSeq(C, 1, j)
             ss == SubSeq(out, 1, j)
             y == H \o c
  <2>1. j \in 0 .. o /\ k = a + j /\ k \in 0 .. Len(bs) /\ k \in Nat /\ j \in Nat
    BY <1>16, <1>18
  <2>2. x \in Seq(B) /\ Len(x) = k /\ \A i \in 1 .. k : x[i] = bs[i]
    <3> HIDE DEF B
    <3> QED BY <1>16, <2>1
  <2>3. c \in Seq(TextBlock) /\ Len(c) = j /\ \A i \in 1 .. j : c[i] = C[i]
    BY <1>7, <2>1
  <2>4. ss \in Seq(Text) /\ Len(ss) = j /\ \A i \in 1 .. j : ss[i] = out[i]
    <3>1. Len(out) = o
      BY DEF o
    <3> QED BY <2>1, <3>1
  <2> HIDE DEF c, ss, x, j
  <2>5. Said(c) = ss
    <3>1. \A i \in 1 .. j : c[i].text = ss[i]
      <4>1. \A i \in 1 .. j : i \in 1 .. o
        BY <1>18, <2>1
      <4> QED BY <1>7, <2>3, <2>4, <4>1
    <3> QED BY <2>3, <2>4, <3>1, SaidTexts
  <2>6. c \in Seq(B)
    <3>1. Seq(TextBlock) \subseteq Seq(B)
      OBVIOUS
    <3> QED BY <2>3, <3>1
  <2>7. y \in Seq(B) /\ Len(y) = a + j /\ FlattenSeq(Said(y)) = pre \o FlattenSeq(ss)
    BY <1>13, <1>14, <2>3, <2>5, <2>6
  <2>8. \A i \in 1 .. k : x[i] = y[i]
    <3> SUFFICES ASSUME NEW i \in 1 .. k PROVE x[i] = y[i]
      OBVIOUS
    <3>1. CASE i <= a
      <4>1. i \in 1 .. a
        BY <1>18, <2>1, <3>1
      <4>2. y[i] = H[i]
        <5> HIDE DEF B
        <5> QED BY <1>14, <2>6, <4>1
      <4> QED BY <1>17, <2>2, <4>1, <4>2
    <3>2. CASE ~ (i <= a)
      <4> DEFINE l == i - a
      <4>1. l \in 1 .. j /\ i = a + l /\ l \in 1 .. o
        BY <1>18, <2>1, <3>2
      <4>2. y[i] = c[l]
        <5> HIDE DEF B
        <5>1. \A z \in 1 .. Len(c) : (H \o c)[Len(H) + z] = c[z]
          BY <1>14, <2>6
        <5> QED BY <1>14, <2>3, <4>1, <5>1
      <4> HIDE DEF l
      <4>3. x[i] = bs[i] /\ bs[i] = C[l] /\ c[l] = C[l]
        BY ONLY <1>17, <2>2, <2>3, <4>1, i \in 1 .. k
      <4> QED BY ONLY <4>2, <4>3
    <3> QED BY <3>1, <3>2
  <2>9. x = y
    <3> HIDE DEF y, B
    <3> QED BY <2>1, <2>2, <2>7, <2>8
  <2>10. TextUpTo(r, k) = FlattenSeq(Said(x))
    <3>1. bs \in Seq(TextBlock \cup FileBlock) /\ r.blocks = bs /\ k \in 0 .. Len(bs) /\ x = SubSeq(bs, 1, k)
      BY <1>1, <1>16, <2>1 DEF x
    <3> QED BY ONLY <3>1, SaidUpTo
  <2> QED BY <2>7, <2>9, <2>10 DEF ss, j
<1>21. TextUpTo(r, Len(r.blocks)) = text
  <2> DEFINE k == Len(bs)
             x == SubSeq(bs, 1, k)
  <2>1. k \in 0 .. Len(bs) /\ x = bs
    <3> HIDE DEF B
    <3> QED BY <1>16
  <2>2. TextUpTo(r, k) = FlattenSeq(Said(x))
    <3>1. bs \in Seq(TextBlock \cup FileBlock) /\ r.blocks = bs /\ k \in 0 .. Len(bs) /\ x = SubSeq(bs, 1, k)
      BY <1>1, <1>16, <2>1
    <3> HIDE DEF k, x, B
    <3> QED BY ONLY <3>1, SaidUpTo
  <2> QED BY <1>1, <1>16, <2>1, <2>2
<1>22. Shape(r, a, pre, out, text)
  BY <1>19, <1>20, <1>21 DEF Shape, o
<1>23. HeadLen(pre, n) = a
  BY ONLY <1>a, <1>18 DEF HeadLen
<1>24. ASSUME NEW k \in 1 .. a PROVE bs[k] = HeadBlock(k, pre, n, files)
  <2>1. pre # <<>> /\ Len(A) = 1
    BY <1>18, <1>a
  <2>2. bs[k] = H[k]
    BY ONLY <1>17, k \in 1 .. a
  <2>3. CASE k = 1
    <3>1. H[1] = A[1]
      BY ONLY <1>17, <2>1
    <3> QED BY ONLY <1>a, <2>1, <2>2, <2>3, <3>1 DEF HeadBlock
  <2>4. CASE k # 1
    <3>1. k - 1 \in 1 .. n /\ Len(A) + (k - 1) = k
      BY <1>18, <2>1, <2>4
    <3>2. H[k] = F[k - 1]
      BY ONLY <1>17, <3>1
    <3> QED BY ONLY <1>b, <2>2, <2>4, <3>1, <3>2 DEF HeadBlock
  <2> QED BY <2>3, <2>4
<1>25. \A k \in 1 .. o : bs[a + k] = Block(out[k], TRUE)
  BY ONLY <1>17, <1>c
<1>26. bs \in Seq(TextBlock \cup FileBlock) /\ Len(bs) >= a + o
  BY <1>16, <1>18
<1>27. Blocks(r, pre, out, n, files)
  BY ONLY <1>1, <1>23, <1>24, <1>25, <1>26 DEF Blocks, o
<1> QED BY <1>22, <1>23, <1>27

LEMMA SuffixOf ==
  ASSUME NEW S, NEW x \in Seq(S), NEW y \in Seq(S)
  PROVE  SubSeq(x \o y, Len(x) + 1, Len(x \o y)) = y
<1> DEFINE z == x \o y
           m == Len(x)
           n == Len(y)
           w == SubSeq(z, m + 1, m + n)
<1>1. m \in Nat /\ n \in Nat /\ z \in Seq(S) /\ Len(z) = m + n /\ \A k \in 1 .. n : z[m + k] = y[k]
  OBVIOUS
<1> HIDE DEF z
<1>2. w \in Seq(S) /\ Len(w) = n /\ \A k \in 1 .. n : w[k] = z[m + k]
  <2>1. w \in Seq(S) /\ Len(w) = (m + n) - (m + 1) + 1
    BY <1>1
  <2>2. \A k \in 1 .. n : w[k] = z[(m + 1) + k - 1]
    BY <1>1
  <2> QED BY <1>1, <2>1, <2>2
<1> HIDE DEF w
<1>3. w = y
  BY <1>1, <1>2
<1> QED BY <1>1, <1>3 DEF w, z

\* What render_context returns: out are the segments with a breakpoint, acc
\* what was not merged into one, tail what follows the last split s.
Rendered(R, h, out, acc, tail, s) ==
  LET pre == R.prefixText
  IN /\ pre = (IF conf.attach = 0 THEN <<>> ELSE Header)
     /\ R.prefixAttachments = conf.attach /\ R.attachments \in Nat
     /\ R.cachedSegments = out /\ out \in Seq(Text) /\ acc \in Text /\ tail \in Text
     /\ UncachedTail(R) = acc \o tail
     /\ R.text = pre \o (FlattenSeq(out) \o (acc \o tail))
     /\ Len(out) + (IF conf.attach = 0 THEN 0 ELSE 1) <= 3
     /\ s \in Nat /\ s <= ImmutableCount(h)
     /\ conf.stride > 0 /\ conf.tiers > 0 => ImmutableCount(h) - s <= conf.stride - 1
     /\ (pre \o FlattenSeq(out)) \o acc = (Header \o Open) \o SubSeq(h, 1, s)
     /\ out # <<>> => Len(pre \o FlattenSeq(out)) >= 2
     /\ SizeOf(acc) < MinChars

LEMMA RenderedShape ==
  ASSUME NEW h \in Seq(EntryType), conf \in Configs, view \in BOOLEAN, NEW turn \in Nat,
         NEW R, R = RenderContext(h, turn)
  PROVE  \E out, acc, tail, s : Rendered(R, h, out, acc, tail, s)
<1> DEFINE sp == CacheSplits(h, conf.stride, Tiers(conf))
           m == Len(sp)
           s == sp[m]
           segs == Segments(h, sp)
           pre == IF conf.attach = 0 THEN <<>> ELSE Header
           boost == SizeOf(pre) + conf.attach * ImageChars
           mg == MergedSegments(segs, boost)
           out == mg.out
           acc == mg.acc
           q == FlattenSeq(out)
           hs == SubSeq(h, 1, s)
           tail == SubSeq(h, s + 1, Len(h)) \o Rest(turn)
           F == FlattenSeq(segs)
           n == ImmutableCount(h)
<1>1. /\ R.prefixText = pre /\ R.prefixAttachments = conf.attach
      /\ R.cachedSegments = out /\ R.text = (pre \o F) \o tail /\ R.attachments = IF view THEN 1 ELSE 0
  BY DEF RenderContext, CachedSegments
<1>2. /\ Header \in Text /\ Open \in Text /\ Pre \in Text /\ Len(Header) = 1 /\ Len(Open) = 1
      /\ Pre = (IF conf.attach = 0 THEN Header \o Open ELSE Open)
      /\ conf.attach \in Nat /\ conf.stride \in Nat /\ conf.tiers \in Nat
  BY HeadTyped
<1>3. /\ Tiers(conf) \in Nat /\ Tiers(conf) + (IF conf.attach = 0 THEN 0 ELSE 1) <= 3
      /\ (Tiers(conf) = 0 => conf.tiers = 0)
  BY <1>2 DEF Tiers
<1>4. n \in Nat /\ n <= Len(h) /\ Len(h) \in Nat
  BY ImmutableTyped
<1>5. /\ Splits(sp, n)
      /\ IF conf.stride = 0 \/ Tiers(conf) = 0 THEN m = 1 ELSE m = Tiers(conf) /\ n - s <= conf.stride - 1
  BY <1>2, <1>3, SplitsSound
<1>6. m \in Nat \ {0} /\ s \in Nat /\ s <= n /\ m + (IF conf.attach = 0 THEN 0 ELSE 1) <= 3
  <2>1. m \in Nat \ {0} /\ \A i \in 1 .. m : sp[i] \in Nat /\ sp[i] <= n
    BY <1>5 DEF Splits
  <2>2. m \in 1 .. m
    BY <2>1
  <2>3. m + (IF conf.attach = 0 THEN 0 ELSE 1) <= 3
    <3> HIDE DEF m, sp, n, s
    <3> QED BY <1>3, <1>5, <2>1
  <2> QED BY <2>1, <2>2, <2>3
<1>7. conf.stride > 0 /\ conf.tiers > 0 => n - s <= conf.stride - 1
  <2> HIDE DEF m, sp, n, s
  <2> QED BY <1>2, <1>3, <1>5
<1> HIDE DEF sp, n
<1>8. /\ segs \in Seq(Text) /\ Len(segs) = m
      /\ \E f : UpToSplits(f, segs, h, sp)
  <2>1. /\ h \in Seq(EntryType) /\ n \in Nat /\ n <= Len(h) /\ Splits(sp, n) /\ conf \in Configs
        /\ segs = Segments(h, sp)
    BY <1>4, <1>5
  <2> HIDE DEF segs
  <2> QED BY ONLY <2>1, SegmentsText DEF m
<1>9. PICK f : Flattens(f, segs, PlainType) /\ \A k \in 1 .. m : f[k] = Pre \o SubSeq(h, 1, sp[k])
  BY <1>8 DEF UpToSplits
<1> HIDE DEF segs
<1>10. F = Pre \o hs
  <2>1. m \in 1 .. m
    BY <1>6
  <2>2. F = f[m]
    BY <1>8, <1>9 DEF Flattens
  <2> QED BY <1>9, <2>1, <2>2
<1>11. pre \in Text /\ boost \in Nat
  <2>1. pre \in Text
    <3>1. <<>> \in Text
      BY DEF Text
    <3> QED BY <1>2, <3>1
  <2> HIDE DEF pre
  <2>2. SizeOf(pre) \in Nat /\ ImageChars \in Nat
    BY <2>1, SizeTyped, SizesAssumption
  <2> QED BY <1>2, <2>1, <2>2, SMTT(30)
<1>12. h \in Text /\ \A k \in 1 .. m : SubSeq(h, 1, sp[k]) \in Text
  <2>1. h \in Text
    BY EntriesPlain
  <2>2. \A k \in 1 .. m : sp[k] \in Nat /\ sp[k] <= Len(h)
    <3>1. \A k \in 1 .. m : sp[k] \in Nat /\ sp[k] <= n
      BY <1>5 DEF Splits
    <3> QED BY <1>4, <3>1
  <2> QED BY <2>1, <2>2 DEF Text
<1>13. MergedTo(mg, F, m, boost, Len(Pre))
  <2>1. \A k \in 1 .. m : Len(f[k]) >= Len(Pre)
    <3> SUFFICES ASSUME NEW k \in 1 .. m PROVE Len(f[k]) >= Len(Pre)
      OBVIOUS
    <3> DEFINE z == SubSeq(h, 1, sp[k])
    <3>1. z \in Text /\ f[k] = Pre \o z
      BY <1>9, <1>12
    <3> HIDE DEF z
    <3>2. Len(Pre \o z) = Len(Pre) + Len(z) /\ Len(z) \in Nat /\ Len(Pre) \in Nat
      BY <1>2, <3>1 DEF Text
    <3> QED BY <3>1, <3>2
  <2>2. Len(Pre) \in Nat
    BY <1>2 DEF Text
  <2> HIDE DEF boost, m
  <2>3. MergedTo(MergedSegments(segs, boost), FlattenSeq(segs), Len(segs), boost, Len(Pre))
    BY <1>8, <1>9, <1>11, <2>1, <2>2, MergedAll
  <2> QED BY <1>8, <2>3
<1> HIDE DEF mg
<1>14. /\ out \in Seq(Text) /\ acc \in Text /\ Len(out) <= m /\ Len(out) \in Nat /\ q \in Text /\ q \o acc = F
       /\ (out # <<>> => Len(q) >= Len(Pre)) /\ SizeOf(acc) < MinChars
  <2>1. out \in Seq(Text) /\ acc \in Text /\ Len(out) <= m /\ q \o acc = F /\ (out # <<>> => Len(q) >= Len(Pre))
    BY <1>13 DEF MergedTo, MergeType
  <2>2. q \in Text
    BY <2>1, FlattenTyped DEF Text
  <2>3. mg.effective < MinChars /\ (mg.effective = SizeOf(acc) \/ mg.effective = boost + SizeOf(acc))
    BY <1>6, <1>13 DEF MergedTo
  <2>4. SizeOf(acc) \in Nat /\ MinChars \in Nat
    BY <2>1, SizeTyped, SizesAssumption
  <2>5. SizeOf(acc) < MinChars
    <3> HIDE DEF boost, acc
    <3> QED BY <1>11, <2>3, <2>4
  <2>6. Len(out) \in Nat
    BY <2>1
  <2> QED BY <2>1, <2>2, <2>5, <2>6
<1>15. tail \in Text /\ hs \in Text
  <2>1. Rest(turn) \in Text
    <3>1. Piece(turn, "rest") \in PlainType
      BY DEF Piece, PlainType, Forms
    <3> QED BY <3>1 DEF Rest, Text
  <2>2. SubSeq(h, s + 1, Len(h)) \in Text
    <3> HIDE DEF s
    <3> QED BY <1>4, <1>6, <1>12 DEF Text
  <2>3. hs \in Text
    <3>1. m \in 1 .. m
      BY <1>6
    <3> QED BY <1>12, <3>1
  <2>4. \A x, y \in Text : x \o y \in Text
    BY DEF Text
  <2> QED BY <2>1, <2>2, <2>3, <2>4
<1> HIDE DEF out, acc, q, hs, tail, F, pre, s, m
<1>16. \A x, y, z \in Text : x \o y \in Text /\ (x \o y) \o z = x \o (y \o z) /\ Len(x \o y) = Len(x) + Len(y)
  <2> SUFFICES ASSUME NEW x \in Text, NEW y \in Text, NEW z \in Text
               PROVE  x \o y \in Text /\ (x \o y) \o z = x \o (y \o z) /\ Len(x \o y) = Len(x) + Len(y)
    OBVIOUS
  <2>1. (x \o y) \o z = x \o (y \o z)
    BY ONLY x \in Text, y \in Text, z \in Text, TextAssociative
  <2>2. x \o y \in Text /\ Len(x \o y) = Len(x) + Len(y)
    BY ONLY x \in Text, y \in Text, TextConcat
  <2> QED BY ONLY <2>1, <2>2
<1>17. R.text = pre \o (q \o (acc \o tail)) /\ R.text = (pre \o q) \o (acc \o tail)
  <2>1. R.text = (pre \o (q \o acc)) \o tail
    BY <1>1, <1>14
  <2>2. q \o acc \in Text /\ acc \o tail \in Text
    BY <1>14, <1>15, <1>16
  <2>3. (pre \o (q \o acc)) \o tail = pre \o ((q \o acc) \o tail)
    BY <1>11, <1>15, <1>16, <2>2
  <2>4. (q \o acc) \o tail = q \o (acc \o tail)
    BY <1>14, <1>15, <1>16
  <2>5. (pre \o q) \o (acc \o tail) = pre \o (q \o (acc \o tail))
    BY <1>11, <1>14, <1>16, <2>2
  <2> QED BY <2>1, <2>3, <2>4, <2>5
<1>18. UncachedTail(R) = acc \o tail
  <2> DEFINE x == pre \o q
             y == acc \o tail
  <2>1. x \in Text /\ y \in Text /\ Len(x) = Len(pre) + Len(q) /\ R.text = x \o y
    BY <1>11, <1>14, <1>15, <1>16, <1>17
  <2>2. UncachedTail(R) = SubSeq(R.text, Len(pre) + Len(q) + 1, Len(R.text))
    BY <1>1 DEF UncachedTail, q
  <2> HIDE DEF x, y
  <2>3. SubSeq(x \o y, Len(x) + 1, Len(x \o y)) = y
    BY <2>1, SuffixOf DEF Text
  <2> QED BY <2>1, <2>2, <2>3 DEF y
<1>19. (pre \o q) \o acc = (Header \o Open) \o hs
  <2>1. (pre \o q) \o acc = pre \o (Pre \o hs)
    <3>1. (pre \o q) \o acc = pre \o (q \o acc)
      BY <1>11, <1>14, <1>16
    <3> QED BY <1>10, <1>14, <3>1
  <2>2. CASE conf.attach = 0
    <3>1. pre = <<>> /\ Pre = Header \o Open
      BY <1>2, <2>2 DEF pre
    <3>2. Pre \o hs \in Text
      BY <1>2, <1>15, <1>16
    <3>3. <<>> \o (Pre \o hs) = Pre \o hs
      BY <3>2, ConcatEmptySeq DEF Text
    <3> QED BY <2>1, <3>1, <3>3
  <2>3. CASE conf.attach # 0
    <3>1. pre = Header /\ Pre = Open
      BY <1>2, <2>3 DEF pre
    <3>2. Header \in Text /\ Open \in Text /\ hs \in Text
      BY <1>2, <1>15
    <3>3. (Header \o Open) \o hs = Header \o (Open \o hs)
      <4>1. \A x, y, z \in Text : (x \o y) \o z = x \o (y \o z)
        BY ONLY <1>16
      <4> QED BY ONLY <4>1, <3>2
    <3> QED BY <2>1, <3>1, <3>3
  <2> QED BY <2>2, <2>3
<1>20. out # <<>> => Len(pre \o q) >= 2
  <2> SUFFICES ASSUME out # <<>> PROVE Len(pre \o q) >= 2
    OBVIOUS
  <2>1. Len(pre \o q) = Len(pre) + Len(q) /\ Len(q) >= Len(Pre)
    BY <1>11, <1>14, <1>16
  <2>2. Len(pre) + Len(Pre) = 2 /\ Len(pre) \in Nat /\ Len(Pre) \in Nat
    <3>1. CASE conf.attach = 0
      <4>1. pre = <<>> /\ Pre = Header \o Open
        BY <1>2, <3>1 DEF pre
      <4>2. Header \in Text /\ Open \in Text /\ Len(Header) = 1 /\ Len(Open) = 1
        BY <1>2
      <4>3. Len(Header \o Open) = Len(Header) + Len(Open)
        BY ONLY <1>16, <4>2
      <4>4. Len(Header \o Open) = 2 /\ Len(<<>>) = 0
        BY ONLY <4>2, <4>3
      <4> QED BY ONLY <4>1, <4>4
    <3>2. CASE conf.attach # 0
      <4>1. pre = Header /\ Pre = Open
        BY <1>2, <3>2 DEF pre
      <4>2. Len(Header) = 1 /\ Len(Open) = 1
        BY <1>2
      <4> QED BY ONLY <4>1, <4>2
    <3> QED BY <3>1, <3>2
  <2>3. Len(q) \in Nat
    BY <1>14 DEF Text
  <2> QED BY <2>1, <2>2, <2>3
<1>21. Len(out) + (IF conf.attach = 0 THEN 0 ELSE 1) <= 3
  BY <1>6, <1>14
<1>22. R.prefixText = IF conf.attach = 0 THEN <<>> ELSE Header
  BY <1>1 DEF pre
<1>23. Rendered(R, h, out, acc, tail, s)
  <2>1. R.attachments \in Nat
    BY <1>1
  <2> QED BY <1>1, <1>6, <1>7, <1>14, <1>15, <1>17, <1>18, <1>19, <1>20, <1>21, <1>22, <2>1 DEF Rendered, q, hs, n
<1> QED BY <1>23

\* The entries in a beginning of the text: all but the first two pieces.
LEMMA EntriesCovered ==
  ASSUME NEW u \in Text, NEW v \in Text, NEW hs \in Seq(EntryType), conf \in Configs,
         u \o v = (Header \o Open) \o hs
  PROVE  /\ EntryCount(u) = Monus(Len(u), 2) /\ Len(u) <= 2 + Len(hs) /\ Len(u) \in Nat /\ Len(hs) \in Nat
         /\ Len(v) = 2 + Len(hs) - Len(u)
<1> DEFINE w == Header \o Open
           z == w \o hs
<1>1. /\ Header \in Text /\ Open \in Text /\ Len(Header) = 1 /\ Len(Open) = 1
      /\ Header[1].form \notin EntryForms /\ Open[1].form \notin EntryForms
  BY HeadTyped
<1>2. w \in Text /\ Len(w) = 2 /\ w[1] = Header[1] /\ w[2] = Open[1]
  <2>1. /\ w \in Text /\ Len(w) = Len(Header) + Len(Open)
        /\ \A k \in 1 .. Len(Header) : w[k] = Header[k]
        /\ \A k \in 1 .. Len(Open) : w[Len(Header) + k] = Open[k]
    BY <1>1, TextConcat
  <2> HIDE DEF w
  <2>2. Len(w) = 2 /\ w[1] = Header[1]
    BY <1>1, <2>1
  <2>3. w[1 + 1] = Open[1] /\ 1 + 1 = 2
    BY <1>1, <2>1
  <2> QED BY <2>1, <2>2, <2>3
<1> HIDE DEF w
<1>3. hs \in Text /\ Len(hs) \in Nat /\ Len(u) \in Nat /\ Len(v) \in Nat
  BY EntriesPlain DEF Text
<1>0. /\ Len(z) = Len(w) + Len(hs)
      /\ \A k \in 1 .. Len(w) : z[k] = w[k]
      /\ \A k \in 1 .. Len(hs) : z[Len(w) + k] = hs[k]
  BY <1>2, <1>3, TextConcat
<1>4. Len(z) = 2 + Len(hs) /\ z[1] = w[1] /\ z[2] = w[2]
  <2> HIDE DEF z
  <2> QED BY <1>0, <1>2
<1>5. \A k \in 3 .. 2 + Len(hs) : z[k] = hs[k - 2]
  <2> SUFFICES ASSUME NEW k \in 3 .. 2 + Len(hs) PROVE z[k] = hs[k - 2]
    OBVIOUS
  <2>1. k - 2 \in 1 .. Len(hs) /\ Len(w) + (k - 2) = k
    BY <1>2, <1>3
  <2> HIDE DEF z
  <2> QED BY <1>0, <2>1
<1>6. Len(u \o v) = Len(u) + Len(v) /\ \A k \in 1 .. Len(u) : (u \o v)[k] = u[k]
  BY DEF Text
<1>7. u \o v = z
  BY DEF w
<1> HIDE DEF z
<1>8. Len(u) + Len(v) = 2 + Len(hs)
  BY <1>4, <1>6, <1>7
<1>9. \A k \in 1 .. Len(u) : u[k] = z[k]
  BY <1>6, <1>7
<1>10. DOMAIN u = 1 .. Len(u)
  BY DEF Text
<1> DEFINE I == {k \in DOMAIN u : u[k].form \in EntryForms}
<1>11. \A k \in 1 .. Len(hs) : hs[k].form \in EntryForms
  <2>1. \A k \in 1 .. Len(hs) : hs[k] \in EntryType
    OBVIOUS
  <2>2. \A x \in EntryType : x.form \in EntryForms
    BY DEF EntryType
  <2> QED BY <2>1, <2>2
<1>12. ASSUME NEW k PROVE k \in I <=> k \in 3 .. Len(u)
  <2>1. ASSUME k \in I PROVE k \in 3 .. Len(u)
    <3>1. k \in 1 .. Len(u) /\ z[k].form \in EntryForms
      BY <1>9, <1>10, <2>1
    <3>2. k # 1 /\ k # 2
      BY <1>1, <1>2, <1>4, <3>1
    <3> QED BY <1>3, <3>1, <3>2
  <2>2. ASSUME k \in 3 .. Len(u) PROVE k \in I
    <3>1. k \in 1 .. Len(u) /\ k \in 3 .. 2 + Len(hs) /\ k - 2 \in 1 .. Len(hs)
      BY <1>3, <1>8, <2>2
    <3>2. u[k] = hs[k - 2]
      BY <1>5, <1>9, <3>1
    <3> QED BY <1>10, <1>11, <3>1, <3>2
  <2> QED BY <2>1, <2>2
<1>13. I = 3 .. Len(u)
  BY <1>12
<1>14. Cardinality(3 .. Len(u)) = IF 3 > Len(u) THEN 0 ELSE Len(u) - 3 + 1
  <2>1. 3 \in Int /\ Len(u) \in Int
    BY <1>3
  <2> QED BY ONLY <2>1, FS_Interval
<1>15. EntryCount(u) = Cardinality(I)
  BY DEF EntryCount
<1>16. EntryCount(u) = Monus(Len(u), 2)
  <2>1. EntryCount(u) = IF 3 > Len(u) THEN 0 ELSE Len(u) - 3 + 1
    BY <1>13, <1>14, <1>15
  <2>2. Len(u) \in Nat
    BY <1>3
  <2> QED BY ONLY <2>1, <2>2 DEF Monus
<1> QED BY <1>3, <1>8, <1>16

\* What a built request says of the history it was rendered from
Sound(r, h) ==
  /\ Cardinality(Breakpoints(r)) + 1 <= 4
  /\ TextUpTo(r, Len(r.blocks)) = r.text
  /\ \A k \in Breakpoints(r) : EntryCount(TextUpTo(r, k)) <= ImmutableCount(h)

\* The segments up to one of them, and what follows
LEMMA OutSplit ==
  ASSUME NEW out \in Seq(Text), NEW j \in 0 .. Len(out)
  PROVE  /\ FlattenSeq(SubSeq(out, 1, j)) \in Text /\ FlattenSeq(SubSeq(out, j + 1, Len(out))) \in Text
         /\ FlattenSeq(out) = FlattenSeq(SubSeq(out, 1, j)) \o FlattenSeq(SubSeq(out, j + 1, Len(out)))
<1> DEFINE x == SubSeq(out, 1, j)
           y == SubSeq(out, j + 1, Len(out))
<1>1. Len(out) \in Nat /\ j \in Nat
  OBVIOUS
<1>2. x \in Seq(Text) /\ y \in Seq(Text)
  BY <1>1
<1>3. x \o y = out
  <2>1. 1 \in 1 .. Len(out) + 1 /\ j \in 1 - 1 .. Len(out) /\ Len(out) \in j .. Len(out)
    BY <1>1
  <2>2. x \o y = SubSeq(out, 1, Len(out))
    BY <2>1, ConcatAdjacentSubSeq
  <2>3. SubSeq(out, 1, Len(out)) = out
    OBVIOUS
  <2> QED BY <2>2, <2>3
<1> HIDE DEF x, y
<1>4. FlattenSeq(x \o y) = FlattenSeq(x) \o FlattenSeq(y) /\ FlattenSeq(x) \in Text /\ FlattenSeq(y) \in Text
  BY <1>2, FlattenConcat, FlattenTyped DEF Text
<1> QED BY <1>3, <1>4 DEF x, y

\* The entries up to a cached segment are what is before it but for two pieces.
LEMMA CoveredUpTo ==
  ASSUME NEW h \in Seq(EntryType), conf \in Configs, NEW R, NEW out, NEW acc, NEW tail, NEW s,
         Rendered(R, h, out, acc, tail, s), NEW j \in 0 .. Len(out),
         NEW u, u = R.prefixText \o FlattenSeq(SubSeq(out, 1, j))
  PROVE  u \in Text /\ EntryCount(u) = Monus(Len(u), 2) /\ Len(u) <= 2 + s /\ Len(u) \in Nat
<1> DEFINE pre == R.prefixText
           x == FlattenSeq(SubSeq(out, 1, j))
           y == FlattenSeq(SubSeq(out, j + 1, Len(out)))
           v == y \o acc
           hs == SubSeq(h, 1, s)
<1>1. /\ pre = (IF conf.attach = 0 THEN <<>> ELSE Header)
      /\ out \in Seq(Text) /\ acc \in Text /\ s \in Nat /\ s <= ImmutableCount(h)
      /\ (pre \o FlattenSeq(out)) \o acc = (Header \o Open) \o hs
  BY DEF Rendered
<1>2. x \in Text /\ y \in Text /\ FlattenSeq(out) = x \o y
  BY <1>1, OutSplit
<1>3. ImmutableCount(h) \in Nat /\ ImmutableCount(h) <= Len(h) /\ Len(h) \in Nat
  BY ImmutableTyped
<1>4. hs \in Seq(EntryType) /\ Len(hs) = s
  BY <1>1, <1>3
<1>5. pre \in Text
  <2>1. <<>> \in Text
    BY DEF Text
  <2> QED BY <1>1, <2>1, HeadTyped
<1> HIDE DEF pre, x, y, hs
<1>6. u = pre \o x
  BY DEF pre, x
<1>7. u \in Text /\ v \in Text
  <2>1. pre \in Text /\ x \in Text /\ y \in Text /\ acc \in Text
    BY ONLY <1>1, <1>2, <1>5
  <2>2. pre \o x \in Text
    BY ONLY <2>1, TextConcat
  <2>3. y \o acc \in Text
    BY ONLY <2>1, TextConcat
  <2> QED BY ONLY <1>6, <2>2, <2>3
<1>8. u \o v = (Header \o Open) \o hs
  <2>1. pre \in Text /\ x \in Text /\ y \in Text /\ acc \in Text /\ u \in Text
    BY <1>1, <1>2, <1>5, <1>7
  <2>2. (pre \o x) \o y = pre \o (x \o y)
    <3>1. pre \in Text /\ x \in Text /\ y \in Text
      BY ONLY <2>1
    <3> QED BY ONLY <3>1, TextAssociative
  <2>3. (u \o y) \o acc = u \o (y \o acc)
    <3>1. u \in Text /\ y \in Text /\ acc \in Text
      BY ONLY <2>1
    <3> QED BY ONLY <3>1, TextAssociative
  <2>4. u \o y = pre \o FlattenSeq(out)
    BY ONLY <1>2, <1>6, <2>2
  <2>5. u \o v = (pre \o FlattenSeq(out)) \o acc
    BY ONLY <2>3, <2>4
  <2> QED BY ONLY <1>1, <2>5
<1> HIDE DEF v
<1>9. EntryCount(u) = Monus(Len(u), 2) /\ Len(u) <= 2 + Len(hs) /\ Len(u) \in Nat
  BY <1>4, <1>7, <1>8, EntriesCovered
<1> QED BY <1>4, <1>7, <1>9

LEMMA ShapeSound ==
  ASSUME NEW h \in Seq(EntryType), conf \in Configs, NEW R, NEW out, NEW acc, NEW tail, NEW s,
         Rendered(R, h, out, acc, tail, s), NEW r, r = BuildRequest(R),
         NEW a \in Nat, Shape(r, a, R.prefixText, out, R.text)
  PROVE  Sound(r, h)
<1> DEFINE pre == R.prefixText
           o == Len(out)
           hs == SubSeq(h, 1, s)
<1>1. /\ pre = (IF conf.attach = 0 THEN <<>> ELSE Header)
      /\ out \in Seq(Text) /\ acc \in Text /\ o + (IF conf.attach = 0 THEN 0 ELSE 1) <= 3
      /\ s \in Nat /\ s <= ImmutableCount(h)
      /\ (pre \o FlattenSeq(out)) \o acc = (Header \o Open) \o hs
  BY DEF Rendered
<1>2. o \in Nat
  BY <1>1
<1>3. /\ TextUpTo(r, Len(r.blocks)) = R.text
      /\ \A k \in Breakpoints(r) : /\ k \in a .. a + o /\ (pre = <<>> => k # a)
                                   /\ TextUpTo(r, k) = pre \o FlattenSeq(SubSeq(out, 1, k - a))
  BY DEF Shape
<1>4. r.text = R.text
  BY DEF BuildRequest
<1>5. Header \in Text /\ Len(Header) = 1 /\ pre \in Text /\ (pre = <<>> <=> conf.attach = 0)
  <2>1. Header \in Text /\ Len(Header) = 1
    BY HeadTyped
  <2>2. <<>> \in Text /\ Header # <<>>
    <3>1. ASSUME Header = <<>> PROVE FALSE
      <4>1. Len(Header) = 0
        BY <3>1
      <4> QED BY <2>1, <4>1
    <3>2. <<>> \in Text
      BY DEF Text
    <3> QED BY <3>1, <3>2
  <2> QED BY <1>1, <2>1, <2>2
<1> HIDE DEF pre, o
<1>6. Cardinality(Breakpoints(r)) + 1 <= 4
  <2> DEFINE b == IF conf.attach = 0 THEN a + 1 ELSE a
             I == b .. a + o
  <2>1. b \in Nat /\ Breakpoints(r) \subseteq I
    <3> SUFFICES ASSUME NEW k \in Breakpoints(r) PROVE b \in Nat /\ k \in I
      BY <1>2
    <3>1. k \in a .. a + o /\ (conf.attach = 0 => k # a)
      BY <1>3, <1>5
    <3> QED BY <1>2, <3>1
  <2>2. IsFiniteSet(I) /\ Cardinality(I) = IF b > a + o THEN 0 ELSE (a + o) - b + 1
    <3>1. b \in Int /\ a + o \in Int
      BY <1>2, <2>1
    <3> HIDE DEF b
    <3> QED BY ONLY <3>1, FS_Interval
  <2>3. Cardinality(I) <= 3 /\ Cardinality(I) \in Nat
    BY <1>1, <1>2, <2>2
  <2> HIDE DEF I
  <2>4. Cardinality(Breakpoints(r)) <= Cardinality(I) /\ IsFiniteSet(Breakpoints(r))
    BY <2>1, <2>2, FS_Subset
  <2>5. Cardinality(Breakpoints(r)) \in Nat
    BY <2>4, FS_CardinalityType
  <2> QED BY <2>3, <2>4, <2>5
<1>7. ASSUME NEW k \in Breakpoints(r) PROVE EntryCount(TextUpTo(r, k)) <= ImmutableCount(h)
  <2> DEFINE j == k - a
             u == R.prefixText \o FlattenSeq(SubSeq(out, 1, j))
  <2>1. j \in 0 .. Len(out) /\ TextUpTo(r, k) = u
    <3>1. k \in a .. a + o /\ TextUpTo(r, k) = pre \o FlattenSeq(SubSeq(out, 1, k - a))
      BY <1>3
    <3>2. j \in 0 .. Len(out)
      BY <1>2, <3>1 DEF o
    <3> QED BY <3>1, <3>2 DEF pre
  <2>2. u = R.prefixText \o FlattenSeq(SubSeq(out, 1, j))
    OBVIOUS
  <2>3. ImmutableCount(h) \in Nat
    BY ImmutableTyped
  <2> HIDE DEF j, u
  <2>4. EntryCount(u) = Monus(Len(u), 2) /\ Len(u) <= 2 + s /\ Len(u) \in Nat
    BY <2>1, <2>2, CoveredUpTo
  <2>5. EntryCount(u) \in Nat /\ EntryCount(u) <= s
    BY <1>1, <2>4 DEF Monus
  <2> QED BY <1>1, <2>1, <2>3, <2>5
<1> QED BY <1>3, <1>4, <1>6, <1>7 DEF Sound

\* A request rendered and built from a history
LEMMA RequestMade ==
  ASSUME NEW h \in Seq(EntryType), conf \in Configs, view \in BOOLEAN, files \in Nat, NEW turn \in Nat,
         NEW R, R = RenderContext(h, turn), NEW r, r = BuildRequest(R)
  PROVE  \E out, acc, tail, s :
           /\ Rendered(R, h, out, acc, tail, s)
           /\ Shape(r, HeadLen(R.prefixText, conf.attach), R.prefixText, out, R.text)
           /\ Blocks(r, R.prefixText, out, conf.attach, files)
           /\ HeadLen(R.prefixText, conf.attach) \in Nat
<1>1. PICK out, acc, tail, s : Rendered(R, h, out, acc, tail, s)
  BY RenderedShape
<1> DEFINE pre == R.prefixText
           rest == acc \o tail
           n == R.prefixAttachments
           m == R.attachments
           text == R.text
<1>2. /\ pre = (IF conf.attach = 0 THEN <<>> ELSE Header) /\ n = conf.attach
      /\ m \in Nat /\ R.cachedSegments = out /\ out \in Seq(Text)
      /\ acc \in Text /\ tail \in Text /\ UncachedTail(R) = rest
      /\ text = pre \o (FlattenSeq(out) \o rest)
  BY <1>1 DEF Rendered
<1>3. conf.attach \in Nat /\ Header \in Text /\ Len(Header) = 1
  BY HeadTyped
<1>4. pre \in Text /\ (pre = <<>> <=> n = 0)
  <2>1. ASSUME Header = <<>> PROVE FALSE
    <3>1. Len(Header) = 0
      BY <2>1
    <3> QED BY <1>3, <3>1
  <2>2. <<>> \in Text
    BY DEF Text
  <2> QED BY <1>2, <1>3, <2>1, <2>2
<1>5. rest \in Text
  BY <1>2, TextConcat
<1>6. n \in Nat
  BY <1>2, <1>3
<1>7. R.prefixText = pre /\ R.prefixAttachments = n /\ R.attachments = m
  OBVIOUS
<1> HIDE DEF pre, rest, n, m, text
<1>8. Shape(r, HeadLen(pre, n), pre, out, text) /\ Blocks(r, pre, out, n, files)
  BY <1>2, <1>4, <1>5, <1>6, <1>7, BuiltShape
<1>9. HeadLen(pre, n) \in Nat /\ n = conf.attach
  BY <1>2, <1>6 DEF HeadLen
<1> QED BY <1>1, <1>8, <1>9 DEF pre, text

LEMMA RequestShape ==
  ASSUME NEW h \in Seq(EntryType), conf \in Configs, view \in BOOLEAN, files \in Nat, NEW turn \in Nat,
         NEW R, R = RenderContext(h, turn), NEW r, r = BuildRequest(R)
  PROVE  \E out, acc, tail, s : \E a \in Nat :
           Rendered(R, h, out, acc, tail, s) /\ Shape(r, a, R.prefixText, out, R.text)
BY RequestMade

RequestInv ==
  /\ FrozenInv
  /\ conf \in Configs /\ view \in BOOLEAN /\ files \in Nat
  /\ Sound(request, seen)

LEMMA NothingSound == Sound(NoRequest, <<>>)
<1>1. Len(NoRequest.blocks) = 0 /\ NoRequest.text = <<>> /\ DOMAIN NoRequest.blocks = {}
  BY DEF NoRequest
<1>2. Breakpoints(NoRequest) = {}
  BY <1>1 DEF Breakpoints
<1>3. TextUpTo(NoRequest, 0) = <<>>
  <2> DEFINE e == [j \in 1 .. 0 |-> IF IsFile(NoRequest.blocks[j]) THEN <<>> ELSE NoRequest.blocks[j].text]
  <2>1. e = <<>>
    OBVIOUS
  <2>2. TextUpTo(NoRequest, 0) = FlattenSeq(e)
    BY DEF TextUpTo
  <2> QED BY <2>1, <2>2, FlattenEmpty
<1> QED BY <1>1, <1>2, <1>3, FS_EmptySet DEF Sound

LEMMA RequestInitially == Init => RequestInv
<1> SUFFICES ASSUME Init PROVE RequestInv
  OBVIOUS
<1>1. FrozenInv
  BY FrozenInitially
<1>2. Sound(request, seen)
  BY NothingSound DEF Init
<1> QED BY <1>1, <1>2 DEF Init, RequestInv

LEMMA RequestStep ==
  ASSUME RequestInv, [Next]_vars
  PROVE  RequestInv'
<1>1. FrozenInv'
  BY FrozenStep DEF RequestInv
<1>2. conf' = conf /\ view' \in BOOLEAN /\ files' \in Nat
  <2>1. ASSUME Next PROVE conf' = conf
    BY <2>1 DEF Next, Edit, PinnedChanges, FileChanges, AlertPushed, HeadItemChanges, TriggerCompaction, RunTurn, HistoryRemove,
       ReplaceWithDescription, HistoryAdd, Commit, CommitAndCompact, Raise, CompactDone, CompactRaises, Record
  <2>2. ASSUME Next PROVE view' \in {view, ~ view}
    BY <2>2 DEF Next, Edit, PinnedChanges, FileChanges, AlertPushed, HeadItemChanges, TriggerCompaction, RunTurn, HistoryRemove,
       ReplaceWithDescription, HistoryAdd, Commit, CommitAndCompact, Raise, CompactDone, CompactRaises, Record
  <2>3. ASSUME Next PROVE files' \in {files, files + 1}
    BY <2>3 DEF Next, Edit, PinnedChanges, FileChanges, AlertPushed, HeadItemChanges, TriggerCompaction, RunTurn, HistoryRemove,
       ReplaceWithDescription, HistoryAdd, Commit, CommitAndCompact, Raise, CompactDone, CompactRaises, Record
  <2>4. view \in BOOLEAN /\ files \in Nat
    BY DEF RequestInv
  <2>5. view' \in BOOLEAN
    BY <2>2, <2>4 DEF vars
  <2>6. files' \in Nat
    BY <2>3, <2>4 DEF vars
  <2> QED BY <2>1, <2>5, <2>6 DEF vars
<1>3. Sound(request', seen')
  <2>1. CASE RunTurn
    <3> DEFINE R == RenderContext(hist, made)
               r == BuildRequest(R)
    <3>1. request' = r /\ seen' = hist
      BY <2>1 DEF RunTurn
    <3>2. hist \in Seq(EntryType) /\ conf \in Configs /\ view \in BOOLEAN /\ files \in Nat /\ made \in Nat
      BY DEF RequestInv, FrozenInv
    <3>3. R = RenderContext(hist, made) /\ r = BuildRequest(R)
      OBVIOUS
    <3> HIDE DEF R, r
    <3>4. PICK out, acc, tail, s, a : a \in Nat /\ Rendered(R, hist, out, acc, tail, s) /\ Shape(r, a, R.prefixText, out, R.text)
      BY <3>2, <3>3, RequestShape
    <3>5. Sound(r, hist)
      BY <3>2, <3>3, <3>4, ShapeSound
    <3> QED BY <3>1, <3>5
  <2>2. CASE ~ RunTurn
    <3>1. request' = request /\ seen' = seen
      BY <2>2 DEF vars, Next, Edit, PinnedChanges, FileChanges, AlertPushed, HeadItemChanges, TriggerCompaction, HistoryRemove,
         ReplaceWithDescription, HistoryAdd, Commit, CommitAndCompact, Raise, CompactDone, CompactRaises, Record
    <3> QED BY <3>1 DEF RequestInv
  <2> QED BY <2>1, <2>2
<1>4. Sound(request, seen)'
  BY <1>3 DEF Sound, Breakpoints, TextUpTo, IsFile
<1> QED BY <1>1, <1>2, <1>4 DEF RequestInv

\* Every request that render_context and build_request make of a history says
\* all of the text once and in order, has at most four breakpoints, and caches
\* nothing inside the modification window: for every configuration of tiers,
\* stride and attachments, every size of the pieces and any number of turns.
THEOREM RequestsSound == Spec => []RequestSound
<1>1. Init => RequestInv
  BY RequestInitially
<1>2. RequestInv /\ [Next]_vars => RequestInv'
  BY RequestStep
<1>3. RequestInv => RequestSound
  BY DEF RequestInv, Sound, RequestSound, BreakpointBudget, BlocksAreTheText, CachedOutsideWindow
<1> QED BY <1>1, <1>2, <1>3, PTL DEF Spec

-----------------------------------------------------------------------------
(***************************************************************************)
(* What is sent uncached.                                                  *)
(***************************************************************************)

\* The largest piece
LEMMA LargestForm ==
  ASSUME NEW G \in SUBSET Forms, IsFiniteSet(G), G # {}
  PROVE  \E g \in G : \A f \in G : Size[f] <= Size[g]
<1> DEFINE Top(X) == \E g \in X : \A f \in X : Size[f] <= Size[g]
           M == {n \in Nat : \A X \in SUBSET Forms : IsFiniteSet(X) /\ Cardinality(X) = n + 1 => Top(X)}
<1>0. \A f \in Forms : Size[f] \in Nat
  BY SizesAssumption
<1>1. 0 \in M
  <2> SUFFICES ASSUME NEW X \in SUBSET Forms, IsFiniteSet(X), Cardinality(X) = 0 + 1 PROVE Top(X)
    OBVIOUS
  <2>1. Cardinality(X) = 1
    OBVIOUS
  <2>2. PICK x : X = {x}
    BY <2>1, FS_Singleton
  <2> QED BY <1>0, <2>2
<1>2. ASSUME NEW n \in Nat, n \in M PROVE n + 1 \in M
  <2> SUFFICES ASSUME NEW X \in SUBSET Forms, IsFiniteSet(X), Cardinality(X) = (n + 1) + 1 PROVE Top(X)
    OBVIOUS
  <2>1. X # {}
    BY FS_EmptySet
  <2>2. PICK x : x \in X
    BY <2>1
  <2> DEFINE Y == X \ {x}
  <2>3. IsFiniteSet(Y) /\ Cardinality(Y) = Cardinality(X) - 1
    BY <2>2, FS_RemoveElement
  <2>4. Cardinality(Y) = n + 1 /\ Y \in SUBSET Forms
    BY <2>3
  <2>5. PICK g \in Y : \A f \in Y : Size[f] <= Size[g]
    <3> HIDE DEF Y
    <3> QED BY <1>2, <2>3, <2>4
  <2>6. Size[g] \in Nat /\ Size[x] \in Nat /\ \A f \in X : Size[f] \in Nat
    BY <1>0, <2>2
  <2>7. CASE Size[x] <= Size[g]
    <3>1. \A f \in X : Size[f] <= Size[g]
      BY <2>5, <2>7
    <3> QED BY <2>5, <3>1
  <2>8. CASE ~ (Size[x] <= Size[g])
    <3>1. \A f \in X : Size[f] <= Size[x]
      BY <2>5, <2>6, <2>8
    <3> QED BY <2>2, <3>1
  <2> QED BY <2>7, <2>8
<1> HIDE DEF M
<1>3. Nat \subseteq M
  BY <1>1, <1>2, SetInduction
<1> DEFINE n == Cardinality(G) - 1
<1>4. n \in Nat /\ Cardinality(G) = n + 1
  <2>1. Cardinality(G) \in Nat /\ Cardinality(G) # 0
    BY FS_CardinalityType, FS_EmptySet
  <2> QED BY <2>1
<1>5. n \in M
  BY <1>3, <1>4
<1> HIDE DEF n
<1> QED BY <1>4, <1>5 DEF M

LEMMA LargestIs == Largest \in Nat /\ \A f \in EntryForms : Size[f] <= Largest
<1> DEFINE G == Forms \ {"short", "long"}
           S == {Size[f] : f \in G}
<1>1. IsFiniteSet(G) /\ G \in SUBSET Forms /\ G # {}
  <2>1. IsFiniteSet({"open", "rest", "file", "full", "alert"})
    <3>1. IsFiniteSet({"open"})
      BY FS_Singleton
    <3>2. IsFiniteSet({"open"} \cup {"rest"})
      BY <3>1, FS_AddElement
    <3>3. IsFiniteSet({"open"} \cup {"rest"} \cup {"file"})
      BY <3>2, FS_AddElement
    <3>4. IsFiniteSet({"open"} \cup {"rest"} \cup {"file"} \cup {"full"})
      BY <3>3, FS_AddElement
    <3>5. IsFiniteSet({"open"} \cup {"rest"} \cup {"file"} \cup {"full"} \cup {"alert"})
      BY <3>4, FS_AddElement
    <3>6. {"open", "rest", "file", "full", "alert"} = {"open"} \cup {"rest"} \cup {"file"} \cup {"full"} \cup {"alert"}
      OBVIOUS
    <3> QED BY <3>5, <3>6
  <2>2. IsFiniteSet({"open", "rest", "file", "full", "alert"} \cup Descriptions)
    BY <2>1, DescriptionsAssumption, FS_Union
  <2>3. G \subseteq {"open", "rest", "file", "full", "alert"} \cup Descriptions
    BY DEF Forms, EntryForms
  <2>4. IsFiniteSet(G)
    BY <2>2, <2>3, FS_Subset
  <2>5. "open" \in G
    BY DEF Forms
  <2> QED BY <2>4, <2>5
<1> HIDE DEF G
<1>2. PICK g \in G : \A f \in G : Size[f] <= Size[g]
  BY <1>1, LargestForm
<1>3. Size[g] \in S /\ \A f \in G : Size[f] <= Size[g]
  BY <1>2
<1>4. Largest = CHOOSE m \in S : \A f \in G : Size[f] <= m
  BY DEF Largest, G
<1>5. Largest \in S /\ \A f \in G : Size[f] <= Largest
  <2> HIDE DEF S
  <2> QED BY <1>3, <1>4
<1>6. S \subseteq Nat
  BY <1>1, SizesAssumption
<1>7. EntryForms \subseteq G
  BY DescriptionsAssumption DEF G, Forms, EntryForms
<1> QED BY <1>5, <1>6, <1>7

LEMMA SizeBounded ==
  ASSUME NEW t \in Text, NEW l \in Nat, \A k \in 1 .. Len(t) : Size[t[k].form] <= l
  PROVE  SizeOf(t) <= Len(t) * l
<1>1. PICK f : Sizes(f, t)
  BY SizeRecursion
<1> DEFINE n == Len(t)
           M == {k \in Nat : k <= n => f[k] <= k * l}
<1>2. n \in Nat /\ f \in [0 .. n -> Nat] /\ f[0] = 0 /\ SizeOf(t) = f[n]
      /\ \A k \in 1 .. n : f[k] = f[k - 1] + Size[t[k].form]
  BY <1>1 DEF Sizes, Text
<1>3. \A k \in 1 .. n : Size[t[k].form] \in Nat /\ Size[t[k].form] <= l
  BY FormsSized
<1> HIDE DEF n
<1>4. 0 \in M
  BY <1>2
<1>5. ASSUME NEW m \in Nat, m \in M PROVE m + 1 \in M
  <2> SUFFICES ASSUME m + 1 <= n PROVE f[m + 1] <= (m + 1) * l
    OBVIOUS
  <2>1. m + 1 \in 1 .. n /\ (m + 1) - 1 = m /\ m <= n /\ m \in 0 .. n
    BY <1>2
  <2> DEFINE z == Size[t[m + 1].form]
  <2>2. f[m + 1] = f[m] + z /\ z \in Nat /\ z <= l
    BY <1>2, <1>3, <2>1
  <2>3. f[m] <= m * l /\ f[m] \in Nat
    BY <1>2, <1>5, <2>1
  <2>4. (m + 1) * l = m * l + l /\ m * l \in Nat
    OBVIOUS
  <2> HIDE DEF z
  <2> QED BY <2>2, <2>3, <2>4
<1> HIDE DEF M
<1>6. n \in M
  BY <1>2, <1>4, <1>5, SetInduction
<1> QED BY <1>2, <1>6 DEF M, n

\* The last breakpoint of a request, and the bound on what is after it
LastBreakpoint(r) ==
  IF Breakpoints(r) = {} THEN 0 ELSE CHOOSE k \in Breakpoints(r) : \A l \in Breakpoints(r) : l <= k
Bound == MinChars + (Window + conf.stride - 1) * Largest

\* What follows the last split is at most the window and a stride.
LEMMA AfterSplit ==
  ASSUME NEW h \in Seq(EntryType), conf \in Configs, conf.stride > 0, NEW s \in Nat,
         s <= ImmutableCount(h), ImmutableCount(h) - s <= conf.stride - 1
  PROVE  SizeOf(SubSeq(h, s + 1, Len(h))) <= (Window + conf.stride - 1) * Largest
<1> DEFINE rest == SubSeq(h, s + 1, Len(h))
           stride == conf.stride
           n == Len(h)
<1>1. stride \in Nat /\ stride > 0 /\ Window \in Nat /\ n \in Nat
  BY HeadTyped, SizesAssumption
<1>2. s <= n /\ n - s <= Window + stride - 1
  <2>1. ImmutableCount(h) = Monus(n, Window)
    BY DEF ImmutableCount
  <2> HIDE DEF n, stride
  <2>2. ImmutableCount(h) - s <= stride - 1
    BY DEF stride
  <2> QED BY <1>1, <2>1, <2>2 DEF Monus
<1>3. rest \in Seq(EntryType) /\ Len(rest) = n - s
  BY <1>1, <1>2
<1> HIDE DEF rest
<1>4. rest \in Text
  BY <1>3, EntriesPlain
<1>5. \A k \in 1 .. Len(rest) : Size[rest[k].form] <= Largest
  <2>1. \A k \in 1 .. Len(rest) : rest[k] \in EntryType
    BY <1>3
  <2>2. \A x \in EntryType : x.form \in EntryForms
    BY DEF EntryType
  <2> QED BY <2>1, <2>2, LargestIs
<1>6. SizeOf(rest) <= Len(rest) * Largest
  BY <1>4, <1>5, LargestIs, SizeBounded
<1> DEFINE x == n - s
           y == Window + stride - 1
<1>7. x \in Nat /\ y \in Nat /\ x <= y /\ Largest \in Nat
  BY <1>1, <1>2, LargestIs
<1>8. SizeOf(rest) \in Nat
  BY <1>4, SizeTyped
<1> HIDE DEF x, y
<1>9. x * Largest <= y * Largest /\ x * Largest \in Nat /\ y * Largest \in Nat
  BY <1>7
<1>10. SizeOf(rest) <= y * Largest
  <2>1. SizeOf(rest) <= x * Largest
    BY <1>3, <1>6 DEF x
  <2> QED BY <1>8, <1>9, <2>1
<1> QED BY <1>10 DEF y, rest

LEMMA EntriesBetween ==
  ASSUME NEW h \in Seq(EntryType), NEW m \in Nat, NEW n \in Nat, m <= n, n <= Len(h)
  PROVE  /\ SubSeq(h, m + 1, n) \in Seq(EntryType) /\ Len(SubSeq(h, m + 1, n)) = n - m
         /\ \A k \in 1 .. n - m : SubSeq(h, m + 1, n)[k] = h[m + k]
<1>1. Len(h) \in Nat
  OBVIOUS
<1>2. SubSeq(h, m + 1, n) \in Seq(EntryType)
  BY <1>1
<1>3. Len(SubSeq(h, m + 1, n)) = n - m
  BY <1>1
<1>4. ASSUME NEW k \in 1 .. n - m PROVE SubSeq(h, m + 1, n)[k] = h[m + k]
  <2>1. SubSeq(h, m + 1, n)[k] = h[(m + 1) + k - 1]
    BY <1>1
  <2>2. (m + 1) + k - 1 = m + k
    OBVIOUS
  <2> QED BY <2>1, <2>2
<1> QED BY <1>2, <1>3, <1>4

\* The pending text holds the entries between what is covered and the split.
Pending(h, s, u, acc, c) ==
  /\ h \in Seq(EntryType) /\ s \in Nat /\ s <= Len(h) /\ u \in Text /\ acc \in Text
  /\ Len(u) >= 2 /\ u \o acc = (Header \o Open) \o SubSeq(h, 1, s) /\ c = Monus(Len(u), 2)

LEMMA PendingEntries ==
  ASSUME conf \in Configs, NEW h, NEW s, NEW u, NEW acc, NEW c, Pending(h, s, u, acc, c)
  PROVE  c \in Nat /\ c <= s /\ SubSeq(h, c + 1, s) = acc
<1>0. /\ h \in Seq(EntryType) /\ s \in Nat /\ s <= Len(h) /\ u \in Text /\ acc \in Text
      /\ Len(u) >= 2 /\ u \o acc = (Header \o Open) \o SubSeq(h, 1, s) /\ c = Monus(Len(u), 2)
  BY DEF Pending
<1> USE <1>0
<1> DEFINE w == Header \o Open
           hs == SubSeq(h, 1, s)
           b == SubSeq(h, c + 1, s)
<1>1. Len(h) \in Nat /\ hs \in Seq(EntryType) /\ Len(hs) = s /\ \A k \in 1 .. s : hs[k] = h[k]
  OBVIOUS
<1>2. hs \in Text
  BY <1>1, EntriesPlain
<1>3. Header \in Text /\ Open \in Text /\ Len(Header) = 1 /\ Len(Open) = 1
  BY HeadTyped
<1>4. w \in Text /\ Len(w) = 2
  <2>1. w \in Text /\ Len(w) = Len(Header) + Len(Open)
    BY <1>3, TextConcat
  <2> HIDE DEF w
  <2> QED BY <1>3, <2>1
<1> HIDE DEF hs
<1>5. Len(u) <= 2 + s /\ Len(u) \in Nat /\ Len(acc) = 2 + s - Len(u)
  <2>1. u \o acc = (Header \o Open) \o hs
    BY DEF hs
  <2>2. Len(u) <= 2 + Len(hs) /\ Len(u) \in Nat /\ Len(acc) = 2 + Len(hs) - Len(u)
    BY <1>1, <2>1, EntriesCovered
  <2> QED BY <1>1, <2>2
<1>6. c \in Nat /\ c = Len(u) - 2 /\ c <= s /\ Len(acc) = s - c
  BY <1>5 DEF Monus
<1>7. b \in Seq(EntryType) /\ Len(b) = s - c /\ \A k \in 1 .. s - c : b[k] = h[c + k]
  <2>1. h \in Seq(EntryType) /\ c \in Nat /\ s \in Nat /\ c <= s /\ s <= Len(h)
    BY <1>6
  <2> QED BY ONLY <2>1, EntriesBetween
<1>8. \A k \in 1 .. s - c : acc[k] = h[c + k]
  <2> SUFFICES ASSUME NEW k \in 1 .. s - c PROVE acc[k] = h[c + k]
    OBVIOUS
  <2> HIDE DEF w
  <2>1. (u \o acc)[Len(u) + k] = acc[k]
    <3>1. \A i \in 1 .. Len(acc) : (u \o acc)[Len(u) + i] = acc[i]
      BY ONLY u \in Text, acc \in Text, TextConcat
    <3>2. k \in 1 .. Len(acc)
      BY <1>6
    <3> QED BY ONLY <3>1, <3>2
  <2>2. c + k \in 1 .. Len(hs) /\ Len(w) + (c + k) = Len(u) + k /\ c + k \in 1 .. s
    <3>1. Len(hs) = s /\ Len(w) = 2 /\ Len(u) \in Nat /\ c = Len(u) - 2 /\ c \in Nat /\ s \in Nat /\ k \in 1 .. s - c
      BY <1>1, <1>4, <1>5, <1>6
    <3> QED BY ONLY <3>1
  <2>3. (w \o hs)[Len(w) + (c + k)] = hs[c + k]
    BY <1>2, <1>4, <2>2, TextConcat
  <2>4. u \o acc = w \o hs
    BY DEF w, hs
  <2> QED BY <1>1, <2>1, <2>2, <2>3, <2>4
<1>9. b = acc
  <2> HIDE DEF b
  <2>1. b \in Text
    BY <1>7, EntriesPlain
  <2>2. Len(b) = Len(acc) /\ \A k \in 1 .. Len(b) : b[k] = acc[k]
    BY <1>6, <1>7, <1>8
  <2> QED BY ONLY acc \in Text, <2>1, <2>2 DEF Text
<1> QED BY <1>6, <1>9

LEMMA ShapeBounded ==
  ASSUME NEW h \in Seq(EntryType), conf \in Configs, conf.stride > 0, conf.tiers > 0,
         NEW R, NEW out, NEW acc, NEW tail, NEW s,
         Rendered(R, h, out, acc, tail, s), NEW r, r = BuildRequest(R),
         NEW a \in Nat, Shape(r, a, R.prefixText, out, R.text),
         NEW c, c = EntryCount(TextUpTo(r, LastBreakpoint(r)))
  PROVE  SizeOf(SubSeq(h, c + 1, Len(h))) < Bound
<1> DEFINE pre == R.prefixText
           o == Len(out)
           hs == SubSeq(h, 1, s)
           rest == SubSeq(h, s + 1, Len(h))
           q == FlattenSeq(out)
<1>1. /\ pre = (IF conf.attach = 0 THEN <<>> ELSE Header)
      /\ out \in Seq(Text) /\ acc \in Text
      /\ s \in Nat /\ s <= ImmutableCount(h) /\ ImmutableCount(h) - s <= conf.stride - 1
      /\ (pre \o q) \o acc = (Header \o Open) \o hs
      /\ (out # <<>> => Len(pre \o q) >= 2)
      /\ SizeOf(acc) < MinChars
  BY DEF Rendered
<1>2. o \in Nat
  BY <1>1
<1>3. /\ \A k \in Breakpoints(r) : /\ k \in a .. a + o /\ (pre = <<>> => k # a)
                                   /\ TextUpTo(r, k) = pre \o FlattenSeq(SubSeq(out, 1, k - a))
      /\ \A k \in a + 1 .. a + o : k \in Breakpoints(r)
  BY DEF Shape
<1>4. Header \in Text /\ Open \in Text /\ pre \in Text
  <2>1. Header \in Text /\ Open \in Text
    BY HeadTyped
  <2>2. <<>> \in Text
    BY DEF Text
  <2> QED BY <1>1, <2>1, <2>2
<1>5. Len(h) \in Nat /\ s <= Len(h)
  <2>1. ImmutableCount(h) \in Nat /\ ImmutableCount(h) <= Len(h) /\ Len(h) \in Nat
    BY ImmutableTyped
  <2> QED BY <1>1, <2>1
<1>6. hs \in Seq(EntryType) /\ rest \in Seq(EntryType) /\ Len(hs) = s
  BY <1>1, <1>5
<1>7. hs \in Text /\ rest \in Text /\ q \in Text
  BY <1>1, <1>6, EntriesPlain, FlattenTyped DEF Text
<1>8. SizeOf(rest) <= (Window + conf.stride - 1) * Largest
  BY <1>1, AfterSplit
<1>9. c \in Nat /\ c <= s /\ SubSeq(h, c + 1, s) \in Text /\ SizeOf(SubSeq(h, c + 1, s)) <= SizeOf(acc)
  <2> HIDE DEF pre, o, q
  <2>1. CASE out # <<>>
    <3> DEFINE K == a + o
               u == pre \o q
    <3>1. K \in Breakpoints(r) /\ \A l \in Breakpoints(r) : l <= K
      <4>1. o > 0
        BY <1>1, <1>2, <2>1 DEF o
      <4>2. K \in a + 1 .. a + o
        BY <1>2, <4>1
      <4> QED BY <1>2, <1>3, <4>2
    <3>2. LastBreakpoint(r) = K
      <4> DEFINE P(k) == k \in Breakpoints(r) /\ \A l \in Breakpoints(r) : l <= k
                 L == CHOOSE k \in Breakpoints(r) : \A l \in Breakpoints(r) : l <= k
      <4>1. LastBreakpoint(r) = L
        BY <3>1 DEF LastBreakpoint
      <4>2. L \in Breakpoints(r) /\ \A l \in Breakpoints(r) : l <= L
        BY <3>1
      <4> HIDE DEF L
      <4>3. L \in Nat /\ K \in Nat /\ L <= K /\ K <= L
        <5>1. L \in a .. a + o
          BY <1>3, <4>2
        <5> QED BY <1>2, <3>1, <4>2, <5>1
      <4> QED BY <4>1, <4>3
    <3>3. TextUpTo(r, K) = u
      <4>1. K - a = o
        BY <1>2
      <4>2. TextUpTo(r, K) = pre \o FlattenSeq(SubSeq(out, 1, o))
        BY <1>3, <3>1, <4>1
      <4>3. SubSeq(out, 1, o) = out
        BY <1>1 DEF o
      <4> QED BY <4>2, <4>3 DEF q
    <3>4. u \in Text
      BY <1>4, <1>7, TextConcat
    <3> HIDE DEF K, u
    <3>5. u \o acc = (Header \o Open) \o hs /\ Len(u) >= 2
      BY <1>1, <2>1 DEF u
    <3>6. c = Monus(Len(u), 2)
      <4>1. EntryCount(u) = Monus(Len(u), 2)
        BY <1>1, <1>6, <3>4, <3>5, EntriesCovered
      <4>2. TextUpTo(r, LastBreakpoint(r)) = u
        BY <3>2, <3>3
      <4>3. c = EntryCount(TextUpTo(r, LastBreakpoint(r)))
        OBVIOUS
      <4> QED BY ONLY <4>1, <4>2, <4>3
    <3>7. c \in Nat /\ c <= s /\ SubSeq(h, c + 1, s) = acc
      <4>1. Pending(h, s, u, acc, c)
        BY <1>1, <1>5, <3>4, <3>5, <3>6 DEF Pending
      <4> QED BY ONLY <4>1, conf \in Configs, PendingEntries
    <3>8. SizeOf(acc) \in Nat /\ acc \in Text
      BY <1>1, SizeTyped
    <3>9. SizeOf(acc) <= SizeOf(acc)
      BY ONLY <3>8
    <3> QED BY ONLY <3>7, <3>8, <3>9
  <2>2. CASE out = <<>>
    <3>1. o = 0 /\ q = <<>>
      BY <2>2, FlattenEmpty DEF o, q
    <3>2. c = 0
      <4>1. CASE Breakpoints(r) = {}
        <5>1. LastBreakpoint(r) = 0
          BY <4>1 DEF LastBreakpoint
        <5> DEFINE e == [j \in 1 .. 0 |-> IF IsFile(r.blocks[j]) THEN <<>> ELSE r.blocks[j].text]
        <5>2. e = <<>>
          OBVIOUS
        <5>3. TextUpTo(r, 0) = FlattenSeq(e)
          BY DEF TextUpTo
        <5>4. TextUpTo(r, 0) = <<>>
          BY <5>2, <5>3, FlattenEmpty
        <5>5. EntryCount(<<>>) = 0
          <6>1. {k \in DOMAIN <<>> : <<>>[k].form \in EntryForms} = {}
            OBVIOUS
          <6> QED BY <6>1, FS_EmptySet DEF EntryCount
        <5> QED BY <5>1, <5>4, <5>5
      <4>2. CASE Breakpoints(r) # {}
        <5>1. Breakpoints(r) = {a}
          BY <1>3, <3>1, <4>2
        <5>2. LastBreakpoint(r) = a
          <6> DEFINE L == CHOOSE k \in Breakpoints(r) : \A l \in Breakpoints(r) : l <= k
          <6>1. a \in Breakpoints(r) /\ \A l \in Breakpoints(r) : l <= a
            BY <5>1
          <6>2. L \in Breakpoints(r)
            BY <6>1
          <6> HIDE DEF L
          <6> QED BY <4>2, <5>1, <6>2 DEF LastBreakpoint, L
        <5>3. pre = Header
          BY <1>1, <1>3, <5>1
        <5>4. TextUpTo(r, a) = Header
          <6>1. TextUpTo(r, a) = pre \o FlattenSeq(SubSeq(out, 1, a - a))
            BY <1>3, <5>1
          <6>2. SubSeq(out, 1, a - a) = <<>>
            BY <2>2
          <6>3. Header \o <<>> = Header
            BY <1>4, ConcatEmptySeq DEF Text
          <6> QED BY <5>3, <6>1, <6>2, <6>3, FlattenEmpty
        <5>5. EntryCount(Header) = 0
          <6> DEFINE v == Open \o hs
          <6>1. v \in Text
            BY <1>4, <1>7, TextConcat
          <6>2. Header \o v = (Header \o Open) \o hs
            <7> HIDE DEF hs
            <7>1. Header \in Text /\ Open \in Text /\ hs \in Text
              BY <1>4, <1>7
            <7> QED BY ONLY <7>1, TextAssociative DEF v
          <6> HIDE DEF v
          <6>3. EntryCount(Header) = Monus(Len(Header), 2)
            BY <1>4, <1>6, <6>1, <6>2, EntriesCovered
          <6>4. Len(Header) = 1
            BY HeadTyped
          <6> QED BY <6>3, <6>4 DEF Monus
        <5> QED BY <5>2, <5>4, <5>5
      <4> QED BY <4>1, <4>2
    <3>3. SizeOf(hs) <= SizeOf(acc)
      <4>1. pre \o <<>> = pre
        BY <1>4, ConcatEmptySeq DEF Text
      <4>2. pre \o acc = (Header \o Open) \o hs
        BY <1>1, <3>1, <4>1
      <4>3. Header \o Open \in Text
        BY <1>4, TextConcat
      <4>4. SizeOf(pre \o acc) = SizeOf(pre) + SizeOf(acc) /\ SizeOf(Header \o Open) = SizeOf(Header) + SizeOf(Open)
        BY <1>1, <1>4, SizeConcat
      <4>5. SizeOf((Header \o Open) \o hs) = SizeOf(Header \o Open) + SizeOf(hs)
        BY <1>7, <4>3, SizeConcat
      <4>6. SizeOf(pre) \in Nat /\ SizeOf(acc) \in Nat /\ SizeOf(Header) \in Nat /\ SizeOf(Open) \in Nat /\ SizeOf(hs) \in Nat
        BY <1>1, <1>4, <1>7, SizeTyped
      <4>7. SizeOf(pre) <= SizeOf(Header)
        <5>1. CASE pre = Header
          BY <4>6, <5>1
        <5>2. CASE pre = <<>>
          <6>1. <<>> \in Text /\ Len(<<>>) = 0
            BY DEF Text
          <6>2. PICK f : Sizes(f, <<>>)
            BY <6>1, SizeRecursion
          <6>3. SizeOf(<<>>) = 0
            BY <6>1, <6>2 DEF Sizes
          <6> QED BY <4>6, <5>2, <6>3
        <5> QED BY <1>1, <5>1, <5>2
      <4>8. SizeOf(pre) + SizeOf(acc) = SizeOf(Header) + SizeOf(Open) + SizeOf(hs)
        BY <4>2, <4>4, <4>5
      <4> QED BY ONLY <4>6, <4>7, <4>8
    <3>4. SubSeq(h, c + 1, s) = hs
      BY <3>2
    <3> QED BY <1>1, <1>7, <3>2, <3>3, <3>4
  <2> QED BY <2>1, <2>2
<1>10. SubSeq(h, c + 1, Len(h)) = SubSeq(h, c + 1, s) \o rest
  <2>1. c + 1 \in 1 .. Len(h) + 1 /\ s \in (c + 1) - 1 .. Len(h) /\ Len(h) \in s .. Len(h)
    BY <1>1, <1>5, <1>9
  <2> QED BY <2>1, ConcatAdjacentSubSeq
<1> DEFINE x == SubSeq(h, c + 1, s)
<1>11. x \in Text /\ SizeOf(x) <= SizeOf(acc)
  BY <1>9
<1> HIDE DEF x, rest
<1>12. SizeOf(x \o rest) = SizeOf(x) + SizeOf(rest)
  BY <1>7, <1>11, SizeConcat
<1>13. SizeOf(x) \in Nat /\ SizeOf(rest) \in Nat /\ SizeOf(acc) \in Nat /\ MinChars \in Nat
  BY <1>1, <1>7, <1>11, SizeTyped, SizesAssumption
<1> DEFINE y == (Window + conf.stride - 1) * Largest
<1>14. y \in Int
  <2>1. Window \in Nat /\ conf.stride \in Nat /\ Largest \in Nat
    BY HeadTyped, SizesAssumption, LargestIs
  <2> QED BY <2>1
<1> HIDE DEF y
<1>15. SizeOf(x) + SizeOf(rest) < MinChars + y
  <2>1. SizeOf(rest) <= y /\ SizeOf(acc) < MinChars
    BY <1>1, <1>8 DEF y
  <2> QED BY ONLY <1>11, <1>13, <1>14, <2>1
<1> QED BY <1>10, <1>12, <1>15 DEF x, y, Bound

BoundedInv ==
  /\ RequestInv
  /\ request # NoRequest /\ conf.stride > 0 /\ conf.tiers > 0 =>
       SizeOf(SubSeq(seen, EntryCount(TextUpTo(request, LastBreakpoint(request))) + 1, Len(seen))) < Bound

LEMMA BoundedStep ==
  ASSUME BoundedInv, [Next]_vars
  PROVE  BoundedInv'
<1> DEFINE Uncached(r, h) == SizeOf(SubSeq(h, EntryCount(TextUpTo(r, LastBreakpoint(r))) + 1, Len(h)))
<1>1. RequestInv /\ RequestInv'
  BY RequestStep DEF BoundedInv
<1>2. conf' = conf
  BY DEF vars, Next, Edit, PinnedChanges, FileChanges, AlertPushed, HeadItemChanges, TriggerCompaction, RunTurn, HistoryRemove,
     ReplaceWithDescription, HistoryAdd, Commit, CommitAndCompact, Raise, CompactDone, CompactRaises, Record
<1>3. ASSUME request' # NoRequest, conf.stride > 0, conf.tiers > 0
      PROVE  Uncached(request', seen') < Bound
  <2>1. CASE RunTurn
    <3> DEFINE R == RenderContext(hist, made)
               r == BuildRequest(R)
               c == EntryCount(TextUpTo(r, LastBreakpoint(r)))
    <3>1. request' = r /\ seen' = hist
      BY <2>1 DEF RunTurn
    <3>2. hist \in Seq(EntryType) /\ conf \in Configs /\ view \in BOOLEAN /\ files \in Nat /\ made \in Nat
      BY <1>1 DEF RequestInv, FrozenInv
    <3>3. R = RenderContext(hist, made) /\ r = BuildRequest(R)
      OBVIOUS
    <3> HIDE DEF R, r
    <3>4. PICK out, acc, tail, s, a : a \in Nat /\ Rendered(R, hist, out, acc, tail, s) /\ Shape(r, a, R.prefixText, out, R.text)
      BY <3>2, <3>3, RequestShape
    <3>5. c = EntryCount(TextUpTo(r, LastBreakpoint(r)))
      OBVIOUS
    <3> HIDE DEF c
    <3>6. SizeOf(SubSeq(hist, c + 1, Len(hist))) < Bound
      BY <1>3, <3>2, <3>3, <3>4, <3>5, ShapeBounded
    <3> QED BY <3>1, <3>5, <3>6
  <2>2. CASE ~ RunTurn
    <3>1. request' = request /\ seen' = seen
      BY <2>2 DEF vars, Next, Edit, PinnedChanges, FileChanges, AlertPushed, HeadItemChanges, TriggerCompaction, HistoryRemove,
         ReplaceWithDescription, HistoryAdd, Commit, CommitAndCompact, Raise, CompactDone, CompactRaises, Record
    <3>2. Uncached(request, seen) < Bound
      BY <1>3, <3>1 DEF BoundedInv
    <3> HIDE DEF Uncached
    <3> QED BY <3>1, <3>2
  <2> QED BY <2>1, <2>2
<1>4. (SizeOf(SubSeq(seen, EntryCount(TextUpTo(request, LastBreakpoint(request))) + 1, Len(seen))))'
        = Uncached(request', seen')
  BY DEF SizeOf, EntryCount, TextUpTo, LastBreakpoint, Breakpoints, IsFile
<1>5. Bound' = Bound
  BY <1>2 DEF Bound
<1>6. NoRequest' = NoRequest
  BY DEF NoRequest
<1> HIDE DEF Uncached
<1> QED BY <1>1, <1>2, <1>3, <1>4, <1>5, <1>6 DEF BoundedInv

\* What a request sends uncached stays below what a breakpoint is worth and the
\* largest the window and one stride can be: however long the history has grown,
\* whatever the tiers, the attachments and the sizes of the entries, merging
\* small segments never leaves more than that behind the last breakpoint.
THEOREM UncachedKept == Spec => []UncachedBounded
<1>1. Init => BoundedInv
  <2> SUFFICES ASSUME Init PROVE BoundedInv
    OBVIOUS
  <2>1. RequestInv
    BY RequestInitially
  <2>2. request = NoRequest
    BY DEF Init
  <2> QED BY <2>1, <2>2 DEF BoundedInv
<1>2. BoundedInv /\ [Next]_vars => BoundedInv'
  BY BoundedStep
<1>3. BoundedInv => UncachedBounded
  BY DEF BoundedInv, UncachedBounded, LastBreakpoint, Bound
<1> QED BY <1>1, <1>2, <1>3, PTL DEF Spec

-----------------------------------------------------------------------------
(***************************************************************************)
(* Two requests, the later of a history that has grown.                    *)
(***************************************************************************)

\* A tier that has not advanced keeps the colder ones where they are.
SameTier(m, n, a) == m \div a = n \div a

LEMMA DivSame ==
  ASSUME NEW m \in Nat, NEW n \in Nat, NEW a \in Nat \ {0}, NEW b \in Nat \ {0}, SameTier(m, n, a)
  PROVE  SameTier(m, n, a * b)
<1> DEFINE d == m \div a
           p == m \div (a * b)
           q == n \div (a * b)
<1>1. a * b \in Nat \ {0}
  OBVIOUS
<1>2. /\ p \in Nat /\ p * (a * b) <= m /\ \A k \in Nat : k * (a * b) <= m => k <= p
      /\ q \in Nat /\ q * (a * b) <= n /\ \A k \in Nat : k * (a * b) <= n => k <= q
  BY <1>1, DivDown
<1>3. /\ d \in Nat /\ d * a <= m /\ d * a <= n
      /\ \A k \in Nat : (k * a <= m => k <= d) /\ (k * a <= n => k <= d)
  <2>1. m \div a \in Nat /\ (m \div a) * a <= m /\ \A k \in Nat : k * a <= m => k <= m \div a
    BY DivDown
  <2>2. (n \div a) * a <= n /\ \A k \in Nat : k * a <= n => k <= n \div a
    BY DivDown
  <2> QED BY <2>1, <2>2 DEF SameTier
<1> HIDE DEF d, p, q
<1>4. ASSUME NEW x \in Nat, NEW k \in Nat, k * (a * b) <= x, \A l \in Nat : l * a <= x => l <= d
      PROVE  k * (a * b) <= d * a
  <2>1. k * b \in Nat /\ (k * b) * a = k * (a * b)
    OBVIOUS
  <2>2. k * b <= d
    BY <1>4, <2>1
  <2>3. (k * b) * a <= d * a
    BY <1>3, <2>1, <2>2
  <2> QED BY <2>1, <2>3
<1>5. p * (a * b) <= d * a /\ q * (a * b) <= d * a
  BY <1>2, <1>3, <1>4
<1>6. p * (a * b) \in Nat /\ q * (a * b) \in Nat /\ d * a \in Nat
  BY <1>1, <1>2, <1>3
<1>7. p * (a * b) <= n /\ q * (a * b) <= m
  <2> DEFINE x == p * (a * b)
             y == q * (a * b)
             z == d * a
  <2>1. x \in Nat /\ y \in Nat /\ z \in Nat /\ x <= z /\ y <= z /\ z <= m /\ z <= n
    BY <1>3, <1>5, <1>6
  <2> HIDE DEF x, y, z
  <2>2. x <= n /\ y <= m
    BY <2>1
  <2> QED BY <2>2 DEF x, y
<1>8. p <= q /\ q <= p
  BY <1>2, <1>7
<1>9. p = q
  BY <1>2, <1>8
<1> QED BY <1>9 DEF p, q, SameTier

LEMMA SplitsSame ==
  ASSUME NEW h \in Seq(EntryType), NEW w \in Seq(EntryType), NEW s \in Nat \ {0}, NEW t \in Nat \ {0},
         NEW i \in 1 .. t, ImmutableCount(h) \div Pow(s, t - i + 1) = ImmutableCount(w) \div Pow(s, t - i + 1)
  PROVE  \A l \in 1 .. i : CacheSplits(h, s, t)[l] = CacheSplits(w, s, t)[l]
<1> DEFINE m == ImmutableCount(h)
           n == ImmutableCount(w)
           A(l) == Pow(s, t - l + 1)
           M == {d \in Nat : d < i => m \div A(i - d) = n \div A(i - d)}
<1>1. m \in Nat /\ n \in Nat
  BY ImmutableTyped
<1>2. /\ CacheSplits(h, s, t) = [l \in 1 .. t |-> (m \div A(l)) * A(l)]
      /\ CacheSplits(w, s, t) = [l \in 1 .. t |-> (n \div A(l)) * A(l)]
  BY DEF CacheSplits
<1> HIDE DEF m, n
<1>3. 0 \in M
  <2>1. m \div A(i) = n \div A(i)
    BY DEF m, n
  <2>2. i - 0 = i
    OBVIOUS
  <2> HIDE DEF A
  <2> QED BY <2>1, <2>2
<1>4. ASSUME NEW d \in Nat, d \in M PROVE d + 1 \in M
  <2> SUFFICES ASSUME d + 1 < i PROVE m \div A(i - (d + 1)) = n \div A(i - (d + 1))
    OBVIOUS
  <2> DEFINE l == i - d
             e == t - l + 1
             a == Pow(s, e)
  <2>1. l \in 1 .. t /\ l - 1 = i - (d + 1) /\ d < i /\ e \in Nat /\ t - (l - 1) + 1 = e + 1
    OBVIOUS
  <2>2. m \div A(l) = n \div A(l)
    BY <1>4, <2>1
  <2>3. A(l) = a
    OBVIOUS
  <2> HIDE DEF e, l
  <2>4. a \in Nat \ {0} /\ Pow(s, e + 1) = a * s
    BY <2>1, PowNext
  <2>5. A(l - 1) = a * s
    BY <2>1, <2>4
  <2> HIDE DEF a, A
  <2>6. m \div (a * s) = n \div (a * s)
    <3>1. m \in Nat /\ n \in Nat /\ a \in Nat \ {0} /\ s \in Nat \ {0} /\ SameTier(m, n, a)
      BY <1>1, <2>2, <2>3, <2>4 DEF SameTier
    <3>2. SameTier(m, n, a * s)
      BY ONLY <3>1, DivSame
    <3> QED BY <3>2 DEF SameTier
  <2> QED BY <2>1, <2>5, <2>6
<1> HIDE DEF M
<1>5. Nat \subseteq M
  BY <1>3, <1>4, SetInduction
<1>6. ASSUME NEW l \in 1 .. i PROVE m \div A(l) = n \div A(l)
  <2>1. i - l \in Nat /\ i - l < i /\ i - (i - l) = l
    OBVIOUS
  <2> DEFINE d == i - l
  <2>2. d \in M /\ d < i /\ i - d = l
    BY <1>5, <2>1
  <2> HIDE DEF d, A
  <2> QED BY <2>2 DEF M
<1>7. \A l \in 1 .. i : l \in 1 .. t
  OBVIOUS
<1> HIDE DEF A
<1> QED BY <1>2, <1>6, <1>7

\* What both histories hold
LEMMA SameEntries ==
  ASSUME NEW h \in Seq(EntryType), NEW w \in Seq(EntryType), IsPrefix(h, w),
         NEW a \in Nat, NEW b \in Nat, b <= Len(h)
  PROVE  SubSeq(h, a + 1, b) = SubSeq(w, a + 1, b)
<1>1. Len(h) \in Nat /\ Len(w) \in Nat /\ Len(h) <= Len(w) /\ SubSeq(h, 1, Len(h)) = SubSeq(w, 1, Len(h))
  BY DEF IsPrefix
<1>2. ASSUME NEW k \in 1 .. Len(h) PROVE h[k] = w[k]
  <2>1. SubSeq(h, 1, Len(h))[k] = h[k]
    BY <1>1
  <2>2. SubSeq(w, 1, Len(h))[k] = w[k]
    BY <1>1
  <2> QED BY <1>1, <2>1, <2>2
<1>3. CASE a <= b
  <2> DEFINE x == SubSeq(h, a + 1, b)
             y == SubSeq(w, a + 1, b)
  <2>1. x \in Seq(EntryType) /\ Len(x) = b - a /\ \A k \in 1 .. b - a : x[k] = h[a + k]
    BY <1>3, EntriesBetween
  <2>2. y \in Seq(EntryType) /\ Len(y) = b - a /\ \A k \in 1 .. b - a : y[k] = w[a + k]
    <3>1. b <= Len(w)
      BY <1>1
    <3> QED BY <1>3, <3>1, EntriesBetween
  <2> HIDE DEF x, y
  <2>3. \A k \in 1 .. b - a : a + k \in 1 .. Len(h)
    BY <1>1, <1>3
  <2>4. \A k \in 1 .. b - a : x[k] = y[k]
    BY <1>2, <2>1, <2>2, <2>3
  <2>5. x = y
    BY <2>1, <2>2, <2>4
  <2> QED BY <2>5 DEF x, y
<1>4. CASE a > b
  <2>1. SubSeq(h, a + 1, b) = <<>> /\ SubSeq(w, a + 1, b) = <<>>
    BY <1>4
  <2> QED BY <2>1
<1> QED BY <1>3, <1>4

LEMMA SegmentsSame ==
  ASSUME NEW h \in Seq(EntryType), NEW w \in Seq(EntryType), IsPrefix(h, w),
         NEW sp, NEW sq, Splits(sp, ImmutableCount(h)), Splits(sq, ImmutableCount(w)),
         NEW i \in 1 .. Len(sp), i <= Len(sq), \A l \in 1 .. i : sp[l] = sq[l]
  PROVE  \A l \in 1 .. i : Segments(h, sp)[l] = Segments(w, sq)[l]
<1>1. /\ DOMAIN sp = 1 .. Len(sp) /\ DOMAIN sq = 1 .. Len(sq)
      /\ Len(sp) \in Nat /\ Len(sq) \in Nat
      /\ \A l \in 1 .. Len(sp) : sp[l] \in Nat /\ sp[l] <= ImmutableCount(h)
  BY DEF Splits
<1>2. ImmutableCount(h) \in Nat /\ ImmutableCount(h) <= Len(h) /\ Len(h) \in Nat
  BY ImmutableTyped
<1>3. ASSUME NEW l \in 1 .. i PROVE Segments(h, sp)[l] = Segments(w, sq)[l]
  <2>1. l \in 1 .. Len(sp) /\ l \in 1 .. Len(sq) /\ l \in Nat
    BY <1>1
  <2>2. l \in DOMAIN sp /\ l \in DOMAIN sq
    BY <1>1, <2>1
  <2>3. sp[l] = sq[l] /\ sp[l] \in Nat /\ sp[l] <= Len(h)
    BY <1>1, <1>2, <2>1
  <2>4. CASE l = 1
    <3>0. sp[1] = sq[1] /\ sp[1] \in Nat /\ sp[1] <= Len(h)
      BY <2>3, <2>4
    <3>1. SubSeq(h, 0 + 1, sp[1]) = SubSeq(w, 0 + 1, sp[1])
      BY ONLY <3>0, SameEntries, 0 \in Nat, h \in Seq(EntryType), w \in Seq(EntryType),
              IsPrefix(h, w)
    <3>2. SubSeq(h, 1, sp[1]) = SubSeq(w, 1, sq[1])
      <4>1. 0 + 1 = 1
        OBVIOUS
      <4> QED BY <3>0, <3>1, <4>1, Zenon
    <3>3. 1 \in DOMAIN sp /\ 1 \in DOMAIN sq
      BY <2>2, <2>4
    <3> DEFINE front == IF conf.attach = 0 THEN Header \o Open ELSE Open
    <3>4. Segments(h, sp)[1] = front \o SubSeq(h, 1, sp[1])
      BY <3>3 DEF Segments
    <3>5. Segments(w, sq)[1] = front \o SubSeq(w, 1, sq[1])
      BY <3>3 DEF Segments
    <3> HIDE DEF front
    <3> QED BY <2>4, <3>2, <3>4, <3>5
  <2>5. CASE l # 1
    <3>1. l - 1 \in 1 .. i /\ l - 1 \in 1 .. Len(sp)
      BY <1>1, <2>1, <2>5
    <3>2. sp[l - 1] = sq[l - 1] /\ sp[l - 1] \in Nat
      BY <1>1, <3>1
    <3>3. SubSeq(h, sp[l - 1] + 1, sp[l]) = SubSeq(w, sp[l - 1] + 1, sp[l])
      BY <2>3, <3>2, SameEntries
    <3>4. SubSeq(h, sp[l - 1] + 1, sp[l]) = SubSeq(w, sq[l - 1] + 1, sq[l])
      BY <2>3, <3>2, <3>3
    <3> QED BY <2>2, <2>5, <3>4 DEF Segments
  <2> QED BY <2>4, <2>5
<1> QED BY <1>3

\* Equal segments are merged alike.
LEMMA MergedSame ==
  ASSUME NEW segs, NEW tegs, NEW f, NEW e, NEW g, NEW k, NEW boost, NEW c,
         Merging(g, segs, f, boost, c), Merging(k, tegs, e, boost, c),
         Len(segs) \in Nat, Len(tegs) \in Nat,
         NEW i \in 1 .. Len(segs), i <= Len(tegs), \A l \in 1 .. i : segs[l] = tegs[l]
  PROVE  g[i] = k[i]
<1>1. g[0] = k[0]
  BY DEF Merging
<1>2. ASSUME NEW l \in 1 .. i, g[l - 1] = k[l - 1] PROVE g[l] = k[l]
  <2>1. l \in 1 .. Len(segs) /\ l \in 1 .. Len(tegs)
    OBVIOUS
  <2>2. g[l] = MergeSegment(g[l - 1], segs[l]) /\ k[l] = MergeSegment(k[l - 1], tegs[l])
    BY <2>1 DEF Merging
  <2> QED BY <1>2, <2>2
<1>3. Alike(g, k, i)
  BY <1>1, <1>2 DEF Alike
<1>4. i \in Nat /\ i \in 0 .. i
  OBVIOUS
<1> QED BY <1>3, <1>4, SameRecursion

\* What becomes of a merged beginning when more is merged: its segments stay, and
\* the next one to come out reaches beyond it.  x is its text and t what followed.
Later(a, b, x, t) ==
  /\ a \in MergeType /\ b \in MergeType /\ x \in Text /\ t \in Text
  /\ Len(a.out) <= Len(b.out) /\ \A l \in 1 .. Len(a.out) : b.out[l] = a.out[l]
  /\ IF Len(b.out) = Len(a.out) THEN b.effective = a.effective + SizeOf(t)
     ELSE Len(FlattenSeq(SubSeq(b.out, 1, Len(a.out) + 1))) > Len(x)

LEMMA SizeNothing == <<>> \in Text /\ SizeOf(<<>>) = 0
<1>1. <<>> \in Text /\ Len(<<>>) = 0
  BY DEF Text
<1>2. PICK g : Sizes(g, <<>>)
  BY <1>1, SizeRecursion
<1> QED BY <1>1, <1>2 DEF Sizes

LEMMA OutAppended ==
  ASSUME NEW o \in Seq(Text), NEW z \in Text, NEW p, p = Append(o, z)
  PROVE  /\ p \in Seq(Text) /\ Len(o) \in Nat /\ Len(p) = Len(o) + 1
         /\ \A l \in 1 .. Len(o) : p[l] = o[l]
         /\ SubSeq(p, 1, Len(p)) = p
         /\ \A l \in 0 .. Len(o) : SubSeq(p, 1, l) = SubSeq(o, 1, l)
<1>1. p \in Seq(Text) /\ Len(o) \in Nat /\ Len(p) = Len(o) + 1 /\ \A l \in 1 .. Len(o) : p[l] = o[l]
  OBVIOUS
<1>2. SubSeq(p, 1, Len(p)) = p
  BY <1>1
<1>3. ASSUME NEW l \in 0 .. Len(o) PROVE SubSeq(p, 1, l) = SubSeq(o, 1, l)
  <2> DEFINE x == SubSeq(p, 1, l)
             y == SubSeq(o, 1, l)
  <2>1. x \in Seq(Text) /\ Len(x) = l /\ \A k \in 1 .. l : x[k] = p[k]
    BY <1>1
  <2>2. y \in Seq(Text) /\ Len(y) = l /\ \A k \in 1 .. l : y[k] = o[k]
    BY <1>1
  <2>3. \A k \in 1 .. l : k \in 1 .. Len(o)
    BY <1>1
  <2> HIDE DEF x, y
  <2>4. \A k \in 1 .. l : x[k] = y[k]
    BY <1>1, <2>1, <2>2, <2>3
  <2>5. x = y
    BY <2>1, <2>2, <2>4
  <2> QED BY <2>5 DEF x, y
<1> QED BY <1>1, <1>2, <1>3

LEMMA LaterStep ==
  ASSUME NEW a, NEW b, NEW x, NEW t, Later(a, b, x, t), a.effective < MinChars,
         NEW seg \in Text, NEW d, d = MergeSegment(b, seg),
         FlattenSeq(d.out) \o d.acc = x \o (t \o seg)
  PROVE  Later(a, d, x, t \o seg)
<1> DEFINE u == t \o seg
           y == b.acc \o seg
           e == b.effective + SizeOf(seg)
           m == Len(a.out)
           n == Len(b.out)
<1>1. /\ a \in MergeType /\ b \in MergeType /\ x \in Text /\ t \in Text
      /\ m <= n /\ (\A l \in 1 .. m : b.out[l] = a.out[l])
      /\ (n = m => b.effective = a.effective + SizeOf(t))
      /\ (n # m => Len(FlattenSeq(SubSeq(b.out, 1, m + 1))) > Len(x))
  BY DEF Later
<1>2. u \in Text /\ SizeOf(u) = SizeOf(t) + SizeOf(seg) /\ SizeOf(t) \in Nat /\ SizeOf(seg) \in Nat
  BY <1>1, TextConcat, SizeConcat, SizeTyped
<1>3. d \in MergeType
  BY <1>1, MergeTyped
<1>4. /\ a.out \in Seq(Text) /\ b.out \in Seq(Text) /\ b.acc \in Text
      /\ a.effective \in Nat /\ b.effective \in Nat /\ m \in Nat /\ n \in Nat
  BY <1>1 DEF MergeType
<1>5. /\ e >= MinChars => d.out = Append(b.out, y) /\ d.acc = <<>>
      /\ ~(e >= MinChars) => d.out = b.out /\ d.effective = e
  BY DEF MergeSegment
<1>6. MinChars \in Nat /\ e \in Nat /\ y \in Text
  <2>1. y \in Text
    BY ONLY <1>4, seg \in Text, TextConcat
  <2>2. e \in Nat
    BY ONLY <1>2, <1>4
  <2> QED BY <2>1, <2>2, SizesAssumption
<1>7. CASE ~(e >= MinChars)
  <2>1. d.out = b.out /\ d.effective = e
    BY <1>5, <1>7
  <2>2. n = m => d.effective = a.effective + SizeOf(u)
    <3> HIDE DEF u, m, n
    <3> QED BY <1>1, <1>2, <1>4, <2>1
  <2> HIDE DEF u
  <2>3. /\ m <= Len(d.out) /\ (\A l \in 1 .. m : d.out[l] = a.out[l])
        /\ (Len(d.out) # m => Len(FlattenSeq(SubSeq(d.out, 1, m + 1))) > Len(x))
        /\ (Len(d.out) = m => d.effective = a.effective + SizeOf(u))
    <3>1. n = Len(d.out)
      BY <2>1
    <3> HIDE DEF m, n
    <3>2. m <= Len(d.out) /\ \A l \in 1 .. m : d.out[l] = a.out[l]
      BY <1>1, <2>1, <3>1
    <3>3. Len(d.out) # m => Len(FlattenSeq(SubSeq(d.out, 1, m + 1))) > Len(x)
      BY <1>1, <2>1, <3>1
    <3> QED BY <2>2, <3>1, <3>2, <3>3
  <2> QED BY ONLY <1>1, <1>2, <1>3, <2>3 DEF Later, u
<1>8. CASE e >= MinChars
  <2> DEFINE p == d.out
  <2>1. p = Append(b.out, y) /\ d.acc = <<>>
    BY <1>5, <1>8
  <2> HIDE DEF u, y, e, p
  <2>2. /\ p \in Seq(Text) /\ Len(p) = n + 1 /\ (\A l \in 1 .. n : p[l] = b.out[l])
        /\ SubSeq(p, 1, Len(p)) = p /\ \A l \in 0 .. n : SubSeq(p, 1, l) = SubSeq(b.out, 1, l)
    BY <1>4, <1>6, <2>1, OutAppended
  <2>3. m <= Len(p) /\ \A l \in 1 .. m : p[l] = a.out[l]
    <3>1. \A l \in 1 .. m : l \in 1 .. n
      BY <1>1, <1>4
    <3>2. m <= Len(p)
      BY <1>1, <1>4, <2>2
    <3> QED BY <1>1, <2>2, <3>1, <3>2
  <2>4. Len(p) # m
    BY <1>1, <1>4, <2>2
  <2>5. Len(FlattenSeq(SubSeq(p, 1, m + 1))) > Len(x)
    <3>1. CASE n = m
      <4>1. SubSeq(p, 1, m + 1) = p
        BY <2>2, <3>1
      <4>2. FlattenSeq(p) \in Text
        BY <2>2, FlattenTyped DEF Text
      <4>3. FlattenSeq(p) \o <<>> = FlattenSeq(p)
        BY <4>2, ConcatEmptySeq DEF Text
      <4>4. FlattenSeq(p) = x \o u
        BY <2>1, <4>3 DEF p, u
      <4>5. Len(x \o u) = Len(x) + Len(u) /\ Len(x) \in Nat /\ Len(u) \in Nat
        BY <1>1, <1>2, TextConcat
      <4>6. Len(u) # 0
        <5> SUFFICES ASSUME Len(u) = 0 PROVE FALSE
          OBVIOUS
        <5>1. u = <<>>
          BY <1>2 DEF Text
        <5>2. SizeOf(u) = 0
          BY <5>1, SizeNothing
        <5>3. e = b.effective + SizeOf(seg) /\ b.effective = a.effective + SizeOf(t)
          BY <1>1, <3>1 DEF e
        <5>4. SizeOf(t) = 0 /\ SizeOf(seg) = 0
          BY ONLY <1>2, <5>2
        <5>5. e = a.effective
          BY ONLY <1>4, <5>3, <5>4
        <5>6. a.effective \in Nat /\ MinChars \in Nat /\ a.effective >= MinChars /\ a.effective < MinChars
          BY <1>4, <1>6, <1>8, <5>5
        <5> QED BY ONLY <5>6
      <4> DEFINE lx == Len(x)
                 lu == Len(u)
                 lf == Len(FlattenSeq(SubSeq(p, 1, m + 1)))
      <4>7. lf = lx + lu /\ lx \in Nat /\ lu \in Nat /\ lu # 0
        BY <4>1, <4>4, <4>5, <4>6
      <4> HIDE DEF lx, lu, lf
      <4>8. lf > lx
        BY ONLY <4>7
      <4> QED BY <4>8 DEF lx, lf
    <3>2. CASE n # m
      <4>1. m + 1 \in 0 .. n
        BY <1>1, <1>4, <3>2
      <4> QED BY <1>1, <2>2, <3>2, <4>1
    <3> QED BY <3>1, <3>2
  <2> QED BY <1>1, <1>2, <1>3, <2>3, <2>4, <2>5 DEF Later, p, u
<1> QED BY <1>7, <1>8

LEMMA MergedLater ==
  ASSUME NEW segs \in Seq(Text), NEW f, Flattens(f, segs, PlainType), NEW g, NEW boost, NEW c,
         Merging(g, segs, f, boost, c), NEW i \in 1 .. Len(segs)
  PROVE  \E t : Later(g[i], g[Len(segs)], f[i], t)
<1> DEFINE n == Len(segs)
           After(k, t) == Later(g[i], g[k], f[i], t) /\ f[k] = f[i] \o t
           M == {k \in Nat : i + k <= n => \E t : After(i + k, t)}
<1>1. n \in Nat /\ i \in Nat \ {0} /\ i <= n /\ \A k \in 1 .. n : segs[k] \in Text
  OBVIOUS
<1>2. f \in [0 .. n -> Text] /\ \A k \in 1 .. n : f[k] = f[k - 1] \o segs[k]
  BY DEF Flattens, Text
<1>3. /\ \A k \in 1 .. n : g[k] = MergeSegment(g[k - 1], segs[k])
      /\ \A k \in 0 .. n : MergedTo(g[k], f[k], k, boost, c)
  BY DEF Merging
<1> HIDE DEF n
<1>4. f[i] \in Text /\ g[i] \in MergeType /\ g[i].effective < MinChars
  <2>1. i \in 0 .. n
    BY <1>1
  <2>2. MergedTo(g[i], f[i], i, boost, c) /\ i > 0
    BY <1>1, <1>3, <2>1
  <2> QED BY <1>2, <2>1, <2>2 DEF MergedTo
<1>5. 0 \in M
  <2>1. Later(g[i], g[i], f[i], <<>>)
    <3>1. g[i].effective \in Nat /\ Len(g[i].out) \in Nat
      BY <1>4 DEF MergeType
    <3>2. g[i].effective = g[i].effective + SizeOf(<<>>)
      BY <3>1, SizeNothing
    <3> QED BY <1>4, <3>1, <3>2, SizeNothing DEF Later
  <2>2. f[i] = f[i] \o <<>>
    BY <1>4, ConcatEmptySeq DEF Text
  <2>3. i + 0 = i
    BY <1>1
  <2>4. After(i, <<>>)
    BY <2>1, <2>2
  <2> HIDE DEF After
  <2> QED BY <2>3, <2>4
<1>6. ASSUME NEW m \in Nat, m \in M PROVE m + 1 \in M
  <2> SUFFICES ASSUME i + (m + 1) <= n PROVE \E t : After(i + (m + 1), t)
    OBVIOUS
  <2> DEFINE k == i + (m + 1)
             j == i + m
             seg == segs[k]
  <2>1. k \in 1 .. n /\ k - 1 = j /\ j <= n /\ k \in 0 .. n /\ j \in 0 .. n
    BY <1>1
  <2>2. PICK t : After(j, t)
    BY <1>6, <2>1
  <2>3. Later(g[i], g[j], f[i], t) /\ f[j] = f[i] \o t /\ t \in Text
    BY <2>2 DEF Later
  <2>4. g[k] = MergeSegment(g[j], seg) /\ f[k] = f[j] \o seg /\ seg \in Text
    BY <1>1, <1>2, <1>3, <2>1
  <2>5. FlattenSeq(g[k].out) \o g[k].acc = f[k]
    BY <1>3, <2>1 DEF MergedTo
  <2> HIDE DEF k, j, seg
  <2>6. f[k] = f[i] \o (t \o seg)
    <3>1. f[i] \in Text /\ t \in Text /\ seg \in Text
      BY <1>4, <2>3, <2>4
    <3>2. (f[i] \o t) \o seg = f[i] \o (t \o seg)
      BY ONLY <3>1, TextAssociative
    <3> QED BY <2>3, <2>4, <3>2
  <2>7. Later(g[i], g[k], f[i], t \o seg)
    <3>1. /\ Later(g[i], g[j], f[i], t) /\ g[i].effective < MinChars /\ seg \in Text
          /\ g[k] = MergeSegment(g[j], seg) /\ FlattenSeq(g[k].out) \o g[k].acc = f[i] \o (t \o seg)
      BY <1>4, <2>3, <2>4, <2>5, <2>6
    <3> QED BY ONLY <3>1, LaterStep
  <2>8. After(k, t \o seg)
    BY <2>6, <2>7
  <2> HIDE DEF After
  <2> QED BY <2>8 DEF k
<1> HIDE DEF M
<1>7. Nat \subseteq M
  BY <1>5, <1>6, SetInduction
<1>8. n - i \in Nat /\ i + (n - i) = n
  BY <1>1
<1> DEFINE z == n - i
<1>9. z \in M /\ i + z = n
  BY <1>7, <1>8
<1> HIDE DEF z, After
<1>10. \E t : After(n, t)
  BY <1>1, <1>9 DEF M
<1> QED BY <1>10 DEF n, After
-----------------------------------------------------------------------------
(***************************************************************************)
(* What render_context makes of a history, and the request made of that.   *)
(***************************************************************************)
HeadText == IF conf.attach = 0 THEN <<>> ELSE Header
HeadSize == HeadLen(HeadText, conf.attach)
SplitsOf(h) == CacheSplits(h, conf.stride, Tiers(conf))
SegsOf(h) == Segments(h, SplitsOf(h))
Boost == SizeOf(HeadText) + conf.attach * ImageChars
CachedOf(h) == CachedSegments(SegsOf(h), Boost)

LEMMA HeadTextTyped ==
  ASSUME conf \in Configs
  PROVE  /\ HeadText \in Text /\ Len(HeadText) + Len(Pre) = 2 /\ Len(HeadText) \in Nat /\ Len(Pre) \in Nat
         /\ HeadSize \in Nat /\ Boost \in Nat
         /\ (HeadText = <<>> <=> conf.attach = 0)
<1>1. /\ Header \in Text /\ Open \in Text /\ Len(Header) = 1 /\ Len(Open) = 1
      /\ Pre = (IF conf.attach = 0 THEN Header \o Open ELSE Open) /\ conf.attach \in Nat
  BY HeadTyped
<1>2. <<>> \in Text /\ Len(<<>>) = 0
  BY SizeNothing
<1>3. Header # <<>>
  <2>1. ASSUME Header = <<>> PROVE FALSE
    <3>1. Len(Header) = 0
      BY <2>1, <1>2
    <3> QED BY <1>1, <3>1
  <2> QED BY <2>1
<1>4. HeadText \in Text /\ (HeadText = <<>> <=> conf.attach = 0)
  BY <1>1, <1>2, <1>3 DEF HeadText
<1>5. Len(Header \o Open) = 2
  <2>1. Len(Header \o Open) = Len(Header) + Len(Open)
    BY <1>1, TextConcat
  <2> QED BY <1>1, <2>1
<1>6. Len(HeadText) = (IF conf.attach = 0 THEN 0 ELSE 1) /\ Len(Pre) = (IF conf.attach = 0 THEN 2 ELSE 1)
  BY <1>1, <1>2, <1>5 DEF HeadText
<1>7. HeadSize \in Nat
  BY <1>1 DEF HeadSize, HeadLen
<1>8. Boost \in Nat
  <2>1. SizeOf(HeadText) \in Nat
    BY <1>4, SizeTyped
  <2>2. conf.attach * ImageChars \in Nat
    BY <1>1, SizesAssumption
  <2> QED BY <2>1, <2>2 DEF Boost
<1> QED BY <1>4, <1>6, <1>7, <1>8

\* How the segments of a history are merged
Merges(h, f, g) ==
  /\ UpToSplits(f, SegsOf(h), h, SplitsOf(h)) /\ Merging(g, SegsOf(h), f, Boost, 0)
  /\ SegsOf(h) \in Seq(Text) /\ Len(SegsOf(h)) = Len(SplitsOf(h)) /\ Splits(SplitsOf(h), ImmutableCount(h))
  /\ CachedOf(h) = g[Len(SegsOf(h))].out

LEMMA MergedHistory ==
  ASSUME NEW h \in Seq(EntryType), conf \in Configs
  PROVE  \E f, g : Merges(h, f, g)
<1> DEFINE sp == SplitsOf(h)
           segs == SegsOf(h)
           n == ImmutableCount(h)
<1>1. conf.stride \in Nat /\ Tiers(conf) \in Nat /\ Boost \in Nat
  BY HeadTyped, HeadTextTyped DEF Tiers
<1>2. Splits(sp, n)
  BY <1>1, SplitsSound DEF SplitsOf
<1>3. n \in Nat /\ n <= Len(h)
  BY ImmutableTyped
<1>4. segs = Segments(h, sp)
  BY DEF SegsOf
<1> HIDE DEF sp, segs, n
<1>5. segs \in Seq(Text) /\ Len(segs) = Len(sp) /\ \E f : UpToSplits(f, segs, h, sp)
  BY <1>2, <1>3, <1>4, SegmentsText
<1>6. PICK f : UpToSplits(f, segs, h, sp)
  BY <1>5
<1>7. Flattens(f, segs, PlainType)
  BY <1>6 DEF UpToSplits
<1>8. \A k \in 1 .. Len(segs) : Len(f[k]) >= 0
  <2>1. f \in [0 .. Len(segs) -> Text] /\ Len(segs) \in Nat
    BY <1>5, <1>7 DEF Flattens, Text
  <2> SUFFICES ASSUME NEW k \in 1 .. Len(segs) PROVE Len(f[k]) >= 0
    OBVIOUS
  <2>2. f[k] \in Text
    BY <2>1
  <2> QED BY <2>2 DEF Text
<1>9. PICK g : Merging(g, segs, f, Boost, 0)
  <2>1. 0 \in Nat
    OBVIOUS
  <2> QED BY <1>1, <1>5, <1>7, <1>8, <2>1, MergedEach
<1>10. CachedOf(h) = g[Len(segs)].out
  BY <1>9 DEF CachedOf, CachedSegments, Merging, segs
<1> QED BY <1>2, <1>5, <1>6, <1>9, <1>10 DEF Merges, sp, segs, n
\* The segments that end no later than a split both histories share are the
\* same m in both; the next one reaches beyond it.
KeptUpTo(m, h, w, s) ==
  /\ m \in Nat /\ CachedOf(h) \in Seq(Text) /\ CachedOf(w) \in Seq(Text)
  /\ m <= Len(CachedOf(h)) /\ m <= Len(CachedOf(w))
  /\ \A l \in 1 .. m : CachedOf(h)[l] = CachedOf(w)[l]
  /\ m < Len(CachedOf(h)) => Len(FlattenSeq(SubSeq(CachedOf(h), 1, m + 1))) > Len(Pre) + s

LEMMA SegmentsKept ==
  ASSUME NEW h \in Seq(EntryType), NEW w \in Seq(EntryType), IsPrefix(h, w), conf \in Configs, conf.stride > 0,
         NEW i \in 1 .. Tiers(conf),
         ImmutableCount(h) \div Pow(conf.stride, Tiers(conf) - i + 1)
           = ImmutableCount(w) \div Pow(conf.stride, Tiers(conf) - i + 1)
  PROVE  \E m : KeptUpTo(m, h, w, SplitsOf(h)[i])
<1>1. conf.stride \in Nat \ {0} /\ Tiers(conf) \in Nat \ {0}
  BY HeadTyped DEF Tiers
<1>2. \A l \in 1 .. i : SplitsOf(h)[l] = SplitsOf(w)[l]
  BY <1>1, SplitsSame DEF SplitsOf
<1>3. PICK f, g : Merges(h, f, g)
  BY MergedHistory
<1>4. PICK e, k : Merges(w, e, k)
  BY MergedHistory
<1> DEFINE sp == SplitsOf(h)
           sq == SplitsOf(w)
           segs == SegsOf(h)
           tegs == SegsOf(w)
<1>5. Len(sp) = Tiers(conf) /\ Len(sq) = Tiers(conf)
  <2>1. conf.stride \in Nat /\ Tiers(conf) \in Nat /\ ~ (conf.stride = 0 \/ Tiers(conf) = 0)
    BY <1>1
  <2> DEFINE x == CacheSplits(h, conf.stride, Tiers(conf))
             y == CacheSplits(w, conf.stride, Tiers(conf))
  <2>2. IF conf.stride = 0 \/ Tiers(conf) = 0 THEN Len(x) = 1
        ELSE Len(x) = Tiers(conf) /\ ImmutableCount(h) - x[Len(x)] <= conf.stride - 1
    BY <2>1, SplitsSound
  <2>3. IF conf.stride = 0 \/ Tiers(conf) = 0 THEN Len(y) = 1
        ELSE Len(y) = Tiers(conf) /\ ImmutableCount(w) - y[Len(y)] <= conf.stride - 1
    BY <2>1, SplitsSound
  <2> HIDE DEF x, y
  <2>4. Len(x) = Tiers(conf) /\ Len(y) = Tiers(conf)
    BY <2>1, <2>2, <2>3
  <2> QED BY <2>4 DEF SplitsOf, x, y
<1>6. /\ UpToSplits(f, segs, h, sp) /\ Merging(g, segs, f, Boost, 0) /\ segs \in Seq(Text)
      /\ Len(segs) = Tiers(conf) /\ Splits(sp, ImmutableCount(h)) /\ CachedOf(h) = g[Len(segs)].out
  BY <1>3, <1>5 DEF Merges
<1>7. /\ UpToSplits(e, tegs, w, sq) /\ Merging(k, tegs, e, Boost, 0) /\ tegs \in Seq(Text)
      /\ Len(tegs) = Tiers(conf) /\ Splits(sq, ImmutableCount(w)) /\ CachedOf(w) = k[Len(tegs)].out
  BY <1>4, <1>5 DEF Merges
<1>8. segs = Segments(h, sp) /\ tegs = Segments(w, sq)
  BY DEF SegsOf
<1> HIDE DEF sp, sq, segs, tegs
<1>9. i \in 1 .. Len(sp) /\ i <= Len(sq) /\ i \in 1 .. Len(segs) /\ i \in 1 .. Len(tegs) /\ i <= Len(tegs)
  BY <1>1, <1>5, <1>6, <1>7
<1>10. \A l \in 1 .. i : segs[l] = tegs[l]
  <2>1. \A l \in 1 .. i : sp[l] = sq[l]
    BY <1>2 DEF sp, sq
  <2>2. Splits(sp, ImmutableCount(h)) /\ Splits(sq, ImmutableCount(w)) /\ i \in 1 .. Len(sp) /\ i <= Len(sq)
    BY <1>6, <1>7, <1>9
  <2>3. \A l \in 1 .. i : Segments(h, sp)[l] = Segments(w, sq)[l]
    BY <2>1, <2>2, SegmentsSame
  <2> QED BY <1>8, <2>3
<1>11. g[i] = k[i]
  <2>1. Len(segs) \in Nat /\ Len(tegs) \in Nat
    BY <1>1, <1>6, <1>7
  <2> QED BY <1>6, <1>7, <1>9, <1>10, <2>1, MergedSame
<1>12. Flattens(f, segs, PlainType) /\ Flattens(e, tegs, PlainType) /\ f[i] = Pre \o SubSeq(h, 1, sp[i])
  BY <1>6, <1>7, <1>9 DEF UpToSplits
<1>13. PICK t : Later(g[i], g[Len(segs)], f[i], t)
  BY <1>6, <1>9, <1>12, MergedLater
<1>14. PICK u : Later(k[i], k[Len(tegs)], e[i], u)
  BY <1>7, <1>9, <1>12, MergedLater
<1> DEFINE m == Len(g[i].out)
           c == CachedOf(h)
           d == CachedOf(w)
<1>15. /\ m \in Nat /\ c \in Seq(Text) /\ m <= Len(c) /\ \A l \in 1 .. m : c[l] = g[i].out[l]
       /\ m < Len(c) => Len(FlattenSeq(SubSeq(c, 1, m + 1))) > Len(f[i])
  <2>1. g[i] \in MergeType /\ g[Len(segs)] \in MergeType
    BY <1>13 DEF Later
  <2>2. m \in Nat /\ c \in Seq(Text) /\ Len(c) \in Nat
    BY <1>6, <2>1 DEF MergeType
  <2>3. /\ m <= Len(c) /\ \A l \in 1 .. m : c[l] = g[i].out[l]
        /\ Len(c) # m => Len(FlattenSeq(SubSeq(c, 1, m + 1))) > Len(f[i])
    BY <1>6, <1>13 DEF Later
  <2> HIDE DEF c, m
  <2> QED BY <2>2, <2>3 DEF m
<1>16. d \in Seq(Text) /\ m <= Len(d) /\ \A l \in 1 .. m : d[l] = g[i].out[l]
  <2>1. k[Len(tegs)] \in MergeType
    BY <1>14 DEF Later
  <2>2. d \in Seq(Text)
    BY <1>7, <2>1 DEF MergeType
  <2> QED BY <1>7, <1>11, <1>14, <2>2 DEF Later
<1>17. Len(f[i]) = Len(Pre) + sp[i]
  <2>1. sp[i] \in Nat /\ sp[i] <= ImmutableCount(h)
    BY <1>6, <1>9 DEF Splits
  <2>2. ImmutableCount(h) \in Nat /\ ImmutableCount(h) <= Len(h) /\ Len(h) \in Nat
    BY ImmutableTyped
  <2> DEFINE x == SubSeq(h, 1, sp[i])
  <2>3. x \in Seq(EntryType) /\ Len(x) = sp[i]
    BY <2>1, <2>2
  <2> HIDE DEF x
  <2>4. x \in Text /\ Pre \in Text
    BY <2>3, EntriesPlain, HeadTyped
  <2>5. Len(Pre \o x) = Len(Pre) + Len(x)
    BY <2>4, TextConcat
  <2> QED BY <1>12, <2>3, <2>5 DEF x
<1> HIDE DEF m, c, d
<1>18. \A l \in 1 .. m : c[l] = d[l]
  BY <1>15, <1>16
<1>19. KeptUpTo(m, h, w, SplitsOf(h)[i])
  BY <1>15, <1>16, <1>17, <1>18 DEF KeptUpTo, c, d, sp
<1> QED BY <1>19

\* The request r that was made of h when the attached files had version v
Made(r, h, v) ==
  /\ h \in Seq(EntryType) /\ v \in Nat
  /\ Shape(r, HeadSize, HeadText, CachedOf(h), r.text)
  /\ Blocks(r, HeadText, CachedOf(h), conf.attach, v)

\* A breakpoint that covers nothing after a shared split is in what is kept.
LEMMA BreakpointKept ==
  ASSUME NEW h, NEW w, conf \in Configs, view \in BOOLEAN, NEW r, NEW v, Made(r, h, v),
         NEW m, NEW s \in Nat, KeptUpTo(m, h, w, s),
         NEW k \in Breakpoints(r), EntryCount(TextUpTo(r, k)) <= s
  PROVE  k \in Nat /\ k <= HeadSize + m
<1> DEFINE out == CachedOf(h)
           j == k - HeadSize
           a == HeadSize
           x == FlattenSeq(SubSeq(out, 1, j))
           u == HeadText \o x
           R == RenderContext(h, 0)
<1>1. /\ m \in Nat /\ out \in Seq(Text) /\ m <= Len(out)
      /\ m < Len(out) => Len(FlattenSeq(SubSeq(out, 1, m + 1))) > Len(Pre) + s
  BY DEF KeptUpTo
<1>2. /\ a \in Nat /\ HeadText \in Text /\ Len(HeadText) \in Nat /\ Len(Pre) \in Nat /\ Len(HeadText) + Len(Pre) = 2
  BY HeadTextTyped
<1>3. k \in a .. a + Len(out) /\ TextUpTo(r, k) = u
  BY DEF Made, Shape
<1>4. k \in Nat /\ j \in 0 .. Len(out) /\ Len(out) \in Nat
  BY <1>1, <1>2, <1>3
<1>5. SUFFICES ASSUME k > a + m PROVE FALSE
  BY <1>1, <1>2, <1>4
<1>6. h \in Seq(EntryType)
  BY DEF Made
<1>7. PICK o, acc, tail, z : Rendered(R, h, o, acc, tail, z)
  BY <1>6, RenderedShape
<1>8. R.cachedSegments = out /\ R.prefixText = HeadText
  BY DEF RenderContext, HeadText, Boost, CachedOf, SegsOf, SplitsOf
<1>9. o = out
  BY <1>7, <1>8 DEF Rendered
<1> HIDE DEF R, a
<1>10. EntryCount(u) = Monus(Len(u), 2) /\ Len(u) \in Nat
  <2>1. u = R.prefixText \o FlattenSeq(SubSeq(o, 1, j)) /\ j \in 0 .. Len(o)
    BY <1>4, <1>8, <1>9
  <2> HIDE DEF u, j
  <2> QED BY <1>6, <1>7, <2>1, CoveredUpTo
<1>11. m < Len(out) /\ m + 1 \in 0 .. j
  BY <1>1, <1>2, <1>3, <1>4, <1>5 DEF a
<1> HIDE DEF out, j
<1> DEFINE b == Len(FlattenSeq(SubSeq(out, 1, m + 1)))
<1>12. x \in Text /\ Len(x) \in Nat /\ Len(x) >= b /\ b \in Nat
  <2> DEFINE p == SubSeq(out, 1, j)
             y == FlattenSeq(SubSeq(p, 1, m + 1))
             q == FlattenSeq(SubSeq(p, m + 2, Len(p)))
  <2>1. p \in Seq(Text) /\ Len(p) = j
    BY <1>1, <1>4
  <2>2. SubSeq(p, 1, m + 1) = SubSeq(out, 1, m + 1)
    BY <1>1, <1>4, <1>11
  <2> HIDE DEF p
  <2>3. m + 1 \in 0 .. Len(p) /\ (m + 1) + 1 = m + 2
    BY <1>1, <1>11, <2>1
  <2>4. y \in Text /\ q \in Text /\ FlattenSeq(p) = y \o q
    BY <2>1, <2>3, OutSplit
  <2> HIDE DEF y, q
  <2>5. y \o q \in Text /\ Len(y \o q) = Len(y) + Len(q) /\ Len(y) \in Nat /\ Len(q) \in Nat
    BY <2>4, TextConcat
  <2>6. x = y \o q
    BY <2>4 DEF p
  <2>7. b = Len(y)
    BY <2>2 DEF y
  <2> HIDE DEF x, b
  <2>8. x \in Text /\ Len(x) = Len(y) + Len(q)
    BY <2>5, <2>6
  <2> QED BY <2>5, <2>7, <2>8
<1> HIDE DEF x
<1>13. Len(u) = Len(HeadText) + Len(x)
  BY <1>2, <1>12, TextConcat
<1>14. Len(u) > 2 + s
  BY <1>1, <1>2, <1>11, <1>12, <1>13
<1> HIDE DEF u
<1>15. EntryCount(u) > s
  BY <1>10, <1>14 DEF Monus
<1>16. EntryCount(u) \in Nat
  BY <1>10, <1>14 DEF Monus
<1> QED BY <1>3, <1>15, <1>16
\* What is kept is the same blocks in both requests, when the files are the same.
LEMMA BlocksKept ==
  ASSUME NEW h, NEW w, conf \in Configs, NEW r, NEW v, Made(r, h, v), NEW q, NEW v2, Made(q, w, v2),
         NEW m, NEW s, KeptUpTo(m, h, w, s), conf.attach > 0 => v = v2,
         NEW k \in Breakpoints(r), k \in Nat, k <= HeadSize + m
  PROVE  k \in Breakpoints(q) /\ SubSeq(q.blocks, 1, k) = SubSeq(r.blocks, 1, k)
<1> DEFINE a == HeadSize
           B == TextBlock \cup FileBlock
           c == CachedOf(h)
           d == CachedOf(w)
           x == r.blocks
           y == q.blocks
<1>1. /\ m \in Nat /\ c \in Seq(Text) /\ d \in Seq(Text) /\ m <= Len(c) /\ m <= Len(d)
      /\ \A l \in 1 .. m : c[l] = d[l]
  BY DEF KeptUpTo
<1>2. a \in Nat /\ conf.attach \in Nat /\ (conf.attach = 0 => a = 0)
  <2>1. a \in Nat /\ (HeadText = <<>> <=> conf.attach = 0)
    BY HeadTextTyped
  <2>2. conf.attach \in Nat
    BY HeadTyped
  <2>3. conf.attach = 0 => a = 0
    BY <2>1 DEF HeadSize, HeadLen
  <2> QED BY <2>1, <2>2, <2>3
<1>3. /\ x \in Seq(B) /\ Len(x) >= a + Len(c)
      /\ \A l \in 1 .. a : x[l] = HeadBlock(l, HeadText, conf.attach, v)
      /\ \A l \in 1 .. Len(c) : x[a + l] = Block(c[l], TRUE)
  BY DEF Made, Blocks, HeadSize
<1>4. /\ y \in Seq(B) /\ Len(y) >= a + Len(d)
      /\ \A l \in 1 .. a : y[l] = HeadBlock(l, HeadText, conf.attach, v2)
      /\ \A l \in 1 .. Len(d) : y[a + l] = Block(d[l], TRUE)
  BY DEF Made, Blocks, HeadSize
<1>5. Breakpoints(r) = {l \in DOMAIN x : x[l].cc} /\ Breakpoints(q) = {l \in DOMAIN y : y[l].cc}
  BY DEF Breakpoints
<1> HIDE DEF a, B, c, d, x, y
<1>6. Len(c) \in Nat /\ Len(d) \in Nat /\ Len(x) \in Nat /\ Len(y) \in Nat
  BY <1>1, <1>3, <1>4
<1>7. k \in 1 .. Len(x) /\ k <= Len(y)
  <2>1. k \in DOMAIN x
    BY <1>5
  <2>2. k \in 1 .. Len(x)
    BY <1>3, <2>1
  <2>3. k <= a + m
    BY DEF a
  <2> QED BY <1>1, <1>2, <1>4, <1>6, <2>2, <2>3
<1>8. ASSUME NEW l \in 1 .. k PROVE x[l] = y[l]
  <2>1. CASE l <= a
    <3>1. conf.attach > 0 /\ l \in 1 .. a
      BY <1>2, <1>7, <2>1
    <3> QED BY <1>3, <1>4, <3>1
  <2>2. CASE l > a
    <3> DEFINE j == l - a
    <3>1. k <= a + m
      BY DEF a
    <3>2. j \in 1 .. m /\ a + j = l
      BY <1>1, <1>2, <1>7, <2>2, <3>1
    <3> HIDE DEF j
    <3>3. j \in 1 .. Len(c) /\ j \in 1 .. Len(d)
      BY <1>1, <1>6, <3>2
    <3>4. x[a + j] = Block(c[j], TRUE) /\ y[a + j] = Block(d[j], TRUE) /\ c[j] = d[j]
      BY <1>1, <1>3, <1>4, <3>2, <3>3
    <3> QED BY <3>2, <3>4
  <2> QED BY <1>2, <1>7, <2>1, <2>2
<1>9. k \in Breakpoints(q)
  <2>1. k \in DOMAIN y /\ x[k].cc /\ k \in 1 .. k
    BY <1>4, <1>5, <1>6, <1>7
  <2> QED BY <1>5, <1>8, <2>1
<1>10. SubSeq(y, 1, k) = SubSeq(x, 1, k)
  <2> DEFINE u == SubSeq(y, 1, k)
             z == SubSeq(x, 1, k)
  <2>1. u \in Seq(B) /\ Len(u) = k /\ \A l \in 1 .. k : u[l] = y[l]
    BY <1>4, <1>6, <1>7
  <2>2. z \in Seq(B) /\ Len(z) = k /\ \A l \in 1 .. k : z[l] = x[l]
    BY <1>3, <1>6, <1>7
  <2> HIDE DEF u, z
  <2>3. \A l \in 1 .. k : u[l] = z[l]
    BY <1>8, <2>1, <2>2
  <2>4. u = z
    BY <2>1, <2>2, <2>3
  <2> QED BY <2>4 DEF u, z
<1> QED BY <1>9, <1>10 DEF x, y

\* With an attachment the second block is a file, and says which version it is.
LEMMA FileVersion ==
  ASSUME NEW h, NEW r, NEW v, Made(r, h, v), conf \in Configs, conf.attach > 0, NEW n,
         \A k \in DOMAIN r.blocks : IsFile(r.blocks[k]) => r.blocks[k].text[1].version = n
  PROVE  v = n
<1> DEFINE b == HeadBlock(2, HeadText, conf.attach, v)
<1>1. conf.attach \in Nat /\ HeadText # <<>> /\ CachedOf(h) \in Seq(Text)
  <2>1. h \in Seq(EntryType)
    BY DEF Made
  <2>2. PICK f, g : Merges(h, f, g)
    BY <2>1, MergedHistory
  <2>3. CachedOf(h) = g[Len(SegsOf(h))].out /\ Len(SegsOf(h)) \in 0 .. Len(SegsOf(h))
    BY <2>2 DEF Merges
  <2>4. g[Len(SegsOf(h))] \in MergeType
    BY <2>2, <2>3 DEF Merges, Merging, MergedTo
  <2> QED BY <2>3, <2>4, HeadTyped, HeadTextTyped DEF MergeType
<1>2. 2 \in 1 .. HeadSize /\ HeadSize \in Nat
  BY <1>1 DEF HeadSize, HeadLen
<1>3. r.blocks \in Seq(TextBlock \cup FileBlock) /\ Len(r.blocks) >= HeadSize + Len(CachedOf(h)) /\ r.blocks[2] = b
  BY <1>2 DEF Made, Blocks, HeadSize
<1>4. 2 \in DOMAIN r.blocks
  <2>1. Len(r.blocks) \in Nat /\ Len(CachedOf(h)) \in Nat /\ DOMAIN r.blocks = 1 .. Len(r.blocks)
    BY <1>1, <1>3
  <2> QED BY <1>2, <1>3, <2>1
<1>5. b.text = <<[id |-> 1, form |-> "file", version |-> v]>>
  BY DEF HeadBlock, Block
<1> HIDE DEF b
<1>6. b.text # <<>> /\ b.text[1].form = "file" /\ b.text[1].version = v
  BY <1>5
<1>7. IsFile(r.blocks[2])
  BY <1>3, <1>6 DEF IsFile
<1>8. r.blocks[2].text[1].version = n
  BY <1>4, <1>7
<1> QED BY <1>3, <1>6, <1>8

\* The request in a state is made of the history seen.
MadeInv ==
  /\ RequestInv
  /\ request # NoRequest => \E v : Made(request, seen, v)

\* run_turn makes the request of the history and of the files as they are.
LEMMA TurnMade ==
  ASSUME RequestInv, RunTurn
  PROVE  Made(request', seen', files)
<1> DEFINE R == RenderContext(hist, made)
           r == BuildRequest(R)
<1>1. request' = r /\ seen' = hist
  BY DEF RunTurn
<1>2. hist \in Seq(EntryType) /\ conf \in Configs /\ view \in BOOLEAN /\ files \in Nat /\ made \in Nat
  BY DEF RequestInv, FrozenInv
<1>3. R = RenderContext(hist, made) /\ r = BuildRequest(R)
  OBVIOUS
<1>4. R.cachedSegments = CachedOf(hist) /\ R.prefixText = HeadText
  BY DEF RenderContext, HeadText, Boost, CachedOf, SegsOf, SplitsOf
<1>5. r.text = R.text
  BY DEF BuildRequest
<1> HIDE DEF R, r
<1>6. PICK out, acc, tail, s :
        /\ Rendered(R, hist, out, acc, tail, s)
        /\ Shape(r, HeadLen(R.prefixText, conf.attach), R.prefixText, out, R.text)
        /\ Blocks(r, R.prefixText, out, conf.attach, files)
  BY <1>2, <1>3, RequestMade
<1>7. out = CachedOf(hist)
  BY <1>4, <1>6 DEF Rendered
<1>8. Shape(r, HeadSize, HeadText, CachedOf(hist), r.text) /\ Blocks(r, HeadText, CachedOf(hist), conf.attach, files)
  BY <1>4, <1>5, <1>6, <1>7 DEF HeadSize
<1> QED BY <1>1, <1>2, <1>8 DEF Made

LEMMA MadeStep ==
  ASSUME MadeInv, [Next]_vars
  PROVE  MadeInv'
<1>1. RequestInv /\ RequestInv'
  BY RequestStep DEF MadeInv
<1>2. conf' = conf
  BY DEF vars, Next, Edit, PinnedChanges, FileChanges, AlertPushed, HeadItemChanges, TriggerCompaction, RunTurn, HistoryRemove,
     ReplaceWithDescription, HistoryAdd, Commit, CommitAndCompact, Raise, CompactDone, CompactRaises, Record
<1>3. ASSUME request' # NoRequest PROVE \E v : Made(request', seen', v)
  <2>1. CASE RunTurn
    BY <1>1, <2>1, TurnMade
  <2>2. CASE ~ RunTurn
    <3>1. request' = request /\ seen' = seen
      BY <2>2 DEF vars, Next, Edit, PinnedChanges, FileChanges, AlertPushed, HeadItemChanges, TriggerCompaction, HistoryRemove,
         ReplaceWithDescription, HistoryAdd, Commit, CommitAndCompact, Raise, CompactDone, CompactRaises, Record
    <3>2. \E v : Made(request, seen, v)
      BY <1>3, <3>1 DEF MadeInv
    <3> QED BY <3>1, <3>2
  <2> QED BY <2>1, <2>2
<1>4. HeadText' = HeadText /\ HeadSize' = HeadSize
  BY <1>2 DEF HeadText, HeadSize, HeadLen, Header, Piece
<1>5. (CachedOf(seen))' = CachedOf(seen')
  BY <1>2 DEF CachedOf, SegsOf, SplitsOf, Boost, HeadText, Segments, Header, Open, Piece, CacheSplits, ImmutableCount,
              Tiers, CachedSegments, MergedSegments, MergeSegment, SizeOf, Pow, Monus
<1>6. ASSUME NEW v, Made(request', seen', v) PROVE Made(request, seen, v)'
  BY <1>2, <1>4, <1>5, <1>6 DEF Made, Shape, Blocks, Breakpoints, TextUpTo, IsFile, HeadBlock, Block, HeadLen
<1>7. NoRequest' = NoRequest
  BY DEF NoRequest
<1>8. (request # NoRequest)' => (\E v : Made(request, seen, v))'
  BY <1>3, <1>6, <1>7
<1> QED BY <1>1, <1>8 DEF MadeInv
\* What CacheHolds says of one step
HoldsStep ==
  request # NoRequest /\ conf.stride > 0 /\ Undisturbed /\ Filed
    => \A i \in 1 .. Tiers(conf) : \A k \in Breakpoints(request) :
         TierHolds(i) /\ EntryCount(TextUpTo(request, k)) <= CacheSplits(seen, conf.stride, Tiers(conf))[i]
         => Kept(k)

LEMMA CacheStep ==
  ASSUME MadeInv, RunTurn
  PROVE  HoldsStep
<1> SUFFICES ASSUME request # NoRequest, conf.stride > 0, Undisturbed, Filed,
                    NEW i \in 1 .. Tiers(conf), NEW k \in Breakpoints(request), TierHolds(i),
                    EntryCount(TextUpTo(request, k)) <= CacheSplits(seen, conf.stride, Tiers(conf))[i]
             PROVE  Kept(k)
  BY DEF HoldsStep
<1>1. PICK v : Made(request, seen, v)
  BY DEF MadeInv
<1>2. Made(request', seen', files)
  BY TurnMade DEF MadeInv
<1>3. conf \in Configs /\ view \in BOOLEAN
  BY DEF MadeInv, RequestInv
<1>4. seen \in Seq(EntryType) /\ seen' \in Seq(EntryType) /\ IsPrefix(seen, seen')
  BY <1>1, <1>2 DEF Made, Undisturbed
<1>5. ImmutableCount(seen) \div Pow(conf.stride, Tiers(conf) - i + 1)
        = ImmutableCount(seen') \div Pow(conf.stride, Tiers(conf) - i + 1)
  BY DEF TierHolds
<1> DEFINE s == SplitsOf(seen)[i]
<1>6. PICK m : KeptUpTo(m, seen, seen', s)
  BY <1>3, <1>4, <1>5, SegmentsKept
<1>7. EntryCount(TextUpTo(request, k)) <= s
  BY DEF SplitsOf
<1>8. s \in Nat
  <2> DEFINE sp == CacheSplits(seen, conf.stride, Tiers(conf))
  <2>1. conf.stride \in Nat \ {0} /\ Tiers(conf) \in Nat \ {0}
    BY <1>3, HeadTyped DEF Tiers
  <2>2. sp = [l \in 1 .. Tiers(conf) |->
                (ImmutableCount(seen) \div Pow(conf.stride, Tiers(conf) - l + 1)) * Pow(conf.stride, Tiers(conf) - l + 1)]
    BY <2>1 DEF CacheSplits
  <2>3. Splits(sp, ImmutableCount(seen))
    BY <1>4, <2>1, SplitsSound
  <2>4. i \in DOMAIN sp
    BY <2>2
  <2> HIDE DEF sp
  <2>5. sp[i] \in Nat
    BY <2>3, <2>4 DEF Splits
  <2> QED BY <2>5 DEF sp, SplitsOf
<1> HIDE DEF s
<1>9. k \in Nat /\ k <= HeadSize + m
  BY <1>1, <1>3, <1>6, <1>7, <1>8, BreakpointKept
<1>10. conf.attach > 0 => v = files
  <2>1. \A l \in DOMAIN request.blocks : IsFile(request.blocks[l]) => request.blocks[l].text[1].version = files
    BY DEF Filed
  <2> QED BY <1>1, <1>3, <2>1, FileVersion
<1>11. k \in Breakpoints(request') /\ SubSeq(request'.blocks, 1, k) = SubSeq(request.blocks, 1, k)
  BY <1>1, <1>2, <1>3, <1>6, <1>9, <1>10, BlocksKept
<1> QED BY <1>9, <1>11 DEF Kept

\* A breakpoint whose tier has not advanced survives the next turn with exactly
\* the blocks that were cached, as long as the history was only appended to and
\* the attached files and the pinned memory are the same: for every stride,
\* number of tiers and attachments, however the sizes make render_context merge
\* the segments, and however many entries were added in between.
THEOREM CacheKept == Spec => CacheHolds
<1>1. Init => MadeInv
  <2> SUFFICES ASSUME Init PROVE MadeInv
    OBVIOUS
  <2>1. RequestInv
    BY RequestInitially
  <2>2. request = NoRequest
    BY DEF Init
  <2> QED BY <2>1, <2>2 DEF MadeInv
<1>2. MadeInv /\ [Next]_vars => MadeInv'
  BY MadeStep
<1>3. MadeInv /\ [Next]_vars => [HoldsStep]_<<request, seen>>
  <2> SUFFICES ASSUME MadeInv, [Next]_vars PROVE [HoldsStep]_<<request, seen>>
    OBVIOUS
  <2>1. CASE RunTurn
    BY <2>1, CacheStep
  <2>2. CASE ~ RunTurn
    <3>1. request' = request /\ seen' = seen
      BY <2>2 DEF vars, Next, Edit, PinnedChanges, FileChanges, AlertPushed, HeadItemChanges, TriggerCompaction, HistoryRemove,
         ReplaceWithDescription, HistoryAdd, Commit, CommitAndCompact, Raise, CompactDone, CompactRaises, Record
    <3> QED BY <3>1
  <2> QED BY <2>1, <2>2
<1>4. [][HoldsStep]_<<request, seen>> => CacheHolds
  BY PTL DEF HoldsStep, CacheHolds
<1> QED BY <1>1, <1>2, <1>3, <1>4, PTL DEF Spec
=============================================================================
