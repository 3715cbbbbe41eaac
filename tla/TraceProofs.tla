----------------------------- MODULE TraceProofs -----------------------------
(***************************************************************************)
(* Proofs about what the record of a command says of it, for every number  *)
(* of threads and every length of the log (translate.rs).                  *)
(*                                                                         *)
(* The record is argued about backwards.  By ExecutorProofs the log tells  *)
(* each call that returned, the stamps of a thread grow and its git spans  *)
(* are apart.  So the merged evidence is sorted, and the fold over it has  *)
(* open, after each item, exactly the spans that have begun and not ended  *)
(* among the items seen: it refuses for no other reason than a git         *)
(* process, an end that is missing, or two spans in a microsecond.         *)
(*                                                                         *)
(* What the run did is told by its log and its records as well: there is   *)
(* one directory for each thread and stamp, handed from a call to the next *)
(* and from a parent to its clone, in which the calls that returned had    *)
(* their effects, and these with the builtins' ends are all there are.     *)
(* The fold has, after each item, each thread in that directory and in its *)
(* git span, and the effects of the items seen.  So the capabilities, the  *)
(* writes and the builtins' reads it merges are those of the run.          *)
(***************************************************************************)
EXTENDS ExecutorProofs

\* f holds what is folded after each of the n elements of s.
Merging(f, base, n, s) ==
    /\ DOMAIN f = 0..n /\ f[0] = base
    /\ \A k \in 1..n : f[k] = InsertByKey(f[k - 1], s[k])
    /\ MergeAll(base, s) = f[n]

\* Items are merged one by one.
LEMMA MergeFold ==
    ASSUME NEW base, NEW n \in Nat, NEW s, DOMAIN s = 1..n
    PROVE  \E f : Merging(f, base, n, s)
<1> DEFINE IsFold(g, D) ==
        g = [t \in SUBSET D |->
                IF t = {} THEN base ELSE InsertByKey(g[t \ {Max(t)}], s[Max(t)])]
           Folds(m) == \E g : IsFold(g, 1..m)
<1>1. Folds(0)
  <2>1. IsFold([t \in SUBSET (1..0) |-> base], 1..0)
    OBVIOUS
  <2> QED
    BY <2>1
<1>2. ASSUME NEW m \in Nat, Folds(m) PROVE Folds(m + 1)
  <2>1. PICK g : IsFold(g, 1..m)
    BY <1>2
  <2> DEFINE h == [t \in SUBSET (1..(m + 1)) |->
                      IF m + 1 \in t THEN InsertByKey(g[t \ {m + 1}], s[m + 1]) ELSE g[t]]
  <2>2. ASSUME NEW t \in SUBSET (1..(m + 1))
        PROVE  h[t] = IF t = {} THEN base ELSE InsertByKey(h[t \ {Max(t)}], s[Max(t)])
    <3>1. CASE m + 1 \in t
      <4>1. Max(t) = m + 1
        BY <3>1, LargestIs
      <4>2. t \ {m + 1} \in SUBSET (1..(m + 1)) /\ m + 1 \notin t \ {m + 1}
        OBVIOUS
      <4>3. t \ {m + 1} \in SUBSET (1..m)
        OBVIOUS
      <4>4. h[t] = InsertByKey(g[t \ {m + 1}], s[m + 1]) /\ h[t \ {m + 1}] = g[t \ {m + 1}]
        BY <3>1, <4>2
      <4> HIDE DEF h
      <4> QED
        BY <3>1, <4>1, <4>4
    <3>2. CASE m + 1 \notin t
      <4>1. t \in SUBSET (1..m)
        BY <3>2
      <4>2. t \ {Max(t)} \in SUBSET (1..(m + 1)) /\ m + 1 \notin t \ {Max(t)}
        BY <3>2
      <4>3. h[t] = g[t] /\ h[t \ {Max(t)}] = g[t \ {Max(t)}]
        BY <3>2, <4>2
      <4>4. g[t] = IF t = {} THEN base ELSE InsertByKey(g[t \ {Max(t)}], s[Max(t)])
        BY <2>1, <4>1
      <4> HIDE DEF h
      <4> QED
        BY <4>3, <4>4
    <3> QED
      BY <3>1, <3>2
  <2>3. IsFold(h, 1..(m + 1))
    <3>1. h = [t \in SUBSET (1..(m + 1)) |-> h[t]]
      OBVIOUS
    <3> HIDE DEF h
    <3> QED
      BY <2>2, <3>1
  <2> QED
    BY <2>3
<1>3. Folds(n)
  <2> DEFINE bad == {m \in Nat : ~Folds(m)}
  <2> HIDE DEF Folds
  <2>1. ASSUME bad # {} PROVE FALSE
    <3>1. bad \in SUBSET Nat
      OBVIOUS
    <3>2. PICK m \in bad : \A l \in bad : m <= l
      BY <2>1, <3>1, LeastNatural
    <3>3. m \in Nat /\ m # 0 /\ ~Folds(m)
      BY <1>1
    <3>4. m - 1 \in Nat /\ m - 1 \notin bad /\ (m - 1) + 1 = m
      BY <3>2, <3>3
    <3> QED
      BY <1>2, <3>3, <3>4
  <2> QED
    BY <2>1
<1> DEFINE iter == CHOOSE g : IsFold(g, DOMAIN s)
<1>4. MergeAll(base, s) = iter[DOMAIN s]
  BY DEF MergeAll, FoldLeft, MapThenFoldSet
<1>5. IsFold(iter, 1..n)
  <2> HIDE DEF IsFold
  <2> QED
    BY <1>3
<1> HIDE DEF iter
<1> DEFINE vals == [k \in 0..n |-> iter[1..k]]
<1>6. vals[0] = base
  <2>1. vals[0] = iter[{}]
    <3>1. 1..0 = {} /\ 0 \in 0..n
      OBVIOUS
    <3> QED
      BY <3>1
  <2> QED
    BY <1>5, <2>1
<1>7. ASSUME NEW k \in 1..n PROVE vals[k] = InsertByKey(vals[k - 1], s[k])
  <2>1. Max(1..k) = k
    <3>1. k \in 1..k /\ 1..k \subseteq Nat /\ \A x \in 1..k : x <= k
      OBVIOUS
    <3> QED
      BY <3>1, LargestIs
  <2>2. 1..k # {} /\ (1..k) \ {k} = 1..(k - 1) /\ 1..k \in SUBSET (1..n)
    OBVIOUS
  <2>3. vals[k] = iter[1..k] /\ vals[k - 1] = iter[1..(k - 1)]
    OBVIOUS
  <2>4. iter[1..k] = InsertByKey(iter[(1..k) \ {k}], s[k])
    BY <1>5, <2>1, <2>2
  <2> HIDE DEF vals
  <2> QED
    BY <2>2, <2>3, <2>4
<1>8. MergeAll(base, s) = vals[n] /\ DOMAIN vals = 0..n
  BY <1>4
<1> HIDE DEF vals
<1> QED
  BY <1>6, <1>7, <1>8 DEF Merging

\* f holds what is folded after each of the n elements of s.
Observing(f, base, n, s) ==
    /\ DOMAIN f = 0..n /\ f[0] = base
    /\ \A k \in 1..n : f[k] = Observe(f[k - 1], s[k])
    /\ ObserveAll(base, s) = f[n]

\* The evidence is translated item by item.
LEMMA ObserveFold ==
    ASSUME NEW base, NEW n \in Nat, NEW s, DOMAIN s = 1..n
    PROVE  \E f : Observing(f, base, n, s)
<1> DEFINE IsFold(g, D) ==
        g = [t \in SUBSET D |->
                IF t = {} THEN base ELSE Observe(g[t \ {Max(t)}], s[Max(t)])]
           Folds(m) == \E g : IsFold(g, 1..m)
<1>1. Folds(0)
  <2>1. IsFold([t \in SUBSET (1..0) |-> base], 1..0)
    OBVIOUS
  <2> QED
    BY <2>1
<1>2. ASSUME NEW m \in Nat, Folds(m) PROVE Folds(m + 1)
  <2>1. PICK g : IsFold(g, 1..m)
    BY <1>2
  <2> DEFINE h == [t \in SUBSET (1..(m + 1)) |->
                      IF m + 1 \in t THEN Observe(g[t \ {m + 1}], s[m + 1]) ELSE g[t]]
  <2>2. ASSUME NEW t \in SUBSET (1..(m + 1))
        PROVE  h[t] = IF t = {} THEN base ELSE Observe(h[t \ {Max(t)}], s[Max(t)])
    <3>1. CASE m + 1 \in t
      <4>1. Max(t) = m + 1
        BY <3>1, LargestIs
      <4>2. t \ {m + 1} \in SUBSET (1..(m + 1)) /\ m + 1 \notin t \ {m + 1}
        OBVIOUS
      <4>3. t \ {m + 1} \in SUBSET (1..m)
        OBVIOUS
      <4>4. h[t] = Observe(g[t \ {m + 1}], s[m + 1]) /\ h[t \ {m + 1}] = g[t \ {m + 1}]
        BY <3>1, <4>2
      <4> HIDE DEF h
      <4> QED
        BY <3>1, <4>1, <4>4
    <3>2. CASE m + 1 \notin t
      <4>1. t \in SUBSET (1..m)
        BY <3>2
      <4>2. t \ {Max(t)} \in SUBSET (1..(m + 1)) /\ m + 1 \notin t \ {Max(t)}
        BY <3>2
      <4>3. h[t] = g[t] /\ h[t \ {Max(t)}] = g[t \ {Max(t)}]
        BY <3>2, <4>2
      <4>4. g[t] = IF t = {} THEN base ELSE Observe(g[t \ {Max(t)}], s[Max(t)])
        BY <2>1, <4>1
      <4> HIDE DEF h
      <4> QED
        BY <4>3, <4>4
    <3> QED
      BY <3>1, <3>2
  <2>3. IsFold(h, 1..(m + 1))
    <3>1. h = [t \in SUBSET (1..(m + 1)) |-> h[t]]
      OBVIOUS
    <3> HIDE DEF h
    <3> QED
      BY <2>2, <3>1
  <2> QED
    BY <2>3
<1>3. Folds(n)
  <2> DEFINE bad == {m \in Nat : ~Folds(m)}
  <2> HIDE DEF Folds
  <2>1. ASSUME bad # {} PROVE FALSE
    <3>1. bad \in SUBSET Nat
      OBVIOUS
    <3>2. PICK m \in bad : \A l \in bad : m <= l
      BY <2>1, <3>1, LeastNatural
    <3>3. m \in Nat /\ m # 0 /\ ~Folds(m)
      BY <1>1
    <3>4. m - 1 \in Nat /\ m - 1 \notin bad /\ (m - 1) + 1 = m
      BY <3>2, <3>3
    <3> QED
      BY <1>2, <3>3, <3>4
  <2> QED
    BY <2>1
<1> DEFINE iter == CHOOSE g : IsFold(g, DOMAIN s)
<1>4. ObserveAll(base, s) = iter[DOMAIN s]
  BY DEF ObserveAll, FoldLeft, MapThenFoldSet
<1>5. IsFold(iter, 1..n)
  <2> HIDE DEF IsFold
  <2> QED
    BY <1>3
<1> HIDE DEF iter
<1> DEFINE vals == [k \in 0..n |-> iter[1..k]]
<1>6. vals[0] = base
  <2>1. vals[0] = iter[{}]
    <3>1. 1..0 = {} /\ 0 \in 0..n
      OBVIOUS
    <3> QED
      BY <3>1
  <2> QED
    BY <1>5, <2>1
<1>7. ASSUME NEW k \in 1..n PROVE vals[k] = Observe(vals[k - 1], s[k])
  <2>1. Max(1..k) = k
    <3>1. k \in 1..k /\ 1..k \subseteq Nat /\ \A x \in 1..k : x <= k
      OBVIOUS
    <3> QED
      BY <3>1, LargestIs
  <2>2. 1..k # {} /\ (1..k) \ {k} = 1..(k - 1) /\ 1..k \in SUBSET (1..n)
    OBVIOUS
  <2>3. vals[k] = iter[1..k] /\ vals[k - 1] = iter[1..(k - 1)]
    OBVIOUS
  <2>4. iter[1..k] = Observe(iter[(1..k) \ {k}], s[k])
    BY <1>5, <2>1, <2>2
  <2> HIDE DEF vals
  <2> QED
    BY <2>2, <2>3, <2>4
<1>8. ObserveAll(base, s) = vals[n] /\ DOMAIN vals = 0..n
  BY <1>4
<1> HIDE DEF vals
<1> QED
  BY <1>6, <1>7, <1>8 DEF Observing

-----------------------------------------------------------------------------
(* Merging: the evidence is what was decoded and what was recorded, in the  *)
(* order of the stamps.                                                     *)

Items == SysLines \union Begins \union Ends

LEMMA ItemIs ==
    ASSUME NEW x \in Items
    PROVE  /\ x.ts \in Nat /\ x.tid \in Tids /\ Rank(x) \in {0, 1, 2}
           /\ IsSystem(x) <=> x \in SysLines
           /\ x \in SysLines => Rank(x) = 1
           /\ x \in Begins => ~IsSystem(x) /\ x.k = "b" /\ Rank(x) = 0
           /\ x \in Ends => ~IsSystem(x) /\ x.k = "e" /\ Rank(x) = 2
<1>1. CASE x \in SysLines
  <2>1. IsSystem(x) /\ x.ts \in Nat /\ x.tid \in Tids
    BY <1>1 DEF SysLines, IsSystem
  <2>2. x \notin Begins /\ x \notin Ends
    BY <2>1 DEF Begins, Ends, IsSystem
  <2> QED
    BY <1>1, <2>1, <2>2 DEF Rank
<1>2. CASE x \in Begins
  <2>1. ~IsSystem(x) /\ x.ts \in Nat /\ x.tid \in Tids /\ x.k = "b"
    BY <1>2 DEF Begins, IsSystem
  <2>2. x \notin SysLines /\ x \notin Ends
    BY <2>1 DEF SysLines, Ends, IsSystem
  <2> QED
    BY <1>2, <2>1, <2>2 DEF Rank
<1>3. CASE x \in Ends
  <2>1. ~IsSystem(x) /\ x.ts \in Nat /\ x.tid \in Tids /\ x.k = "e"
    BY <1>3 DEF Ends, IsSystem
  <2>2. x \notin SysLines /\ x \notin Begins
    BY <2>1 DEF SysLines, Begins, IsSystem
  <2> QED
    BY <1>3, <2>1, <2>2 DEF Rank
<1> QED
  BY <1>1, <1>2, <1>3 DEF Items

LEMMA KeyOrder ==
    ASSUME NEW x \in Items, NEW y \in Items
    PROVE  /\ NotAfter(x, y) \/ NotAfter(y, x)
           /\ \A z \in Items : NotAfter(x, y) /\ NotAfter(y, z) => NotAfter(x, z)
<1>1. \A w \in Items : w.ts \in Nat /\ Rank(w) \in Nat
  BY ItemIs
<1> QED
  BY <1>1 DEF NotAfter

\* An element put into a sequence: the others keep their order.
LEMMA InsertAtIs ==
    ASSUME NEW X, NEW s \in Seq(X), NEW x \in X, NEW p \in 0..Len(s)
    PROVE  /\ InsertAt(s, p + 1, x) \in Seq(X)
           /\ Len(InsertAt(s, p + 1, x)) = Len(s) + 1
           /\ DOMAIN InsertAt(s, p + 1, x) = 1..(Len(s) + 1)
           /\ \A j \in 1..(Len(s) + 1) :
                 InsertAt(s, p + 1, x)[j] =
                    IF j < p + 1 THEN s[j] ELSE IF j = p + 1 THEN x ELSE s[j - 1]
<1> DEFINE n == Len(s)
           a == SubSeq(s, 1, p)
           b == SubSeq(s, p + 1, n)
           c == <<x>>
<1>1. n \in Nat /\ p \in Nat /\ p <= n /\ \A i \in 1..n : s[i] \in X
  BY LenProperties, ElementOfSeq
<1>2. /\ a \in Seq(X) /\ Len(a) = p
      /\ \A i \in 1..p : a[i] = s[i]
  BY <1>1
<1>3. /\ b \in Seq(X) /\ Len(b) = n - p
      /\ \A i \in 1..(n - p) : b[i] = s[i + p]
  BY <1>1
<1>4. c \in Seq(X) /\ Len(c) = 1 /\ c[1] = x
  OBVIOUS
<1>5. InsertAt(s, p + 1, x) = (a \o c) \o b
  <2>1. (p + 1) - 1 = p
    BY <1>1
  <2> QED
    BY <2>1 DEF InsertAt
<1> HIDE DEF a, b, c, n
<1>6. /\ a \o c \in Seq(X) /\ Len(a \o c) = p + 1
      /\ \A j \in 1..(p + 1) : (a \o c)[j] = IF j <= p THEN a[j] ELSE c[j - p]
  <2>1. /\ a \o c \in Seq(X) /\ Len(a \o c) = Len(a) + Len(c)
        /\ \A j \in 1..(Len(a) + Len(c)) :
              (a \o c)[j] = IF j <= Len(a) THEN a[j] ELSE c[j - Len(a)]
    BY <1>2, <1>4, ConcatProperties
  <2>2. Len(a) + Len(c) = p + 1
    BY <1>2, <1>4
  <2> QED
    BY <1>2, <2>1, <2>2
<1>7. /\ (a \o c) \o b \in Seq(X) /\ Len((a \o c) \o b) = (p + 1) + (n - p)
      /\ \A j \in 1..((p + 1) + (n - p)) :
            ((a \o c) \o b)[j] = IF j <= p + 1 THEN (a \o c)[j] ELSE b[j - (p + 1)]
  <2> DEFINE d == a \o c
  <2>1. d \in Seq(X) /\ Len(d) = p + 1
    BY <1>6
  <2> HIDE DEF d
  <2>2. /\ d \o b \in Seq(X) /\ Len(d \o b) = Len(d) + Len(b)
        /\ \A j \in 1..(Len(d) + Len(b)) :
              (d \o b)[j] = IF j <= Len(d) THEN d[j] ELSE b[j - Len(d)]
    BY <1>3, <2>1, ConcatProperties
  <2>3. Len(d) + Len(b) = (p + 1) + (n - p)
    BY <1>3, <2>1
  <2>4. /\ d \o b \in Seq(X) /\ Len(d \o b) = (p + 1) + (n - p)
        /\ \A j \in 1..((p + 1) + (n - p)) :
            (d \o b)[j] = IF j <= p + 1 THEN d[j] ELSE b[j - (p + 1)]
    BY <2>1, <2>2, <2>3
  <2> QED
    BY <2>4 DEF d
<1>8. (p + 1) + (n - p) = n + 1
  BY <1>1
<1> DEFINE r == (a \o c) \o b
<1>9. ASSUME NEW j \in 1..(n + 1)
      PROVE  r[j] = IF j < p + 1 THEN s[j] ELSE IF j = p + 1 THEN x ELSE s[j - 1]
  <2>1. r[j] = IF j <= p + 1 THEN (a \o c)[j] ELSE b[j - (p + 1)]
    BY <1>7, <1>8
  <2> HIDE DEF r
  <2>2. CASE j < p + 1
    <3>1. j \in 1..(p + 1) /\ j \in 1..p /\ j <= p + 1 /\ j <= p
      BY <1>1, <2>2
    <3> QED
      BY <1>2, <1>6, <2>1, <2>2, <3>1
  <2>3. CASE j = p + 1
    <3>1. j \in 1..(p + 1) /\ j <= p + 1 /\ ~(j <= p) /\ j - p = 1 /\ ~(j < p + 1)
      BY <1>1, <2>3
    <3> QED
      BY <1>4, <1>6, <2>1, <2>3, <3>1
  <2>4. CASE j > p + 1
    <3>1. ~(j <= p + 1) /\ j - (p + 1) \in 1..(n - p) /\ (j - (p + 1)) + p = j - 1
          /\ ~(j < p + 1) /\ j # p + 1
      BY <1>1, <2>4
    <3> QED
      BY <1>3, <2>1, <3>1
  <2> QED
    BY <1>1, <2>2, <2>3, <2>4
<1>10. DOMAIN r = 1..(n + 1)
  BY <1>7, <1>8, LenProperties
<1> QED
  BY <1>5, <1>7, <1>8, <1>9, <1>10 DEF n

Sorted(s) ==
    /\ \A i, j \in DOMAIN s : i < j => NotAfter(s[i], s[j])
    /\ \A i, j \in DOMAIN s : s[i] = s[j] => i = j

\* An item that is not there yet goes to its place.
LEMMA Inserted ==
    ASSUME NEW s \in Seq(Items), Sorted(s), NEW x \in Items, x \notin Range(s)
    PROVE  /\ InsertByKey(s, x) \in Seq(Items)
           /\ Sorted(InsertByKey(s, x))
           /\ Range(InsertByKey(s, x)) = Range(s) \union {x}
<1> DEFINE n == Len(s)
           before == {i \in DOMAIN s : NotAfter(s[i], x)}
           r == InsertByKey(s, x)
<1>1. /\ n \in Nat /\ DOMAIN s = 1..n /\ \A i \in 1..n : s[i] \in Items
  BY LenProperties, ElementOfSeq
<1>2. \A i, j \in 1..n : i < j /\ j \in before => i \in before
  <2> SUFFICES ASSUME NEW i \in 1..n, NEW j \in 1..n, i < j, NotAfter(s[j], x)
               PROVE  NotAfter(s[i], x)
    BY <1>1
  <2>1. NotAfter(s[i], s[j])
    BY <1>1 DEF Sorted
  <2> QED
    BY <1>1, <2>1, KeyOrder
<1>3. \E p \in 0..n : before = 1..p
  <2>1. CASE before = {}
    <3>1. 1..0 = {} /\ 0 \in 0..n
      BY <1>1
    <3> QED
      BY <2>1, <3>1
  <2>2. CASE before # {}
    <3>1. before \in SUBSET (0..n)
      BY <1>1
    <3>2. PICK p \in before : \A l \in before : l <= p
      BY <1>1, <2>2, <3>1, LargestBelow
    <3>3. p \in 1..n /\ p \in 0..n
      BY <1>1
    <3>4. before \subseteq 1..p
      BY <1>1, <3>2, <3>3
    <3>5. 1..p \subseteq before
      <4> SUFFICES ASSUME NEW i \in 1..p PROVE i \in before
        OBVIOUS
      <4>1. i \in 1..n /\ (i < p \/ i = p)
        BY <1>1, <3>3
      <4> HIDE DEF before
      <4> QED
        BY <1>2, <3>2, <3>3, <4>1
    <3> QED
      BY <3>3, <3>4, <3>5
  <2> QED
    BY <2>1, <2>2
<1>4. PICK p \in 0..n : before = 1..p
  BY <1>3
<1>5. Cardinality(before) = p
  <2>1. p \in Nat /\ p \in Int /\ 1 \in Int
    BY <1>1
  <2>2. Cardinality(1..p) = IF 1 > p THEN 0 ELSE p - 1 + 1
    BY <2>1, FS_Interval
  <2>3. (IF 1 > p THEN 0 ELSE p - 1 + 1) = p
    BY <2>1
  <2> HIDE DEF before
  <2> QED
    BY <1>4, <2>2, <2>3
<1>6. r = InsertAt(s, p + 1, x)
  BY <1>5 DEF InsertByKey
<1> HIDE DEF before
<1>7. /\ r \in Seq(Items) /\ DOMAIN r = 1..(n + 1)
      /\ \A j \in 1..(n + 1) :
            r[j] = IF j < p + 1 THEN s[j] ELSE IF j = p + 1 THEN x ELSE s[j - 1]
  <2>1. p \in 0..Len(s)
    OBVIOUS
  <2>2. /\ InsertAt(s, p + 1, x) \in Seq(Items)
        /\ DOMAIN InsertAt(s, p + 1, x) = 1..(Len(s) + 1)
        /\ \A j \in 1..(Len(s) + 1) :
              InsertAt(s, p + 1, x)[j] =
                 IF j < p + 1 THEN s[j] ELSE IF j = p + 1 THEN x ELSE s[j - 1]
    BY <2>1, InsertAtIs
  <2> HIDE DEF r
  <2> QED
    BY <1>6, <2>2
<1> HIDE DEF n, r
<1>8. \A j \in 1..(n + 1) : \/ j < p + 1 /\ j \in 1..n /\ j \in 1..p
                            \/ j = p + 1
                            \/ j > p + 1 /\ j - 1 \in 1..n /\ j - 1 \notin 1..p
  BY <1>1
<1>9. \A i \in 1..n : /\ i \in 1..p => NotAfter(s[i], x)
                      /\ i \notin 1..p => NotAfter(x, s[i])
  <2> TAKE i \in 1..n
  <2>1. i \in 1..p <=> NotAfter(s[i], x)
    BY <1>1, <1>4 DEF before
  <2> QED
    BY <1>1, <2>1, KeyOrder
<1>11. \A i, j \in DOMAIN r : i < j => NotAfter(r[i], r[j])
  <2> SUFFICES ASSUME NEW i \in 1..(n + 1), NEW j \in 1..(n + 1), i < j
               PROVE  NotAfter(r[i], r[j])
    BY <1>7
  <2>1. CASE j < p + 1
    <3>1. i \in 1..n /\ j \in 1..n /\ r[i] = s[i] /\ r[j] = s[j]
      BY <1>1, <1>7, <2>1
    <3> QED
      BY <1>1, <3>1 DEF Sorted
  <2>2. CASE j = p + 1
    <3>1. i \in 1..p /\ i \in 1..n /\ r[i] = s[i] /\ r[j] = x
      BY <1>1, <1>7, <2>2
    <3> QED
      BY <1>9, <3>1
  <2>3. CASE j > p + 1
    <3>1. j - 1 \in 1..n /\ j - 1 \notin 1..p /\ r[j] = s[j - 1]
      BY <1>1, <1>7, <2>3
    <3>2. CASE i < p + 1
      <4>1. i \in 1..n /\ r[i] = s[i] /\ i < j - 1
        BY <1>1, <1>7, <2>3, <3>2
      <4> QED
        BY <1>1, <3>1, <4>1 DEF Sorted
    <3>3. CASE i = p + 1
      BY <1>7, <1>9, <3>1, <3>3
    <3>4. CASE i > p + 1
      <4>1. i - 1 \in 1..n /\ r[i] = s[i - 1] /\ i - 1 < j - 1
        BY <1>1, <1>7, <3>4
      <4> QED
        BY <1>1, <3>1, <4>1 DEF Sorted
    <3> QED
      BY <1>1, <3>2, <3>3, <3>4
  <2> QED
    BY <1>1, <2>1, <2>2, <2>3
<1>12. \A k \in 1..n : s[k] # x
  BY <1>1 DEF Range
<1>13. \A i, j \in DOMAIN r : r[i] = r[j] => i = j
  <2> SUFFICES ASSUME NEW i \in 1..(n + 1), NEW j \in 1..(n + 1), r[i] = r[j], i < j
               PROVE  FALSE
    BY <1>1, <1>7
  <2>0. \A k, l \in 1..n : s[k] = s[l] => k = l
    BY <1>1 DEF Sorted
  <2>1. CASE j < p + 1
    <3>1. i \in 1..n /\ j \in 1..n /\ r[i] = s[i] /\ r[j] = s[j]
      BY <1>1, <1>7, <2>1
    <3>2. i = j
      BY <2>0, <3>1
    <3>3. i \in Nat
      BY <1>1
    <3> QED
      BY <3>2, <3>3
  <2>2. CASE j = p + 1
    <3>1. i \in 1..p /\ i \in 1..n /\ r[i] = s[i] /\ r[j] = x
      BY <1>1, <1>7, <2>2
    <3> QED
      BY <1>12, <3>1
  <2>3. CASE j > p + 1
    <3>1. j - 1 \in 1..n /\ j - 1 \notin 1..p /\ r[j] = s[j - 1]
      BY <1>1, <1>7, <2>3
    <3>2. CASE i < p + 1
      <4>1. i \in 1..n /\ r[i] = s[i] /\ i < j - 1
        BY <1>1, <1>7, <2>3, <3>2
      <4> QED
        BY <2>0, <3>1, <4>1
    <3>3. CASE i = p + 1
      BY <1>7, <1>12, <3>1, <3>3
    <3>4. CASE i > p + 1
      <4>1. i - 1 \in 1..n /\ r[i] = s[i - 1] /\ i - 1 < j - 1
        BY <1>1, <1>7, <3>4
      <4> QED
        BY <2>0, <3>1, <4>1
    <3> QED
      BY <1>1, <3>2, <3>3, <3>4
  <2> QED
    BY <1>1, <2>1, <2>2, <2>3
<1>14. Range(r) = Range(s) \union {x}
  <2>1. Range(r) \subseteq Range(s) \union {x}
    <3> SUFFICES ASSUME NEW j \in 1..(n + 1) PROVE r[j] \in Range(s) \union {x}
      BY <1>7 DEF Range
    <3>1. \A i \in 1..n : s[i] \in Range(s)
      BY <1>1 DEF Range
    <3> QED
      BY <1>7, <1>8, <3>1
  <2>2. x \in Range(r)
    <3>1. p + 1 \in 1..(n + 1)
      BY <1>1
    <3> QED
      BY <1>7, <3>1 DEF Range
  <2>3. Range(s) \subseteq Range(r)
    <3> SUFFICES ASSUME NEW i \in 1..n PROVE s[i] \in Range(r)
      BY <1>1 DEF Range
    <3>1. CASE i < p + 1
      <4>1. i \in 1..(n + 1) /\ r[i] = s[i]
        BY <1>1, <1>7, <3>1
      <4> QED
        BY <1>7, <4>1 DEF Range
    <3>2. CASE ~(i < p + 1)
      <4>1. i + 1 \in 1..(n + 1) /\ ~(i + 1 < p + 1) /\ i + 1 # p + 1 /\ (i + 1) - 1 = i
        BY <1>1, <3>2
      <4>2. r[i + 1] = s[i]
        BY <1>7, <4>1
      <4> QED
        BY <1>7, <4>1, <4>2 DEF Range
    <3> QED
      BY <3>1, <3>2
  <2> QED
    BY <2>1, <2>2, <2>3
<1> QED
  BY <1>7, <1>11, <1>13, <1>14 DEF Sorted, r

\* A log that is cut here decodes to the same calls as the log itself.
LEMMA DecodedLines ==
    ASSUME Typed
    PROVE  ParseTrace(raw) = Flight.lines
<1>1. CASE raw = <<>>
  BY <1>1 DEF ParseTrace, Flight, Cut, NoLog
<1>2. CASE raw # <<>>
  <2> DEFINE before == Front(raw)
             l == Last(raw)
             n == Len(raw)
  <2>0. raw \in Seq(TraceLines) /\ n \in Nat /\ n >= 1 /\ DOMAIN raw = 1..n
    <3>1. raw \in Seq(TraceLines)
      BY DEF Typed
    <3>2. n \in Nat /\ n # 0 /\ DOMAIN raw = 1..n
      BY <1>2, <3>1, EmptySeq, LenProperties, SMTT(60)
    <3> QED
      BY <3>1, <3>2
  <2>1. /\ before \in Seq(TraceLines) /\ Len(before) = n - 1
        /\ \A i \in 1..(n - 1) : before[i] = raw[i]
    BY <1>2, <2>0, FrontIs, ZenonT(60)
  <2>2. l = raw[n] /\ l \in TraceLines
    BY <2>0, ElementOfSeq DEF Last
  <2> HIDE DEF before, l, n
  <2>3. raw = Append(before, l)
    <3>1. /\ Append(before, l) \in Seq(TraceLines) /\ Len(Append(before, l)) = Len(before) + 1
          /\ \A i \in 1..Len(before) : Append(before, l)[i] = before[i]
          /\ Append(before, l)[Len(before) + 1] = l
      BY <2>1, <2>2, AppendProperties
    <3>2. Len(Append(before, l)) = n /\ Len(raw) = n
      BY <2>0, <2>1, <3>1 DEF n
    <3>3. ASSUME NEW i \in 1..n PROVE Append(before, l)[i] = raw[i]
      <4>1. CASE i = n
        <5>1. i = Len(before) + 1
          BY <2>0, <2>1, <4>1
        <5> QED
          BY <2>2, <3>1, <4>1, <5>1
      <4>2. CASE i # n
        <5>1. i \in 1..(n - 1) /\ i \in 1..Len(before)
          BY <2>0, <2>1, <4>2
        <5> QED
          BY <2>1, <3>1, <5>1
      <4> QED
        BY <4>1, <4>2
    <3> QED
      BY <2>0, <3>1, <3>2, <3>3, SeqEqual
  <2>4. CASE l.kind = "entry"
    <3> DEFINE cut == [l EXCEPT !.kind = "unfinished"]
    <3>1. Cut(raw) = Append(before, cut)
      BY <2>1, <2>2, <2>3, <2>4, CutPrinted
    <3>2. cut.kind = "unfinished" /\ cut \in TraceLines
      BY <2>2, <2>4 DEF TraceLines
    <3> HIDE DEF cut
    <3> DEFINE p == ParseAll(NoLog, before)
    <3>3. p = [lines |-> p.lines, pending |-> p.pending]
      BY <2>1, ParseTyped
    <3>4. ParseAll(NoLog, raw) = ParseLine(p, l)
      <4>1. ParseAll(NoLog, Append(before, l)) = ParseLine(p, l)
        BY <2>1, <2>2, ParseMore
      <4> HIDE DEF p
      <4> QED
        BY <2>3, <4>1
    <3>5. ParseAll(NoLog, Cut(raw)) = ParseLine(p, cut)
      BY <2>1, <3>1, <3>2, ParseMore
    <3> HIDE DEF p
    <3>6. ParseLine(p, l) = p
      BY <2>4 DEF ParseLine
    <3>7. ParseLine(p, cut) = [p EXCEPT !.pending = Append(@, cut)]
      BY <3>2 DEF ParseLine
    <3>8. ParseLine(p, cut).lines = p.lines
      BY <3>3, <3>7
    <3> QED
      BY <3>4, <3>5, <3>6, <3>8 DEF ParseTrace, Flight, NoLog
  <2>5. CASE l.kind # "entry"
    <3>1. Cut(raw) = raw
      BY <2>5 DEF Cut, l
    <3> QED
      BY <3>1 DEF ParseTrace, Flight, NoLog
  <2> QED
    BY <2>4, <2>5
<1> QED
  BY <1>1, <1>2

LEMMA RecordsOnce ==
    ASSUME Typed, Spanned
    PROVE  \A i, j \in DOMAIN records : records[i] = records[j] => i = j
<1> SUFFICES ASSUME NEW i \in DOMAIN records, NEW j \in DOMAIN records, records[i] = records[j]
             PROVE  i = j
  OBVIOUS
<1>1. records[i] \in Begins \union Ends
  BY ElementOfSeq DEF Typed
<1>2. CASE records[i] \in Begins
  BY <1>2 DEF Begins, Spanned, Numbered
<1>3. CASE records[i] \in Ends
  <2>1. records[i].k = "e"
    BY <1>3 DEF Ends
  <2>2. j \in EndsOf(records[i].id)
    BY <2>1 DEF EndsOf, EdgesOf
  <2> QED
    BY <2>1, <2>2 DEF Spanned, Paired
<1> QED
  BY <1>1, <1>2, <1>3

\* What a worker that dumped its records leaves.
LEMMA EvidenceIs ==
    ASSUME LogInv, dumped
    PROVE  /\ Evidence \in Seq(Items) /\ Sorted(Evidence)
           /\ Range(Evidence) = Returned \union Range(records)
<1> DEFINE lines == Flight.lines
           items == lines \o records
           n == Len(items)
<1>1. Typed /\ Logged /\ Spanned
  BY DEF LogInv
<1>2. lines \in Seq(SysLines) /\ records \in Seq(Begins \union Ends)
  BY <1>1, FlightTyped DEF Typed
<1>3. lines \in Seq(Items) /\ records \in Seq(Items)
  <2>1. \A i \in DOMAIN lines : lines[i] \in Items
    BY <1>2, ElementOfSeq DEF Items
  <2>2. \A i \in DOMAIN records : records[i] \in Items
    BY <1>2, ElementOfSeq DEF Items
  <2>3. SysLines \subseteq Items /\ Begins \union Ends \subseteq Items
    BY DEF Items
  <2> HIDE DEF lines
  <2> QED
    BY <1>2, <2>3
<1>4. Evidence = MergeAll(<<>>, items)
  BY <1>1, DecodedLines DEF Evidence, Dumped
<1>l. /\ Len(lines) \in Nat /\ DOMAIN lines = 1..Len(lines)
      /\ Len(records) \in Nat /\ DOMAIN records = 1..Len(records)
  BY <1>2, LenProperties
<1> HIDE DEF lines
<1>5. /\ items \in Seq(Items) /\ n = Len(lines) + Len(records)
      /\ \A i \in 1..(Len(lines) + Len(records)) :
            items[i] = IF i <= Len(lines) THEN lines[i] ELSE records[i - Len(lines)]
  BY <1>3, ConcatProperties
<1>6. n \in Nat /\ DOMAIN items = 1..n /\ \A i \in 1..n : items[i] \in Items
  BY <1>5, LenProperties, ElementOfSeq
<1> HIDE DEF items, n
<1>7. \A i \in 1..n : \/ i \in DOMAIN lines /\ items[i] = lines[i]
                      \/ /\ i > Len(lines) /\ i - Len(lines) \in DOMAIN records
                         /\ items[i] = records[i - Len(lines)]
  BY <1>5, <1>l
<1>8. \A i, j \in 1..n : items[i] = items[j] => i = j
  <2> SUFFICES ASSUME NEW i \in 1..n, NEW j \in 1..n, items[i] = items[j]
               PROVE  i = j
    OBVIOUS
  <2>1. \A k \in DOMAIN lines : lines[k] \in SysLines
    BY <1>2, ElementOfSeq
  <2>2. \A k \in DOMAIN records : records[k] \notin SysLines
    <3> TAKE k \in DOMAIN records
    <3>1. records[k] \in Begins \union Ends /\ records[k] \in Items
      BY <1>2, <1>3, ElementOfSeq
    <3> QED
      BY <3>1, ItemIs
  <2>3. \A k, l \in DOMAIN lines : lines[k] = lines[l] => k = l
    BY <1>1 DEF Logged, lines
  <2>4. \A k, l \in DOMAIN records : records[k] = records[l] => k = l
    BY <1>1, RecordsOnce
  <2>5. CASE i \in DOMAIN lines /\ items[i] = lines[i]
    BY <1>7, <2>1, <2>2, <2>3, <2>5
  <2>6. CASE /\ i > Len(lines) /\ i - Len(lines) \in DOMAIN records
             /\ items[i] = records[i - Len(lines)]
    <3>1. /\ j > Len(lines) /\ j - Len(lines) \in DOMAIN records
          /\ items[j] = records[j - Len(lines)]
      BY <1>7, <2>1, <2>2, <2>6
    <3>2. i - Len(lines) = j - Len(lines)
      BY <2>4, <2>6, <3>1
    <3> QED
      BY <1>6, <1>l, <3>2
  <2> QED
    BY <1>7, <2>5, <2>6
<1>9. PICK f : Merging(f, <<>>, n, items)
  BY <1>6, MergeFold
<1> DEFINE S == {k \in 0..n : /\ f[k] \in Seq(Items) /\ Sorted(f[k])
                              /\ Range(f[k]) = {items[i] : i \in 1..k}}
<1>10. 0 \in S
  <2>1. f[0] = <<>> /\ 0 \in 0..n
    BY <1>6, <1>9 DEF Merging
  <2>2. <<>> \in Seq(Items) /\ Sorted(<<>>) /\ Range(<<>>) = {}
    BY EmptySeq DEF Sorted, Range
  <2>3. {items[i] : i \in 1..0} = {}
    OBVIOUS
  <2> QED
    BY <2>1, <2>2, <2>3
<1>11. ASSUME NEW k \in 1..n, k - 1 \in S PROVE k \in S
  <2>1. f[k] = InsertByKey(f[k - 1], items[k])
    BY <1>9 DEF Merging
  <2>2. /\ f[k - 1] \in Seq(Items) /\ Sorted(f[k - 1])
        /\ Range(f[k - 1]) = {items[i] : i \in 1..(k - 1)}
    BY <1>11
  <2>3. items[k] \notin Range(f[k - 1]) /\ items[k] \in Items
    <3>1. \A i \in 1..(k - 1) : i \in 1..n /\ i # k
      BY <1>6
    <3> QED
      BY <1>6, <1>8, <2>2, <3>1
  <2>4. /\ f[k] \in Seq(Items) /\ Sorted(f[k])
        /\ Range(f[k]) = Range(f[k - 1]) \union {items[k]}
    BY <2>1, <2>2, <2>3, Inserted
  <2>5. 1..k = 1..(k - 1) \union {k}
    BY <1>6
  <2>6. {items[i] : i \in 1..k} = {items[i] : i \in 1..(k - 1)} \union {items[k]}
    BY <2>5
  <2>7. k \in 0..n
    BY <1>6
  <2> QED
    BY <2>2, <2>4, <2>6, <2>7
<1>12. n \in S
  <2> HIDE DEF S
  <2>1. n \in 0..n
    BY <1>6
  <2> QED
    BY <1>6, <1>10, <1>11, <2>1, UpTo
<1>13. Evidence = f[n]
  BY <1>4, <1>9 DEF Merging
<1>14. {items[i] : i \in 1..n} = Range(lines) \union Range(records)
  <2>1. {items[i] : i \in 1..n} \subseteq Range(lines) \union Range(records)
    BY <1>7 DEF Range
  <2>2. ASSUME NEW k \in DOMAIN lines PROVE lines[k] \in {items[i] : i \in 1..n}
    <3>1. k \in 1..n /\ items[k] = lines[k]
      BY <1>5, <1>l
    <3> QED
      BY <3>1
  <2>3. ASSUME NEW k \in DOMAIN records PROVE records[k] \in {items[i] : i \in 1..n}
    <3>1. k + Len(lines) \in 1..n /\ ~(k + Len(lines) <= Len(lines))
          /\ (k + Len(lines)) - Len(lines) = k
      BY <1>5, <1>l
    <3>2. items[k + Len(lines)] = records[k]
      BY <1>5, <3>1
    <3> QED
      BY <3>1, <3>2
  <2> QED
    BY <2>1, <2>2, <2>3 DEF Range
<1>15. Range(lines) = Returned
  BY DEF lines, Returned
<1> QED
  BY <1>12, <1>13, <1>14, <1>15

-----------------------------------------------------------------------------
(* Translation: what an item does to the state of the fold.                *)

IsOut(out) ==
    out = [states |-> out.states, open |-> out.open, events |-> out.events,
           gitReads |-> out.gitReads, wrote |-> out.wrote, unsupported |-> out.unsupported]
IsState(s) == s = [cwd |-> s.cwd, attr |-> s.attr, span |-> s.span]
Shaped(out) == IsOut(out) /\ \A t : IsState(StateFor(out.states, t))

Cwd(out, t) == StateFor(out.states, t).cwd
Attr(out, t) == StateFor(out.states, t).attr
Span(out, t) == StateFor(out.states, t).span

LEMMA SetStateIs ==
    ASSUME NEW states, NEW t, NEW s, NEW u
    PROVE  StateFor(SetState(states, t, s), u) = IF u = t THEN s ELSE StateFor(states, u)
BY DEF StateFor, SetState

LEMMA EmptyShaped ==
    /\ Shaped(EmptyOut) /\ DOMAIN EmptyOut.open = {} /\ EmptyOut.unsupported = Absent
    /\ EmptyOut.events = <<>> /\ EmptyOut.gitReads = {} /\ EmptyOut.wrote = FALSE
    /\ \A t : Span(EmptyOut, t) = NoSpan /\ Cwd(EmptyOut, t) = "root" /\ Attr(EmptyOut, t) = "shell"
<1>1. EmptyOut.states = <<>> /\ EmptyOut.open = <<>> /\ DOMAIN <<>> = {}
  BY DEF EmptyOut
<1>2. \A t : StateFor(<<>>, t) = FreshState
  BY <1>1 DEF StateFor
<1> QED
  BY <1>1, <1>2 DEF Shaped, IsOut, IsState, EmptyOut, FreshState, Span, Cwd, Attr

\* The states of the threads after one of them was set.
Put(out, t, c, a, s) ==
    [out EXCEPT !.states = SetState(@, t, [cwd |-> c, attr |-> a, span |-> s])]

LEMMA SetShaped ==
    ASSUME NEW out, Shaped(out), NEW t, NEW c, NEW a, NEW s
    PROVE  LET o == Put(out, t, c, a, s) IN
           /\ Shaped(o)
           /\ o.open = out.open /\ o.events = out.events /\ o.gitReads = out.gitReads
           /\ o.wrote = out.wrote /\ o.unsupported = out.unsupported
           /\ \A u : /\ Cwd(o, u) = IF u = t THEN c ELSE Cwd(out, u)
                     /\ Attr(o, u) = IF u = t THEN a ELSE Attr(out, u)
                     /\ Span(o, u) = IF u = t THEN s ELSE Span(out, u)
<1> DEFINE new == [cwd |-> c, attr |-> a, span |-> s]
           o == Put(out, t, c, a, s)
<1>1. /\ IsOut(o) /\ o.states = SetState(out.states, t, new)
      /\ o.open = out.open /\ o.events = out.events /\ o.gitReads = out.gitReads
      /\ o.wrote = out.wrote /\ o.unsupported = out.unsupported
  <2> DEFINE st == SetState(out.states, t, new)
  <2>1. o = [out EXCEPT !.states = st]
    BY DEF Put
  <2> HIDE DEF st, o
  <2>2. /\ IsOut(o) /\ o.states = st
        /\ o.open = out.open /\ o.events = out.events /\ o.gitReads = out.gitReads
        /\ o.wrote = out.wrote /\ o.unsupported = out.unsupported
    BY <2>1 DEF Shaped, IsOut
  <2> QED
    BY <2>2 DEF st
<1>2. \A u : StateFor(o.states, u) = IF u = t THEN new ELSE StateFor(out.states, u)
  <2> TAKE u
  <2>1. StateFor(SetState(out.states, t, new), u) = IF u = t THEN new ELSE StateFor(out.states, u)
    BY SetStateIs
  <2> HIDE DEF o, new
  <2> QED
    BY <1>1, <2>1
<1>3. \A u : IsState(StateFor(out.states, u))
  BY DEF Shaped
<1>4. new.cwd = c /\ new.attr = a /\ new.span = s /\ IsState(new)
  BY DEF IsState
<1> HIDE DEF new, o
<1>5. \A u : IsState(StateFor(o.states, u))
  BY <1>2, <1>3, <1>4
<1> QED
  BY <1>1, <1>2, <1>4, <1>5 DEF Shaped, Cwd, Attr, Span, o

\* An effect is on the capabilities, on the reads of a git builtin, or on neither.
LEMMA Refused ==
    ASSUME NEW out, Shaped(out), NEW reason, reason # Absent
    PROVE  /\ Shaped(Refuse(out, reason)) /\ Refuse(out, reason).unsupported # Absent
           /\ Refuse(out, reason).states = out.states /\ Refuse(out, reason).open = out.open
           /\ Refuse(out, reason).events = out.events
           /\ Refuse(out, reason).gitReads = out.gitReads
           /\ Refuse(out, reason).wrote = out.wrote
<1>1. CASE out.unsupported = Absent
  <2> DEFINE o == [out EXCEPT !.unsupported = reason]
  <2>1. /\ IsOut(o) /\ o.unsupported = reason /\ o.states = out.states /\ o.open = out.open
        /\ o.events = out.events /\ o.gitReads = out.gitReads /\ o.wrote = out.wrote
    BY DEF Shaped, IsOut
  <2>2. Refuse(out, reason) = o
    BY <1>1 DEF Refuse
  <2> HIDE DEF o
  <2> QED
    BY <2>1, <2>2 DEF Shaped
<1>2. CASE out.unsupported # Absent
  BY <1>2 DEF Refuse
<1> QED
  BY <1>1, <1>2

RawGit(line) == line.call.name = "execve" /\ line.call.ret = "ok" /\ line.call.git

Works(call) == call.name # "exited" /\ call.ret = "ok"
Enters(call) == call.name \in {"chdir", "fchdir", "clone", "execve"}
Goes(call, cwd) == IF call.name = "chdir" THEN Resolve(cwd, call.to) ELSE call.dirfd

\* What one line of the log does.
LEMMA LineDoes ==
    ASSUME NEW out, Shaped(out), NEW line \in SysLines
    PROVE  LET o == RecordLine(out, line)
               call == line.call
               t == line.tid
               state == StateFor(out.states, t)
               effects == FileEffects(call, state)
               noted == Works(call) /\ ~Enters(call) /\ Attr(out, t) # "git"
           IN
           /\ Shaped(o) /\ o.open = out.open
           /\ ~RawGit(line) => o.unsupported = out.unsupported
           /\ RawGit(line) => o.unsupported # Absent
           /\ out.unsupported # Absent => o.unsupported # Absent
           /\ \A u : /\ Span(o, u) = IF Works(call) /\ call.name = "clone" /\ u = call.child
                                       THEN NoSpan ELSE Span(out, u)
                     /\ Attr(o, u) = IF Works(call) /\ call.name = "clone" /\ u = call.child
                                       THEN Attr(out, t)
                                     ELSE IF RawGit(line) /\ u = t THEN "git"
                                     ELSE Attr(out, u)
                     /\ Cwd(o, u) = IF Works(call) /\ call.name = "clone" /\ u = call.child
                                      THEN Cwd(out, t)
                                    ELSE IF Works(call) /\ call.name \in {"chdir", "fchdir"} /\ u = t
                                      THEN Goes(call, Cwd(out, t))
                                    ELSE Cwd(out, u)
           /\ ~noted => o.events = out.events /\ o.gitReads = out.gitReads /\ o.wrote = out.wrote
           /\ noted => /\ o.wrote = (out.wrote \/ Writes(effects))
                       /\ o.events = IF Span(out, t) # NoSpan THEN out.events
                                     ELSE KeepResources(out.events, effects)
                       /\ o.gitReads = IF Span(out, t) # NoSpan
                                         THEN out.gitReads \union
                                              {effects[i][2] : i \in {j \in DOMAIN effects :
                                                 effects[j][1] = "Read" /\ WorkRelative(effects[j][2])}}
                                         ELSE out.gitReads
<1> DEFINE call == line.call
           t == line.tid
           state == StateFor(out.states, t)
           o == RecordLine(out, line)
           c == state.cwd
           a == state.attr
           s == state.span
           effects == FileEffects(call, state)
<1>1. IsState(state) /\ state = [cwd |-> c, attr |-> a, span |-> s]
      /\ Cwd(out, t) = c /\ Attr(out, t) = a /\ Span(out, t) = s
  BY DEF Shaped, IsState, Cwd, Attr, Span
<1>2. line \in SysLines /\ call \in SysCalls \union ExitCalls
  BY DEF SysLines
<1>3. /\ call \in SysCalls => call.name \in CallNames /\ call.ret \in {"ok", "error"}
                              /\ call.git \in BOOLEAN
      /\ call \in ExitCalls => call.name = "exited"
  BY DEF SysCalls, ExitCalls
<1> DEFINE seen == [out EXCEPT !.states = SetState(@, t, state)]
<1> HIDE DEF c, a, s, state
<1>4. /\ Shaped(seen) /\ seen.open = out.open /\ seen.events = out.events
      /\ seen.gitReads = out.gitReads /\ seen.wrote = out.wrote
      /\ seen.unsupported = out.unsupported
      /\ \A u : Cwd(seen, u) = Cwd(out, u) /\ Attr(seen, u) = Attr(out, u)
                /\ Span(seen, u) = Span(out, u)
  <2>1. seen = Put(out, t, c, a, s)
    BY <1>1 DEF Put
  <2> HIDE DEF seen
  <2>2. /\ Shaped(seen) /\ seen.open = out.open /\ seen.events = out.events
        /\ seen.gitReads = out.gitReads /\ seen.wrote = out.wrote
        /\ seen.unsupported = out.unsupported
        /\ \A u : /\ Cwd(seen, u) = IF u = t THEN c ELSE Cwd(out, u)
                  /\ Attr(seen, u) = IF u = t THEN a ELSE Attr(out, u)
                  /\ Span(seen, u) = IF u = t THEN s ELSE Span(out, u)
    BY <2>1, SetShaped
  <2>3. Cwd(out, t) = c /\ Attr(out, t) = a /\ Span(out, t) = s
    BY <1>1
  <2> QED
    BY <2>2, <2>3
<1> HIDE DEF seen, t, call
\* A step to a new state of one thread.
<1>5. ASSUME NEW v, NEW cv, NEW av, NEW sv
      PROVE  LET p == Put(seen, v, cv, av, sv) IN
             /\ Shaped(p) /\ p.open = out.open /\ p.events = out.events
             /\ p.gitReads = out.gitReads /\ p.wrote = out.wrote
             /\ p.unsupported = out.unsupported
             /\ \A u : /\ Cwd(p, u) = IF u = v THEN cv ELSE Cwd(out, u)
                       /\ Attr(p, u) = IF u = v THEN av ELSE Attr(out, u)
                       /\ Span(p, u) = IF u = v THEN sv ELSE Span(out, u)
  <2> DEFINE p == Put(seen, v, cv, av, sv)
  <2>1. /\ Shaped(p) /\ p.open = seen.open /\ p.events = seen.events
        /\ p.gitReads = seen.gitReads /\ p.wrote = seen.wrote
        /\ p.unsupported = seen.unsupported
        /\ \A u : /\ Cwd(p, u) = IF u = v THEN cv ELSE Cwd(seen, u)
                  /\ Attr(p, u) = IF u = v THEN av ELSE Attr(seen, u)
                  /\ Span(p, u) = IF u = v THEN sv ELSE Span(seen, u)
    BY <1>4, SetShaped
  <2> QED
    BY <1>4, <2>1
<1>6. RawGit(line) <=> call.name = "execve" /\ call.ret = "ok" /\ call.git
  BY DEF RawGit, call
<1>7. \/ call.name = "exited" \/ (Works(call) /\ call.name \in {"chdir", "fchdir"})
      \/ (Works(call) /\ call.name = "clone") \/ (Works(call) /\ call.name = "execve")
      \/ (call.name # "exited" /\ ~Works(call))
      \/ (Works(call) /\ ~Enters(call) /\ a = "git")
      \/ (Works(call) /\ ~Enters(call) /\ a # "git")
  BY DEF Works, Enters
<1> DEFINE Goal ==
           /\ Shaped(o) /\ o.open = out.open
           /\ ~RawGit(line) => o.unsupported = out.unsupported
           /\ RawGit(line) => o.unsupported # Absent
           /\ out.unsupported # Absent => o.unsupported # Absent
           /\ \A u : /\ Span(o, u) = IF Works(call) /\ call.name = "clone" /\ u = call.child
                                       THEN NoSpan ELSE Span(out, u)
                     /\ Attr(o, u) = IF Works(call) /\ call.name = "clone" /\ u = call.child
                                       THEN Attr(out, t)
                                     ELSE IF RawGit(line) /\ u = t THEN "git"
                                     ELSE Attr(out, u)
                     /\ Cwd(o, u) = IF Works(call) /\ call.name = "clone" /\ u = call.child
                                      THEN Cwd(out, t)
                                    ELSE IF Works(call) /\ call.name \in {"chdir", "fchdir"} /\ u = t
                                      THEN Goes(call, Cwd(out, t))
                                    ELSE Cwd(out, u)
           noted == [seen EXCEPT !.wrote = @ \/ Writes(effects)]
           Noted ==
             /\ o.wrote = (out.wrote \/ Writes(effects))
             /\ o.events = IF Span(out, t) # NoSpan THEN out.events
                           ELSE KeepResources(out.events, effects)
             /\ o.gitReads = IF Span(out, t) # NoSpan
                               THEN out.gitReads \union
                                    {effects[i][2] : i \in {j \in DOMAIN effects :
                                       effects[j][1] = "Read" /\ WorkRelative(effects[j][2])}}
                               ELSE out.gitReads
           Still == o.events = out.events /\ o.gitReads = out.gitReads /\ o.wrote = out.wrote
\* A line that leaves the states as they are.
<1>8. ASSUME o = seen, ~(Works(call) /\ call.name \in {"chdir", "fchdir", "clone"}), ~RawGit(line)
      PROVE  Goal /\ Still
  <2> HIDE DEF o
  <2> QED
    BY <1>4, <1>8
<1> DEFINE cond == Works(call) /\ ~Enters(call) /\ Attr(out, t) # "git"
           Done == Goal /\ (~cond => Still) /\ (cond => Noted)
           moved(dir) == [seen EXCEPT !.states = SetState(@, t, [state EXCEPT !.cwd = dir])]
<1>10. ASSUME call.name = "exited" PROVE Done
  <2>1. o = seen
    BY <1>10 DEF RecordLine, call, t, seen, state
  <2>2. ~Works(call) /\ ~RawGit(line)
    BY <1>6, <1>10 DEF Works
  <2>3. Goal /\ Still
    BY <1>8, <2>1, <2>2
  <2> HIDE DEF o, Goal, Still, Noted
  <2> QED
    BY <2>2, <2>3
<1>11. ASSUME Works(call), call.name \in {"chdir", "fchdir"} PROVE Done
  <2> DEFINE dir == Goes(call, c)
  <2>1. o = [seen EXCEPT !.states = SetState(@, t, [state EXCEPT !.cwd = dir])]
    BY <1>11 DEF RecordLine, call, t, seen, state, c, Works, Goes
  <2>2. [state EXCEPT !.cwd = dir] = [cwd |-> dir, attr |-> a, span |-> s]
    <3> HIDE DEF dir
    <3> QED
      BY <1>1
  <2>3. o = Put(seen, t, dir, a, s)
    BY <2>1, <2>2 DEF Put
  <2> HIDE DEF o, dir
  <2>4. /\ Shaped(o) /\ o.open = out.open /\ o.events = out.events
        /\ o.gitReads = out.gitReads /\ o.wrote = out.wrote
        /\ o.unsupported = out.unsupported
        /\ \A u : /\ Cwd(o, u) = IF u = t THEN dir ELSE Cwd(out, u)
                  /\ Attr(o, u) = IF u = t THEN a ELSE Attr(out, u)
                  /\ Span(o, u) = IF u = t THEN s ELSE Span(out, u)
    BY <1>5, <2>3
  <2>5. ~RawGit(line) /\ call.name # "clone" /\ Enters(call)
    BY <1>6, <1>11 DEF Enters
  <2>6. dir = Goes(call, Cwd(out, t)) /\ Attr(out, t) = a /\ Span(out, t) = s
    BY <1>1 DEF dir
  <2>7. Goal
    BY <1>11, <2>4, <2>5, <2>6
  <2> HIDE DEF Goal, Noted
  <2> QED
    BY <2>4, <2>5, <2>7
<1>12. ASSUME Works(call), call.name = "clone" PROVE Done
  <2>1. o = [seen EXCEPT !.states = SetState(@, call.child, [state EXCEPT !.span = NoSpan])]
    BY <1>12 DEF RecordLine, call, t, seen, state, Works
  <2>2. [state EXCEPT !.span = NoSpan] = [cwd |-> c, attr |-> a, span |-> NoSpan]
    BY <1>1
  <2>3. o = Put(seen, call.child, c, a, NoSpan)
    BY <2>1, <2>2 DEF Put
  <2> HIDE DEF o
  <2>4. /\ Shaped(o) /\ o.open = out.open /\ o.events = out.events
        /\ o.gitReads = out.gitReads /\ o.wrote = out.wrote
        /\ o.unsupported = out.unsupported
        /\ \A u : /\ Cwd(o, u) = IF u = call.child THEN c ELSE Cwd(out, u)
                  /\ Attr(o, u) = IF u = call.child THEN a ELSE Attr(out, u)
                  /\ Span(o, u) = IF u = call.child THEN NoSpan ELSE Span(out, u)
    BY <1>5, <2>3
  <2>5. ~RawGit(line) /\ call.name \notin {"chdir", "fchdir"} /\ Enters(call)
    BY <1>6, <1>12 DEF Enters
  <2>6. Cwd(out, t) = c /\ Attr(out, t) = a
    BY <1>1
  <2>7. Goal
    BY <1>12, <2>4, <2>5, <2>6
  <2> HIDE DEF Goal, Noted
  <2> QED
    BY <2>4, <2>5, <2>7
<1>13. ASSUME Works(call), call.name = "execve" PROVE Done
  <2> DEFINE p == [seen EXCEPT !.states = SetState(@, t, [state EXCEPT !.attr = "git"])]
  <2>1. o = IF call.git THEN Refuse(p, "raw git") ELSE seen
    BY <1>13 DEF RecordLine, call, t, seen, state, Works
  <2>2. [state EXCEPT !.attr = "git"] = [cwd |-> c, attr |-> "git", span |-> s]
    BY <1>1
  <2>3. p = Put(seen, t, c, "git", s)
    BY <2>2 DEF Put
  <2> HIDE DEF o, p
  <2>4. /\ Shaped(p) /\ p.open = out.open /\ p.events = out.events
        /\ p.gitReads = out.gitReads /\ p.wrote = out.wrote
        /\ p.unsupported = out.unsupported
        /\ \A u : /\ Cwd(p, u) = IF u = t THEN c ELSE Cwd(out, u)
                  /\ Attr(p, u) = IF u = t THEN "git" ELSE Attr(out, u)
                  /\ Span(p, u) = IF u = t THEN s ELSE Span(out, u)
    BY <1>5, <2>3
  <2>5. call.name \notin {"chdir", "fchdir", "clone"} /\ Enters(call)
        /\ (RawGit(line) <=> call.git)
    BY <1>6, <1>13 DEF Enters, Works
  <2>6. CASE call.git
    <3>1. o = Refuse(p, "raw git") /\ "raw git" # Absent
      BY <2>1, <2>6 DEF Absent
    <3>2. /\ Shaped(o) /\ o.unsupported # Absent /\ o.states = p.states /\ o.open = p.open
          /\ o.events = p.events /\ o.gitReads = p.gitReads /\ o.wrote = p.wrote
      BY <2>4, <3>1, Refused
    <3>3. \A u : Cwd(o, u) = Cwd(p, u) /\ Attr(o, u) = Attr(p, u) /\ Span(o, u) = Span(p, u)
      BY <3>2 DEF Cwd, Attr, Span
    <3>4. Cwd(out, t) = c /\ Span(out, t) = s
      BY <1>1
    <3>5. Goal
      BY <2>4, <2>5, <2>6, <3>2, <3>3, <3>4
    <3> HIDE DEF Goal, Noted
    <3> QED
      BY <2>4, <2>5, <3>2, <3>5
  <2>7. CASE ~call.git
    <3>1. o = seen
      BY <2>1, <2>7
    <3>2. Goal /\ Still
      BY <1>8, <2>5, <2>7, <3>1 DEF o
    <3> HIDE DEF Goal, Still, Noted
    <3> QED
      BY <2>5, <3>2
  <2> HIDE DEF Done
  <2> QED
    BY <2>6, <2>7
<1>14. ASSUME call.name # "exited", ~Works(call) PROVE Done
  <2>1. call.ret # "ok" /\ call.ret = "error"
    BY <1>2, <1>3, <1>14 DEF Works, call
  <2>2. o = seen
    BY <1>14, <2>1 DEF RecordLine, call, t, seen, state
  <2>3. ~RawGit(line)
    BY <1>6, <2>1
  <2>4. Goal /\ Still
    BY <1>8, <1>14, <2>2, <2>3
  <2> HIDE DEF o, Goal, Still, Noted
  <2> QED
    BY <1>14, <2>4
<1>15. ASSUME Works(call), ~Enters(call) PROVE Done
  <2>1. /\ call.name # "exited" /\ call.ret = "ok" /\ call.ret # "error"
        /\ call.name \notin {"chdir", "fchdir", "clone", "execve"} /\ ~RawGit(line)
    BY <1>6, <1>15 DEF Works, Enters
  <2> DEFINE reads == {effects[i][2] : i \in {j \in DOMAIN effects :
                          effects[j][1] = "Read" /\ WorkRelative(effects[j][2])}}
             onGit == [noted EXCEPT !.gitReads = @ \union reads]
             onShell == [noted EXCEPT !.events = KeepResources(@, effects)]
  <2>2. o = IF a = "git" THEN seen ELSE IF s # NoSpan THEN onGit ELSE onShell
    BY <2>1 DEF RecordLine, call, t, seen, state, a, s
  <2>3. CASE a = "git"
    <3>1. o = seen /\ ~cond
      BY <1>1, <2>2, <2>3
    <3>2. Goal /\ Still
      BY <1>8, <2>1, <3>1
    <3> HIDE DEF o, Goal, Still, Noted, cond
    <3> QED
      BY <3>1, <3>2
  <2>4. CASE a # "git"
    <3> DEFINE wrote == seen.wrote \/ Writes(effects)
    <3>0. cond /\ Span(out, t) = s
      BY <1>1, <1>15, <2>4
    <3>1. noted = [seen EXCEPT !.wrote = wrote]
      OBVIOUS
    <3> HIDE DEF wrote
    <3>2. IsOut(noted) /\ noted.states = seen.states /\ noted.open = seen.open
          /\ noted.events = seen.events /\ noted.gitReads = seen.gitReads
          /\ noted.wrote = wrote /\ noted.unsupported = seen.unsupported
      BY <1>4, <3>1 DEF Shaped, IsOut
    <3>3. wrote = (out.wrote \/ Writes(effects))
      BY <1>4 DEF wrote
    <3> HIDE DEF noted
    <3>4. CASE s # NoSpan
      <4> DEFINE more == noted.gitReads \union reads
      <4>1. o = [noted EXCEPT !.gitReads = more]
        BY <2>2, <2>4, <3>4
      <4>2. more = out.gitReads \union reads
        BY <1>4, <3>2
      <4> HIDE DEF more, o, reads
      <4>3. /\ IsOut(o) /\ o.states = seen.states /\ o.open = seen.open
            /\ o.events = seen.events /\ o.gitReads = more
            /\ o.wrote = wrote /\ o.unsupported = seen.unsupported
        BY <3>2, <4>1 DEF IsOut
      <4>4. Shaped(o) /\ \A u : Cwd(o, u) = Cwd(seen, u) /\ Attr(o, u) = Attr(seen, u)
                                /\ Span(o, u) = Span(seen, u)
        BY <1>4, <4>3 DEF Shaped, Cwd, Attr, Span
      <4>5. Goal
        BY <1>4, <2>1, <4>3, <4>4
      <4>6. Noted
        BY <1>4, <3>0, <3>3, <3>4, <4>2, <4>3 DEF reads
      <4> HIDE DEF Goal, Still, Noted, cond
      <4> QED
        BY <3>0, <4>5, <4>6
    <3>5. CASE s = NoSpan
      <4> DEFINE more == KeepResources(noted.events, effects)
      <4>1. o = [noted EXCEPT !.events = more]
        BY <2>2, <2>4, <3>5
      <4>2. more = KeepResources(out.events, effects)
        BY <1>4, <3>2
      <4> HIDE DEF more, o, reads
      <4>3. /\ IsOut(o) /\ o.states = seen.states /\ o.open = seen.open
            /\ o.events = more /\ o.gitReads = seen.gitReads
            /\ o.wrote = wrote /\ o.unsupported = seen.unsupported
        BY <3>2, <4>1 DEF IsOut
      <4>4. Shaped(o) /\ \A u : Cwd(o, u) = Cwd(seen, u) /\ Attr(o, u) = Attr(seen, u)
                                /\ Span(o, u) = Span(seen, u)
        BY <1>4, <4>3 DEF Shaped, Cwd, Attr, Span
      <4>5. Goal
        BY <1>4, <2>1, <4>3, <4>4
      <4>6. Noted
        BY <1>4, <3>0, <3>3, <3>5, <4>2, <4>3
      <4> HIDE DEF Goal, Still, Noted, cond
      <4> QED
        BY <3>0, <4>5, <4>6
    <3> QED
      BY <3>4, <3>5
  <2> QED
    BY <2>3, <2>4
<1>16. Done
  <2> HIDE DEF Done
  <2> QED
    BY <1>10, <1>11, <1>12, <1>13, <1>14, <1>15 DEF Enters, Works
<1> QED
  BY <1>16 DEF call, t, state

\* What a begin edge does.
LEMMA BeginDoes ==
    ASSUME NEW out, Shaped(out), NEW r
    PROVE  LET o == RecordBegin(out, r)
               git == IsGitBuiltin(r.builtin)
           IN
           /\ Shaped(o)
           /\ o.open = SetState(out.open, r.id, r)
           /\ o.events = out.events /\ o.gitReads = out.gitReads /\ o.wrote = out.wrote
           /\ \A u : /\ Cwd(o, u) = Cwd(out, u) /\ Attr(o, u) = Attr(out, u)
                     /\ Span(o, u) = IF git /\ u = r.tid THEN r.id ELSE Span(out, u)
           /\ r.id \notin DOMAIN out.open /\ (git => Span(out, r.tid) = NoSpan) =>
                 o.unsupported = out.unsupported
           /\ out.unsupported # Absent => o.unsupported # Absent
<1> DEFINE state == StateFor(out.states, r.tid)
           c == state.cwd
           a == state.attr
           open == SetState(out.open, r.id, r)
           opened == [out EXCEPT !.open = open]
           known == r.id \in DOMAIN out.open
           once == IF known THEN Refuse(opened, "began twice") ELSE opened
           new == [state EXCEPT !.span = r.id]
           marked == [once EXCEPT !.states = SetState(@, r.tid, new)]
           o == RecordBegin(out, r)
           git == IsGitBuiltin(r.builtin)
<1>1. o = IF ~git THEN once
          ELSE IF Span(out, r.tid) # NoSpan THEN Refuse(marked, "overlapping spans") ELSE marked
  BY DEF RecordBegin, Span
<1>2. IsState(state)
  BY DEF Shaped
<1>3. new = [cwd |-> c, attr |-> a, span |-> r.id]
  BY <1>2 DEF IsState
<1>4. marked = Put(once, r.tid, c, a, r.id)
  <2> HIDE DEF once, new
  <2> QED
    BY <1>3 DEF Put
<1>6. Cwd(out, r.tid) = c /\ Attr(out, r.tid) = a
  BY DEF Cwd, Attr
<1> HIDE DEF open, new, c, a, state
<1>7. /\ IsOut(opened) /\ opened.states = out.states /\ opened.open = open
      /\ opened.events = out.events /\ opened.gitReads = out.gitReads
      /\ opened.wrote = out.wrote /\ opened.unsupported = out.unsupported
  BY DEF Shaped, IsOut
<1>8. Shaped(opened)
  BY <1>7 DEF Shaped
<1> HIDE DEF opened
<1>9. /\ Shaped(once) /\ once.states = out.states /\ once.open = open
      /\ once.events = out.events /\ once.gitReads = out.gitReads
      /\ once.wrote = out.wrote
      /\ ~known => once.unsupported = out.unsupported
      /\ out.unsupported # Absent => once.unsupported # Absent
  <2>1. "began twice" # Absent
    BY DEF Absent
  <2>2. /\ Shaped(Refuse(opened, "began twice"))
        /\ Refuse(opened, "began twice").unsupported # Absent
        /\ Refuse(opened, "began twice").states = opened.states
        /\ Refuse(opened, "began twice").open = opened.open
        /\ Refuse(opened, "began twice").events = opened.events
        /\ Refuse(opened, "began twice").gitReads = opened.gitReads
        /\ Refuse(opened, "began twice").wrote = opened.wrote
    BY <1>8, <2>1, Refused
  <2> QED
    BY <1>7, <1>8, <2>2
<1>10. \A u : Cwd(once, u) = Cwd(out, u) /\ Attr(once, u) = Attr(out, u)
              /\ Span(once, u) = Span(out, u)
  BY <1>9 DEF Cwd, Attr, Span
<1> HIDE DEF once, known
<1>11. /\ Shaped(marked)
       /\ marked.open = once.open /\ marked.events = once.events
       /\ marked.gitReads = once.gitReads
       /\ marked.wrote = once.wrote /\ marked.unsupported = once.unsupported
       /\ \A u : /\ Cwd(marked, u) = IF u = r.tid THEN c ELSE Cwd(once, u)
                 /\ Attr(marked, u) = IF u = r.tid THEN a ELSE Attr(once, u)
                 /\ Span(marked, u) = IF u = r.tid THEN r.id ELSE Span(once, u)
  <2> HIDE DEF marked
  <2> QED
    BY <1>4, <1>9, SetShaped
<1> HIDE DEF marked
<1>12. /\ Shaped(Refuse(marked, "overlapping spans"))
       /\ Refuse(marked, "overlapping spans").unsupported # Absent
       /\ Refuse(marked, "overlapping spans").states = marked.states
       /\ Refuse(marked, "overlapping spans").open = marked.open
       /\ Refuse(marked, "overlapping spans").events = marked.events
       /\ Refuse(marked, "overlapping spans").gitReads = marked.gitReads
       /\ Refuse(marked, "overlapping spans").wrote = marked.wrote
  <2>1. "overlapping spans" # Absent
    BY DEF Absent
  <2> QED
    BY <1>11, <2>1, Refused
<1>13. \A u : /\ Cwd(Refuse(marked, "overlapping spans"), u) = Cwd(marked, u)
              /\ Attr(Refuse(marked, "overlapping spans"), u) = Attr(marked, u)
              /\ Span(Refuse(marked, "overlapping spans"), u) = Span(marked, u)
  BY <1>12 DEF Cwd, Attr, Span
<1> DEFINE Goal ==
           /\ Shaped(o)
           /\ o.open = open
           /\ o.events = out.events /\ o.gitReads = out.gitReads /\ o.wrote = out.wrote
           /\ \A u : /\ Cwd(o, u) = Cwd(out, u) /\ Attr(o, u) = Attr(out, u)
                     /\ Span(o, u) = IF git /\ u = r.tid THEN r.id ELSE Span(out, u)
           /\ ~known /\ (git => Span(out, r.tid) = NoSpan) => o.unsupported = out.unsupported
           /\ out.unsupported # Absent => o.unsupported # Absent
<1> HIDE DEF o
<1>14. Goal
  <2>1. CASE ~git
    BY <1>1, <1>9, <1>10, <2>1
  <2>2. CASE git /\ Span(out, r.tid) # NoSpan
    <3>1. o = Refuse(marked, "overlapping spans")
      BY <1>1, <2>2
    <3> QED
      BY <1>6, <1>9, <1>10, <1>11, <1>12, <1>13, <2>2, <3>1
  <2>3. CASE git /\ Span(out, r.tid) = NoSpan
    <3>1. o = marked
      BY <1>1, <2>3
    <3> QED
      BY <1>6, <1>9, <1>10, <1>11, <2>3, <3>1
  <2> HIDE DEF Goal, git
  <2> QED
    BY <2>1, <2>2, <2>3
<1> QED
  BY <1>14 DEF o, known, open

\* What an end edge does.
LEMMA EndDoes ==
    ASSUME NEW out, Shaped(out), NEW r
    PROVE  LET o == RecordEnd(out, r)
               b == out.open[r.id]
               git == IsGitBuiltin(b.builtin)
               staged == git /\ r.exit = 0 /\ b.builtin # "git" /\ SeedResource(b.path)
           IN
           /\ Shaped(o)
           /\ out.unsupported # Absent => o.unsupported # Absent
           /\ DOMAIN o.open = DOMAIN out.open \ {r.id}
           /\ \A id \in DOMAIN o.open : o.open[id] = out.open[id]
           /\ r.id \in DOMAIN out.open =>
                /\ o.events = IF staged THEN Append(out.events, Event("Stage", b.path))
                              ELSE out.events
                /\ o.gitReads = out.gitReads /\ o.wrote = out.wrote
                /\ \A u : /\ Cwd(o, u) = Cwd(out, u) /\ Attr(o, u) = Attr(out, u)
                          /\ Span(o, u) = IF git /\ u = b.tid THEN NoSpan ELSE Span(out, u)
                /\ staged \/ ~git \/ r.exit # 0 => o.unsupported = out.unsupported
<1> DEFINE b == out.open[r.id]
           git == IsGitBuiltin(b.builtin)
           staged == git /\ r.exit = 0 /\ b.builtin # "git" /\ SeedResource(b.path)
           o == RecordEnd(out, r)
           open == [id \in DOMAIN out.open \ {r.id} |-> out.open[id]]
           closed == [out EXCEPT !.open = open]
           state == StateFor(out.states, b.tid)
           c == state.cwd
           a == state.attr
           new == [state EXCEPT !.span = NoSpan]
           quiet == [closed EXCEPT !.states = SetState(@, b.tid, new)]
<1>1. CASE r.id \notin DOMAIN out.open
  <2>1. o = Refuse(out, "ended without beginning") /\ "ended without beginning" # Absent
    BY <1>1 DEF RecordEnd, Absent
  <2> HIDE DEF o
  <2>2. Shaped(o) /\ o.unsupported # Absent /\ o.open = out.open
    BY <2>1, Refused
  <2> QED
    BY <1>1, <2>2 DEF o
<1>2. CASE r.id \in DOMAIN out.open
  <2>0. /\ IsOut(closed) /\ closed.states = out.states /\ closed.open = open
        /\ closed.events = out.events /\ closed.gitReads = out.gitReads
        /\ closed.wrote = out.wrote /\ closed.unsupported = out.unsupported
    <3> HIDE DEF open
    <3> QED
      BY DEF Shaped, IsOut
  <2>1. o = IF ~git THEN closed
            ELSE IF r.exit # 0 THEN quiet
            ELSE IF b.builtin = "git" THEN Refuse(quiet, "not in the grammar")
            ELSE IF SeedResource(b.path)
                   THEN [quiet EXCEPT !.events = Append(@, Event("Stage", b.path))]
                   ELSE Refuse(quiet, "pathspec outside")
    BY <1>2, <2>0 DEF RecordEnd, Quiet
  <2>2. IsState(state)
    BY DEF Shaped
  <2>3. new = [cwd |-> c, attr |-> a, span |-> NoSpan]
    BY <2>2 DEF IsState
  <2>4. quiet = Put(closed, b.tid, c, a, NoSpan)
    <3> HIDE DEF closed, new
    <3> QED
      BY <2>3 DEF Put
  <2>5. Cwd(out, b.tid) = c /\ Attr(out, b.tid) = a
    BY DEF Cwd, Attr
  <2>6. DOMAIN open = DOMAIN out.open \ {r.id} /\ \A id \in DOMAIN open : open[id] = out.open[id]
    OBVIOUS
  <2> HIDE DEF open, new, c, a, state, closed
  <2>7. Shaped(closed)
    BY <2>0 DEF Shaped
  <2>8. \A u : Cwd(closed, u) = Cwd(out, u) /\ Attr(closed, u) = Attr(out, u)
               /\ Span(closed, u) = Span(out, u)
    BY <2>0 DEF Cwd, Attr, Span
  <2> HIDE DEF quiet
  <2>9. /\ Shaped(quiet)
        /\ quiet.open = closed.open /\ quiet.events = closed.events
        /\ quiet.gitReads = closed.gitReads
        /\ quiet.wrote = closed.wrote /\ quiet.unsupported = closed.unsupported
        /\ \A u : /\ Cwd(quiet, u) = IF u = b.tid THEN c ELSE Cwd(closed, u)
                  /\ Attr(quiet, u) = IF u = b.tid THEN a ELSE Attr(closed, u)
                  /\ Span(quiet, u) = IF u = b.tid THEN NoSpan ELSE Span(closed, u)
    BY <2>4, <2>7, SetShaped
  <2>10. \A reason : reason # Absent =>
            /\ Shaped(Refuse(quiet, reason)) /\ Refuse(quiet, reason).unsupported # Absent
            /\ Refuse(quiet, reason).open = quiet.open
            /\ Refuse(quiet, reason).events = quiet.events
            /\ Refuse(quiet, reason).gitReads = quiet.gitReads
            /\ Refuse(quiet, reason).wrote = quiet.wrote
            /\ \A u : /\ Cwd(Refuse(quiet, reason), u) = Cwd(quiet, u)
                      /\ Attr(Refuse(quiet, reason), u) = Attr(quiet, u)
                      /\ Span(Refuse(quiet, reason), u) = Span(quiet, u)
    BY <2>9, Refused DEF Cwd, Attr, Span
  <2> DEFINE Goal ==
           /\ Shaped(o)
           /\ out.unsupported # Absent => o.unsupported # Absent
           /\ o.open = open
           /\ o.events = IF staged THEN Append(out.events, Event("Stage", b.path))
                         ELSE out.events
           /\ o.gitReads = out.gitReads /\ o.wrote = out.wrote
           /\ \A u : /\ Cwd(o, u) = Cwd(out, u) /\ Attr(o, u) = Attr(out, u)
                     /\ Span(o, u) = IF git /\ u = b.tid THEN NoSpan ELSE Span(out, u)
           /\ staged \/ ~git \/ r.exit # 0 => o.unsupported = out.unsupported
  <2> HIDE DEF o
  <2>11. CASE ~git
    <3>1. o = closed
      BY <2>1, <2>11
    <3>2. Goal
      BY <2>0, <2>7, <2>8, <2>11, <3>1
    <3> QED
      BY <1>2, <2>6, <3>2 DEF o
  <2>12. CASE git /\ r.exit # 0
    <3>1. o = quiet
      BY <2>1, <2>12
    <3>2. Goal
      BY <2>0, <2>5, <2>8, <2>9, <2>12, <3>1
    <3> QED
      BY <1>2, <2>6, <3>2 DEF o
  <2>13. CASE git /\ r.exit = 0 /\ (b.builtin = "git" \/ ~SeedResource(b.path))
    <3>1. PICK reason : o = Refuse(quiet, reason) /\ reason # Absent
      <4>1. "not in the grammar" # Absent /\ "pathspec outside" # Absent
        BY DEF Absent
      <4>2. CASE b.builtin = "git"
        <5>1. o = Refuse(quiet, "not in the grammar")
          BY <2>1, <2>13, <4>2
        <5> QED
          BY <4>1, <5>1
      <4>3. CASE b.builtin # "git"
        <5>1. o = Refuse(quiet, "pathspec outside")
          BY <2>1, <2>13, <4>3
        <5> QED
          BY <4>1, <5>1
      <4> QED
        BY <4>2, <4>3
    <3>2. ~staged
      BY <2>13
    <3>3. Goal
      <4> HIDE DEF staged
      <4> QED
        BY <2>0, <2>5, <2>8, <2>9, <2>10, <2>13, <3>1, <3>2
    <3> QED
      BY <1>2, <2>6, <3>3 DEF o
  <2>14. CASE git /\ r.exit = 0 /\ b.builtin # "git" /\ SeedResource(b.path)
    <3> DEFINE more == Append(quiet.events, Event("Stage", b.path))
    <3>1. o = [quiet EXCEPT !.events = more]
      BY <2>1, <2>14
    <3>2. more = Append(out.events, Event("Stage", b.path))
      BY <2>0, <2>9
    <3> HIDE DEF more
    <3>3. /\ IsOut(o) /\ o.states = quiet.states /\ o.open = quiet.open
          /\ o.events = more /\ o.gitReads = quiet.gitReads
          /\ o.wrote = quiet.wrote /\ o.unsupported = quiet.unsupported
      BY <2>9, <3>1 DEF Shaped, IsOut
    <3>4. Shaped(o) /\ \A u : Cwd(o, u) = Cwd(quiet, u) /\ Attr(o, u) = Attr(quiet, u)
                              /\ Span(o, u) = Span(quiet, u)
      BY <2>9, <3>3 DEF Shaped, Cwd, Attr, Span
    <3>5. staged
      BY <2>14
    <3>6. Goal
      <4> HIDE DEF staged
      <4> QED
        BY <2>0, <2>5, <2>8, <2>9, <2>14, <3>2, <3>3, <3>4, <3>5
    <3> QED
      BY <1>2, <2>6, <3>6 DEF o
  <2> QED
    BY <2>11, <2>12, <2>13, <2>14
<1> QED
  BY <1>1, <1>2

-----------------------------------------------------------------------------
(* Translation: the fold over the evidence.                                *)

\* The first k items.
Seen(k) == {Evidence[i] : i \in 1..k}

LEMMA SeenStep ==
    ASSUME LogInv, dumped, NEW k \in 1..Len(Evidence)
    PROVE  LET x == Evidence[k] IN
           /\ x \in Items /\ x \in Returned \union Range(records)
           /\ Seen(k) = Seen(k - 1) \union {x} /\ x \notin Seen(k - 1)
           /\ Seen(k - 1) \subseteq Returned \union Range(records)
           /\ \A y \in Seen(k - 1) : NotAfter(y, x)
           /\ \A y \in Returned \union Range(records) : y \in Seen(k) \/ NotAfter(x, y)
<1> DEFINE E == Evidence
           n == Len(E)
           x == E[k]
<1>1. /\ E \in Seq(Items) /\ Sorted(E) /\ Range(E) = Returned \union Range(records)
  BY EvidenceIs
<1>2. n \in Nat /\ DOMAIN E = 1..n /\ \A i \in 1..n : E[i] \in Items
  BY <1>1, LenProperties, ElementOfSeq
<1>3. /\ \A i, j \in 1..n : i < j => NotAfter(E[i], E[j])
      /\ \A i, j \in 1..n : E[i] = E[j] => i = j
  BY <1>1, <1>2 DEF Sorted
<1>4. /\ \A y : y \in Seen(k) <=> \E i \in 1..k : E[i] = y
      /\ \A y : y \in Seen(k - 1) <=> \E i \in 1..(k - 1) : E[i] = y
  BY DEF Seen
<1>5. \A i \in 1..n : E[i] \in Returned \union Range(records)
  BY <1>1, <1>2 DEF Range
<1>6. \A y \in Returned \union Range(records) : \E i \in 1..n : E[i] = y
  BY <1>1, <1>2 DEF Range
<1> HIDE DEF E, n
<1>k. k \in 1..n
  BY DEF n, E
<1>7. 1..k = 1..(k - 1) \union {k} /\ \A i \in 1..(k - 1) : i \in 1..n /\ i < k /\ i # k
  BY <1>2, <1>k
<1>8. Seen(k) = Seen(k - 1) \union {x}
  BY <1>4, <1>7
<1>9. x \notin Seen(k - 1)
  BY <1>3, <1>4, <1>7, <1>k
<1>10. \A y \in Seen(k - 1) : NotAfter(y, x)
  BY <1>3, <1>4, <1>7, <1>k
<1>11. \A y \in Returned \union Range(records) : y \in Seen(k) \/ NotAfter(x, y)
  <2> TAKE y \in Returned \union Range(records)
  <2>1. PICK i \in 1..n : E[i] = y
    BY <1>6
  <2>2. i \in 1..k \/ k < i
    BY <1>2, <1>k
  <2> QED
    BY <1>3, <1>4, <1>k, <2>1, <2>2
<1>12. Seen(k - 1) \subseteq Returned \union Range(records)
  BY <1>4, <1>5, <1>7
<1> QED
  BY <1>2, <1>5, <1>8, <1>9, <1>10, <1>11, <1>12, <1>k DEF E

LEMMA SeenEnds ==
    ASSUME LogInv, dumped
    PROVE  /\ Len(Evidence) \in Nat /\ DOMAIN Evidence = 1..Len(Evidence)
           /\ Seen(0) = {} /\ Seen(Len(Evidence)) = Returned \union Range(records)
<1>1. Evidence \in Seq(Items) /\ Range(Evidence) = Returned \union Range(records)
  BY EvidenceIs
<1>2. Len(Evidence) \in Nat /\ DOMAIN Evidence = 1..Len(Evidence)
  BY <1>1, LenProperties
<1>3. Seen(Len(Evidence)) = Range(Evidence)
  BY <1>2 DEF Seen, Range
<1>4. Seen(0) = {}
  BY DEF Seen
<1> QED
  BY <1>1, <1>2, <1>3, <1>4

\* The end of a span never sorts before its beginning.
LEMMA EndAfter ==
    ASSUME LogInv, NEW b \in DOMAIN records, NEW e \in EndsOf(b)
    PROVE  /\ e \in DOMAIN records /\ records[e] \in Ends /\ records[e].id = b
           /\ records[b] \in Begins /\ b < e /\ b \in Nat /\ e \in Nat
           /\ EndsOf(b) = {e}
           /\ ~NotAfter(records[e], records[b])
<1>1. Typed /\ Stamped /\ Spanned
  BY DEF LogInv
<1>2. e \in DOMAIN records /\ records[e].id = b /\ records[e].k = "e"
  BY DEF EndsOf, EdgesOf
<1>3. \A i \in DOMAIN records : /\ records[i] \in Begins \union Ends /\ i \in Nat
                                /\ records[i] \in Items
  BY <1>1, ElementOfSeq, LenProperties DEF Typed, Items
<1>4. b < e /\ records[b].k = "b" /\ \A j \in EndsOf(b) : e = j
  BY <1>1, <1>2 DEF Spanned, Paired
<1>5. records[e] \in Ends /\ records[b] \in Begins
  BY <1>2, <1>3, <1>4, ItemIs
<1>6. records[b].ts <= records[e].ts
  BY <1>1, <1>2, <1>4 DEF Stamped
<1>7. Rank(records[e]) = 2 /\ Rank(records[b]) = 0 /\ records[b].ts \in Nat /\ records[e].ts \in Nat
  BY <1>2, <1>3, <1>5, ItemIs
<1>8. ~NotAfter(records[e], records[b])
  BY <1>6, <1>7 DEF NotAfter
<1> QED
  BY <1>2, <1>3, <1>4, <1>5, <1>8

\* A span is open between its edges; a git process is not overlooked.
FoldOpen(out, k) ==
    /\ Shaped(out)
    /\ \A id : id \in DOMAIN out.open <=>
          /\ id \in DOMAIN records /\ records[id].k = "b" /\ records[id] \in Seen(k)
          /\ \A e \in EndsOf(id) : records[e] \notin Seen(k)
    /\ \A id \in DOMAIN out.open : out.open[id] = records[id]
    /\ (\E x \in Seen(k) : x \in SysLines /\ RawGit(x)) => out.unsupported # Absent

\* What the edges and the lines do to the open spans and to the refusal.
LEMMA LineOpens ==
    ASSUME NEW out, Shaped(out), NEW line \in SysLines
    PROVE  /\ Shaped(RecordLine(out, line)) /\ RecordLine(out, line).open = out.open
           /\ ~RawGit(line) => RecordLine(out, line).unsupported = out.unsupported
           /\ RawGit(line) => RecordLine(out, line).unsupported # Absent
           /\ out.unsupported # Absent => RecordLine(out, line).unsupported # Absent
<1> DEFINE o == RecordLine(out, line)
<1>1. /\ Shaped(o) /\ o.open = out.open
      /\ ~RawGit(line) => o.unsupported = out.unsupported
      /\ RawGit(line) => o.unsupported # Absent
      /\ out.unsupported # Absent => o.unsupported # Absent
  BY LineDoes
<1> QED
  BY <1>1

LEMMA BeginOpens ==
    ASSUME NEW out, Shaped(out), NEW r
    PROVE  LET o == RecordBegin(out, r) IN
           /\ Shaped(o)
           /\ DOMAIN o.open = DOMAIN out.open \union {r.id}
           /\ \A id \in DOMAIN o.open : o.open[id] = IF id = r.id THEN r ELSE out.open[id]
           /\ out.unsupported # Absent => o.unsupported # Absent
<1> DEFINE o == RecordBegin(out, r)
<1>1. /\ Shaped(o) /\ o.open = SetState(out.open, r.id, r)
      /\ out.unsupported # Absent => o.unsupported # Absent
  BY BeginDoes
<1> DEFINE m == SetState(out.open, r.id, r)
<1>2. DOMAIN m = DOMAIN out.open \union {r.id}
      /\ \A id \in DOMAIN m : m[id] = IF id = r.id THEN r ELSE out.open[id]
  BY DEF SetState
<1> HIDE DEF m
<1>3. o.open = m
  BY <1>1 DEF m
<1> HIDE DEF o
<1> QED
  BY <1>1, <1>2, <1>3 DEF o

LEMMA EndOpens ==
    ASSUME NEW out, Shaped(out), NEW r
    PROVE  LET o == RecordEnd(out, r) IN
           /\ Shaped(o)
           /\ DOMAIN o.open = DOMAIN out.open \ {r.id}
           /\ \A id \in DOMAIN o.open : o.open[id] = out.open[id]
           /\ out.unsupported # Absent => o.unsupported # Absent
BY EndDoes

LEMMA OpenStep ==
    ASSUME LogInv, dumped, NEW k \in 1..Len(Evidence), NEW out, FoldOpen(out, k - 1)
    PROVE  FoldOpen(Observe(out, Evidence[k]), k)
<1> DEFINE x == Evidence[k]
           o == Observe(out, x)
<1>1. /\ x \in Items /\ x \in Returned \union Range(records)
      /\ Seen(k) = Seen(k - 1) \union {x} /\ x \notin Seen(k - 1)
      /\ Seen(k - 1) \subseteq Returned \union Range(records)
      /\ \A y \in Seen(k - 1) : NotAfter(y, x)
      /\ \A y \in Returned \union Range(records) : y \in Seen(k) \/ NotAfter(x, y)
  BY SeenStep
<1> HIDE DEF x
<1>2. /\ Shaped(out)
      /\ \A id : id \in DOMAIN out.open <=>
            /\ id \in DOMAIN records /\ records[id].k = "b" /\ records[id] \in Seen(k - 1)
            /\ \A e \in EndsOf(id) : records[e] \notin Seen(k - 1)
      /\ \A id \in DOMAIN out.open : out.open[id] = records[id]
      /\ (\E y \in Seen(k - 1) : y \in SysLines /\ RawGit(y)) => out.unsupported # Absent
  BY DEF FoldOpen
<1>3. Typed /\ Spanned
  BY DEF LogInv
<1>4. \A i \in DOMAIN records : records[i] \in Items /\ records[i] \notin SysLines
                                 /\ (records[i].k = "b" => records[i] \in Begins)
                                 /\ (records[i].k = "e" => records[i] \in Ends)
                                 /\ records[i].k \in {"b", "e"}
  <2> TAKE i \in DOMAIN records
  <2>1. records[i] \in Begins \union Ends
    BY <1>3, ElementOfSeq DEF Typed
  <2> QED
    BY <2>1, ItemIs DEF Items
<1>5. \A i, j \in DOMAIN records : records[i] = records[j] => i = j
  BY <1>3, RecordsOnce
<1>6. \A id \in DOMAIN records : \A e \in EndsOf(id) : e \in DOMAIN records /\ records[e].k = "e"
  BY DEF EndsOf, EdgesOf
<1>7. CASE x \in SysLines
  <2>1. o = RecordLine(out, x)
    BY <1>1, <1>7, ItemIs DEF Observe
  <2>2. /\ Shaped(o) /\ o.open = out.open
        /\ RawGit(x) => o.unsupported # Absent
        /\ out.unsupported # Absent => o.unsupported # Absent
    BY <1>2, <1>7, <2>1, LineOpens
  <2> HIDE DEF o
  <2>3. \A i \in DOMAIN records : records[i] \in Seen(k) <=> records[i] \in Seen(k - 1)
    BY <1>1, <1>4, <1>7
  <2>4. \A id \in DOMAIN records : (\A e \in EndsOf(id) : records[e] \notin Seen(k))
                                 <=> (\A e \in EndsOf(id) : records[e] \notin Seen(k - 1))
    BY <1>6, <2>3
  <2>5. \A id : id \in DOMAIN o.open <=>
            /\ id \in DOMAIN records /\ records[id].k = "b" /\ records[id] \in Seen(k)
            /\ \A e \in EndsOf(id) : records[e] \notin Seen(k)
    BY <1>2, <2>2, <2>3, <2>4
  <2>6. FoldOpen(o, k)
    BY <1>1, <1>2, <2>2, <2>5 DEF FoldOpen
  <2> QED
    BY <2>6 DEF o, x
<1>8. CASE x \notin SysLines
  <2>1. PICK i \in DOMAIN records : records[i] = x
    BY <1>1, <1>8, <1>3, ReturnedTyped DEF Range
  <2>2. \A j \in DOMAIN records : records[j] \in Seen(k) <=> records[j] \in Seen(k - 1) \/ j = i
    BY <1>1, <1>5, <2>1
  <2>3. (\E y \in Seen(k) : y \in SysLines /\ RawGit(y)) => out.unsupported # Absent
    BY <1>1, <1>2, <1>8
  <2>4. CASE x.k = "b"
    <3>1. x \in Begins /\ x.id = i /\ records[i].k = "b" /\ o = RecordBegin(out, x)
      BY <1>1, <1>3, <1>4, <2>1, <2>4, ItemIs DEF Observe, Spanned, Numbered
    <3>2. /\ Shaped(o)
          /\ DOMAIN o.open = DOMAIN out.open \union {i}
          /\ \A id \in DOMAIN o.open : o.open[id] = IF id = i THEN x ELSE out.open[id]
          /\ out.unsupported # Absent => o.unsupported # Absent
      <4> DEFINE p == RecordBegin(out, x)
      <4>1. /\ Shaped(p)
            /\ DOMAIN p.open = DOMAIN out.open \union {x.id}
            /\ \A id \in DOMAIN p.open : p.open[id] = IF id = x.id THEN x ELSE out.open[id]
            /\ out.unsupported # Absent => p.unsupported # Absent
        BY <1>2, BeginOpens
      <4>2. o = p
        BY <3>1
      <4> HIDE DEF o, p
      <4> QED
        BY <3>1, <4>1, <4>2
    <3> HIDE DEF o
    \* Its end, if there is one, comes after it.
    <3>3. \A e \in EndsOf(i) : records[e] \notin Seen(k)
      <4> TAKE e \in EndsOf(i)
      <4>1. e \in DOMAIN records /\ i < e /\ i \in Nat /\ ~NotAfter(records[e], records[i])
        BY EndAfter
      <4>2. records[e] \notin Seen(k - 1) /\ e # i
        BY <1>1, <2>1, <4>1
      <4> QED
        BY <2>2, <4>1, <4>2
    <3>4. \A id \in DOMAIN records \ {i} :
             (\A e \in EndsOf(id) : records[e] \notin Seen(k))
                <=> (\A e \in EndsOf(id) : records[e] \notin Seen(k - 1))
      <4>1. \A id \in DOMAIN records : i \notin EndsOf(id)
        BY <1>6, <3>1
      <4> QED
        BY <1>6, <2>2, <4>1
    <3>5. \A id : id \in DOMAIN o.open <=>
              /\ id \in DOMAIN records /\ records[id].k = "b" /\ records[id] \in Seen(k)
              /\ \A e \in EndsOf(id) : records[e] \notin Seen(k)
      <4> TAKE id
      <4>1. CASE id = i
        BY <2>2, <3>1, <3>2, <3>3, <4>1
      <4>2. CASE id # i
        BY <1>2, <2>2, <3>2, <3>4, <4>2
      <4> QED
        BY <4>1, <4>2
    <3>6. \A id \in DOMAIN o.open : o.open[id] = records[id]
      BY <1>2, <2>1, <3>2
    <3>7. FoldOpen(o, k)
      BY <2>3, <3>2, <3>5, <3>6 DEF FoldOpen
    <3> QED
      BY <3>7 DEF o, x
  <2>5. CASE x.k = "e"
    <3> DEFINE b == x.id
    <3>1. x \in Ends /\ records[i].k = "e" /\ o = RecordEnd(out, x)
      BY <1>1, <1>4, <2>1, <2>5, ItemIs DEF Observe
    <3>2. /\ b \in DOMAIN records /\ records[b].k = "b" /\ i \in EndsOf(b)
      BY <1>3, <2>1, <3>1 DEF Spanned, Paired, EndsOf, EdgesOf
    <3>3. EndsOf(b) = {i} /\ ~NotAfter(records[i], records[b])
      BY <3>2, EndAfter
    <3>4. /\ Shaped(o)
          /\ DOMAIN o.open = DOMAIN out.open \ {b}
          /\ \A id \in DOMAIN o.open : o.open[id] = out.open[id]
          /\ out.unsupported # Absent => o.unsupported # Absent
      <4> DEFINE p == RecordEnd(out, x)
      <4>1. /\ Shaped(p)
            /\ DOMAIN p.open = DOMAIN out.open \ {x.id}
            /\ \A id \in DOMAIN p.open : p.open[id] = out.open[id]
            /\ out.unsupported # Absent => p.unsupported # Absent
        BY <1>2, EndOpens
      <4>2. o = p
        BY <3>1
      <4> HIDE DEF o, p
      <4> QED
        BY <3>1, <4>1, <4>2
    <3> HIDE DEF o, b
    <3>5. \A id \in DOMAIN records \ {b} :
             (\A e \in EndsOf(id) : records[e] \notin Seen(k))
                <=> (\A e \in EndsOf(id) : records[e] \notin Seen(k - 1))
      <4>1. \A id \in DOMAIN records \ {b} : i \notin EndsOf(id)
        BY <2>1 DEF EndsOf, EdgesOf, b
      <4> QED
        BY <1>6, <2>2, <4>1
    <3>6. \A id : id \in DOMAIN o.open <=>
              /\ id \in DOMAIN records /\ records[id].k = "b" /\ records[id] \in Seen(k)
              /\ \A e \in EndsOf(id) : records[e] \notin Seen(k)
      <4> TAKE id
      <4>1. CASE id = b
        <5>1. i \in EndsOf(id) /\ records[i] \in Seen(k)
          BY <2>2, <3>2, <4>1
        <5> QED
          BY <3>4, <4>1, <5>1
      <4>2. CASE id # b
        <5>1. records[id].k = "b" => id # i
          BY <3>1
        <5> QED
          BY <1>2, <2>2, <3>4, <3>5, <4>2, <5>1
      <4> QED
        BY <4>1, <4>2
    <3>7. \A id \in DOMAIN o.open : o.open[id] = records[id]
      BY <1>2, <3>4
    <3>8. FoldOpen(o, k)
      BY <2>3, <3>4, <3>6, <3>7 DEF FoldOpen
    <3> QED
      BY <3>8 DEF o, x
  <2> QED
    BY <1>4, <2>1, <2>4, <2>5
<1> QED
  BY <1>7, <1>8 DEF x

\* Nothing is refused, and a thread is only inside a git span of its own.
FoldQuiet(out) ==
    /\ out.unsupported = Absent
    /\ \A t : Span(out, t) # NoSpan =>
          /\ Span(out, t) \in DOMAIN out.open
          /\ Span(out, t) \in DOMAIN records /\ IsGit(Span(out, t))
          /\ records[Span(out, t)].tid = t

Complete == ~Touching /\ ~Incomplete

\* A git span that ended, and another of its thread: one ends strictly before
\* the other begins.
LEMMA SpansApart ==
    ASSUME LogInv, Complete, NEW i \in DOMAIN records, NEW j \in DOMAIN records,
           IsGit(i), IsGit(j), records[i].tid = records[j].tid, i < j
    PROVE  \E e \in EndsOf(i) : /\ e \in DOMAIN records
                                /\ ~NotAfter(records[j], records[e])
                                /\ ~NotAfter(records[j], records[i])
<1>1. Typed /\ Stamped /\ Spanned
  BY DEF LogInv
<1>2. i \in GitSpans /\ j \in GitSpans /\ EdgesOf(records[i].id, "e") = EndsOf(i)
  BY <1>1 DEF IsGit, GitSpans, Spanned, Numbered, EndsOf
<1>3. EndsOf(i) # {}
  BY <1>2 DEF Complete, Incomplete
<1>4. PICK e \in EndsOf(i) : TRUE
  BY <1>3
<1>5. /\ e \in DOMAIN records /\ records[e] \in Ends /\ records[i] \in Begins
      /\ i < e /\ i \in Nat /\ e \in Nat /\ ~NotAfter(records[e], records[i])
  BY EndAfter
<1>6. e < j
  BY <1>1 DEF Spanned, Apart
<1>7. records[j] \in Begins
  <2>1. records[j] \in Begins \union Ends
    BY <1>1, ElementOfSeq DEF Typed
  <2>2. records[j].k = "b"
    BY DEF IsGit
  <2> QED
    BY <2>1, <2>2 DEF Ends
<1>8. records[i].ts <= records[e].ts /\ records[e].ts <= records[j].ts
  BY <1>1, <1>5, <1>6 DEF Stamped
<1>9. records[e].ts # records[j].ts
  BY <1>2, <1>4 DEF Complete, Touching
<1>10. /\ records[i].ts \in Nat /\ records[e].ts \in Nat /\ records[j].ts \in Nat
       /\ Rank(records[i]) \in Nat /\ Rank(records[e]) \in Nat /\ Rank(records[j]) \in Nat
  <2>1. records[i] \in Items /\ records[e] \in Items /\ records[j] \in Items
    BY <1>5, <1>7 DEF Items
  <2> QED
    BY <2>1, ItemIs
<1>11. records[e].ts < records[j].ts /\ records[i].ts < records[j].ts
  BY <1>8, <1>9, <1>10
<1>12. ~NotAfter(records[j], records[e]) /\ ~NotAfter(records[j], records[i])
  BY <1>10, <1>11 DEF NotAfter
<1> QED
  BY <1>4, <1>5, <1>12

LEMMA BeginQuiet ==
    ASSUME NEW out, Shaped(out), NEW r, r.id \notin DOMAIN out.open,
           IsGitBuiltin(r.builtin) => Span(out, r.tid) = NoSpan
    PROVE  LET o == RecordBegin(out, r) IN
           /\ o.unsupported = out.unsupported
           /\ o.open = SetState(out.open, r.id, r)
           /\ \A u : Span(o, u) = IF IsGitBuiltin(r.builtin) /\ u = r.tid THEN r.id
                                  ELSE Span(out, u)
<1> DEFINE o == RecordBegin(out, r)
           git == IsGitBuiltin(r.builtin)
<1>0. /\ Shaped(o)
      /\ o.open = SetState(out.open, r.id, r)
      /\ o.events = out.events /\ o.gitReads = out.gitReads /\ o.wrote = out.wrote
      /\ \A u : /\ Cwd(o, u) = Cwd(out, u) /\ Attr(o, u) = Attr(out, u)
                /\ Span(o, u) = IF git /\ u = r.tid THEN r.id ELSE Span(out, u)
      /\ r.id \notin DOMAIN out.open /\ (git => Span(out, r.tid) = NoSpan) =>
            o.unsupported = out.unsupported
      /\ out.unsupported # Absent => o.unsupported # Absent
  BY BeginDoes
<1>1. o.unsupported = out.unsupported /\ o.open = SetState(out.open, r.id, r)
  BY <1>0
<1> HIDE DEF o
<1>2. \A u : Span(o, u) = IF git /\ u = r.tid THEN r.id ELSE Span(out, u)
  BY <1>0
<1> QED
  BY <1>1, <1>2 DEF o

LEMMA EndQuiet ==
    ASSUME NEW out, Shaped(out), NEW r, r.id \in DOMAIN out.open,
           LET b == out.open[r.id] IN
           IsGitBuiltin(b.builtin) /\ r.exit = 0 => b.builtin # "git" /\ SeedResource(b.path)
    PROVE  LET o == RecordEnd(out, r)
               b == out.open[r.id] IN
           /\ o.unsupported = out.unsupported
           /\ DOMAIN o.open = DOMAIN out.open \ {r.id}
           /\ \A u : Span(o, u) = IF IsGitBuiltin(b.builtin) /\ u = b.tid THEN NoSpan
                                  ELSE Span(out, u)
BY EndDoes, ZenonT(60)

LEMMA LineQuiet ==
    ASSUME NEW out, Shaped(out), NEW line \in SysLines, ~RawGit(line)
    PROVE  LET o == RecordLine(out, line) IN
           /\ o.unsupported = out.unsupported /\ o.open = out.open
           /\ \A u : Span(o, u) \in {NoSpan, Span(out, u)}
<1> DEFINE o == RecordLine(out, line)
<1>1. o.unsupported = out.unsupported /\ o.open = out.open
  BY LineDoes
<1>2. \A u : Span(o, u) = IF Works(line.call) /\ line.call.name = "clone" /\ u = line.call.child
                            THEN NoSpan ELSE Span(out, u)
  BY LineDoes, ZenonT(120)
<1> HIDE DEF o
<1>3. \A u : Span(o, u) \in {NoSpan, Span(out, u)}
  BY <1>2
<1> QED
  BY <1>1, <1>3 DEF o

LEMMA QuietFoldStep ==
    ASSUME LogInv, dumped, Complete, NEW k \in 1..Len(Evidence), NEW out,
           FoldOpen(out, k - 1), FoldQuiet(out)
    PROVE  FoldQuiet(Observe(out, Evidence[k]))
<1> DEFINE x == Evidence[k]
           o == Observe(out, x)
<1>1. /\ x \in Items /\ x \in Returned \union Range(records)
      /\ Seen(k) = Seen(k - 1) \union {x} /\ x \notin Seen(k - 1)
      /\ \A y \in Seen(k - 1) : NotAfter(y, x)
      /\ \A y \in Returned \union Range(records) : y \in Seen(k) \/ NotAfter(x, y)
  BY SeenStep
<1> HIDE DEF x
<1>2. /\ Shaped(out)
      /\ \A id : id \in DOMAIN out.open <=>
            /\ id \in DOMAIN records /\ records[id].k = "b" /\ records[id] \in Seen(k - 1)
            /\ \A e \in EndsOf(id) : records[e] \notin Seen(k - 1)
      /\ \A id \in DOMAIN out.open : out.open[id] = records[id]
  BY DEF FoldOpen
<1>3. Typed /\ Spanned /\ GitShows
  BY DEF LogInv
<1>4. \A i \in DOMAIN records : records[i] \in Items /\ records[i] \notin SysLines
                                 /\ (records[i].k = "b" => records[i] \in Begins)
                                 /\ (records[i].k = "e" => records[i] \in Ends)
                                 /\ records[i].k \in {"b", "e"}
                                 /\ records[i] \in Range(records)
  <2> TAKE i \in DOMAIN records
  <2>1. records[i] \in Begins \union Ends
    BY <1>3, ElementOfSeq DEF Typed
  <2> QED
    BY <2>1, ItemIs DEF Items, Range
<1>5. /\ out.unsupported = Absent
      /\ \A t : Span(out, t) # NoSpan =>
            /\ Span(out, t) \in DOMAIN out.open
            /\ Span(out, t) \in DOMAIN records /\ IsGit(Span(out, t))
            /\ records[Span(out, t)].tid = t
  BY DEF FoldQuiet
<1>6. CASE x \in SysLines
  <2>1. o = RecordLine(out, x)
    BY <1>1, <1>6, ItemIs DEF Observe
  <2>2. ~RawGit(x)
    <3>1. x \in Returned
      BY <1>1, <1>4, <1>6 DEF Range
    <3>2. x.tid \in Tids
      BY <1>6, <1>1, ItemIs
    <3>3. thread[x.tid].program # "git"
      BY <3>2 DEF Complete, Incomplete
    <3> QED
      BY <1>3, <3>1, <3>3 DEF GitShows, RawGit
  <2> DEFINE p == RecordLine(out, x)
  <2>3. /\ p.unsupported = out.unsupported /\ p.open = out.open
        /\ \A u : Span(p, u) \in {NoSpan, Span(out, u)}
    BY <1>2, <1>6, <2>2, LineQuiet
  <2> HIDE DEF p
  <2>4. FoldQuiet(p)
    BY <1>5, <2>3 DEF FoldQuiet
  <2> QED
    BY <2>1, <2>4 DEF p, x
<1>7. CASE x \notin SysLines
  <2>1. PICK i \in DOMAIN records : records[i] = x
    BY <1>1, <1>7, <1>3, ReturnedTyped DEF Range
  <2>2. CASE x.k = "b"
    <3>1. x \in Begins /\ x.id = i /\ records[i].k = "b" /\ o = RecordBegin(out, x)
      BY <1>1, <1>3, <1>4, <2>1, <2>2, ItemIs DEF Observe, Spanned, Numbered
    <3>2. i \notin DOMAIN out.open
      BY <1>1, <1>2, <2>1
    <3>3. ASSUME IsGitBuiltin(x.builtin), Span(out, x.tid) # NoSpan PROVE FALSE
      <4> DEFINE j == Span(out, x.tid)
      <4>1. /\ j \in DOMAIN out.open /\ j \in DOMAIN records /\ IsGit(j)
            /\ records[j].tid = x.tid
        BY <1>5, <3>3
      <4>2. IsGit(i) /\ records[i].tid = records[j].tid
        BY <2>1, <3>1, <3>3, <4>1 DEF IsGit
      <4>3. /\ records[j] \in Seen(k - 1)
            /\ \A e \in EndsOf(j) : records[e] \notin Seen(k - 1)
        BY <1>2, <4>1
      <4>4. i \in Nat /\ j \in Nat /\ i # j
        BY <1>3, <3>2, <4>1, LenProperties DEF Typed
      <4> HIDE DEF j
      <4>5. CASE j < i
        <5>1. PICK e \in EndsOf(j) : e \in DOMAIN records /\ ~NotAfter(records[i], records[e])
          BY <4>1, <4>2, <4>5, SpansApart
        <5>2. records[e] \in Seen(k)
          BY <1>1, <1>4, <2>1, <5>1
        <5>3. records[e].k = "e"
          BY DEF EndsOf, EdgesOf
        <5> QED
          BY <1>1, <2>1, <3>1, <4>3, <5>2, <5>3
      <4>6. CASE i < j
        <5>1. ~NotAfter(records[j], records[i])
          BY <4>1, <4>2, <4>6, SpansApart
        <5> QED
          BY <1>1, <2>1, <4>3, <5>1
      <4> QED
        BY <4>4, <4>5, <4>6
    <3> DEFINE p == RecordBegin(out, x)
    <3>4. x.id \notin DOMAIN out.open
      BY <3>1, <3>2
    <3>5. /\ p.unsupported = out.unsupported
          /\ p.open = SetState(out.open, x.id, x)
          /\ \A u : Span(p, u) = IF IsGitBuiltin(x.builtin) /\ u = x.tid THEN x.id
                                 ELSE Span(out, u)
      BY <1>2, <3>3, <3>4, BeginQuiet
    <3> HIDE DEF p
    <3>6. DOMAIN p.open = DOMAIN out.open \union {i}
      BY <3>1, <3>5 DEF SetState
    <3>7. IsGitBuiltin(x.builtin) => IsGit(i)
      BY <2>1, <3>1 DEF IsGit
    <3>8. ASSUME NEW t, Span(p, t) # NoSpan
          PROVE  /\ Span(p, t) \in DOMAIN p.open
                 /\ Span(p, t) \in DOMAIN records /\ IsGit(Span(p, t))
                 /\ records[Span(p, t)].tid = t
      <4>1. CASE IsGitBuiltin(x.builtin) /\ t = x.tid
        <5>1. Span(p, t) = i
          BY <3>1, <3>5, <4>1
        <5> QED
          BY <2>1, <3>6, <3>7, <4>1, <5>1
      <4>2. CASE ~(IsGitBuiltin(x.builtin) /\ t = x.tid)
        <5>1. Span(p, t) = Span(out, t)
          BY <3>5, <4>2
        <5> QED
          BY <1>5, <3>6, <3>8, <5>1
      <4> QED
        BY <4>1, <4>2
    <3>9. FoldQuiet(p)
      BY <1>5, <3>5, <3>8 DEF FoldQuiet
    <3> QED
      BY <3>1, <3>9 DEF p, x
  <2>3. CASE x.k = "e"
    <3> DEFINE b == x.id
    <3>1. x \in Ends /\ records[i].k = "e" /\ o = RecordEnd(out, x)
      BY <1>1, <1>4, <2>1, <2>3, ItemIs DEF Observe
    <3>2. /\ b \in DOMAIN records /\ records[b].k = "b" /\ i \in EndsOf(b)
          /\ x.exit = 0 => /\ records[b].builtin # "git"
                           /\ records[b].builtin = "git add" => SeedResource(records[b].path)
      BY <1>3, <2>1, <3>1 DEF Spanned, Paired, EndsOf, EdgesOf
    <3>3. EndsOf(b) = {i} /\ ~NotAfter(records[i], records[b])
      BY <3>2, EndAfter
    <3> HIDE DEF b
    <3>4. b \in DOMAIN out.open /\ out.open[b] = records[b]
      <4>1. records[b] \in Seen(k) /\ records[b] # x
        BY <1>1, <1>4, <2>1, <3>1, <3>2, <3>3
      <4> QED
        BY <1>1, <1>2, <2>1, <3>2, <3>3, <4>1
    <3>5. IsGitBuiltin(records[b].builtin) /\ x.exit = 0 =>
             records[b].builtin # "git" /\ SeedResource(records[b].path)
      BY <3>2 DEF IsGitBuiltin
    <3> DEFINE p == RecordEnd(out, x)
    <3>6. /\ p.unsupported = out.unsupported
          /\ DOMAIN p.open = DOMAIN out.open \ {b}
          /\ \A u : Span(p, u) = IF IsGitBuiltin(records[b].builtin) /\ u = records[b].tid
                                 THEN NoSpan ELSE Span(out, u)
      <4>1. x.id \in DOMAIN out.open
            /\ (IsGitBuiltin(out.open[x.id].builtin) /\ x.exit = 0
                  => out.open[x.id].builtin # "git" /\ SeedResource(out.open[x.id].path))
        BY <3>4, <3>5 DEF b
      <4>2. /\ p.unsupported = out.unsupported
            /\ DOMAIN p.open = DOMAIN out.open \ {x.id}
            /\ \A u : Span(p, u) = IF IsGitBuiltin(out.open[x.id].builtin) /\ u = out.open[x.id].tid
                                   THEN NoSpan ELSE Span(out, u)
        BY <1>2, <4>1, EndQuiet
      <4> HIDE DEF p
      <4>3. x.id = b
        BY DEF b
      <4> QED
        BY <3>4, <4>2, <4>3
    <3> HIDE DEF p
    <3>7. ASSUME NEW t, Span(p, t) # NoSpan
          PROVE  /\ Span(p, t) \in DOMAIN p.open
                 /\ Span(p, t) \in DOMAIN records /\ IsGit(Span(p, t))
                 /\ records[Span(p, t)].tid = t
      <4>1. ~(IsGitBuiltin(records[b].builtin) /\ t = records[b].tid) /\ Span(p, t) = Span(out, t)
        BY <3>6, <3>7
      <4>2. Span(out, t) # b
        BY <1>5, <3>7, <4>1 DEF IsGit
      <4> QED
        BY <1>5, <3>6, <3>7, <4>1, <4>2
    <3>8. FoldQuiet(p)
      BY <1>5, <3>6, <3>7 DEF FoldQuiet
    <3> QED
      BY <3>1, <3>8 DEF p, x
  <2> QED
    BY <1>4, <2>1, <2>2, <2>3
<1> QED
  BY <1>6, <1>7 DEF x

\* What the whole fold leaves.
LEMMA Folded ==
    ASSUME LogInv, dumped
    PROVE  LET out == ObserveAll(EmptyOut, Evidence) IN
           /\ FoldOpen(out, Len(Evidence))
           /\ Complete => FoldQuiet(out)
<1> DEFINE n == Len(Evidence)
<1>1. n \in Nat /\ DOMAIN Evidence = 1..n /\ Seen(0) = {}
  BY SeenEnds
<1> HIDE DEF n
<1>2. PICK f : Observing(f, EmptyOut, n, Evidence)
  BY <1>1, ObserveFold
<1>3. /\ f[0] = EmptyOut /\ ObserveAll(EmptyOut, Evidence) = f[n]
      /\ \A k \in 1..n : f[k] = Observe(f[k - 1], Evidence[k])
  BY <1>2 DEF Observing
<1> DEFINE P(k) == FoldOpen(f[k], k) /\ (Complete => FoldQuiet(f[k]))
           S == {k \in 0..n : P(k)}
<1>4. P(0)
  <2>1. FoldOpen(EmptyOut, 0)
    BY <1>1, EmptyShaped DEF FoldOpen
  <2>2. FoldQuiet(EmptyOut)
    BY EmptyShaped DEF FoldQuiet
  <2> QED
    BY <1>3, <2>1, <2>2
<1>5. ASSUME NEW k \in 1..n, P(k - 1) PROVE P(k)
  <2>1. k \in 1..Len(Evidence)
    BY DEF n
  <2>2. FoldOpen(f[k], k)
    BY <1>3, <1>5, <2>1, OpenStep
  <2>3. ASSUME Complete PROVE FoldQuiet(f[k])
    BY <1>3, <1>5, <2>1, <2>3, QuietFoldStep
  <2> QED
    BY <2>2, <2>3
<1> HIDE DEF P
<1>6. 0 \in S /\ \A k \in 1..n : k - 1 \in S => k \in S
  <2>1. 0 \in S
    BY <1>1, <1>4
  <2>2. \A k \in 1..n : k \in 0..n
    BY <1>1
  <2> QED
    BY <1>5, <2>1, <2>2
<1>7. \A k \in 0..n : k \in S
  <2> HIDE DEF S
  <2> QED
    BY <1>1, <1>6, UpTo
<1>8. P(n)
  BY <1>1, <1>7
<1> QED
  BY <1>3, <1>8 DEF P, n

\* A worker that exited 0 had written its records out.
LEMMA ZeroIsDumped ==
    ASSUME LogInv, over, ExitCode = 0
    PROVE  dumped
<1>1. Typed /\ Bounded
  BY DEF LogInv
<1>2. raw # <<>> /\ raw[1].tid = Root
  BY <1>1 DEF Bounded
<1> DEFINE exits == {i \in DOMAIN raw : raw[i].kind = "exited" /\ raw[i].tid = raw[1].tid}
<1>3. exits # {}
  <2> SUFFICES ASSUME exits = {} PROVE FALSE
    OBVIOUS
  <2>1. ExitCode = IF timedOut THEN 124 ELSE 137
    BY DEF ExitCode
  <2> QED
    BY <2>1
<1>4. PICK m \in exits : TRUE
  BY <1>3
<1>5. m \in DOMAIN raw /\ raw[m].kind = "exited" /\ raw[m].tid = Root /\ m \in Nat
  BY <1>1, <1>2, LenProperties DEF Typed
<1>6. \A j \in exits : j = m
  BY <1>1, <1>2, <1>5 DEF Bounded
<1>7. \A j \in exits : j <= m
  BY <1>5, <1>6
<1> DEFINE latest == CHOOSE i \in exits : \A j \in exits : j <= i
<1>8. latest \in exits
  <2>1. \E i \in exits : \A j \in exits : j <= i
    BY <1>4, <1>7
  <2> HIDE DEF exits
  <2> QED
    BY <2>1
<1>9. ExitCode = raw[latest].call.status
  BY <1>3 DEF ExitCode
<1> HIDE DEF latest, exits
<1>10. latest = m
  BY <1>6, <1>8
<1> QED
  BY <1>1, <1>5, <1>9, <1>10 DEF Bounded

LEMMA TranslationIs ==
    ASSUME LogInv, dumped
    PROVE  /\ Complete => Translation.unsupported = Absent
           /\ Incomplete => Translation.unsupported # Absent
<1> DEFINE n == Len(Evidence)
           out == ObserveAll(EmptyOut, Evidence)
           unclosed == \E id \in DOMAIN out.open : IsGitBuiltin(out.open[id].builtin)
           final == IF unclosed THEN Refuse(out, "span never closed") ELSE out
           told == Dedup(final.events)
<1>1. FoldOpen(out, n) /\ (Complete => FoldQuiet(out))
  BY Folded
<1>2. Typed /\ Spanned /\ GitShows
  BY DEF LogInv
<1>3. Seen(n) = Returned \union Range(records)
  BY SeenEnds
<1>4. Translation = [final EXCEPT !.events = told]
  BY DEF Translation
<1> HIDE DEF out, n
<1>5. /\ Shaped(out)
      /\ \A id : id \in DOMAIN out.open <=>
            /\ id \in DOMAIN records /\ records[id].k = "b" /\ records[id] \in Seen(n)
            /\ \A e \in EndsOf(id) : records[e] \notin Seen(n)
      /\ \A id \in DOMAIN out.open : out.open[id] = records[id]
      /\ (\E x \in Seen(n) : x \in SysLines /\ RawGit(x)) => out.unsupported # Absent
  BY <1>1 DEF FoldOpen
<1>6. \A i \in DOMAIN records : records[i] \in Seen(n)
  BY <1>3 DEF Range
<1>7. \A id \in DOMAIN records : \A e \in EndsOf(id) : e \in DOMAIN records
  BY DEF EndsOf, EdgesOf
<1>8. \A id : id \in DOMAIN out.open <=>
         id \in DOMAIN records /\ records[id].k = "b" /\ EndsOf(id) = {}
  BY <1>5, <1>6, <1>7
<1>9. unclosed <=> \E i \in GitSpans : EdgesOf(records[i].id, "e") = {}
  <2>1. \A i \in GitSpans : EdgesOf(records[i].id, "e") = EndsOf(i)
    BY <1>2 DEF GitSpans, Spanned, Numbered, EndsOf
  <2>2. \A i : i \in GitSpans <=> /\ i \in DOMAIN records /\ records[i].k = "b"
                                  /\ IsGitBuiltin(records[i].builtin)
    BY DEF GitSpans
  <2> QED
    BY <1>5, <1>8, <2>1, <2>2
<1>10. "span never closed" # Absent
  BY DEF Absent
<1>11. /\ Shaped(Refuse(out, "span never closed"))
       /\ Refuse(out, "span never closed").unsupported # Absent
  BY <1>5, <1>10, Refused
<1> HIDE DEF unclosed
<1>12. /\ Shaped(final)
       /\ unclosed => final.unsupported # Absent
       /\ ~unclosed => final.unsupported = out.unsupported
  BY <1>5, <1>11
<1>13. out.unsupported # Absent => final.unsupported # Absent
  BY <1>12
<1> HIDE DEF final, told
<1>14. Translation.unsupported = final.unsupported
  <2>1. IsOut(final)
    BY <1>12 DEF Shaped
  <2>2. [final EXCEPT !.events = told].unsupported = final.unsupported
    BY <2>1 DEF IsOut
  <2> QED
    BY <1>4, <2>2
<1>15. ASSUME Complete PROVE Translation.unsupported = Absent
  <2>1. ~unclosed
    BY <1>9, <1>15 DEF Complete, Incomplete
  <2>2. out.unsupported = Absent
    BY <1>1, <1>15 DEF FoldQuiet
  <2> QED
    BY <1>12, <1>14, <2>1, <2>2
<1>16. ASSUME Incomplete PROVE Translation.unsupported # Absent
  <2>1. CASE \E t \in Tids : thread[t].program = "git"
    <3>1. PICK x \in Returned : x.call.name = "execve" /\ x.call.ret = "ok" /\ x.call.git
      BY <1>2, <2>1 DEF GitShows
    <3>2. x \in Seen(n) /\ x \in SysLines /\ RawGit(x)
      BY <1>2, <1>3, <3>1, ReturnedTyped DEF RawGit
    <3>3. out.unsupported # Absent
      BY <1>5, <3>2
    <3> QED
      BY <1>13, <1>14, <3>3
  <2>2. CASE \E i \in GitSpans : EdgesOf(records[i].id, "e") = {}
    BY <1>9, <1>12, <1>14, <2>2
  <2> QED
    BY <1>16, <2>1, <2>2 DEF Incomplete
<1> QED
  BY <1>15, <1>16

\* translate.rs: a record is refused exactly if it cannot be complete, whatever
\* the interleaving that was recorded.
THEOREM RefusalIsExact == TraceSpec => []RefusedIffIncomplete
<1>1. LogInv => RefusedIffIncomplete
  <2> SUFFICES ASSUME LogInv, over, ~timedOut, ExitCode = 0, ~Touching
               PROVE  Merged <=> ~Incomplete
    BY DEF RefusedIffIncomplete
  <2>1. dumped
    BY ZeroIsDumped
  <2>2. Translation.unsupported = Absent <=> ~Incomplete
    BY <2>1, TranslationIs DEF Complete
  <2> QED
    BY <2>2 DEF Merged, Mergeable
<1>2. timedOut => RefusedIffIncomplete
  BY DEF RefusedIffIncomplete
<1>3. TraceSpec => [](timedOut \/ LogInv)
  BY LogHolds
<1> QED
  BY <1>1, <1>2, <1>3, PTL

-----------------------------------------------------------------------------
(* What the run did, told by its log and its records: the directory of a   *)
(* thread at a stamp, the git span a stamp lies in, and the effects.       *)

\* A call of thread u, entered at s, that made thread t.
Cloned(u, s, t) == \E c \in SysCalls : Entered(u, s, c) /\ Clones(c, t)

\* A thread is cloned before anything it does.
Unborn(t) == t \notin Live /\ \A i \in DOMAIN raw : raw[i].tid # t
Parented ==
    /\ \A t \in Tids : Unborn(t) =>
          /\ \A i \in DOMAIN records : records[i].tid # t
          /\ \A u \in Tids, s \in Nat : ~Cloned(u, s, t)
    /\ \A u \in Tids, t \in Tids, s \in Nat : Cloned(u, s, t) =>
          /\ t # Root /\ s <= thread[t].last /\ (InFlight(t) => s < thread[t].last)
          /\ \A x \in Returned : x.tid = t => s < x.ts
          /\ \A i \in DOMAIN records : records[i].tid = t => s < records[i].ts
    /\ \A t \in Tids \ {Root} :
          t \in Live \/ (\E x \in Returned : x.tid = t)
             => \E u \in Tids, s \in Nat : Cloned(u, s, t)

\* The directory after a call made in dir, and what its line says of dir.
After(call, dir) ==
    IF Works(call) /\ call.name \in {"chdir", "fchdir"} THEN Goes(call, dir) ELSE dir
Heard(call, dir) ==
    /\ call.name = "fchdir" => call.dirfd = Resolve(dir, call.to)
    /\ call.name \in {"open-r", "open-w"} /\ call.ret = "ok" => call.retPath = Path(dir, call.file)
    /\ call.name \in {"unlink", "rename"} => call.dirfd = Absent /\ call.retPath = NoPath
    /\ call.name = "clone" => call.ret = "ok"

\* W[t][s] is the directory of thread t for a call that it enters at s.
Homes == [Tids -> [Nat -> Dirs]]
CwdOk(W) ==
    /\ W[Root][0] = "root"
    /\ \A t \in Tids, s \in Nat :
          (\A z \in Returned : z.tid = t => s <= z.ts) => W[t][s] = W[t][0]
    /\ \A y \in Returned, s \in Nat :
          y.ts < s /\ (\A z \in Returned : z.tid = y.tid /\ y.ts < z.ts => s <= z.ts)
             => W[y.tid][s] = After(y.call, W[y.tid][y.ts])
    /\ \A u \in Tids, t \in Tids, s \in Nat : Cloned(u, s, t) => W[u][s] = W[t][0]
    /\ \A t \in Tids, s \in Nat :
          t \in Live /\ (thread[t].last < s \/ (InFlight(t) /\ s = thread[t].last))
             => W[t][s] = thread[t].cwd
    /\ \A t \in Tids, s \in Nat, c \in SysCalls : Entered(t, s, c) => Heard(c, W[t][s])

\* The stamp s lies in a git span of thread t.
InSpan(t, s) == \E b \in DOMAIN records :
    /\ IsGit(b) /\ records[b].tid = t /\ records[b].ts < s
    /\ \A e \in EndsOf(b) : s < records[e].ts

\* What a call does in a directory, and an end edge for its builtin.
Uses(call, dir) ==
    IF call.name = "open-r" THEN {Event("Read", Path(dir, call.file))}
    ELSE IF call.name \in {"open-w", "unlink"} THEN {Event("Edit", Path(dir, call.file))}
    ELSE IF call.name = "rename"
           THEN {Event("Edit", Path(dir, call.file)), Event("Edit", Path(dir, call.to))}
    ELSE {}
AddEnds(j) == /\ records[j].k = "e" /\ records[j].exit = 0
             /\ records[records[j].id].builtin = "git add"

By(t, s) == IF InSpan(t, s) THEN "builtin" ELSE "shell"
Doing(e, t, by) == [event |-> e, tid |-> t, by |-> by]
Deed(d, call, dir, t, by) == \E e \in Uses(call, dir) : d = Doing(e, t, by)
CallDid(W, d) == \E y \in Returned :
    Works(y.call) /\ Deed(d, y.call, W[y.tid][y.ts], y.tid, By(y.tid, y.ts))
EndDid(d) == \E j \in DOMAIN records : /\ AddEnds(j)
    /\ d = Doing(Event("Stage", records[records[j].id].path), records[j].tid, "record")

\* Nothing was done by git, and no git span was left open by a panic.
Sound ==
    /\ \A t \in Tids : thread[t].program # "git"
    /\ \A b \in DOMAIN records : IsGit(b) /\ EndsOf(b) = {} =>
          \E n \in DOMAIN thread[records[b].tid].spans : thread[records[b].tid].spans[n] = b

DidOk(W) == Sound => \A d : d \in Range(did) <=> CallDid(W, d) \/ EndDid(d)

Told == Parented /\ did \in Seq(Range(did)) /\ \E W \in Homes : CwdOk(W) /\ DidOk(W)

\* A step after which every thread stands where it stood, and that makes none.
Quietly ==
    /\ LogInv /\ LogInv'
    /\ \A t \in Tids : Unborn(t)' => Unborn(t)
    /\ \A t \in Tids : t \in Live' => t \in Live
    /\ \A t \in Tids : thread'[t].cwd = thread[t].cwd
    /\ \A t \in Tids : thread[t].last <= thread'[t].last
    /\ \A t \in Tids : InFlight(t)' =>
          (InFlight(t) /\ thread'[t].last = thread[t].last) \/ thread[t].last < thread'[t].last
    /\ Returned \subseteq Returned'
    /\ \A x \in Returned' : x \in Returned
          \/ (x.tid \in Live /\ thread[x.tid].last < x.ts /\ ~Works(x.call))
    /\ \A u \in Tids, s \in Nat, c \in SysCalls : Entered(u, s, c) => Entered(u, s, c)'
    /\ \A u \in Tids, s \in Nat, c \in SysCalls : Entered(u, s, c)' =>
          \/ Entered(u, s, c)
          \/ u \in Live /\ thread[u].last < s /\ c.name # "clone" /\ Heard(c, thread[u].cwd)

LEMMA QuietClones ==
    ASSUME Quietly
    PROVE  \A u \in Tids, t \in Tids, s \in Nat : Cloned(u, s, t)' <=> Cloned(u, s, t)
<1> SUFFICES ASSUME NEW u \in Tids, NEW t \in Tids, NEW s \in Nat
             PROVE  Cloned(u, s, t)' <=> Cloned(u, s, t)
  OBVIOUS
<1>1. ASSUME Cloned(u, s, t) PROVE Cloned(u, s, t)'
  <2>1. PICK c \in SysCalls : Entered(u, s, c) /\ Clones(c, t)
    BY <1>1 DEF Cloned
  <2>2. Entered(u, s, c)'
    BY <2>1 DEF Quietly
  <2> QED
    BY <2>1, <2>2 DEF Cloned, Clones
<1>2. ASSUME Cloned(u, s, t)' PROVE Cloned(u, s, t)
  <2>1. PICK c \in SysCalls : Entered(u, s, c)' /\ Clones(c, t)
    BY <1>2 DEF Cloned, Clones
  <2>2. Entered(u, s, c)
    BY <2>1 DEF Quietly, Clones
  <2> QED
    BY <2>1, <2>2 DEF Cloned
<1> QED
  BY <1>1, <1>2

Clocked ==
    /\ \A t \in Tids : thread[t].last \in Nat
    /\ \A x \in Returned : x.tid \in Tids /\ x.ts \in Nat
    /\ \A i \in DOMAIN records : records[i].tid \in Tids /\ records[i].ts \in Nat

LEMMA LastTyped == LogInv => Clocked
<1> SUFFICES ASSUME LogInv PROVE Clocked
  OBVIOUS
<1>1. Typed
  BY DEF LogInv
<1>2. \A t \in Tids : thread[t].last \in Nat
  BY <1>1, ThreadTyped
<1>3. \A x \in Returned : x.tid \in Tids /\ x.ts \in Nat
  BY <1>1, ReturnedTyped
<1>4. ASSUME NEW i \in DOMAIN records PROVE records[i].tid \in Tids /\ records[i].ts \in Nat
  <2>1. records[i] \in Begins \union Ends
    BY <1>1, ElementOfSeq DEF Typed
  <2> QED
    BY <2>1 DEF Begins, Ends
<1> QED
  BY <1>2, <1>3, <1>4 DEF Clocked

LEMMA LastTypedNext == LogInv' => Clocked'
BY LastTyped, PTL

LEMMA QuietParents ==
    ASSUME Quietly, Parented,
           \A i \in DOMAIN records' :
              \/ i \in DOMAIN records /\ records'[i] = records[i]
              \/ /\ records'[i].tid \in Live
                 /\ \A u \in Tids, s \in Nat : Cloned(u, s, records'[i].tid) => s < records'[i].ts
    PROVE  Parented'
<1>1. \A u \in Tids, t \in Tids, s \in Nat : Cloned(u, s, t)' <=> Cloned(u, s, t)
  BY QuietClones
<1>2. /\ LogInv /\ LogInv'
      /\ \A t \in Tids : Unborn(t)' => Unborn(t)
      /\ \A t \in Tids : t \in Live' => t \in Live
      /\ \A t \in Tids : thread[t].last <= thread'[t].last
      /\ \A t \in Tids : InFlight(t)' =>
            (InFlight(t) /\ thread'[t].last = thread[t].last) \/ thread[t].last < thread'[t].last
      /\ \A x \in Returned' : x \in Returned
            \/ (x.tid \in Live /\ thread[x.tid].last < x.ts)
  BY DEF Quietly
<1>3. /\ \A t \in Tids : thread[t].last \in Nat
      /\ \A x \in Returned : x.tid \in Tids /\ x.ts \in Nat
      /\ \A i \in DOMAIN records : records[i].tid \in Tids /\ records[i].ts \in Nat
  BY <1>2, LastTyped DEF Clocked
<1>4. /\ \A t \in Tids : thread'[t].last \in Nat
      /\ \A x \in Returned' : x.tid \in Tids /\ x.ts \in Nat
      /\ \A i \in DOMAIN records' : records'[i].tid \in Tids /\ records'[i].ts \in Nat
  BY <1>2, LastTypedNext DEF Clocked
<1>5. ASSUME NEW t \in Tids, Unborn(t)'
      PROVE  /\ \A i \in DOMAIN records' : records'[i].tid # t
             /\ \A u \in Tids, s \in Nat : ~Cloned(u, s, t)'
  <2>1. Unborn(t) /\ t \notin Live
    BY <1>2, <1>5 DEF Unborn
  <2>2. /\ \A i \in DOMAIN records : records[i].tid # t
        /\ \A u \in Tids, s \in Nat : ~Cloned(u, s, t)
    BY <2>1 DEF Parented
  <2> QED
    BY <1>1, <2>1, <2>2
<1>6. ASSUME NEW u \in Tids, NEW t \in Tids, NEW s \in Nat, Cloned(u, s, t)'
      PROVE  /\ t # Root /\ s <= thread'[t].last /\ (InFlight(t)' => s < thread'[t].last)
             /\ \A x \in Returned' : x.tid = t => s < x.ts
             /\ \A i \in DOMAIN records' : records'[i].tid = t => s < records'[i].ts
  <2>1. Cloned(u, s, t)
    BY <1>1, <1>6
  <2>2. /\ t # Root /\ s <= thread[t].last /\ (InFlight(t) => s < thread[t].last)
        /\ \A x \in Returned : x.tid = t => s < x.ts
        /\ \A i \in DOMAIN records : records[i].tid = t => s < records[i].ts
    BY <2>1 DEF Parented
  <2>3. s <= thread'[t].last /\ (InFlight(t)' => s < thread'[t].last)
    BY <1>2, <1>3, <1>4, <2>2
  <2>4. \A x \in Returned' : x.tid = t => s < x.ts
    BY <1>2, <1>3, <1>4, <2>2
  <2>5. \A i \in DOMAIN records' : records'[i].tid = t => s < records'[i].ts
    BY <2>1, <2>2
  <2> QED
    BY <2>2, <2>3, <2>4, <2>5
<1>7. ASSUME NEW t \in Tids \ {Root}, t \in Live' \/ (\E x \in Returned' : x.tid = t)
      PROVE  \E u \in Tids, s \in Nat : Cloned(u, s, t)'
  <2>1. t \in Live \/ (\E x \in Returned : x.tid = t)
    BY <1>2, <1>7
  <2>2. \E u \in Tids, s \in Nat : Cloned(u, s, t)
    BY <2>1 DEF Parented
  <2> QED
    BY <1>1, <2>2
<1> QED
  BY <1>5, <1>6, <1>7 DEF Parented

LEMMA QuietHomes ==
    ASSUME Quietly, NEW W \in Homes, CwdOk(W)
    PROVE  CwdOk(W)'
<1>1. \A u \in Tids, t \in Tids, s \in Nat : Cloned(u, s, t)' <=> Cloned(u, s, t)
  BY QuietClones
<1>2. /\ LogInv /\ LogInv'
      /\ \A t \in Tids : t \in Live' => t \in Live
      /\ \A t \in Tids : thread'[t].cwd = thread[t].cwd
      /\ \A t \in Tids : thread[t].last <= thread'[t].last
      /\ \A t \in Tids : InFlight(t)' =>
            (InFlight(t) /\ thread'[t].last = thread[t].last) \/ thread[t].last < thread'[t].last
      /\ Returned \subseteq Returned'
      /\ \A x \in Returned' : x \in Returned
            \/ (x.tid \in Live /\ thread[x.tid].last < x.ts /\ ~Works(x.call))
      /\ \A u \in Tids, s \in Nat, c \in SysCalls : Entered(u, s, c)' =>
            \/ Entered(u, s, c)
            \/ u \in Live /\ thread[u].last < s /\ Heard(c, thread[u].cwd)
  BY DEF Quietly
<1>3. /\ \A t \in Tids : thread[t].last \in Nat
      /\ \A x \in Returned : x.tid \in Tids /\ x.ts \in Nat
  BY <1>2, LastTyped DEF Clocked
<1>4. /\ \A t \in Tids : thread'[t].last \in Nat
      /\ \A x \in Returned' : x.tid \in Tids /\ x.ts \in Nat
  BY <1>2, LastTypedNext DEF Clocked
<1>5. /\ W[Root][0] = "root"
      /\ \A t \in Tids, s \in Nat :
            (\A z \in Returned : z.tid = t => s <= z.ts) => W[t][s] = W[t][0]
      /\ \A y \in Returned, s \in Nat :
            y.ts < s /\ (\A z \in Returned : z.tid = y.tid /\ y.ts < z.ts => s <= z.ts)
               => W[y.tid][s] = After(y.call, W[y.tid][y.ts])
      /\ \A u \in Tids, t \in Tids, s \in Nat : Cloned(u, s, t) => W[u][s] = W[t][0]
      /\ \A t \in Tids, s \in Nat :
            t \in Live /\ (thread[t].last < s \/ (InFlight(t) /\ s = thread[t].last))
               => W[t][s] = thread[t].cwd
      /\ \A t \in Tids, s \in Nat, c \in SysCalls : Entered(t, s, c) => Heard(c, W[t][s])
  BY DEF CwdOk
<1>6. \A t \in Tids, s \in Nat :
         (\A z \in Returned' : z.tid = t => s <= z.ts) => W[t][s] = W[t][0]
  BY <1>2, <1>5
<1>7. ASSUME NEW y \in Returned', NEW s \in Nat, y.ts < s,
             \A z \in Returned' : z.tid = y.tid /\ y.ts < z.ts => s <= z.ts
      PROVE  W[y.tid][s] = After(y.call, W[y.tid][y.ts])
  <2>1. CASE y \in Returned
    BY <1>2, <1>5, <1>7, <2>1
  <2>2. CASE y.tid \in Live /\ thread[y.tid].last < y.ts /\ ~Works(y.call)
    <3>1. y.tid \in Tids /\ y.ts \in Nat /\ thread[y.tid].last \in Nat
      BY <1>3, <1>4
    <3>2. thread[y.tid].last < s
      BY <1>7, <2>2, <3>1
    <3>3. W[y.tid][s] = thread[y.tid].cwd /\ W[y.tid][y.ts] = thread[y.tid].cwd
      BY <1>5, <2>2, <3>1, <3>2
    <3>4. After(y.call, W[y.tid][y.ts]) = W[y.tid][y.ts]
      BY <2>2 DEF After
    <3> QED
      BY <3>3, <3>4
  <2> QED
    BY <1>2, <2>1, <2>2
<1>8. \A u \in Tids, t \in Tids, s \in Nat : Cloned(u, s, t)' => W[u][s] = W[t][0]
  BY <1>1, <1>5
<1>9. ASSUME NEW t \in Tids, NEW s \in Nat, t \in Live',
             thread'[t].last < s \/ (InFlight(t)' /\ s = thread'[t].last)
      PROVE  W[t][s] = thread'[t].cwd
  <2>1. thread[t].last < s \/ (InFlight(t) /\ s = thread[t].last)
    BY <1>2, <1>3, <1>4, <1>9
  <2> QED
    BY <1>2, <1>5, <1>9, <2>1
<1>10. ASSUME NEW t \in Tids, NEW s \in Nat, NEW c \in SysCalls, Entered(t, s, c)'
       PROVE  Heard(c, W[t][s])
  <2>1. CASE Entered(t, s, c)
    BY <1>5, <2>1
  <2>2. CASE t \in Live /\ thread[t].last < s /\ Heard(c, thread[t].cwd)
    <3>1. W[t][s] = thread[t].cwd
      BY <1>5, <2>2
    <3> QED
      BY <2>2, <3>1
  <2> QED
    BY <1>2, <1>10, <2>1, <2>2
<1>11. W[Root][0] = "root"
  BY <1>5
<1> QED
  BY <1>6, <1>7, <1>8, <1>9, <1>10, <1>11 DEF CwdOk, Heard, After, Goes, Works

\* The records tell the same, or one more is pushed.
LEMMA RecordsStay ==
    ASSUME records' = records
    PROVE  /\ \A t, s : InSpan(t, s)' <=> InSpan(t, s)
           /\ \A d : EndDid(d)' <=> EndDid(d)
           /\ \A b : IsGit(b)' <=> IsGit(b)
           /\ \A b : EndsOf(b)' = EndsOf(b)
<1>1. \A b : IsGit(b)' <=> IsGit(b)
  BY DEF IsGit
<1>2. \A b : EndsOf(b)' = EndsOf(b)
  BY DEF EndsOf, EdgesOf
<1>3. \A t, s : InSpan(t, s)' <=> InSpan(t, s)
  BY <1>1, <1>2 DEF InSpan
<1>4. \A d : EndDid(d)' <=> EndDid(d)
  BY DEF EndDid, AddEnds
<1> QED
  BY <1>1, <1>2, <1>3, <1>4

LEMMA RecordsGrow ==
    ASSUME LogInv, NEW r \in Begins \union Ends, records' = Append(records, r)
    PROVE  LET next == Len(records) + 1 IN
           /\ \A i : i \in DOMAIN records' <=> i \in DOMAIN records \/ i = next
           /\ \A i \in DOMAIN records : records'[i] = records[i] /\ i # next
           /\ records'[next] = r
           /\ \A b \in DOMAIN records : IsGit(b)' <=> IsGit(b)
           /\ \A b, j : j \in EndsOf(b)' <=> j \in EndsOf(b) \/ (j = next /\ r.k = "e" /\ r.id = b)
<1> DEFINE next == Len(records) + 1
<1>1. records \in Seq(Begins \union Ends)
  BY DEF LogInv, Typed
<1>2. /\ records' \in Seq(Begins \union Ends) /\ Len(records') = Len(records) + 1
      /\ \A i \in 1..Len(records) : records'[i] = records[i]
      /\ records'[Len(records) + 1] = r
  BY <1>1, AppendProperties
<1>3. DOMAIN records = 1..Len(records) /\ DOMAIN records' = 1..Len(records') /\ Len(records) \in Nat
  BY <1>1, <1>2, LenProperties
<1>4. /\ \A i : i \in DOMAIN records' <=> i \in DOMAIN records \/ i = next
      /\ \A i \in DOMAIN records : records'[i] = records[i] /\ i # next
      /\ records'[next] = r
  BY <1>2, <1>3
<1> HIDE DEF next
<1>5. \A b \in DOMAIN records : IsGit(b)' <=> IsGit(b)
  BY <1>4 DEF IsGit
<1>6. \A b, j : j \in EndsOf(b)' <=> j \in EndsOf(b) \/ (j = next /\ r.k = "e" /\ r.id = b)
  BY <1>4 DEF EndsOf, EdgesOf
<1> QED
  BY <1>4, <1>5, <1>6 DEF next

LEMMA PushedSpans ==
    ASSUME LogInv, NEW t \in Tids, HookStamp(t),
           NEW r \in Begins \union Ends, records' = Append(records, r), r.tid = t, r.ts = clock',
           r.k = "e" => r.id \in DOMAIN records /\ records[r.id].tid = t,
           NEW y \in Returned
    PROVE  InSpan(y.tid, y.ts)' <=> InSpan(y.tid, y.ts)
<1> DEFINE next == Len(records) + 1
<1>1. /\ \A i : i \in DOMAIN records' <=> i \in DOMAIN records \/ i = next
      /\ \A i \in DOMAIN records : records'[i] = records[i] /\ i # next
      /\ records'[next] = r
      /\ \A b \in DOMAIN records : IsGit(b)' <=> IsGit(b)
      /\ \A b, j : j \in EndsOf(b)' <=> j \in EndsOf(b) \/ (j = next /\ r.k = "e" /\ r.id = b)
  BY RecordsGrow
<1> HIDE DEF next
<1>2. /\ clock' \in Nat /\ thread[t].last <= clock'
      /\ \A s \in Nat : \A c \in SysCalls \union ExitCalls : Entered(t, s, c) => s # clock'
  BY HookStampIs
<1>3. /\ y.tid \in Tids /\ y.ts \in Nat /\ thread[t].last \in Nat
      /\ y.call \in SysCalls \union ExitCalls /\ Entered(y.tid, y.ts, y.call)
  BY LastTyped, ReturnedTyped DEF LogInv, Clocked
<1>4. y.tid = t => y.ts < clock'
  <2>1. y.tid = t => y.ts <= thread[t].last
    BY DEF LogInv, Stamped
  <2> QED
    BY <1>2, <1>3, <2>1
<1>5. ASSUME InSpan(y.tid, y.ts) PROVE InSpan(y.tid, y.ts)'
  <2>1. PICK b \in DOMAIN records :
            /\ IsGit(b) /\ records[b].tid = y.tid /\ records[b].ts < y.ts
            /\ \A e \in EndsOf(b) : y.ts < records[e].ts
    BY <1>5 DEF InSpan
  <2>2. b \in DOMAIN records' /\ IsGit(b)' /\ records'[b].tid = y.tid /\ records'[b].ts < y.ts
    BY <1>1, <2>1
  <2>3. ASSUME NEW e \in EndsOf(b)' PROVE y.ts < records'[e].ts
    <3>1. CASE e \in EndsOf(b)
      <4>1. e \in DOMAIN records
        BY <3>1 DEF EndsOf, EdgesOf
      <4> QED
        BY <1>1, <2>1, <3>1, <4>1
    <3>2. CASE e = next /\ r.k = "e" /\ r.id = b
      BY <1>1, <1>4, <2>1, <3>2
    <3> QED
      BY <1>1, <3>1, <3>2
  <2> QED
    BY <2>2, <2>3 DEF InSpan
<1>6. ASSUME InSpan(y.tid, y.ts)' PROVE InSpan(y.tid, y.ts)
  <2>1. PICK b \in DOMAIN records' :
            /\ IsGit(b)' /\ records'[b].tid = y.tid /\ records'[b].ts < y.ts
            /\ \A e \in EndsOf(b)' : y.ts < records'[e].ts
    BY <1>6 DEF InSpan
  <2>2. b \in DOMAIN records
    BY <1>1, <1>2, <1>3, <1>4, <2>1
  <2>3. IsGit(b) /\ records[b].tid = y.tid /\ records[b].ts < y.ts
    BY <1>1, <2>1, <2>2
  <2>4. ASSUME NEW e \in EndsOf(b) PROVE y.ts < records[e].ts
    <3>1. e \in DOMAIN records
      BY DEF EndsOf, EdgesOf
    <3> QED
      BY <1>1, <2>1, <3>1
  <2> QED
    BY <2>2, <2>3, <2>4 DEF InSpan
<1> QED
  BY <1>5, <1>6

LEMMA CallsMove ==
    ASSUME Returned \subseteq Returned', \A x \in Returned' : x \in Returned \/ ~Works(x.call),
           NEW W, NEW V, \A y \in Returned : V[y.tid][y.ts] = W[y.tid][y.ts],
           \A y \in Returned : InSpan(y.tid, y.ts)' <=> InSpan(y.tid, y.ts), NEW d
    PROVE  CallDid(V, d)' <=> CallDid(W, d)
<1>1. \A y \in Returned : By(y.tid, y.ts)' = By(y.tid, y.ts)
  BY DEF By
<1>2. ASSUME CallDid(W, d) PROVE CallDid(V, d)'
  <2>1. PICK y \in Returned :
            /\ Works(y.call)
            /\ Deed(d, y.call, W[y.tid][y.ts], y.tid, By(y.tid, y.ts))
    BY <1>2 DEF CallDid
  <2>2. V[y.tid][y.ts] = W[y.tid][y.ts] /\ y \in Returned'
    OBVIOUS
  <2> QED
    BY <1>1, <2>1, <2>2 DEF CallDid, Deed, Uses, Doing, Works
<1>3. ASSUME CallDid(V, d)' PROVE CallDid(W, d)
  <2>1. PICK y \in Returned' :
            /\ Works(y.call)
            /\ Deed(d, y.call, V[y.tid][y.ts], y.tid, By(y.tid, y.ts)')
    BY <1>3 DEF CallDid, Deed, Uses, Doing, Works
  <2>2. y \in Returned
    BY <2>1
  <2>3. V[y.tid][y.ts] = W[y.tid][y.ts]
    BY <2>2
  <2> QED
    BY <1>1, <2>1, <2>2, <2>3 DEF CallDid
<1> QED
  BY <1>2, <1>3

LEMMA DeedsMove ==
    ASSUME Returned \subseteq Returned', \A x \in Returned' : x \in Returned \/ ~Works(x.call),
           did' = did, Sound' => Sound, NEW W, NEW V, DidOk(W),
           \A y \in Returned : V[y.tid][y.ts] = W[y.tid][y.ts],
           \A y \in Returned : InSpan(y.tid, y.ts)' <=> InSpan(y.tid, y.ts),
           \A d : EndDid(d)' <=> EndDid(d)
    PROVE  DidOk(V)'
<1>1. \A d : CallDid(V, d)' <=> CallDid(W, d)
  BY CallsMove
<1> QED
  BY <1>1 DEF DidOk

\* A panic and an exit leave a span open; nothing closes what was left open.
LEMMA SoundStays ==
    ASSUME LogInv, records' = records,
           \A u \in Tids : thread'[u].program = thread[u].program,
           \A u \in Tids : thread'[u].spans \in {thread[u].spans, <<>>}
    PROVE  Sound' => Sound
<1> SUFFICES ASSUME Sound' PROVE Sound
  OBVIOUS
<1>1. /\ \A b : IsGit(b)' <=> IsGit(b)
      /\ \A b : EndsOf(b)' = EndsOf(b)
  BY RecordsStay
<1>2. /\ \A t \in Tids : thread'[t].program # "git"
      /\ \A b \in DOMAIN records' : IsGit(b)' /\ EndsOf(b)' = {} =>
            \E n \in DOMAIN thread'[records'[b].tid].spans :
               thread'[records'[b].tid].spans[n] = b
  BY DEF Sound
<1>3. ASSUME NEW b \in DOMAIN records, IsGit(b), EndsOf(b) = {}
      PROVE  \E n \in DOMAIN thread[records[b].tid].spans : thread[records[b].tid].spans[n] = b
  <2> DEFINE t == records[b].tid
  <2>1. t \in Tids
    BY LastTyped DEF Clocked
  <2>2. PICK n \in DOMAIN thread'[t].spans : thread'[t].spans[n] = b
    BY <1>1, <1>2, <1>3
  <2>3. DOMAIN <<>> = {}
    OBVIOUS
  <2>4. thread'[t].spans = thread[t].spans
    BY <2>1, <2>2, <2>3
  <2> QED
    BY <2>2, <2>4
<1> QED
  BY <1>2, <1>3 DEF Sound

LEMMA SaysHeard ==
    ASSUME NEW call, NEW dir, NEW c, NEW ok \in BOOLEAN, Says(call, dir, c, ok),
           c.name = "clone" => ok
    PROVE  Heard(call, dir)
<1>1. /\ call.name = c.name /\ call.file = c.file /\ call.to = c.to
      /\ c.name = "fchdir" => call.dirfd = Resolve(dir, c.to)
      /\ c.name \in {"unlink", "rename"} => call.dirfd = Absent
      /\ ok => call.ret = "ok"
      /\ ~ok => call.ret # "ok"
      /\ ok /\ c.name \in {"open-r", "open-w"} => call.retPath = Path(dir, c.file)
      /\ c.name \in {"unlink", "rename"} => call.retPath = NoPath
  BY DEF Says
<1> QED
  BY <1>1 DEF Heard

LEMMA StillTold ==
    ASSUME Quietly, Told, did' = did, Sound' => Sound,
           \A i \in DOMAIN records' :
              \/ i \in DOMAIN records /\ records'[i] = records[i]
              \/ /\ records'[i].tid \in Live
                 /\ \A u \in Tids, s \in Nat : Cloned(u, s, records'[i].tid) => s < records'[i].ts,
           \A y \in Returned : InSpan(y.tid, y.ts)' <=> InSpan(y.tid, y.ts),
           \A d : EndDid(d)' <=> EndDid(d)
    PROVE  Told'
<1>1. Parented /\ did \in Seq(Range(did))
  BY DEF Told
<1>2. PICK W \in Homes : CwdOk(W) /\ DidOk(W)
  BY DEF Told
<1>3. Parented'
  BY <1>1, QuietParents
<1>4. CwdOk(W)'
  BY <1>2, QuietHomes
<1>5. Returned \subseteq Returned' /\ \A x \in Returned' : x \in Returned \/ ~Works(x.call)
  BY DEF Quietly
<1>6. DidOk(W)'
  BY <1>2, <1>5, DeedsMove
<1>7. did' \in Seq(Range(did'))
  BY <1>1
<1> QED
  BY <1>3, <1>4, <1>6, <1>7 DEF Told, Homes

LEMMA StillToldByLog ==
    ASSUME Quietly, Told, did' = did, records' = records,
           \A u \in Tids : thread'[u].program = thread[u].program,
           \A u \in Tids : thread'[u].spans \in {thread[u].spans, <<>>}
    PROVE  Told'
<1>1. LogInv
  BY DEF Quietly
<1>2. Sound' => Sound
  BY <1>1, SoundStays
<1>3. /\ \A t, s : InSpan(t, s)' <=> InSpan(t, s)
      /\ \A d : EndDid(d)' <=> EndDid(d)
  BY RecordsStay
<1> QED
  BY <1>2, <1>3, StillTold

LEMMA ExitedTold ==
    ASSUME LogInv, LogInv', Told, NEW t \in Tids, NEW exit \in {0, 1}, Exited(t, exit)
    PROVE  Told'
<1> DEFINE call == [name |-> "exited", status |-> exit]
           l == [tid |-> t, ts |-> clock', kind |-> "exited", call |-> call]
<1>1. /\ thread[t].alive /\ ~InFlight(t) /\ thread[t].last < clock' /\ clock' \in Nat
      /\ UNCHANGED <<records, did>>
      /\ l \in TraceLines /\ raw' = Append(Cut(raw), l)
      /\ thread'[t].last = clock' /\ thread'[t].spans = <<>> /\ thread'[t].call = NoCall
      /\ ~thread'[t].alive /\ thread'[t].cwd = thread[t].cwd
      /\ thread'[t].program = thread[t].program
      /\ \A u \in Tids \ {t} : thread'[u] = thread[u]
      /\ Returned' = Returned \union {Whole(t, clock', call)}
      /\ \A u \in Tids : InFlight(u)' <=> InFlight(u)
      /\ \A u \in Tids : \A s, d : Entered(u, s, d)' <=>
            Entered(u, s, d) \/ (u = t /\ s = clock' /\ d = call)
  BY DEF Exited
<1>2. /\ Whole(t, clock', call).tid = t /\ Whole(t, clock', call).ts = clock'
      /\ Whole(t, clock', call).call = call /\ l.tid = t
  BY DEF Whole
<1>3. ~Works(call) /\ \A c \in SysCalls : c # call
  <2>1. call.name = "exited"
    OBVIOUS
  <2>2. \A c \in SysCalls : c.name # "exited"
    BY DEF SysCalls, CallNames
  <2> QED
    BY <2>1, <2>2 DEF Works
<1> HIDE DEF call, l
<1>4. \A i \in DOMAIN raw : i \in DOMAIN raw' /\ raw'[i].tid = raw[i].tid
  BY <1>1, PrintedKeeps DEF LogInv
<1>5. \E i \in DOMAIN raw' : raw'[i].tid = t
  <2>1. /\ DOMAIN raw' = 1..(Len(raw) + 1) /\ Len(raw) \in Nat
        /\ raw'[Len(raw) + 1] = l
    BY <1>1, PrintedKeeps DEF LogInv
  <2> QED
    BY <1>2, <2>1
<1>6. \A u \in Tids : Unborn(u)' => Unborn(u)
  BY <1>1, <1>4, <1>5 DEF Unborn, Live
<1>7. \A u \in Tids : u \in Live' => u \in Live
  BY <1>1 DEF Live
<1>8. /\ \A u \in Tids : thread'[u].cwd = thread[u].cwd
      /\ \A u \in Tids : thread'[u].program = thread[u].program
      /\ \A u \in Tids : thread'[u].spans \in {thread[u].spans, <<>>}
  BY <1>1
<1>9. /\ \A u \in Tids : thread[u].last <= thread'[u].last
      /\ \A u \in Tids : InFlight(u)' =>
            (InFlight(u) /\ thread'[u].last = thread[u].last) \/ thread[u].last < thread'[u].last
  BY <1>1, LastTyped DEF Clocked
<1>10. \A x \in Returned' : x \in Returned
          \/ (x.tid \in Live /\ thread[x.tid].last < x.ts /\ ~Works(x.call))
  BY <1>1, <1>2, <1>3 DEF Live
<1>11. \A u \in Tids, s \in Nat, c \in SysCalls : Entered(u, s, c)' <=> Entered(u, s, c)
  BY <1>1, <1>3
<1>12. Quietly
  BY <1>1, <1>6, <1>7, <1>8, <1>9, <1>10, <1>11 DEF Quietly
<1> QED
  BY <1>1, <1>8, <1>12, StillToldByLog

LEMMA KillTold ==
    ASSUME LogInv, LogInv', Told, Kill
    PROVE  Told'
<1> DEFINE l == [tid |-> Root, ts |-> clock', kind |-> "killed", call |-> NoCall]
<1>1. /\ UNCHANGED <<records, did>>
      /\ l \in TraceLines /\ raw' = Append(Cut(raw), l) /\ ~thread'[Root].alive
      /\ \A u \in Tids : /\ thread'[u].last = thread[u].last
                         /\ thread'[u].spans = thread[u].spans
                         /\ thread'[u].cwd = thread[u].cwd
                         /\ thread'[u].program = thread[u].program
      /\ \A u \in Tids \ {Root} : thread'[u] = thread[u]
      /\ Returned' = Returned
      /\ \A u \in Tids : InFlight(u)' <=> InFlight(u)
      /\ \A u \in Tids : \A s, d : Entered(u, s, d)' <=> Entered(u, s, d)
  BY KillStep
<1>2. l.tid = Root
  OBVIOUS
<1> HIDE DEF l
<1>3. \A i \in DOMAIN raw : i \in DOMAIN raw' /\ raw'[i].tid = raw[i].tid
  BY <1>1, PrintedKeeps DEF LogInv
<1>4. \E i \in DOMAIN raw' : raw'[i].tid = Root
  <2>1. /\ DOMAIN raw' = 1..(Len(raw) + 1) /\ Len(raw) \in Nat
        /\ raw'[Len(raw) + 1] = l
    BY <1>1, PrintedKeeps DEF LogInv
  <2> QED
    BY <1>2, <2>1
<1>5. \A u \in Tids : Unborn(u)' => Unborn(u)
  BY <1>1, <1>3, <1>4 DEF Unborn, Live
<1>6. \A u \in Tids : u \in Live' => u \in Live
  BY <1>1 DEF Live
<1>7. \A u \in Tids : thread[u].last <= thread'[u].last
  BY <1>1, LastTyped DEF Clocked
<1>8. Quietly
  BY <1>1, <1>5, <1>6, <1>7 DEF Quietly
<1> QED
  BY <1>1, <1>8, StillToldByLog

\* A panic, the tracer's exit, and nothing at all.
LEMMA UnloggedTold ==
    ASSUME LogInv, LogInv', Told, Unlogged, UNCHANGED <<records, did>>,
           \A u \in Tids : /\ thread'[u].last = thread[u].last
                           /\ thread'[u].alive = thread[u].alive
                           /\ thread'[u].cwd = thread[u].cwd
                           /\ thread'[u].program = thread[u].program
                           /\ thread'[u].spans \in {thread[u].spans, <<>>}
    PROVE  Told'
<1>1. /\ raw' = raw /\ Returned' = Returned
      /\ \A u \in Tids : InFlight(u)' <=> InFlight(u)
      /\ \A u \in Tids : \A s, d : Entered(u, s, d)' <=> Entered(u, s, d)
  BY DEF Unlogged
<1>2. Live' = Live
  BY DEF Live
<1>3. \A u \in Tids : Unborn(u)' => Unborn(u)
  BY <1>1, <1>2 DEF Unborn
<1>4. \A u \in Tids : thread[u].last <= thread'[u].last
  BY LastTyped DEF Clocked
<1>5. Quietly
  BY <1>1, <1>2, <1>3, <1>4 DEF Quietly
<1> QED
  BY <1>5, StillToldByLog

LEMMA PlainTold ==
    ASSUME LogInv, LogInv', Told, NEW t \in Tids, NEW call \in SysCalls,
           thread[t].alive, thread[t].last < clock', clock' \in Nat,
           UNCHANGED <<records, did>>, Heard(call, thread[t].cwd), call.name # "clone",
           \A i \in DOMAIN raw : i \in DOMAIN raw' /\ raw'[i].tid = raw[i].tid,
           thread'[t].last = clock',
           thread'[t].alive = thread[t].alive, thread'[t].cwd = thread[t].cwd,
           thread'[t].program = thread[t].program, thread'[t].spans = thread[t].spans,
           \A u \in Tids \ {t} : thread'[u] = thread[u],
           Returned' = Returned,
           \A u \in Tids : InFlight(u)' <=> InFlight(u) \/ u = t,
           \A u \in Tids : \A s, d : Entered(u, s, d)' <=>
              Entered(u, s, d) \/ (u = t /\ s = clock' /\ d = call)
    PROVE  Told'
<1>1. Live' = Live
  BY DEF Live
<1>2. \A u \in Tids : Unborn(u)' => Unborn(u)
  BY <1>1 DEF Unborn
<1>3. \A u \in Tids : /\ thread'[u].cwd = thread[u].cwd
                      /\ thread'[u].program = thread[u].program
                      /\ thread'[u].spans \in {thread[u].spans, <<>>}
  OBVIOUS
<1>4. /\ \A u \in Tids : thread[u].last <= thread'[u].last
      /\ \A u \in Tids : InFlight(u)' =>
            (InFlight(u) /\ thread'[u].last = thread[u].last) \/ thread[u].last < thread'[u].last
  BY LastTyped DEF Clocked
<1>5. \A u \in Tids, s \in Nat, c \in SysCalls : Entered(u, s, c)' =>
            \/ Entered(u, s, c)
            \/ u \in Live /\ thread[u].last < s /\ c.name # "clone" /\ Heard(c, thread[u].cwd)
  BY DEF Live
<1>6. Quietly
  BY <1>1, <1>2, <1>3, <1>4, <1>5 DEF Quietly
<1> QED
  BY <1>3, <1>6, StillToldByLog

LEMMA EnterPlainTold ==
    ASSUME LogInv, LogInv', Told, NEW t \in Tids, NEW call \in SysCalls,
           thread[t].alive, ~InFlight(t), clock' \in Nat, thread[t].last < clock',
           UNCHANGED <<records, did>>, Heard(call, thread[t].cwd), call.name # "clone",
           thread' = [thread EXCEPT ![t].call = call, ![t].last = clock'],
           raw' = Append(Cut(raw), [tid |-> t, ts |-> clock', kind |-> "entry", call |-> call])
    PROVE  Told'
<1>1. /\ thread' \in [Tids -> ThreadStates]
      /\ thread'[t].call = call /\ thread'[t].last = clock'
      /\ thread'[t].alive = thread[t].alive /\ thread'[t].cwd = thread[t].cwd
      /\ thread'[t].program = thread[t].program /\ thread'[t].spans = thread[t].spans
      /\ \A u \in Tids \ {t} : thread'[u] = thread[u]
      /\ Returned' = Returned
      /\ \A u \in Tids : InFlight(u)' <=> InFlight(u) \/ u = t
      /\ \A u \in Tids : \A s, d : Entered(u, s, d)' <=>
            Entered(u, s, d) \/ (u = t /\ s = clock' /\ d = call)
      /\ Logged'
  BY EnterPlain
<1> DEFINE l == [tid |-> t, ts |-> clock', kind |-> "entry", call |-> call]
<1>2. l \in TraceLines /\ raw' = Append(Cut(raw), l)
  BY DEF TraceLines
<1> HIDE DEF l
<1>3. \A i \in DOMAIN raw : i \in DOMAIN raw' /\ raw'[i].tid = raw[i].tid
  BY <1>2, PrintedKeeps DEF LogInv
<1> QED
  BY <1>1, <1>3, PlainTold, ZenonT(60)

LEMMA HookQuiet ==
    ASSUME LogInv, LogInv', NEW t \in Tids, HookStamp(t), thread[t].alive, ~InFlight(t), Unlogged,
           thread'[t].last = clock', thread'[t].alive = thread[t].alive,
           thread'[t].cwd = thread[t].cwd,
           \A u \in Tids \ {t} : thread'[u] = thread[u]
    PROVE  Quietly
<1>1. /\ raw' = raw /\ Returned' = Returned
      /\ \A u \in Tids : InFlight(u)' <=> InFlight(u)
      /\ \A u \in Tids : \A s, d : Entered(u, s, d)' <=> Entered(u, s, d)
  BY DEF Unlogged
<1>2. Live' = Live
  BY DEF Live
<1>3. \A u \in Tids : Unborn(u)' => Unborn(u)
  BY <1>1, <1>2 DEF Unborn
<1>4. clock' \in Nat /\ thread[t].last <= clock' /\ \A u \in Tids : thread[u].last \in Nat
  BY HookStampIs, LastTyped DEF Clocked
<1>5. /\ \A u \in Tids : thread[u].last <= thread'[u].last
      /\ \A u \in Tids : InFlight(u)' => InFlight(u) /\ thread'[u].last = thread[u].last
      /\ \A u \in Tids : thread'[u].cwd = thread[u].cwd
  BY <1>1, <1>4
<1> QED
  BY <1>1, <1>2, <1>3, <1>5 DEF Quietly

LEMMA HookParents ==
    ASSUME LogInv, Parented, NEW t \in Tids, HookStamp(t), thread[t].alive,
           NEW r \in Begins \union Ends, records' = Append(records, r), r.tid = t, r.ts = clock'
    PROVE  \A i \in DOMAIN records' :
              \/ i \in DOMAIN records /\ records'[i] = records[i]
              \/ /\ records'[i].tid \in Live
                 /\ \A u \in Tids, s \in Nat : Cloned(u, s, records'[i].tid) => s < records'[i].ts
<1> DEFINE next == Len(records) + 1
<1>1. /\ \A i : i \in DOMAIN records' <=> i \in DOMAIN records \/ i = next
      /\ \A i \in DOMAIN records : records'[i] = records[i] /\ i # next
      /\ records'[next] = r
  BY RecordsGrow
<1> HIDE DEF next
<1>2. /\ clock' \in Nat /\ thread[t].last <= clock' /\ thread[t].last \in Nat
      /\ \A u \in Tids, s \in Nat : \A c \in SysCalls :
            Entered(u, s, c) /\ Clones(c, t) => s # clock'
  BY HookStampIs, LastTyped DEF Clocked
<1>3. ASSUME NEW u \in Tids, NEW s \in Nat, Cloned(u, s, t) PROVE s < clock'
  <2>1. s <= thread[t].last
    BY <1>3 DEF Parented
  <2>2. s # clock'
    BY <1>2, <1>3 DEF Cloned
  <2> QED
    BY <1>2, <2>1, <2>2
<1>4. t \in Live
  BY DEF Live
<1> QED
  BY <1>1, <1>3, <1>4

LEMMA BeginTold ==
    ASSUME LogInv, LogInv', Told, NEW t \in Tids, Begin(t)
    PROVE  Told'
<1> DEFINE next == Len(records) + 1
           B(b) == [k |-> "b", id |-> next, ts |-> clock', tid |-> t,
                    builtin |-> b.name, path |-> b.path]
<1>1. PICK b \in Builtins :
           /\ thread[t].alive /\ ~InFlight(t)
           /\ HookStamp(t) /\ B(b) \in Begins /\ did' = did
           /\ records' = Append(records, B(b))
           /\ thread'[t].last = clock' /\ thread'[t].spans = Append(thread[t].spans, next)
           /\ thread'[t].alive = thread[t].alive /\ thread'[t].cwd = thread[t].cwd
           /\ thread'[t].program = thread[t].program
           /\ \A u \in Tids \ {t} : thread'[u] = thread[u]
           /\ Unlogged
  BY BeginStep
<1> DEFINE r == B(b)
<1>2. r.k = "b" /\ r.tid = t /\ r.ts = clock' /\ r \in Begins \union Ends /\ records' = Append(records, r)
  BY <1>1
<1> HIDE DEF r, B
<1>3. /\ \A i : i \in DOMAIN records' <=> i \in DOMAIN records \/ i = next
      /\ \A i \in DOMAIN records : records'[i] = records[i] /\ i # next
      /\ records'[next] = r
      /\ \A x \in DOMAIN records : IsGit(x)' <=> IsGit(x)
      /\ \A x, j : j \in EndsOf(x)' <=> j \in EndsOf(x) \/ (j = next /\ r.k = "e" /\ r.id = x)
  BY <1>2, RecordsGrow
<1>4. thread[t].spans \in Seq(Nat) /\ next \in Nat
  BY ThreadTyped, LenProperties DEF LogInv, Typed
<1> HIDE DEF next
<1>5. Quietly
  BY <1>1, HookQuiet
<1>6. \A i \in DOMAIN records' :
         \/ i \in DOMAIN records /\ records'[i] = records[i]
         \/ /\ records'[i].tid \in Live
            /\ \A u \in Tids, s \in Nat : Cloned(u, s, records'[i].tid) => s < records'[i].ts
  BY <1>1, <1>2, HookParents DEF Told
<1>7. \A y \in Returned : InSpan(y.tid, y.ts)' <=> InSpan(y.tid, y.ts)
  BY <1>1, <1>2, PushedSpans
<1>8. \A i \in DOMAIN records : records[i].k = "e" => records[i].id \in DOMAIN records
  BY DEF LogInv, Spanned, Paired
<1>9. \A j \in DOMAIN records : AddEnds(j)' <=> AddEnds(j)
  BY <1>3, <1>8 DEF AddEnds
<1>10. \A j : j = next => ~AddEnds(j)'
  <2>1. \A j : j = next => records'[j].k = "b"
    BY <1>2, <1>3
  <2>2. "b" # "e"
    OBVIOUS
  <2> QED
    BY <2>1, <2>2 DEF AddEnds
<1>11. \A d : EndDid(d)' <=> EndDid(d)
  <2> TAKE d
  <2>1. ASSUME EndDid(d) PROVE EndDid(d)'
    <3>1. PICK j \in DOMAIN records : /\ AddEnds(j)
            /\ d = Doing(Event("Stage", records[records[j].id].path), records[j].tid, "record")
      BY <2>1 DEF EndDid
    <3>2. AddEnds(j)' /\ j \in DOMAIN records' /\ records'[j] = records[j]
          /\ records'[records[j].id] = records[records[j].id]
      BY <1>3, <1>8, <1>9, <3>1 DEF AddEnds
    <3> QED
      BY <3>1, <3>2 DEF EndDid, Doing, Event
  <2>2. ASSUME EndDid(d)' PROVE EndDid(d)
    <3>1. PICK j \in DOMAIN records' : /\ AddEnds(j)'
            /\ d = Doing(Event("Stage", records'[records'[j].id].path), records'[j].tid, "record")
      BY <2>2 DEF EndDid, Doing, Event
    <3>2. j \in DOMAIN records /\ AddEnds(j)
      BY <1>3, <1>9, <1>10, <3>1
    <3>3. records'[j] = records[j] /\ records'[records[j].id] = records[records[j].id]
      BY <1>3, <1>8, <3>2 DEF AddEnds
    <3> QED
      BY <3>1, <3>2, <3>3 DEF EndDid
  <2> QED
    BY <2>1, <2>2
<1>12. ASSUME Sound' PROVE Sound
  <2>1. /\ \A u \in Tids : thread'[u].program # "git"
        /\ \A x \in DOMAIN records' : IsGit(x)' /\ EndsOf(x)' = {} =>
              \E n \in DOMAIN thread'[records'[x].tid].spans :
                 thread'[records'[x].tid].spans[n] = x
    BY <1>12 DEF Sound
  <2>2. \A u \in Tids : thread[u].program # "git"
    BY <1>1, <2>1
  <2>3. ASSUME NEW x \in DOMAIN records, IsGit(x), EndsOf(x) = {}
        PROVE  \E n \in DOMAIN thread[records[x].tid].spans : thread[records[x].tid].spans[n] = x
    <3> DEFINE u == records[x].tid
    <3>1. EndsOf(x)' = {} /\ IsGit(x)' /\ x \in DOMAIN records' /\ records'[x] = records[x]
          /\ x # next
      BY <1>2, <1>3, <2>3
    <3>2. PICK n \in DOMAIN thread'[u].spans : thread'[u].spans[n] = x
      BY <2>1, <3>1
    <3>3. u \in Tids
      BY LastTyped DEF Clocked
    <3>4. CASE u = t
      <4>1. /\ DOMAIN thread'[t].spans = 1..(Len(thread[t].spans) + 1)
            /\ \A m \in 1..Len(thread[t].spans) : thread'[t].spans[m] = thread[t].spans[m]
            /\ thread'[t].spans[Len(thread[t].spans) + 1] = next
            /\ DOMAIN thread[t].spans = 1..Len(thread[t].spans) /\ Len(thread[t].spans) \in Nat
        BY <1>1, <1>4, AppendProperties, LenProperties
      <4>2. n \in 1..Len(thread[t].spans)
        BY <3>1, <3>2, <3>4, <4>1
      <4>3. n \in DOMAIN thread[u].spans /\ thread[u].spans[n] = x
        BY <3>2, <3>4, <4>1, <4>2
      <4> QED
        BY <4>3
    <3>5. CASE u # t
      BY <1>1, <3>2, <3>3, <3>5
    <3> QED
      BY <3>4, <3>5
  <2> QED
    BY <2>2, <2>3 DEF Sound
<1> QED
  BY <1>1, <1>5, <1>6, <1>7, <1>11, <1>12, StillTold

\* A sequence is one over what it ranges over, and over more.
LEMMA SeqWider ==
    ASSUME NEW s, s \in Seq(Range(s)), NEW S, Range(s) \subseteq S
    PROVE  s \in Seq(S)
<1>1. s = [i \in 1..Len(s) |-> s[i]] /\ DOMAIN s = 1..Len(s) /\ Len(s) \in Nat
  BY LenProperties
<1>2. \A i \in 1..Len(s) : s[i] \in S
  BY <1>1 DEF Range
<1> DEFINE n == Len(s)
<1>3. s \in [1..n -> S] /\ n \in Nat
  BY <1>1, <1>2
<1> HIDE DEF n
<1> QED
  BY <1>3

LEMMA AppendWider ==
    ASSUME NEW s, s \in Seq(Range(s)), NEW x
    PROVE  /\ Range(Append(s, x)) = Range(s) \union {x}
           /\ Append(s, x) \in Seq(Range(Append(s, x)))
<1> DEFINE S == Range(s) \union {x}
<1>1. s \in Seq(S) /\ x \in S
  BY SeqWider
<1> HIDE DEF S
<1>2. Range(Append(s, x)) = Range(s) \union {x}
  BY <1>1, AppendRange
<1>3. Append(s, x) \in Seq(S)
  BY <1>1, AppendProperties
<1> QED
  BY <1>2, <1>3 DEF S

\* An end edge closes its own span only.
LEMMA EndSound ==
    ASSUME LogInv, NEW t \in Tids, NEW E \in Ends, thread[t].spans # <<>>,
           E.id = thread[t].spans[Len(thread[t].spans)],
           records' = Append(records, E), thread'[t].spans = Front(thread[t].spans),
           thread'[t].program = thread[t].program,
           \A u \in Tids \ {t} : thread'[u] = thread[u]
    PROVE  Sound' => Sound
<1> DEFINE next == Len(records) + 1
           b == E.id
<1>1. E \in Begins \union Ends
  OBVIOUS
<1>2. /\ \A i : i \in DOMAIN records' <=> i \in DOMAIN records \/ i = next
      /\ \A i \in DOMAIN records : records'[i] = records[i] /\ i # next
      /\ \A x \in DOMAIN records : IsGit(x)' <=> IsGit(x)
      /\ \A x, j : j \in EndsOf(x)' <=> j \in EndsOf(x) \/ (j = next /\ E.k = "e" /\ E.id = x)
  BY <1>1, RecordsGrow
<1> HIDE DEF next
<1>3. thread[t].spans \in Seq(Nat)
  BY ThreadTyped DEF LogInv
<1>4. /\ Len(thread[t].spans) \in DOMAIN thread[t].spans
      /\ DOMAIN thread[t].spans = 1..Len(thread[t].spans) /\ Len(thread[t].spans) \in Nat
  BY <1>3, EmptySeq, LenProperties
<1>5. b \in DOMAIN records /\ records[b].tid = t
  BY <1>4 DEF LogInv, Spanned, Nested
<1>6. /\ DOMAIN thread'[t].spans = 1..(Len(thread[t].spans) - 1)
      /\ \A n \in 1..(Len(thread[t].spans) - 1) : thread'[t].spans[n] = thread[t].spans[n]
  <2>1. /\ \A i \in 1..(Len(thread[t].spans) - 1) : Front(thread[t].spans)[i] = thread[t].spans[i]
        /\ DOMAIN Front(thread[t].spans) = 1..(Len(thread[t].spans) - 1)
    BY <1>3, FrontIs
  <2> QED
    BY <2>1
<1>7. ASSUME Sound' PROVE Sound
  <2>1. /\ \A u \in Tids : thread'[u].program # "git"
        /\ \A x \in DOMAIN records' : IsGit(x)' /\ EndsOf(x)' = {} =>
              \E n \in DOMAIN thread'[records'[x].tid].spans :
                 thread'[records'[x].tid].spans[n] = x
    BY <1>7 DEF Sound
  <2>2. \A u \in Tids : thread[u].program # "git"
    BY <2>1
  <2>3. ASSUME NEW x \in DOMAIN records, IsGit(x), EndsOf(x) = {}
        PROVE  \E n \in DOMAIN thread[records[x].tid].spans : thread[records[x].tid].spans[n] = x
    <3> DEFINE u == records[x].tid
    <3>1. CASE x = b
      BY <1>4, <1>5, <3>1
    <3>2. CASE x # b
      <4>1. EndsOf(x)' = {} /\ IsGit(x)' /\ x \in DOMAIN records' /\ records'[x] = records[x]
        BY <1>2, <2>3, <3>2
      <4>2. PICK n \in DOMAIN thread'[u].spans : thread'[u].spans[n] = x
        BY <2>1, <4>1
      <4>3. u \in Tids
        BY LastTyped DEF Clocked
      <4>4. CASE u = t
        <5>1. n \in 1..(Len(thread[t].spans) - 1)
          BY <1>6, <4>2, <4>4
        <5>2. n \in DOMAIN thread[t].spans
          BY <1>4, <5>1
        <5>3. thread[t].spans[n] = x
          BY <1>6, <4>2, <4>4, <5>1
        <5> QED
          BY <4>4, <5>2, <5>3
      <4>5. CASE u # t
        BY <4>2, <4>3, <4>5
      <4> QED
        BY <4>4, <4>5
    <3> QED
      BY <3>1, <3>2
  <2> QED
    BY <2>2, <2>3 DEF Sound
<1> QED
  BY <1>7

LEMMA EndDeeds ==
    ASSUME LogInv, NEW E \in Ends, E.id \in DOMAIN records, E.k = "e",
           records' = Append(records, E), NEW d
    PROVE  EndDid(d)' <=> EndDid(d)
              \/ /\ records[E.id].builtin = "git add" /\ E.exit = 0
                 /\ d = Doing(Event("Stage", records[E.id].path), E.tid, "record")
<1> DEFINE next == Len(records) + 1
           b == E.id
           New == /\ records[b].builtin = "git add" /\ E.exit = 0
                  /\ d = Doing(Event("Stage", records[b].path), E.tid, "record")
<1>1. E \in Begins \union Ends
  OBVIOUS
<1>2. /\ \A i : i \in DOMAIN records' <=> i \in DOMAIN records \/ i = next
      /\ \A i \in DOMAIN records : records'[i] = records[i] /\ i # next
      /\ records'[next] = E
  BY <1>1, RecordsGrow
<1> HIDE DEF next
<1>3. \A i \in DOMAIN records : records[i].k = "e" => records[i].id \in DOMAIN records
  BY DEF LogInv, Spanned, Paired
<1>4. \A j \in DOMAIN records : AddEnds(j)' <=> AddEnds(j)
  BY <1>2, <1>3, ZenonT(60) DEF AddEnds
<1>5. \A j : j = next => (AddEnds(j)' <=> E.exit = 0 /\ records[b].builtin = "git add")
  BY <1>2 DEF AddEnds
<1>6. ASSUME EndDid(d) PROVE EndDid(d)'
  <2>1. PICK j \in DOMAIN records : /\ AddEnds(j)
          /\ d = Doing(Event("Stage", records[records[j].id].path), records[j].tid, "record")
    BY <1>6 DEF EndDid
  <2>2. AddEnds(j)' /\ j \in DOMAIN records' /\ records'[j] = records[j]
        /\ records'[records[j].id] = records[records[j].id]
    BY <1>2, <1>3, <1>4, <2>1 DEF AddEnds
  <2> QED
    BY <2>1, <2>2 DEF EndDid, Doing, Event
<1>7. ASSUME New PROVE EndDid(d)'
  <2>1. \A j : j = next => AddEnds(j)' /\ j \in DOMAIN records'
                          /\ records'[j] = E /\ records'[b] = records[b]
    BY <1>2, <1>5, <1>7
  <2>2. PICK j : j = next
    OBVIOUS
  <2>3. d = Doing(Event("Stage", records'[records'[j].id].path), records'[j].tid, "record")
    BY <1>7, <2>1, <2>2
  <2> QED
    BY <2>1, <2>2, <2>3 DEF EndDid, Doing, Event
<1>8. ASSUME EndDid(d)' PROVE EndDid(d) \/ New
  <2>1. PICK j \in DOMAIN records' : /\ AddEnds(j)'
          /\ d = Doing(Event("Stage", records'[records'[j].id].path), records'[j].tid, "record")
    BY <1>8 DEF EndDid, Doing, Event
  <2>2. CASE j \in DOMAIN records
    <3>1. AddEnds(j) /\ records'[j] = records[j]
          /\ records'[records[j].id] = records[records[j].id]
      BY <1>2, <1>3, <1>4, <2>1, <2>2 DEF AddEnds
    <3> QED
      BY <2>1, <2>2, <3>1 DEF EndDid
  <2>3. CASE j = next
    <3>1. records'[j] = E /\ records'[b] = records[b]
      BY <1>2, <2>3
    <3>2. E.exit = 0 /\ records[b].builtin = "git add"
      BY <1>5, <2>1, <2>3
    <3> QED
      BY <2>1, <3>1, <3>2
  <2> QED
    BY <1>2, <2>1, <2>2, <2>3
<1> QED
  BY <1>6, <1>7, <1>8

LEMMA EndTold ==
    ASSUME LogInv, LogInv', Told, NEW t \in Tids, End(t)
    PROVE  Told'
<1> DEFINE b == Last(thread[t].spans)
           E(exit) == [k |-> "e", id |-> b, ts |-> clock', tid |-> t, exit |-> exit]
           S == Doing(Event("Stage", records[b].path), t, "record")
<1>1. PICK exit \in {0, 1} :
           /\ thread[t].alive /\ ~InFlight(t) /\ thread[t].spans # <<>>
           /\ HookStamp(t) /\ E(exit) \in Ends
           /\ b \in DOMAIN records /\ b = thread[t].spans[Len(thread[t].spans)]
           /\ did' = IF records[b].builtin = "git add" /\ exit = 0 THEN Append(did, S) ELSE did
           /\ records' = Append(records, E(exit))
           /\ thread'[t].last = clock' /\ thread'[t].spans = Front(thread[t].spans)
           /\ thread'[t].alive = thread[t].alive /\ thread'[t].cwd = thread[t].cwd
           /\ thread'[t].program = thread[t].program
           /\ \A u \in Tids \ {t} : thread'[u] = thread[u]
           /\ Unlogged
  BY EndStep DEF Doing
<1> DEFINE r == E(exit)
<1>2. /\ r.k = "e" /\ r.tid = t /\ r.ts = clock' /\ r.id = b /\ r.exit = exit
      /\ r \in Ends /\ r \in Begins \union Ends /\ records' = Append(records, r)
  BY <1>1
<1> HIDE DEF r, E
<1>3. Quietly
  BY <1>1, HookQuiet
<1>4. Parented /\ did \in Seq(Range(did))
  BY DEF Told
<1>5. PICK W \in Homes : CwdOk(W) /\ DidOk(W)
  BY DEF Told
<1>6. Parented'
  <2>1. \A i \in DOMAIN records' :
           \/ i \in DOMAIN records /\ records'[i] = records[i]
           \/ /\ records'[i].tid \in Live
              /\ \A u \in Tids, s \in Nat : Cloned(u, s, records'[i].tid) => s < records'[i].ts
    BY <1>1, <1>2, <1>4, HookParents
  <2> QED
    BY <1>3, <1>4, <2>1, QuietParents
<1>7. CwdOk(W)'
  BY <1>3, <1>5, QuietHomes
<1>8. records[b].tid = t
  BY <1>1, InGitIs DEF LogInv
<1>9. \A y \in Returned : InSpan(y.tid, y.ts)' <=> InSpan(y.tid, y.ts)
  BY <1>1, <1>2, <1>8, PushedSpans
<1>10. \A d : CallDid(W, d)' <=> CallDid(W, d)
  <2>1. Returned \subseteq Returned' /\ \A x \in Returned' : x \in Returned \/ ~Works(x.call)
    BY <1>3 DEF Quietly
  <2> QED
    BY <1>9, <2>1, CallsMove
<1> DEFINE adds == records[b].builtin = "git add" /\ exit = 0
<1>11. \A d : EndDid(d)' <=> EndDid(d) \/ (adds /\ d = S)
  BY <1>1, <1>2, EndDeeds, ZenonT(60)
<1>12. Sound' => Sound
  BY <1>1, <1>2, EndSound, ZenonT(60)
<1>13. /\ did' \in Seq(Range(did'))
       /\ Range(did') = Range(did) \union (IF adds THEN {S} ELSE {})
  <2>1. CASE adds
    BY <1>1, <1>4, <2>1, AppendWider
  <2>2. CASE ~adds
    BY <1>1, <1>4, <2>2
  <2> QED
    BY <2>1, <2>2
<1> HIDE DEF S, adds
<1>14. ASSUME Sound' PROVE \A d : d \in Range(did') <=> CallDid(W, d)' \/ EndDid(d)'
  <2>1. \A d : d \in Range(did) <=> CallDid(W, d) \/ EndDid(d)
    BY <1>5, <1>12, <1>14 DEF DidOk
  <2>2. \A d : d \in Range(did') <=> d \in Range(did) \/ (adds /\ d = S)
    BY <1>13
  <2> QED
    BY <1>10, <1>11, <2>1, <2>2
<1>15. DidOk(W)'
  BY <1>14 DEF DidOk
<1> QED
  BY <1>6, <1>7, <1>13, <1>15 DEF Told, Homes

\* Thread t clones another: what the step of EnterClone leaves.
Forks(t, call) ==
    /\ thread[t].alive /\ ~InFlight(t) /\ thread[t].last < clock' /\ clock' \in Nat
    /\ UNCHANGED <<records, did>>
    /\ call \in SysCalls /\ call.name = "clone" /\ Heard(call, thread[t].cwd)
    /\ call.child \in Tids \ {Root, t} /\ Unborn(call.child)
    /\ \A i \in DOMAIN raw : i \in DOMAIN raw' /\ raw'[i].tid = raw[i].tid
    /\ thread'[t].last = clock' /\ thread'[t].alive /\ thread'[t].cwd = thread[t].cwd
    /\ thread'[t].program = thread[t].program /\ thread'[t].spans = thread[t].spans
    /\ thread'[call.child].call = NoCall /\ thread'[call.child].last = clock'
    /\ thread'[call.child].alive /\ thread'[call.child].cwd = thread[t].cwd
    /\ thread'[call.child].program = thread[t].program /\ thread'[call.child].spans = <<>>
    /\ \A u \in Tids \ {t, call.child} : thread'[u] = thread[u]
    /\ Returned' = Returned
    /\ \A u \in Tids : InFlight(u)' <=> InFlight(u) \/ u = t
    /\ \A u \in Tids : \A s, d : Entered(u, s, d)' <=>
          Entered(u, s, d) \/ (u = t /\ s = clock' /\ d = call)

\* What is not born has entered no call.
LEMMA UnbornIdle ==
    ASSUME LogInv, NEW t \in Tids, Unborn(t)
    PROVE  /\ \A s \in Nat, c \in SysCalls \union ExitCalls : ~Entered(t, s, c)
           /\ \A x \in Returned : x.tid # t
<1>1. \A s \in Nat, c \in SysCalls \union ExitCalls : ~Entered(t, s, c)
  BY DEF LogInv, Logged, Unborn
<1>2. \A x \in Returned : x.tid # t
  BY <1>1, ReturnedTyped DEF LogInv
<1> QED
  BY <1>1, <1>2

LEMMA ForkClones ==
    ASSUME LogInv, NEW t \in Tids, NEW call, Forks(t, call)
    PROVE  \A u \in Tids, x \in Tids, s \in Nat :
              Cloned(u, s, x)' <=> Cloned(u, s, x) \/ (u = t /\ s = clock' /\ x = call.child)
<1> SUFFICES ASSUME NEW u \in Tids, NEW x \in Tids, NEW s \in Nat
             PROVE  Cloned(u, s, x)' <=> Cloned(u, s, x) \/ (u = t /\ s = clock' /\ x = call.child)
  OBVIOUS
<1>1. /\ call \in SysCalls /\ call.name = "clone"
      /\ \A d : Entered(u, s, d)' <=> Entered(u, s, d) \/ (u = t /\ s = clock' /\ d = call)
  BY DEF Forks
<1> QED
  BY <1>1 DEF Cloned, Clones

LEMMA ForkParents ==
    ASSUME LogInv, LogInv', Parented, NEW t \in Tids, NEW call, Forks(t, call)
    PROVE  Parented'
<1> DEFINE child == call.child
<1>1. \A u \in Tids, x \in Tids, s \in Nat :
         Cloned(u, s, x)' <=> Cloned(u, s, x) \/ (u = t /\ s = clock' /\ x = child)
  BY ForkClones
<1>2. /\ thread[t].alive /\ ~InFlight(t) /\ thread[t].last < clock' /\ clock' \in Nat
      /\ records' = records
      /\ child \in Tids \ {Root, t} /\ Unborn(child)
      /\ \A i \in DOMAIN raw : i \in DOMAIN raw' /\ raw'[i].tid = raw[i].tid
      /\ thread'[t].last = clock' /\ thread'[t].alive
      /\ thread'[child].call = NoCall /\ thread'[child].last = clock' /\ thread'[child].alive
      /\ \A u \in Tids \ {t, child} : thread'[u] = thread[u]
      /\ Returned' = Returned
      /\ \A u \in Tids : InFlight(u)' <=> InFlight(u) \/ u = t
  BY DEF Forks
<1> HIDE DEF child
<1>3. \A u \in Tids : thread[u].last \in Nat
  BY LastTyped DEF Clocked
<1>4. /\ \A i \in DOMAIN records : records[i].tid # child
      /\ \A u \in Tids, s \in Nat : ~Cloned(u, s, child)
      /\ \A x \in Returned : x.tid # child
  BY <1>2, UnbornIdle DEF Parented
<1>5. t \in Live /\ t \in Live' /\ child \in Live' /\ ~InFlight(child)'
  BY <1>2 DEF Live, InFlight
<1>6. \A u \in Tids : u \in Live' <=> u \in Live \/ u = child
  BY <1>2, <1>5 DEF Live
<1>7. ASSUME NEW x \in Tids, Unborn(x)'
      PROVE  /\ \A i \in DOMAIN records' : records'[i].tid # x
             /\ \A u \in Tids, s \in Nat : ~Cloned(u, s, x)'
  <2>1. Unborn(x) /\ x # child
    BY <1>2, <1>5, <1>6, <1>7 DEF Unborn
  <2>2. /\ \A i \in DOMAIN records : records[i].tid # x
        /\ \A u \in Tids, s \in Nat : ~Cloned(u, s, x)
    BY <2>1 DEF Parented
  <2> QED
    BY <1>1, <1>2, <2>1, <2>2
<1>8. ASSUME NEW u \in Tids, NEW x \in Tids, NEW s \in Nat, Cloned(u, s, x)'
      PROVE  /\ x # Root /\ s <= thread'[x].last /\ (InFlight(x)' => s < thread'[x].last)
             /\ \A y \in Returned' : y.tid = x => s < y.ts
             /\ \A i \in DOMAIN records' : records'[i].tid = x => s < records'[i].ts
  <2>1. CASE Cloned(u, s, x)
    <3>1. /\ x # Root /\ s <= thread[x].last /\ (InFlight(x) => s < thread[x].last)
          /\ \A y \in Returned : y.tid = x => s < y.ts
          /\ \A i \in DOMAIN records : records[i].tid = x => s < records[i].ts
      BY <2>1 DEF Parented
    <3>2. x # child
      BY <1>4, <2>1
    <3>3. s <= thread'[x].last /\ (InFlight(x)' => s < thread'[x].last)
      BY <1>2, <1>3, <3>1, <3>2
    <3> QED
      BY <1>2, <3>1, <3>3
  <2>2. CASE s = clock' /\ x = child
    BY <1>2, <1>4, <1>5, <2>2
  <2> QED
    BY <1>1, <1>8, <2>1, <2>2
<1>9. ASSUME NEW x \in Tids \ {Root}, x \in Live' \/ (\E y \in Returned' : y.tid = x)
      PROVE  \E u \in Tids, s \in Nat : Cloned(u, s, x)'
  <2>1. CASE x = child
    BY <1>1, <1>2, <2>1
  <2>2. CASE x # child
    <3>1. x \in Live \/ (\E y \in Returned : y.tid = x)
      BY <1>2, <1>6, <1>9, <2>2
    <3>2. \E u \in Tids, s \in Nat : Cloned(u, s, x)
      BY <3>1 DEF Parented
    <3> QED
      BY <1>1, <3>2
  <2> QED
    BY <2>1, <2>2
<1> QED
  BY <1>7, <1>8, <1>9 DEF Parented

LEMMA ForkHomes ==
    ASSUME LogInv, LogInv', Parented, NEW t \in Tids, NEW call, Forks(t, call),
           NEW W \in Homes, CwdOk(W), NEW V \in Homes,
           \A u \in Tids \ {call.child} : V[u] = W[u],
           \A s \in Nat : V[call.child][s] = thread[t].cwd
    PROVE  CwdOk(V)'
<1> DEFINE child == call.child
<1>1. \A u \in Tids, x \in Tids, s \in Nat :
         Cloned(u, s, x)' <=> Cloned(u, s, x) \/ (u = t /\ s = clock' /\ x = child)
  BY ForkClones
<1>2. /\ thread[t].alive /\ ~InFlight(t) /\ thread[t].last < clock' /\ clock' \in Nat
      /\ child \in Tids \ {Root, t} /\ Unborn(child)
      /\ thread'[t].last = clock' /\ thread'[t].cwd = thread[t].cwd
      /\ thread'[child].call = NoCall /\ thread'[child].last = clock' /\ thread'[child].alive
      /\ thread'[child].cwd = thread[t].cwd
      /\ \A u \in Tids \ {t, child} : thread'[u] = thread[u]
      /\ Returned' = Returned /\ Heard(call, thread[t].cwd)
      /\ \A u \in Tids : InFlight(u)' <=> InFlight(u) \/ u = t
      /\ \A u \in Tids : \A s, d : Entered(u, s, d)' <=>
            Entered(u, s, d) \/ (u = t /\ s = clock' /\ d = call)
  BY DEF Forks
<1>3. /\ \A u \in Tids \ {child} : V[u] = W[u]
      /\ \A s \in Nat : V[child][s] = thread[t].cwd
  OBVIOUS
<1> HIDE DEF child
<1>4. /\ \A u \in Tids : thread[u].last \in Nat
      /\ \A y \in Returned : y.tid \in Tids /\ y.ts \in Nat
  BY LastTyped DEF Clocked
<1>5. /\ \A u \in Tids, s \in Nat : ~Cloned(u, s, child)
      /\ \A x \in Returned : x.tid # child
      /\ \A s \in Nat, c \in SysCalls : ~Entered(child, s, c)
      /\ \A x \in Tids, s \in Nat : ~Cloned(child, s, x)
  BY <1>2, UnbornIdle DEF Parented, Cloned
<1>6. /\ W[Root][0] = "root"
      /\ \A u \in Tids, s \in Nat :
            (\A z \in Returned : z.tid = u => s <= z.ts) => W[u][s] = W[u][0]
      /\ \A y \in Returned, s \in Nat :
            y.ts < s /\ (\A z \in Returned : z.tid = y.tid /\ y.ts < z.ts => s <= z.ts)
               => W[y.tid][s] = After(y.call, W[y.tid][y.ts])
      /\ \A u \in Tids, x \in Tids, s \in Nat : Cloned(u, s, x) => W[u][s] = W[x][0]
      /\ \A u \in Tids, s \in Nat :
            u \in Live /\ (thread[u].last < s \/ (InFlight(u) /\ s = thread[u].last))
               => W[u][s] = thread[u].cwd
      /\ \A u \in Tids, s \in Nat, c \in SysCalls : Entered(u, s, c) => Heard(c, W[u][s])
  BY DEF CwdOk
<1>7. V[Root][0] = "root"
  BY <1>2, <1>3, <1>6, RootIsAThread
<1>8. \A u \in Tids, s \in Nat :
         (\A z \in Returned' : z.tid = u => s <= z.ts) => V[u][s] = V[u][0]
  BY <1>2, <1>3, <1>6
<1>9. \A y \in Returned', s \in Nat :
         y.ts < s /\ (\A z \in Returned' : z.tid = y.tid /\ y.ts < z.ts => s <= z.ts)
            => V[y.tid][s] = After(y.call, V[y.tid][y.ts])
  BY <1>2, <1>3, <1>4, <1>5, <1>6
<1>10. \A s \in Nat : clock' <= s => V[t][s] = thread[t].cwd
  BY <1>2, <1>3, <1>4, <1>6 DEF Live
<1>11. ASSUME NEW u \in Tids, NEW x \in Tids, NEW s \in Nat, Cloned(u, s, x)'
       PROVE  V[u][s] = V[x][0]
  <2>1. CASE Cloned(u, s, x)
    <3>1. u # child /\ x # child
      BY <1>5, <2>1
    <3> QED
      BY <1>3, <1>6, <2>1, <3>1
  <2>2. CASE u = t /\ s = clock' /\ x = child
    BY <1>2, <1>3, <1>10, <2>2
  <2> QED
    BY <1>1, <1>11, <2>1, <2>2
<1>12. ASSUME NEW u \in Tids, NEW s \in Nat, u \in Live',
              thread'[u].last < s \/ (InFlight(u)' /\ s = thread'[u].last)
       PROVE  V[u][s] = thread'[u].cwd
  <2>1. CASE u = child
    BY <1>2, <1>3, <2>1
  <2>2. CASE u = t
    BY <1>2, <1>10, <1>12, <2>2
  <2>3. CASE u # child /\ u # t
    <3>1. u \in Live /\ (InFlight(u)' <=> InFlight(u))
      BY <1>2, <1>12, <2>3 DEF Live
    <3> QED
      BY <1>2, <1>3, <1>6, <1>12, <2>3, <3>1
  <2> QED
    BY <2>1, <2>2, <2>3
<1>13. ASSUME NEW u \in Tids, NEW s \in Nat, NEW c \in SysCalls, Entered(u, s, c)'
       PROVE  Heard(c, V[u][s])
  <2>1. CASE Entered(u, s, c)
    BY <1>3, <1>5, <1>6, <2>1
  <2>2. CASE u = t /\ s = clock' /\ c = call
    BY <1>2, <1>10, <2>2
  <2> QED
    BY <1>2, <1>13, <2>1, <2>2
<1> QED
  BY <1>7, <1>8, <1>9, <1>11, <1>12, <1>13 DEF CwdOk, Heard, After, Goes, Works

LEMMA ForkSound ==
    ASSUME LogInv, NEW t \in Tids, NEW call, Forks(t, call)
    PROVE  Sound' => Sound
<1> DEFINE child == call.child
<1>1. /\ records' = records
      /\ child \in Tids \ {Root, t} /\ Unborn(child)
      /\ thread'[t].program = thread[t].program /\ thread'[t].spans = thread[t].spans
      /\ thread'[child].spans = <<>>
      /\ \A u \in Tids \ {t, child} : thread'[u] = thread[u]
  BY DEF Forks
<1> HIDE DEF child
<1>2. thread[child].spans = <<>>
  BY <1>1 DEF LogInv, Bounded, Unborn
<1>3. \A u \in Tids : thread'[u].spans = thread[u].spans
  BY <1>1, <1>2
<1>4. /\ \A b : IsGit(b)' <=> IsGit(b)
      /\ \A b : EndsOf(b)' = EndsOf(b)
  BY <1>1, RecordsStay
<1>5. ASSUME Sound' PROVE Sound
  <2>1. /\ \A u \in Tids : thread'[u].program # "git"
        /\ \A b \in DOMAIN records' : IsGit(b)' /\ EndsOf(b)' = {} =>
              \E n \in DOMAIN thread'[records'[b].tid].spans :
                 thread'[records'[b].tid].spans[n] = b
    BY <1>5 DEF Sound
  <2>2. \A u \in Tids \ {child} : thread[u].program # "git"
    BY <1>1, <2>1
  <2>3. thread[child].program # "git"
    <3>1. SUFFICES ASSUME thread[child].program = "git" PROVE FALSE
      OBVIOUS
    <3>2. PICK x \in Returned : x.call.name = "execve" /\ x.call.ret = "ok" /\ x.call.git
      BY <1>1, <3>1 DEF LogInv, GitShows
    <3>3. thread[x.tid].program = "git"
      BY <3>2 DEF LogInv, GitShows
    <3>4. x.tid \in Tids /\ x.tid # child
      BY <1>1, UnbornIdle, LastTyped DEF Clocked
    <3> QED
      BY <2>2, <3>3, <3>4
  <2>4. \A b \in DOMAIN records : IsGit(b) /\ EndsOf(b) = {} =>
           \E n \in DOMAIN thread[records[b].tid].spans : thread[records[b].tid].spans[n] = b
    <3>1. \A b \in DOMAIN records : records[b].tid \in Tids
      BY LastTyped DEF Clocked
    <3> QED
      BY <1>1, <1>3, <1>4, <2>1, <3>1
  <2> QED
    BY <2>2, <2>3, <2>4 DEF Sound
<1> QED
  BY <1>5

LEMMA ForkTold ==
    ASSUME LogInv, LogInv', Told, NEW t \in Tids, NEW call, Forks(t, call)
    PROVE  Told'
<1>1. Parented /\ did \in Seq(Range(did))
  BY DEF Told
<1>2. PICK W \in Homes : CwdOk(W) /\ DidOk(W)
  BY DEF Told
<1> DEFINE child == call.child
<1>3. /\ child \in Tids /\ Unborn(child) /\ records' = records /\ did' = did
      /\ Returned' = Returned
  BY DEF Forks
<1>4. thread[t].cwd \in Dirs
  BY ThreadTyped DEF LogInv
<1>5. PICK V \in Homes :
           /\ \A u \in Tids \ {child} : V[u] = W[u]
           /\ \A s \in Nat : V[child][s] = thread[t].cwd
  <2> DEFINE here == [s \in Nat |-> thread[t].cwd]
             V == [W EXCEPT ![child] = here]
  <2>1. here \in [Nat -> Dirs] /\ \A s \in Nat : here[s] = thread[t].cwd
    BY <1>4
  <2> HIDE DEF here, child
  <2>2. /\ V \in Homes /\ V[child] = here
        /\ \A u \in Tids \ {child} : V[u] = W[u]
    BY <1>3, <2>1 DEF Homes
  <2> QED
    BY <2>1, <2>2
<1> HIDE DEF child
<1>6. Parented'
  BY <1>1, ForkParents
<1>7. CwdOk(V)'
  BY <1>1, <1>2, <1>5, ForkHomes DEF child
<1>8. Sound' => Sound
  BY ForkSound
<1>9. /\ \A u, s : InSpan(u, s)' <=> InSpan(u, s)
      /\ \A d : EndDid(d)' <=> EndDid(d)
  BY <1>3, RecordsStay
<1>10. \A y \in Returned : V[y.tid][y.ts] = W[y.tid][y.ts]
  <2>1. \A y \in Returned : y.tid \in Tids /\ y.tid # child
    BY <1>3, UnbornIdle, LastTyped DEF Clocked
  <2> QED
    BY <1>5, <2>1
<1>11. DidOk(V)'
  BY <1>2, <1>3, <1>8, <1>9, <1>10, DeedsMove
<1>12. did' \in Seq(Range(did'))
  BY <1>1, <1>3
<1> QED
  BY <1>5, <1>6, <1>7, <1>11, <1>12 DEF Told, Homes

LEMMA EnterTold ==
    ASSUME LogInv, LogInv', Told, NEW t \in Tids, Enter(t)
    PROVE  Told'
<1>1. PICK c \in Calls, ok \in BOOLEAN, call \in SysCalls :
              /\ thread[t].alive /\ ~InFlight(t) /\ MayCall(t, c)
              /\ Says(call, thread[t].cwd, c, ok)
              /\ clock' \in Nat /\ clock <= clock' /\ thread[t].last < clock'
              /\ UNCHANGED <<records, did, dumped, over, timedOut>>
              /\ raw' = Append(Cut(raw),
                           [tid |-> t, ts |-> clock', kind |-> "entry", call |-> call])
              /\ \/ /\ c.name # "clone"
                    /\ thread' = [thread EXCEPT ![t].call = call, ![t].last = clock']
                 \/ /\ c.name = "clone" /\ ok /\ call.child \in Tids \ {Root, t}
                    /\ ~thread[call.child].alive
                    /\ \A i \in DOMAIN raw : raw[i].tid # call.child
                    /\ thread' = [thread EXCEPT
                          ![t].call = call, ![t].last = clock',
                          ![call.child] = [Dead EXCEPT !.alive = TRUE, !.cwd = thread[t].cwd,
                                       !.program = thread[t].program, !.last = clock']]
  BY EnterStep, ZenonT(60)
<1>2. call.name = c.name
  BY <1>1 DEF Says
<1>3. CASE c.name # "clone"
  <2>1. thread' = [thread EXCEPT ![t].call = call, ![t].last = clock']
    BY <1>1, <1>3, ZenonT(60)
  <2>2. Heard(call, thread[t].cwd)
    BY <1>1, <1>3, SaysHeard, ZenonT(60)
  <2> QED
    BY <1>1, <1>2, <1>3, <2>1, <2>2, EnterPlainTold, ZenonT(60)
<1>4. CASE c.name = "clone"
  <2>1. /\ ok /\ call.child \in Tids \ {Root, t}
        /\ ~thread[call.child].alive
        /\ \A i \in DOMAIN raw : raw[i].tid # call.child
        /\ thread' = [thread EXCEPT
              ![t].call = call, ![t].last = clock',
              ![call.child] = [Dead EXCEPT !.alive = TRUE, !.cwd = thread[t].cwd,
                           !.program = thread[t].program, !.last = clock']]
    BY <1>1, <1>4, ZenonT(60)
  <2>2. Heard(call, thread[t].cwd)
    BY <1>1, <2>1, SaysHeard, ZenonT(60)
  <2>3. Unborn(call.child)
    BY <2>1 DEF Unborn, Live
  <2>4. \A i \in DOMAIN raw : i \in DOMAIN raw' /\ raw'[i].tid = raw[i].tid
    <3> DEFINE l == [tid |-> t, ts |-> clock', kind |-> "entry", call |-> call]
    <3>1. l \in TraceLines
      BY <1>1 DEF TraceLines
    <3>2. raw' = Append(Cut(raw), l)
      BY <1>1, ZenonT(60)
    <3> HIDE DEF l
    <3> QED
      BY <3>1, <3>2, PrintedKeeps DEF LogInv
  <2>5. /\ thread' \in [Tids -> ThreadStates]
        /\ thread'[t].call = call /\ thread'[t].last = clock'
        /\ thread'[t].alive = thread[t].alive /\ thread'[t].cwd = thread[t].cwd
        /\ thread'[t].program = thread[t].program /\ thread'[t].spans = thread[t].spans
        /\ thread'[call.child].call = NoCall /\ thread'[call.child].last = clock'
        /\ thread'[call.child].alive /\ thread'[call.child].cwd = thread[t].cwd
        /\ thread'[call.child].program = thread[t].program
        /\ thread'[call.child].spans = <<>>
        /\ \A u \in Tids \ {t, call.child} : thread'[u] = thread[u]
        /\ thread[call.child].call = NoCall
        /\ Returned' = Returned
        /\ \A u \in Tids : InFlight(u)' <=> InFlight(u) \/ u = t
        /\ \A u \in Tids : \A s, d : Entered(u, s, d)' <=>
              Entered(u, s, d) \/ (u = t /\ s = clock' /\ d = call)
        /\ Logged'
    BY <1>1, <2>1, EnterClone
  <2>6. Forks(t, call)
    BY <1>1, <1>2, <1>4, <2>1, <2>2, <2>3, <2>4, <2>5, ZenonT(60) DEF Forks
  <2> QED
    BY <2>6, ForkTold
<1> QED
  BY <1>3, <1>4

LEMMA ConcatWider ==
    ASSUME NEW s, s \in Seq(Range(s)), NEW r, r \in Seq(Range(r))
    PROVE  /\ Range(s \o r) = Range(s) \union Range(r)
           /\ s \o r \in Seq(Range(s \o r))
<1> DEFINE S == Range(s) \union Range(r)
           m == Len(s)
           n == Len(r)
           both == s \o r
<1>1. s \in Seq(S) /\ r \in Seq(S)
  BY SeqWider
<1>2. /\ both \in Seq(S) /\ Len(both) = m + n
      /\ \A i \in 1..(m + n) : both[i] = IF i <= m THEN s[i] ELSE r[i - m]
  <2> HIDE DEF S
  <2> QED
    BY <1>1, ConcatProperties
<1>3. /\ m \in Nat /\ n \in Nat /\ DOMAIN s = 1..m /\ DOMAIN r = 1..n
      /\ DOMAIN both = 1..(m + n)
  BY <1>1, <1>2, LenProperties
<1> HIDE DEF m, n, both
<1>4. ASSUME NEW x \in Range(both) PROVE x \in S
  <2>1. PICK i \in 1..(m + n) : x = both[i]
    BY <1>3 DEF Range
  <2>2. CASE i <= m
    <3>1. i \in DOMAIN s /\ x = s[i]
      BY <1>2, <1>3, <2>1, <2>2
    <3> QED
      BY <3>1 DEF Range
  <2>3. CASE ~(i <= m)
    <3>1. i - m \in DOMAIN r /\ x = r[i - m]
      BY <1>2, <1>3, <2>1, <2>3
    <3> QED
      BY <3>1 DEF Range
  <2> QED
    BY <2>2, <2>3
<1>5. ASSUME NEW x \in S PROVE x \in Range(both)
  <2>1. CASE x \in Range(s)
    <3>1. PICK i \in 1..m : x = s[i]
      BY <1>3, <2>1 DEF Range
    <3>2. i \in DOMAIN both /\ both[i] = x
      BY <1>2, <1>3, <3>1
    <3> QED
      BY <3>2 DEF Range
  <2>2. CASE x \in Range(r)
    <3>1. PICK i \in 1..n : x = r[i]
      BY <1>3, <2>2 DEF Range
    <3>2. m + i \in 1..(m + n) /\ ~(m + i <= m) /\ (m + i) - m = i
      BY <1>3, <3>1
    <3>3. m + i \in DOMAIN both /\ both[m + i] = x
      BY <1>2, <1>3, <3>1, <3>2
    <3> QED
      BY <3>3 DEF Range
  <2> QED
    BY <2>1, <2>2
<1>6. Range(both) = S
  BY <1>4, <1>5
<1> QED
  BY <1>2, <1>6 DEF both

\* What the kernel does for a call is what the call uses.
LEMMA RealIs ==
    ASSUME NEW t, NEW c
    PROVE  /\ \E n \in Nat : DOMAIN RealEffects(t, c) = 1..n
           /\ \A e \in Uses(c, thread[t].cwd) :
                 \E i \in DOMAIN RealEffects(t, c) : RealEffects(t, c)[i] = e
           /\ \A i \in DOMAIN RealEffects(t, c) : RealEffects(t, c)[i] \in Uses(c, thread[t].cwd)
<1> DEFINE here == Path(thread[t].cwd, c.file)
           there == Path(thread[t].cwd, c.to)
           effects == RealEffects(t, c)
<1>1. CASE c.name = "open-r"
  <2>1. effects = <<Event("Read", here)>> /\ Uses(c, thread[t].cwd) = {Event("Read", here)}
    BY <1>1 DEF RealEffects, Uses
  <2>2. DOMAIN effects = 1..1 /\ effects[1] = Event("Read", here)
    BY <2>1
  <2> QED
    BY <2>1, <2>2
<1>2. CASE c.name \in {"open-w", "unlink"}
  <2>1. effects = <<Event("Edit", here)>> /\ Uses(c, thread[t].cwd) = {Event("Edit", here)}
    BY <1>2 DEF RealEffects, Uses
  <2>2. DOMAIN effects = 1..1 /\ effects[1] = Event("Edit", here)
    BY <2>1
  <2> QED
    BY <2>1, <2>2
<1>3. CASE c.name = "rename"
  <2>1. /\ effects = <<Event("Edit", here), Event("Edit", there)>>
        /\ Uses(c, thread[t].cwd) = {Event("Edit", here), Event("Edit", there)}
    BY <1>3 DEF RealEffects, Uses
  <2>2. /\ DOMAIN effects = 1..2 /\ effects[1] = Event("Edit", here)
        /\ effects[2] = Event("Edit", there)
    BY <2>1
  <2> QED
    BY <2>1, <2>2
<1>4. CASE c.name \notin {"open-r", "open-w", "unlink", "rename"}
  <2>1. effects = <<>> /\ Uses(c, thread[t].cwd) = {}
    BY <1>4 DEF RealEffects, Uses
  <2>2. DOMAIN effects = 1..0
    BY <2>1
  <2> QED
    BY <2>1, <2>2
<1> QED
  BY <1>1, <1>2, <1>3, <1>4

LEMMA EffectsInSeq ==
    ASSUME NEW t, NEW c
    PROVE  /\ Effects(t, c) \in Seq(Range(Effects(t, c)))
           /\ \A d : d \in Range(Effects(t, c)) <=>
                 Deed(d, c, thread[t].cwd, t, IF thread[t].program = "git" THEN "git"
                                              ELSE IF InGit(t) THEN "builtin" ELSE "shell")
<1>0. /\ \E n \in Nat : DOMAIN RealEffects(t, c) = 1..n
      /\ \A e \in Uses(c, thread[t].cwd) :
            \E i \in DOMAIN RealEffects(t, c) : RealEffects(t, c)[i] = e
      /\ \A i \in DOMAIN RealEffects(t, c) : RealEffects(t, c)[i] \in Uses(c, thread[t].cwd)
  BY RealIs
<1> DEFINE effects == Effects(t, c)
           real == RealEffects(t, c)
           by == IF thread[t].program = "git" THEN "git"
                 ELSE IF InGit(t) THEN "builtin" ELSE "shell"
<1>1. effects = [i \in DOMAIN real |-> Doing(real[i], t, by)]
  BY DEF Effects, Doing
<1>2. /\ \E n \in Nat : DOMAIN real = 1..n
      /\ \A e \in Uses(c, thread[t].cwd) : \E i \in DOMAIN real : real[i] = e
      /\ \A i \in DOMAIN real : real[i] \in Uses(c, thread[t].cwd)
  BY <1>0
<1> HIDE DEF effects, real, by
<1>3. PICK n \in Nat : DOMAIN real = 1..n
  BY <1>2
<1>4. DOMAIN effects = 1..n /\ \A i \in 1..n : effects[i] = Doing(real[i], t, by)
  BY <1>1, <1>3
<1>5. effects = [i \in 1..n |-> effects[i]] /\ \A i \in 1..n : effects[i] \in Range(effects)
  BY <1>1, <1>3, <1>4 DEF Range
<1>6. effects \in Seq(Range(effects))
  <2> DEFINE S == Range(effects)
  <2>1. effects \in [1..n -> S]
    BY <1>5
  <2> HIDE DEF S
  <2>2. effects \in Seq(S)
    BY <2>1
  <2> QED
    BY <2>2 DEF S
<1>7. \A d : d \in Range(effects) <=>
         \E e \in Uses(c, thread[t].cwd) : d = Doing(e, t, by)
  <2>1. ASSUME NEW d, d \in Range(effects)
        PROVE  \E e \in Uses(c, thread[t].cwd) : d = Doing(e, t, by)
    <3>1. PICK i \in 1..n : d = effects[i]
      BY <1>4, <2>1 DEF Range
    <3> QED
      BY <1>2, <1>3, <1>4, <3>1
  <2>2. ASSUME NEW d, NEW e \in Uses(c, thread[t].cwd), d = Doing(e, t, by)
        PROVE  d \in Range(effects)
    <3>1. PICK i \in 1..n : real[i] = e
      BY <1>2, <1>3
    <3> QED
      BY <1>4, <1>5, <2>2, <3>1
  <2> QED
    BY <2>1, <2>2
<1> QED
  BY <1>6, <1>7 DEF effects, by, Deed

LEMMA EffectsAre ==
    ASSUME NEW t, NEW c, thread[t].program # "git",
           NEW by, by = IF InGit(t) THEN "builtin" ELSE "shell"
    PROVE  \A d : d \in Range(Effects(t, c)) <=> Deed(d, c, thread[t].cwd, t, by)
<1>1. by = IF thread[t].program = "git" THEN "git"
           ELSE IF InGit(t) THEN "builtin" ELSE "shell"
  OBVIOUS
<1> QED
  BY <1>1, EffectsInSeq

\* A call is made inside a git span exactly when its thread is.
LEMMA InGitSpan ==
    ASSUME LogInv, Sound, NEW t \in Tids, InFlight(t)
    PROVE  InGit(t) <=> InSpan(t, thread[t].last)
<1> DEFINE spans == thread[t].spans
           at == thread[t].last
<1>1. /\ spans \in Seq(Nat) /\ at \in Nat /\ thread[t].call \in SysCalls
      /\ DOMAIN spans = 1..Len(spans) /\ Len(spans) \in Nat
  <2>1. spans \in Seq(Nat) /\ at \in Nat /\ thread[t].call \in SysCalls
    BY ThreadTyped DEF LogInv
  <2> QED
    BY <2>1, LenProperties
<1>2. /\ spans # <<>> =>
           /\ Last(spans) = spans[Len(spans)] /\ Len(spans) \in DOMAIN spans
           /\ Last(spans) \in DOMAIN records
           /\ records[Last(spans)].tid = t
      /\ InGit(t) <=> spans # <<>> /\ IsGit(Last(spans))
  BY InGitIs DEF LogInv
<1>3. Entered(t, at, thread[t].call)
  BY DEF Entered
<1>4. \A i \in DOMAIN records : records[i].ts \in Nat
  BY LastTyped DEF Clocked
<1>5. \A i \in DOMAIN records : records[i].tid = t => records[i].ts < at
  <2>1. \A i \in DOMAIN records : records[i].tid = t =>
           records[i].ts <= at /\ records[i].ts # at
    BY <1>1, <1>3 DEF LogInv, Stamped
  <2> QED
    BY <1>1, <1>4, <2>1
<1>6. \A n \in DOMAIN spans :
         /\ EndsOf(spans[n]) = {}
         /\ \A m \in DOMAIN spans : m < n => ~IsGit(spans[m])
  BY DEF LogInv, Spanned, Nested
<1> HIDE DEF spans, at
<1>7. ASSUME InGit(t) PROVE InSpan(t, at)
  <2>1. spans # <<>> /\ IsGit(Last(spans))
    BY <1>2, <1>7
  <2>2. EndsOf(Last(spans)) = {}
    BY <1>2, <1>6, <2>1
  <2> QED
    BY <1>2, <1>5, <2>1, <2>2 DEF InSpan
<1>8. ASSUME InSpan(t, at) PROVE InGit(t)
  <2>1. PICK b \in DOMAIN records :
            /\ IsGit(b) /\ records[b].tid = t /\ records[b].ts < at
            /\ \A e \in EndsOf(b) : at < records[e].ts
    BY <1>8 DEF InSpan
  <2>2. EndsOf(b) = {}
    <3>1. ASSUME NEW e \in EndsOf(b) PROVE FALSE
      <4>1. e \in DOMAIN records /\ records[e].k = "e" /\ records[e].id = b
        BY DEF EndsOf, EdgesOf
      <4>2. records[e].tid = t
        BY <2>1, <4>1 DEF LogInv, Spanned, Paired
      <4> QED
        BY <1>1, <1>4, <1>5, <2>1, <4>1, <4>2
    <3> QED
      BY <3>1
  <2>3. PICK n \in DOMAIN spans : spans[n] = b
    BY <2>1, <2>2 DEF Sound, spans
  <2>4. n = Len(spans) /\ spans # <<>>
    <3>1. Len(spans) \in DOMAIN spans
      BY <1>1, <2>3
    <3>2. ~(n < Len(spans))
      BY <1>6, <2>1, <2>3, <3>1
    <3> QED
      BY <1>1, <2>3, <3>2
  <2> QED
    BY <1>2, <2>1, <2>3, <2>4
<1> QED
  BY <1>7, <1>8 DEF at

\* The call of thread t comes back: what the step of Return leaves.
Comes(t, call) ==
    /\ call = thread[t].call /\ thread[t].alive /\ InFlight(t) /\ call \in SysCalls
    /\ records' = records
    /\ did' = IF call.ret = "ok" THEN did \o Effects(t, call) ELSE did
    /\ thread'[t].last = thread[t].last /\ thread'[t].alive
    /\ thread'[t].spans = thread[t].spans
    /\ thread'[t].cwd = IF call.ret = "ok" /\ call.name \in {"chdir", "fchdir"}
                          THEN Resolve(thread[t].cwd, call.to) ELSE thread[t].cwd
    /\ thread'[t].program = IF call.ret = "ok" /\ call.name = "execve"
                              THEN (IF call.git THEN "git" ELSE "other")
                              ELSE thread[t].program
    /\ \A u \in Tids \ {t} : thread'[u] = thread[u]
    /\ Returned' = Returned \union {Whole(t, thread[t].last, call)}
    /\ \A x \in Returned : x.tid = t => x.ts < thread[t].last
    /\ \A u \in Tids : InFlight(u)' <=> InFlight(u) /\ u # t
    /\ \A u \in Tids : \A s, d : Entered(u, s, d)' <=> Entered(u, s, d)
    /\ \A i \in DOMAIN raw : i \in DOMAIN raw' /\ raw'[i].tid = raw[i].tid

LEMMA ReturnParents ==
    ASSUME LogInv, Parented, NEW t \in Tids, NEW call, Comes(t, call)
    PROVE  Parented'
<1> DEFINE y == Whole(t, thread[t].last, call)
<1>1. /\ thread[t].alive /\ InFlight(t) /\ records' = records
      /\ thread'[t].last = thread[t].last /\ thread'[t].alive
      /\ \A u \in Tids \ {t} : thread'[u] = thread[u]
      /\ Returned' = Returned \union {y}
      /\ \A u \in Tids : InFlight(u)' <=> InFlight(u) /\ u # t
      /\ \A u \in Tids : \A s, d : Entered(u, s, d)' <=> Entered(u, s, d)
      /\ \A i \in DOMAIN raw : i \in DOMAIN raw' /\ raw'[i].tid = raw[i].tid
  BY DEF Comes
<1>2. y.tid = t /\ y.ts = thread[t].last
  BY DEF Whole
<1> HIDE DEF y
<1>3. \A u \in Tids, x \in Tids, s \in Nat : Cloned(u, s, x)' <=> Cloned(u, s, x)
  BY <1>1 DEF Cloned, Clones
<1>4. /\ Live' = Live /\ t \in Live
      /\ \A u \in Tids : thread'[u].last = thread[u].last
  BY <1>1 DEF Live
<1>5. \A u \in Tids : Unborn(u)' => Unborn(u)
  BY <1>1, <1>4 DEF Unborn
<1>6. ASSUME NEW x \in Tids, Unborn(x)'
      PROVE  /\ \A i \in DOMAIN records' : records'[i].tid # x
             /\ \A u \in Tids, s \in Nat : ~Cloned(u, s, x)'
  <2>1. /\ \A i \in DOMAIN records : records[i].tid # x
        /\ \A u \in Tids, s \in Nat : ~Cloned(u, s, x)
    BY <1>5, <1>6 DEF Parented
  <2> QED
    BY <1>1, <1>3, <2>1
<1>7. ASSUME NEW u \in Tids, NEW x \in Tids, NEW s \in Nat, Cloned(u, s, x)'
      PROVE  /\ x # Root /\ s <= thread'[x].last /\ (InFlight(x)' => s < thread'[x].last)
             /\ \A z \in Returned' : z.tid = x => s < z.ts
             /\ \A i \in DOMAIN records' : records'[i].tid = x => s < records'[i].ts
  <2>1. Cloned(u, s, x)
    BY <1>3, <1>7
  <2>2. /\ x # Root /\ s <= thread[x].last /\ (InFlight(x) => s < thread[x].last)
        /\ \A z \in Returned : z.tid = x => s < z.ts
        /\ \A i \in DOMAIN records : records[i].tid = x => s < records[i].ts
    BY <2>1 DEF Parented
  <2>3. \A z \in Returned' : z.tid = x => s < z.ts
    BY <1>1, <1>2, <2>2
  <2> QED
    BY <1>1, <1>4, <2>2, <2>3
<1>8. ASSUME NEW x \in Tids \ {Root}, x \in Live' \/ (\E z \in Returned' : z.tid = x)
      PROVE  \E u \in Tids, s \in Nat : Cloned(u, s, x)'
  <2>1. x \in Live \/ (\E z \in Returned : z.tid = x)
    BY <1>1, <1>2, <1>4, <1>8
  <2>2. \E u \in Tids, s \in Nat : Cloned(u, s, x)
    BY <2>1 DEF Parented
  <2> QED
    BY <1>3, <2>2
<1> QED
  BY <1>6, <1>7, <1>8 DEF Parented

LEMMA ReturnHomes ==
    ASSUME LogInv, NEW t \in Tids, NEW call, Comes(t, call),
           NEW W \in Homes, CwdOk(W), NEW V \in Homes,
           \A u \in Tids \ {t} : V[u] = W[u],
           \A s \in Nat : s <= thread[t].last => V[t][s] = W[t][s],
           \A s \in Nat : thread[t].last < s => V[t][s] = thread'[t].cwd
    PROVE  CwdOk(V)'
<1> DEFINE at == thread[t].last
           y0 == Whole(t, at, call)
<1>1. /\ thread[t].alive /\ InFlight(t) /\ call \in SysCalls /\ call = thread[t].call
      /\ thread'[t].last = at
      /\ thread'[t].cwd = IF call.ret = "ok" /\ call.name \in {"chdir", "fchdir"}
                            THEN Resolve(thread[t].cwd, call.to) ELSE thread[t].cwd
      /\ \A u \in Tids \ {t} : thread'[u] = thread[u]
      /\ Returned' = Returned \union {y0}
      /\ \A x \in Returned : x.tid = t => x.ts < at
      /\ \A u \in Tids : InFlight(u)' <=> InFlight(u) /\ u # t
      /\ \A u \in Tids : \A s, d : Entered(u, s, d)' <=> Entered(u, s, d)
  BY DEF Comes
<1>2. y0.tid = t /\ y0.ts = at /\ y0.call = call
  BY DEF Whole
<1>3. /\ at \in Nat
      /\ \A x \in Returned : x.tid \in Tids /\ x.ts \in Nat
  BY LastTyped DEF Clocked
<1>4. /\ \A u \in Tids \ {t} : V[u] = W[u]
      /\ \A s \in Nat : s <= at => V[t][s] = W[t][s]
      /\ \A s \in Nat : at < s => V[t][s] = thread'[t].cwd
  OBVIOUS
<1> HIDE DEF at, y0
<1>5. \A u \in Tids, x \in Tids, s \in Nat : Cloned(u, s, x)' <=> Cloned(u, s, x)
  BY <1>1 DEF Cloned, Clones
<1>6. /\ W[Root][0] = "root"
      /\ \A u \in Tids, s \in Nat :
            (\A z \in Returned : z.tid = u => s <= z.ts) => W[u][s] = W[u][0]
      /\ \A y \in Returned, s \in Nat :
            y.ts < s /\ (\A z \in Returned : z.tid = y.tid /\ y.ts < z.ts => s <= z.ts)
               => W[y.tid][s] = After(y.call, W[y.tid][y.ts])
      /\ \A u \in Tids, x \in Tids, s \in Nat : Cloned(u, s, x) => W[u][s] = W[x][0]
      /\ \A u \in Tids, s \in Nat :
            u \in Live /\ (thread[u].last < s \/ (InFlight(u) /\ s = thread[u].last))
               => W[u][s] = thread[u].cwd
      /\ \A u \in Tids, s \in Nat, c \in SysCalls : Entered(u, s, c) => Heard(c, W[u][s])
  BY DEF CwdOk
<1>7. \A u \in Tids : V[u][0] = W[u][0]
  BY <1>3, <1>4
<1>8. \A s \in Nat, c \in SysCalls : Entered(t, s, c) => s <= at
  BY <1>1, <1>3 DEF Entered, at
<1>9. W[t][at] = thread[t].cwd /\ V[t][at] = thread[t].cwd
  <2>1. t \in Live /\ at = thread[t].last
    BY <1>1 DEF Live, at
  <2> QED
    BY <1>1, <1>3, <1>4, <1>6, <2>1
<1>10. Entered(t, at, call) /\ Heard(call, thread[t].cwd)
  <2>1. Entered(t, at, call)
    BY <1>1 DEF Entered, at
  <2> QED
    BY <1>1, <1>3, <1>6, <1>9, <2>1
<1>11. After(call, thread[t].cwd) = thread'[t].cwd
  <2>1. call.name # "exited"
    BY <1>1 DEF SysCalls, CallNames
  <2>2. CASE call.ret = "ok" /\ call.name = "chdir"
    BY <1>1, <2>1, <2>2 DEF After, Works, Goes
  <2>3. CASE call.ret = "ok" /\ call.name = "fchdir"
    <3>1. call.dirfd = Resolve(thread[t].cwd, call.to)
      BY <1>10, <2>3 DEF Heard
    <3> QED
      BY <1>1, <2>1, <2>3, <3>1 DEF After, Works, Goes
  <2>4. CASE ~(call.ret = "ok" /\ call.name \in {"chdir", "fchdir"})
    BY <1>1, <2>4 DEF After, Works
  <2> QED
    BY <2>2, <2>3, <2>4
<1>12. V[Root][0] = "root"
  BY <1>6, <1>7, RootIsAThread
<1>13. ASSUME NEW u \in Tids, NEW s \in Nat, \A z \in Returned' : z.tid = u => s <= z.ts
       PROVE  V[u][s] = V[u][0]
  <2>1. W[u][s] = W[u][0]
    BY <1>1, <1>6, <1>13
  <2>2. CASE u = t
    <3>1. s <= at
      BY <1>1, <1>2, <1>13, <2>2
    <3> QED
      BY <1>4, <1>7, <2>1, <2>2, <3>1
  <2>3. CASE u # t
    BY <1>4, <2>1, <2>3
  <2> QED
    BY <2>2, <2>3
<1>14. ASSUME NEW y \in Returned', NEW s \in Nat, y.ts < s,
              \A z \in Returned' : z.tid = y.tid /\ y.ts < z.ts => s <= z.ts
       PROVE  V[y.tid][s] = After(y.call, V[y.tid][y.ts])
  <2>1. CASE y = y0
    BY <1>2, <1>3, <1>4, <1>9, <1>11, <1>14, <2>1
  <2>2. CASE y \in Returned
    <3>1. W[y.tid][s] = After(y.call, W[y.tid][y.ts])
      BY <1>1, <1>6, <1>14, <2>2
    <3>2. CASE y.tid = t
      <4>1. y.ts \in Nat /\ y.ts < at
        BY <1>1, <1>3, <2>2, <3>2
      <4>2. s <= at
        BY <1>1, <1>2, <1>14, <3>2, <4>1
      <4> QED
        BY <1>3, <1>4, <3>1, <3>2, <4>1, <4>2
    <3>3. CASE y.tid # t
      BY <1>3, <1>4, <2>2, <3>1, <3>3
    <3> QED
      BY <3>2, <3>3
  <2> QED
    BY <1>1, <2>1, <2>2
<1>15. ASSUME NEW u \in Tids, NEW x \in Tids, NEW s \in Nat, Cloned(u, s, x)'
       PROVE  V[u][s] = V[x][0]
  <2>1. Cloned(u, s, x) /\ W[u][s] = W[x][0]
    BY <1>5, <1>6, <1>15
  <2>2. V[u][s] = W[u][s]
    <3>1. u = t => s <= at
      BY <1>8, <2>1 DEF Cloned
    <3> QED
      BY <1>4, <3>1
  <2> QED
    BY <1>7, <2>1, <2>2
<1>16. ASSUME NEW u \in Tids, NEW s \in Nat, u \in Live',
              thread'[u].last < s \/ (InFlight(u)' /\ s = thread'[u].last)
       PROVE  V[u][s] = thread'[u].cwd
  <2>1. CASE u = t
    BY <1>1, <1>4, <1>16, <2>1
  <2>2. CASE u # t
    <3>1. u \in Live /\ (InFlight(u)' <=> InFlight(u)) /\ thread'[u] = thread[u]
      BY <1>1, <1>16, <2>2 DEF Live
    <3> QED
      BY <1>4, <1>6, <1>16, <2>2, <3>1
  <2> QED
    BY <2>1, <2>2
<1>17. ASSUME NEW u \in Tids, NEW s \in Nat, NEW c \in SysCalls, Entered(u, s, c)'
       PROVE  Heard(c, V[u][s])
  <2>1. Entered(u, s, c) /\ Heard(c, W[u][s])
    BY <1>1, <1>6, <1>17
  <2>2. V[u][s] = W[u][s]
    BY <1>4, <1>8, <2>1
  <2> QED
    BY <2>1, <2>2
<1> QED
  BY <1>12, <1>13, <1>14, <1>15, <1>16, <1>17 DEF CwdOk, Heard, After, Goes, Works

LEMMA ReturnSound ==
    ASSUME LogInv, NEW t \in Tids, NEW call, Comes(t, call)
    PROVE  Sound' => Sound
<1>1. /\ call = thread[t].call /\ InFlight(t) /\ records' = records
      /\ thread'[t].spans = thread[t].spans
      /\ thread'[t].program = IF call.ret = "ok" /\ call.name = "execve"
                                THEN (IF call.git THEN "git" ELSE "other")
                                ELSE thread[t].program
      /\ \A u \in Tids \ {t} : thread'[u] = thread[u]
  BY DEF Comes
<1>2. call.name = "execve" => thread[t].program = "worker"
  BY <1>1 DEF LogInv, GitShows
<1>3. \A u \in Tids : thread'[u].spans = thread[u].spans
  BY <1>1
<1>4. /\ \A b : IsGit(b)' <=> IsGit(b)
      /\ \A b : EndsOf(b)' = EndsOf(b)
  BY <1>1, RecordsStay
<1>5. ASSUME Sound' PROVE Sound
  <2>1. /\ \A u \in Tids : thread'[u].program # "git"
        /\ \A b \in DOMAIN records' : IsGit(b)' /\ EndsOf(b)' = {} =>
              \E n \in DOMAIN thread'[records'[b].tid].spans :
                 thread'[records'[b].tid].spans[n] = b
    BY <1>5 DEF Sound
  <2>2. \A u \in Tids : thread[u].program # "git"
    <3>1. thread[t].program # "git"
      BY <1>1, <1>2, <2>1
    <3> QED
      BY <1>1, <2>1, <3>1
  <2>3. \A b \in DOMAIN records : IsGit(b) /\ EndsOf(b) = {} =>
           \E n \in DOMAIN thread[records[b].tid].spans : thread[records[b].tid].spans[n] = b
    <3>1. \A b \in DOMAIN records : records[b].tid \in Tids
      BY LastTyped DEF Clocked
    <3> QED
      BY <1>1, <1>3, <1>4, <2>1, <3>1
  <2> QED
    BY <2>2, <2>3 DEF Sound
<1> QED
  BY <1>5

LEMMA ReturnDeeds ==
    ASSUME LogInv, NEW t \in Tids, NEW call, Comes(t, call),
           NEW W, NEW V, \A y \in Returned : V[y.tid][y.ts] = W[y.tid][y.ts],
           V[t][thread[t].last] = thread[t].cwd, NEW d
    PROVE  CallDid(V, d)' <=> CallDid(W, d)
              \/ /\ call.ret = "ok"
                 /\ Deed(d, call, thread[t].cwd, t, By(t, thread[t].last))
<1> DEFINE at == thread[t].last
           y0 == Whole(t, at, call)
<1>1. /\ call \in SysCalls /\ records' = records
      /\ Returned' = Returned \union {y0}
  BY DEF Comes
<1>2. y0.tid = t /\ y0.ts = at /\ y0.call = call
  BY DEF Whole
<1>3. V[t][at] = thread[t].cwd
  OBVIOUS
<1>4. Works(call) <=> call.ret = "ok"
  BY <1>1 DEF Works, SysCalls, CallNames
<1> HIDE DEF at, y0
<1>5. \A u, s : By(u, s)' = By(u, s)
  BY <1>1, RecordsStay DEF By
<1> DEFINE New == /\ call.ret = "ok"
                  /\ Deed(d, call, thread[t].cwd, t, By(t, at))
<1>6. ASSUME CallDid(W, d) PROVE CallDid(V, d)'
  <2>1. PICK y \in Returned :
            /\ Works(y.call)
            /\ Deed(d, y.call, W[y.tid][y.ts], y.tid, By(y.tid, y.ts))
    BY <1>6 DEF CallDid
  <2>2. V[y.tid][y.ts] = W[y.tid][y.ts] /\ y \in Returned'
    BY <1>1
  <2> QED
    BY <1>5, <2>1, <2>2 DEF CallDid, Deed, Uses, Doing, Works
<1>7. ASSUME New PROVE CallDid(V, d)'
  <2>1. y0 \in Returned' /\ Works(y0.call)
    BY <1>1, <1>2, <1>4, <1>7
  <2>2. Deed(d, y0.call, V[y0.tid][y0.ts], y0.tid, By(y0.tid, y0.ts))
    BY <1>2, <1>3, <1>7
  <2>3. PICK y : y = y0
    OBVIOUS
  <2>4. /\ y \in Returned' /\ Works(y.call)
        /\ Deed(d, y.call, V[y.tid][y.ts], y.tid, By(y.tid, y.ts)')
    BY <1>5, <2>1, <2>2, <2>3
  <2> QED
    BY <2>4 DEF CallDid, Deed, Uses, Doing, Works
<1>8. ASSUME CallDid(V, d)' PROVE CallDid(W, d) \/ New
  <2>1. PICK y \in Returned' :
            /\ Works(y.call)
            /\ Deed(d, y.call, V[y.tid][y.ts], y.tid, By(y.tid, y.ts)')
    BY <1>8 DEF CallDid, Deed, Uses, Doing, Works
  <2>2. CASE y \in Returned
    <3>1. V[y.tid][y.ts] = W[y.tid][y.ts]
      BY <2>2
    <3> QED
      BY <1>5, <2>1, <2>2, <3>1 DEF CallDid
  <2>3. CASE y = y0
    BY <1>2, <1>3, <1>4, <1>5, <2>1, <2>3
  <2> QED
    BY <1>1, <2>1, <2>2, <2>3
<1> QED
  BY <1>6, <1>7, <1>8 DEF at

LEMMA ComesTold ==
    ASSUME LogInv, LogInv', Told, NEW t \in Tids, NEW call, Comes(t, call)
    PROVE  Told'
<1>1. Parented /\ did \in Seq(Range(did))
  BY DEF Told
<1>2. PICK W \in Homes : CwdOk(W) /\ DidOk(W)
  BY DEF Told
<1> DEFINE at == thread[t].last
           effects == Effects(t, call)
           done == call.ret = "ok"
<1>3. /\ thread[t].alive /\ InFlight(t) /\ records' = records
      /\ did' = IF done THEN did \o effects ELSE did
      /\ \A x \in Returned : x.tid = t => x.ts < at
  BY DEF Comes
<1>4. thread'[t].cwd \in Dirs
  <2>1. thread[t].cwd \in Dirs
    BY ThreadTyped DEF LogInv
  <2> QED
    BY <2>1, ResolveTyped DEF Comes
<1>5. PICK V \in Homes :
           /\ \A u \in Tids \ {t} : V[u] = W[u]
           /\ \A s \in Nat : s <= at => V[t][s] = W[t][s]
           /\ \A s \in Nat : at < s => V[t][s] = thread'[t].cwd
  <2> DEFINE mine == [s \in Nat |-> IF at < s THEN thread'[t].cwd ELSE W[t][s]]
             V == [W EXCEPT ![t] = mine]
  <2>1. /\ mine \in [Nat -> Dirs]
        /\ \A s \in Nat : mine[s] = IF at < s THEN thread'[t].cwd ELSE W[t][s]
    BY <1>4 DEF Homes
  <2> HIDE DEF mine
  <2>2. /\ V \in Homes /\ V[t] = mine
        /\ \A u \in Tids \ {t} : V[u] = W[u]
    BY <2>1 DEF Homes
  <2>3. at \in Nat
    BY LastTyped DEF Clocked
  <2> HIDE DEF at
  <2>4. \A s \in Nat : s <= at => ~(at < s)
    BY <2>3
  <2> QED
    BY <2>1, <2>2, <2>4
<1>6. Parented'
  BY <1>1, ReturnParents
<1>7. CwdOk(V)'
  BY <1>2, <1>5, ReturnHomes
<1>8. Sound' => Sound
  BY ReturnSound
<1>9. /\ at \in Nat
      /\ \A y \in Returned : y.tid \in Tids /\ y.ts \in Nat
  BY LastTyped DEF Clocked
<1>10. \A y \in Returned : V[y.tid][y.ts] = W[y.tid][y.ts]
  <2> HIDE DEF at
  <2>1. \A y \in Returned : y.tid = t => y.ts <= at
    BY <1>3, <1>9
  <2> QED
    BY <1>5, <1>9, <2>1
<1>11. V[t][at] = thread[t].cwd
  <2>1. W[t][at] = thread[t].cwd
    BY <1>2, <1>3, <1>9 DEF CwdOk, Live
  <2> QED
    BY <1>5, <1>9, <2>1
<1>12. ASSUME NEW d
       PROVE  CallDid(V, d)' <=> CallDid(W, d)
                 \/ (call.ret = "ok" /\ Deed(d, call, thread[t].cwd, t, By(t, thread[t].last)))
  <2>1. V[t][thread[t].last] = thread[t].cwd
    BY <1>11
  <2> QED
    BY <1>10, <2>1, ReturnDeeds
<1>13. \A d : EndDid(d)' <=> EndDid(d)
  BY <1>3, RecordsStay
<1>14. did' \in Seq(Range(did')) /\ (done => Range(did') = Range(did) \union Range(effects))
  <2>1. CASE done
    <3>1. effects \in Seq(Range(effects))
      BY EffectsInSeq
    <3> HIDE DEF effects, done
    <3> QED
      BY <1>1, <1>3, <2>1, <3>1, ConcatWider
  <2>2. CASE ~done
    BY <1>1, <1>3, <2>2
  <2> QED
    BY <2>1, <2>2
<1>15. Sound => \A d : d \in Range(effects) <=>
                   Deed(d, call, thread[t].cwd, t, By(t, at))
  <2>1. ASSUME Sound
        PROVE  \A d : d \in Range(effects) <=>
                  Deed(d, call, thread[t].cwd, t, By(t, at))
    <3>1. thread[t].program # "git"
      BY <2>1 DEF Sound
    <3>2. By(t, at) = IF InGit(t) THEN "builtin" ELSE "shell"
      BY <1>3, <2>1, InGitSpan DEF By
    <3> QED
      BY <3>1, <3>2, EffectsAre
  <2> QED
    BY <2>1
<1> DEFINE New(d) == Deed(d, call, thread[t].cwd, t, By(t, at))
<1>16. /\ \A d : CallDid(V, d)' <=> CallDid(W, d) \/ (done /\ New(d))
       /\ Sound => \A d : d \in Range(effects) <=> New(d)
       /\ ~done => did' = did
  <2>1. \A d : CallDid(V, d)' <=> CallDid(W, d) \/ (done /\ New(d))
    BY <1>12
  <2>2. Sound => \A d : d \in Range(effects) <=> New(d)
    BY <1>15
  <2>3. ~done => did' = did
    BY <1>3
  <2> QED
    BY <2>1, <2>2, <2>3
<1> HIDE DEF effects, done, New
<1>17. ASSUME Sound' PROVE \A d : d \in Range(did') <=> CallDid(V, d)' \/ EndDid(d)'
  <2>1. \A d : d \in Range(did) <=> CallDid(W, d) \/ EndDid(d)
    BY <1>2, <1>8, <1>17 DEF DidOk
  <2>2. \A d : d \in Range(did') <=> d \in Range(did) \/ (done /\ New(d))
    <3>1. CASE done
      BY <1>8, <1>14, <1>16, <1>17, <3>1
    <3>2. CASE ~done
      BY <1>16, <3>2
    <3> QED
      BY <3>1, <3>2
  <2> QED
    BY <1>13, <1>16, <2>1, <2>2
<1>18. DidOk(V)'
  BY <1>17 DEF DidOk
<1> QED
  BY <1>5, <1>6, <1>7, <1>14, <1>18 DEF Told, Homes

LEMMA ReturnTold ==
    ASSUME LogInv, LogInv', Told, NEW t \in Tids, Return(t)
    PROVE  Told'
<1>1. Comes(t, thread[t].call)
  BY ReturnStep DEF Comes
<1> QED
  BY <1>1, ComesTold

\* Nothing is done yet: before the worker is started, and just after.
Fresh ==
    /\ records = <<>> /\ did = <<>>
    /\ \A t \in Tids : thread[t].cwd = "root"
    /\ \A t \in Live : t = Root
    /\ \A x \in Returned : x.tid = Root /\ x.ts \in Nat /\ x.call.name = "execve"
    /\ \A t \in Tids : ~InFlight(t)

LEMMA FreshTold == Fresh => Told
<1> SUFFICES ASSUME Fresh PROVE Told
  OBVIOUS
<1>1. /\ records = <<>> /\ did = <<>>
      /\ \A t \in Tids : thread[t].cwd = "root"
      /\ \A t \in Live : t = Root
      /\ \A x \in Returned : x.tid = Root /\ x.ts \in Nat /\ x.call.name = "execve"
      /\ \A t \in Tids : ~InFlight(t)
  BY DEF Fresh
<1>2. DOMAIN records = {} /\ Range(did) = {} /\ did \in Seq(Range(did))
  BY <1>1 DEF Range
<1>3. \A u \in Tids, s \in Nat, c \in SysCalls : Entered(u, s, c) => c.name = "execve"
  BY <1>1 DEF Entered
<1>4. \A u \in Tids, t \in Tids, s \in Nat : ~Cloned(u, s, t)
  BY <1>3 DEF Cloned, Clones
<1>5. Parented
  BY <1>1, <1>2, <1>4 DEF Parented
<1>6. PICK W \in Homes : \A t \in Tids, s \in Nat : W[t][s] = "root"
  <2> DEFINE W == [t \in Tids |-> [s \in Nat |-> "root"]]
  <2>1. "root" \in Dirs
    BY DEF Dirs
  <2>2. W \in Homes /\ \A t \in Tids, s \in Nat : W[t][s] = "root"
    BY <2>1 DEF Homes
  <2> QED
    BY <2>2
<1>7. \A c : c.name = "execve" => After(c, "root") = "root" /\ Heard(c, "root")
  BY DEF After, Heard
<1>8. \A x \in Returned : x.tid \in Tids
  BY <1>1, RootIsAThread
<1>9. CwdOk(W)
  <2>1. W[Root][0] = "root"
    BY <1>6, RootIsAThread
  <2>2. \A t \in Tids, s \in Nat :
          (\A z \in Returned : z.tid = t => s <= z.ts) => W[t][s] = W[t][0]
    BY <1>6
  <2>3. \A y \in Returned, s \in Nat :
          y.ts < s /\ (\A z \in Returned : z.tid = y.tid /\ y.ts < z.ts => s <= z.ts)
             => W[y.tid][s] = After(y.call, W[y.tid][y.ts])
    BY <1>1, <1>6, <1>7, <1>8
  <2>4. \A t \in Tids, s \in Nat :
          t \in Live /\ (thread[t].last < s \/ (InFlight(t) /\ s = thread[t].last))
             => W[t][s] = thread[t].cwd
    BY <1>1, <1>6
  <2>5. \A t \in Tids, s \in Nat, c \in SysCalls : Entered(t, s, c) => Heard(c, W[t][s])
    BY <1>3, <1>6, <1>7
  <2> QED
    BY <1>4, <2>1, <2>2, <2>3, <2>4, <2>5 DEF CwdOk
<1>10. DidOk(W)
  <2>1. \A d : ~EndDid(d)
    BY <1>2 DEF EndDid
  <2>2. \A d : ~CallDid(W, d)
    BY <1>1 DEF CallDid, Deed, Uses
  <2> QED
    BY <1>2, <2>1, <2>2 DEF DidOk
<1> QED
  BY <1>2, <1>5, <1>6, <1>9, <1>10 DEF Told

LEMMA FreshToldNext == Fresh' => Told'
BY FreshTold, PTL

LEMMA ToldInit == TraceInit => Told
<1> SUFFICES ASSUME TraceInit PROVE Told
  OBVIOUS
<1>1. /\ thread = [t \in Tids |-> Dead] /\ raw = <<>> /\ records = <<>> /\ did = <<>>
  BY DEF TraceInit
<1>2. \A t \in Tids : /\ thread[t].call = NoCall /\ thread[t].cwd = "root" /\ ~thread[t].alive
  BY <1>1 DEF Dead
<1>3. Returned = {}
  <2>1. Flight = NoLog
    BY <1>1, ParseNone DEF Flight, Cut
  <2> QED
    BY <2>1 DEF Returned, NoLog, Range
<1>4. Fresh
  BY <1>1, <1>2, <1>3 DEF Fresh, Live, InFlight
<1> QED
  BY <1>4, FreshTold

LEMMA StartTold ==
    ASSUME LogInv, Start
    PROVE  Told'
<1>1. /\ raw = <<>>
      /\ thread'[Root] = [Dead EXCEPT !.alive = TRUE, !.last = clock']
      /\ \A u \in Tids \ {Root} : thread'[u] = Dead
      /\ Returned' = {Whole(Root, clock', FirstCall)}
      /\ \A u \in Tids : ~InFlight(u)'
      /\ clock' \in Nat
  BY StartStep
<1>2. records' = <<>> /\ did' = <<>>
  <2>1. records = <<>> /\ did = <<>>
    BY <1>1 DEF LogInv, Bounded
  <2> QED
    BY <2>1 DEF Start
<1>3. \A u \in Tids : thread'[u].cwd = "root"
  <2>1. Dead.cwd = "root" /\ [Dead EXCEPT !.alive = TRUE, !.last = clock'].cwd = "root"
    BY DEF Dead
  <2>2. thread'[Root].cwd = "root"
    BY <1>1, <2>1
  <2> QED
    BY <1>1, <2>1, <2>2
<1>4. \A u \in Tids : thread'[u].alive => u = Root
  BY <1>1 DEF Dead
<1>5. \A x \in Returned' : x.tid = Root /\ x.ts \in Nat /\ x.call.name = "execve"
  BY <1>1 DEF Whole, FirstCall
<1>6. Fresh'
  BY <1>1, <1>2, <1>3, <1>4, <1>5 DEF Fresh, Live
<1> QED
  BY <1>6, FreshToldNext

LEMMA ToldStep ==
    ASSUME LogInv, LogInv', Told, TraceNext, ~timedOut'
    PROVE  Told'
<1>1. CASE Start
  BY <1>1, StartTold
<1>2. CASE Finish
  <2>1. PICK exit \in {0, 1} : Exited(Root, exit)
    BY <1>2, FinishStep
  <2> QED
    BY <2>1, ExitedTold, RootIsAThread
<1>3. CASE Kill
  BY <1>3, KillTold
<1>4. CASE Detach
  <2>1. UNCHANGED <<thread, records, did>> /\ Unlogged
    BY <1>4, DetachStep
  <2> QED
    BY <2>1, UnloggedTold
<1>5. CASE Timeout
  BY <1>5 DEF Timeout
<1>6. ASSUME NEW t \in Tids, Enter(t) PROVE Told'
  BY <1>6, EnterTold
<1>7. ASSUME NEW t \in Tids, Return(t) PROVE Told'
  BY <1>7, ReturnTold
<1>8. ASSUME NEW t \in Tids, Begin(t) PROVE Told'
  BY <1>8, BeginTold
<1>9. ASSUME NEW t \in Tids, End(t) PROVE Told'
  BY <1>9, EndTold
<1>10. ASSUME NEW t \in Tids, Panic(t) PROVE Told'
  <2>1. /\ UNCHANGED <<records, did>>
        /\ thread'[t].last = thread[t].last /\ thread'[t].spans = <<>>
        /\ thread'[t].alive = thread[t].alive /\ thread'[t].cwd = thread[t].cwd
        /\ thread'[t].program = thread[t].program
        /\ \A u \in Tids \ {t} : thread'[u] = thread[u]
        /\ Unlogged
    BY <1>10, PanicStep
  <2>2. \A u \in Tids : /\ thread'[u].last = thread[u].last
                        /\ thread'[u].alive = thread[u].alive
                        /\ thread'[u].cwd = thread[u].cwd
                        /\ thread'[u].program = thread[u].program
                        /\ thread'[u].spans \in {thread[u].spans, <<>>}
    BY <2>1
  <2> QED
    BY <2>1, <2>2, UnloggedTold
<1>11. ASSUME NEW t \in Tids, ExitThread(t) PROVE Told'
  <2>1. Exited(t, 0)
    BY <1>11, ExitStep
  <2> QED
    BY <2>1, ExitedTold
<1> QED
  BY <1>1, <1>2, <1>3, <1>4, <1>5, <1>6, <1>7, <1>8, <1>9, <1>10, <1>11 DEF TraceNext

LEMMA ToldStutter ==
    ASSUME LogInv, LogInv', Told, UNCHANGED traceVars
    PROVE  Told'
<1>1. UNCHANGED <<clock, thread, raw, records, did, dumped, over, timedOut>>
  BY DEF traceVars
<1>2. Typed /\ Logged
  BY DEF LogInv
<1>3. Unlogged
  BY <1>1, <1>2, SilentLog DEF Unlogged, Typed
<1> QED
  BY <1>1, <1>3, UnloggedTold

\* What the run did is told by its log and its records.
LEMMA ToldHolds == TraceSpec => [](timedOut \/ (LogInv /\ Told))
<1>1. TraceInit => timedOut \/ (LogInv /\ Told)
  BY LogInit, ToldInit
<1>2. (timedOut \/ (LogInv /\ Told)) /\ [TraceNext]_traceVars
         => (timedOut \/ (LogInv /\ Told))'
  <2> SUFFICES ASSUME timedOut \/ (LogInv /\ Told), [TraceNext]_traceVars, ~timedOut'
               PROVE  LogInv' /\ Told'
    OBVIOUS
  <2>1. CASE UNCHANGED traceVars
    <3>1. LogInv /\ Told
      BY <2>1 DEF traceVars
    <3>2. LogInv'
      BY <2>1, <3>1, LogStutter
    <3> QED
      BY <2>1, <3>1, <3>2, ToldStutter
  <2>2. CASE TraceNext
    <3>1. LogInv /\ Told
      BY <2>2, BudgetStep
    <3>2. LogInv'
      BY <2>2, <3>1, LogStep
    <3> QED
      BY <2>2, <3>1, <3>2, ToldStep
  <2> QED
    BY <2>1, <2>2
<1> QED
  BY <1>1, <1>2, PTL DEF TraceSpec

\* f holds what is kept after each of the n effects of s.
Keeping(f, base, n, s) ==
    /\ DOMAIN f = 0..n /\ f[0] = base
    /\ \A k \in 1..n : f[k] = KeepResource(f[k - 1], s[k])
    /\ KeepResources(base, s) = f[n]

\* The effects of a call are kept one by one.
LEMMA KeepFold ==
    ASSUME NEW base, NEW n \in Nat, NEW s, DOMAIN s = 1..n
    PROVE  \E f : Keeping(f, base, n, s)
<1> DEFINE IsFold(g, D) ==
        g = [t \in SUBSET D |->
                IF t = {} THEN base ELSE KeepResource(g[t \ {Max(t)}], s[Max(t)])]
           Folds(m) == \E g : IsFold(g, 1..m)
<1>1. Folds(0)
  <2>1. IsFold([t \in SUBSET (1..0) |-> base], 1..0)
    OBVIOUS
  <2> QED
    BY <2>1
<1>2. ASSUME NEW m \in Nat, Folds(m) PROVE Folds(m + 1)
  <2>1. PICK g : IsFold(g, 1..m)
    BY <1>2
  <2> DEFINE h == [t \in SUBSET (1..(m + 1)) |->
                      IF m + 1 \in t THEN KeepResource(g[t \ {m + 1}], s[m + 1]) ELSE g[t]]
  <2>2. ASSUME NEW t \in SUBSET (1..(m + 1))
        PROVE  h[t] = IF t = {} THEN base ELSE KeepResource(h[t \ {Max(t)}], s[Max(t)])
    <3>1. CASE m + 1 \in t
      <4>1. Max(t) = m + 1
        BY <3>1, LargestIs
      <4>2. t \ {m + 1} \in SUBSET (1..(m + 1)) /\ m + 1 \notin t \ {m + 1}
        OBVIOUS
      <4>3. t \ {m + 1} \in SUBSET (1..m)
        OBVIOUS
      <4>4. h[t] = KeepResource(g[t \ {m + 1}], s[m + 1]) /\ h[t \ {m + 1}] = g[t \ {m + 1}]
        BY <3>1, <4>2
      <4> HIDE DEF h
      <4> QED
        BY <3>1, <4>1, <4>4
    <3>2. CASE m + 1 \notin t
      <4>1. t \in SUBSET (1..m)
        BY <3>2
      <4>2. t \ {Max(t)} \in SUBSET (1..(m + 1)) /\ m + 1 \notin t \ {Max(t)}
        BY <3>2
      <4>3. h[t] = g[t] /\ h[t \ {Max(t)}] = g[t \ {Max(t)}]
        BY <3>2, <4>2
      <4>4. g[t] = IF t = {} THEN base ELSE KeepResource(g[t \ {Max(t)}], s[Max(t)])
        BY <2>1, <4>1
      <4> HIDE DEF h
      <4> QED
        BY <4>3, <4>4
    <3> QED
      BY <3>1, <3>2
  <2>3. IsFold(h, 1..(m + 1))
    <3>1. h = [t \in SUBSET (1..(m + 1)) |-> h[t]]
      OBVIOUS
    <3> HIDE DEF h
    <3> QED
      BY <2>2, <3>1
  <2> QED
    BY <2>3
<1>3. Folds(n)
  <2> DEFINE bad == {m \in Nat : ~Folds(m)}
  <2> HIDE DEF Folds
  <2>1. ASSUME bad # {} PROVE FALSE
    <3>1. bad \in SUBSET Nat
      OBVIOUS
    <3>2. PICK m \in bad : \A l \in bad : m <= l
      BY <2>1, <3>1, LeastNatural
    <3>3. m \in Nat /\ m # 0 /\ ~Folds(m)
      BY <1>1
    <3>4. m - 1 \in Nat /\ m - 1 \notin bad /\ (m - 1) + 1 = m
      BY <3>2, <3>3
    <3> QED
      BY <1>2, <3>3, <3>4
  <2> QED
    BY <2>1
<1> DEFINE iter == CHOOSE g : IsFold(g, DOMAIN s)
<1>4. KeepResources(base, s) = iter[DOMAIN s]
  BY DEF KeepResources, FoldLeft, MapThenFoldSet
<1>5. IsFold(iter, 1..n)
  <2> HIDE DEF IsFold
  <2> QED
    BY <1>3
<1> HIDE DEF iter
<1> DEFINE vals == [k \in 0..n |-> iter[1..k]]
<1>6. vals[0] = base
  <2>1. vals[0] = iter[{}]
    <3>1. 1..0 = {} /\ 0 \in 0..n
      OBVIOUS
    <3> QED
      BY <3>1
  <2> QED
    BY <1>5, <2>1
<1>7. ASSUME NEW k \in 1..n PROVE vals[k] = KeepResource(vals[k - 1], s[k])
  <2>1. Max(1..k) = k
    <3>1. k \in 1..k /\ 1..k \subseteq Nat /\ \A x \in 1..k : x <= k
      OBVIOUS
    <3> QED
      BY <3>1, LargestIs
  <2>2. 1..k # {} /\ (1..k) \ {k} = 1..(k - 1) /\ 1..k \in SUBSET (1..n)
    OBVIOUS
  <2>3. vals[k] = iter[1..k] /\ vals[k - 1] = iter[1..(k - 1)]
    OBVIOUS
  <2>4. iter[1..k] = KeepResource(iter[(1..k) \ {k}], s[k])
    BY <1>5, <2>1, <2>2
  <2> HIDE DEF vals
  <2> QED
    BY <2>2, <2>3, <2>4
<1>8. KeepResources(base, s) = vals[n] /\ DOMAIN vals = 0..n
  BY <1>4
<1> HIDE DEF vals
<1> QED
  BY <1>6, <1>7, <1>8 DEF Keeping

LEMMA KeptAre ==
    ASSUME NEW base, base \in Seq(Range(base)), NEW n \in Nat, NEW s, DOMAIN s = 1..n
    PROVE  LET r == KeepResources(base, s) IN
           /\ r \in Seq(Range(r))
           /\ \A e : e \in Range(r) <=>
                 e \in Range(base) \/ \E i \in 1..n : e = s[i] /\ SeedResource(e[2])
<1>1. PICK f : Keeping(f, base, n, s)
  BY KeepFold
<1>2. /\ f[0] = base /\ KeepResources(base, s) = f[n]
      /\ \A k \in 1..n : f[k] = KeepResource(f[k - 1], s[k])
  BY <1>1 DEF Keeping
<1> DEFINE P(k) == /\ f[k] \in Seq(Range(f[k]))
                   /\ \A e : e \in Range(f[k]) <=>
                         e \in Range(base) \/ \E i \in 1..k : e = s[i] /\ SeedResource(e[2])
           S == {k \in 0..n : P(k)}
<1>3. P(0)
  BY <1>2
<1>4. ASSUME NEW k \in 1..n, P(k - 1) PROVE P(k)
  <2> DEFINE old == f[k - 1]
             new == f[k]
  <2>1. /\ old \in Seq(Range(old))
        /\ \A e : e \in Range(old) <=>
              e \in Range(base) \/ \E i \in 1..(k - 1) : e = s[i] /\ SeedResource(e[2])
    BY <1>4
  <2>2. new = IF SeedResource(s[k][2]) THEN Append(old, s[k]) ELSE old
    BY <1>2 DEF KeepResource
  <2> HIDE DEF old, new
  <2>3. /\ Range(Append(old, s[k])) = Range(old) \union {s[k]}
        /\ Append(old, s[k]) \in Seq(Range(Append(old, s[k])))
    BY <2>1, AppendWider
  <2>4. /\ new \in Seq(Range(new))
        /\ \A e : e \in Range(new) <=> e \in Range(old) \/ (e = s[k] /\ SeedResource(e[2]))
    <3>1. CASE SeedResource(s[k][2])
      <4>1. new = Append(old, s[k])
        BY <2>2, <3>1
      <4> QED
        BY <2>3, <3>1, <4>1
    <3>2. CASE ~SeedResource(s[k][2])
      <4>1. new = old
        BY <2>2, <3>2
      <4> QED
        BY <2>1, <3>2, <4>1
    <3> QED
      BY <3>1, <3>2
  <2>5. \A i : i \in 1..k <=> i \in 1..(k - 1) \/ i = k
    OBVIOUS
  <2>6. \A e : (\E i \in 1..k : e = s[i] /\ SeedResource(e[2])) <=>
           \/ \E i \in 1..(k - 1) : e = s[i] /\ SeedResource(e[2])
           \/ e = s[k] /\ SeedResource(e[2])
    BY <2>5, ZenonT(60)
  <2>7. \A e : e \in Range(new) <=>
           e \in Range(base) \/ \E i \in 1..k : e = s[i] /\ SeedResource(e[2])
    BY <2>1, <2>4, <2>6, ZenonT(60)
  <2> QED
    BY <2>4, <2>7 DEF new
<1>5. 0 \in S /\ \A k \in 1..n : k - 1 \in S => k \in S
  <2> HIDE DEF P
  <2>1. \A k \in 1..n : k \in 0..n
    OBVIOUS
  <2> QED
    BY <1>3, <1>4, <2>1
<1>6. n \in S
  <2> HIDE DEF S
  <2> QED
    BY <1>5, UpTo
<1>7. P(n)
  BY <1>6
<1> QED
  BY <1>2, <1>7

\* f holds what is kept after each of the n events of s.
Firsts(f, base, n, s) ==
    /\ DOMAIN f = 0..n /\ f[0] = base
    /\ \A k \in 1..n : f[k] = KeepFirst(f[k - 1], s[k])
    /\ KeepFirsts(base, s) = f[n]

\* The events are told apart one by one.
LEMMA FirstsFold ==
    ASSUME NEW base, NEW n \in Nat, NEW s, DOMAIN s = 1..n
    PROVE  \E f : Firsts(f, base, n, s)
<1> DEFINE IsFold(g, D) ==
        g = [t \in SUBSET D |->
                IF t = {} THEN base ELSE KeepFirst(g[t \ {Max(t)}], s[Max(t)])]
           Folds(m) == \E g : IsFold(g, 1..m)
<1>1. Folds(0)
  <2>1. IsFold([t \in SUBSET (1..0) |-> base], 1..0)
    OBVIOUS
  <2> QED
    BY <2>1
<1>2. ASSUME NEW m \in Nat, Folds(m) PROVE Folds(m + 1)
  <2>1. PICK g : IsFold(g, 1..m)
    BY <1>2
  <2> DEFINE h == [t \in SUBSET (1..(m + 1)) |->
                      IF m + 1 \in t THEN KeepFirst(g[t \ {m + 1}], s[m + 1]) ELSE g[t]]
  <2>2. ASSUME NEW t \in SUBSET (1..(m + 1))
        PROVE  h[t] = IF t = {} THEN base ELSE KeepFirst(h[t \ {Max(t)}], s[Max(t)])
    <3>1. CASE m + 1 \in t
      <4>1. Max(t) = m + 1
        BY <3>1, LargestIs
      <4>2. t \ {m + 1} \in SUBSET (1..(m + 1)) /\ m + 1 \notin t \ {m + 1}
        OBVIOUS
      <4>3. t \ {m + 1} \in SUBSET (1..m)
        OBVIOUS
      <4>4. h[t] = KeepFirst(g[t \ {m + 1}], s[m + 1]) /\ h[t \ {m + 1}] = g[t \ {m + 1}]
        BY <3>1, <4>2
      <4> HIDE DEF h
      <4> QED
        BY <3>1, <4>1, <4>4
    <3>2. CASE m + 1 \notin t
      <4>1. t \in SUBSET (1..m)
        BY <3>2
      <4>2. t \ {Max(t)} \in SUBSET (1..(m + 1)) /\ m + 1 \notin t \ {Max(t)}
        BY <3>2
      <4>3. h[t] = g[t] /\ h[t \ {Max(t)}] = g[t \ {Max(t)}]
        BY <3>2, <4>2
      <4>4. g[t] = IF t = {} THEN base ELSE KeepFirst(g[t \ {Max(t)}], s[Max(t)])
        BY <2>1, <4>1
      <4> HIDE DEF h
      <4> QED
        BY <4>3, <4>4
    <3> QED
      BY <3>1, <3>2
  <2>3. IsFold(h, 1..(m + 1))
    <3>1. h = [t \in SUBSET (1..(m + 1)) |-> h[t]]
      OBVIOUS
    <3> HIDE DEF h
    <3> QED
      BY <2>2, <3>1
  <2> QED
    BY <2>3
<1>3. Folds(n)
  <2> DEFINE bad == {m \in Nat : ~Folds(m)}
  <2> HIDE DEF Folds
  <2>1. ASSUME bad # {} PROVE FALSE
    <3>1. bad \in SUBSET Nat
      OBVIOUS
    <3>2. PICK m \in bad : \A l \in bad : m <= l
      BY <2>1, <3>1, LeastNatural
    <3>3. m \in Nat /\ m # 0 /\ ~Folds(m)
      BY <1>1
    <3>4. m - 1 \in Nat /\ m - 1 \notin bad /\ (m - 1) + 1 = m
      BY <3>2, <3>3
    <3> QED
      BY <1>2, <3>3, <3>4
  <2> QED
    BY <2>1
<1> DEFINE iter == CHOOSE g : IsFold(g, DOMAIN s)
<1>4. KeepFirsts(base, s) = iter[DOMAIN s]
  BY DEF KeepFirsts, FoldLeft, MapThenFoldSet
<1>5. IsFold(iter, 1..n)
  <2> HIDE DEF IsFold
  <2> QED
    BY <1>3
<1> HIDE DEF iter
<1> DEFINE vals == [k \in 0..n |-> iter[1..k]]
<1>6. vals[0] = base
  <2>1. vals[0] = iter[{}]
    <3>1. 1..0 = {} /\ 0 \in 0..n
      OBVIOUS
    <3> QED
      BY <3>1
  <2> QED
    BY <1>5, <2>1
<1>7. ASSUME NEW k \in 1..n PROVE vals[k] = KeepFirst(vals[k - 1], s[k])
  <2>1. Max(1..k) = k
    <3>1. k \in 1..k /\ 1..k \subseteq Nat /\ \A x \in 1..k : x <= k
      OBVIOUS
    <3> QED
      BY <3>1, LargestIs
  <2>2. 1..k # {} /\ (1..k) \ {k} = 1..(k - 1) /\ 1..k \in SUBSET (1..n)
    OBVIOUS
  <2>3. vals[k] = iter[1..k] /\ vals[k - 1] = iter[1..(k - 1)]
    OBVIOUS
  <2>4. iter[1..k] = KeepFirst(iter[(1..k) \ {k}], s[k])
    BY <1>5, <2>1, <2>2
  <2> HIDE DEF vals
  <2> QED
    BY <2>2, <2>3, <2>4
<1>8. KeepFirsts(base, s) = vals[n] /\ DOMAIN vals = 0..n
  BY <1>4
<1> HIDE DEF vals
<1> QED
  BY <1>6, <1>7, <1>8 DEF Firsts

LEMMA DedupIs ==
    ASSUME NEW s, s \in Seq(Range(s))
    PROVE  Range(Dedup(s)) = Range(s)
<1> DEFINE n == Len(s)
<1>1. n \in Nat /\ DOMAIN s = 1..n
  BY LenProperties
<1> HIDE DEF n
<1>2. PICK f : Firsts(f, <<>>, n, s)
  BY <1>1, FirstsFold
<1>3. /\ f[0] = <<>> /\ Dedup(s) = f[n]
      /\ \A k \in 1..n : f[k] = KeepFirst(f[k - 1], s[k])
  BY <1>2 DEF Firsts, Dedup
<1> DEFINE P(k) == /\ f[k] \in Seq(Range(f[k]))
                   /\ \A e : e \in Range(f[k]) <=> \E i \in 1..k : e = s[i]
           S == {k \in 0..n : P(k)}
<1>4. P(0)
  <2>1. <<>> \in Seq(Range(<<>>)) /\ \A e : e \notin Range(<<>>)
    BY EmptySeq DEF Range
  <2> QED
    BY <1>3, <2>1
<1>5. ASSUME NEW k \in 1..n, P(k - 1) PROVE P(k)
  <2> DEFINE old == f[k - 1]
             new == f[k]
  <2>1. /\ old \in Seq(Range(old))
        /\ \A e : e \in Range(old) <=> \E i \in 1..(k - 1) : e = s[i]
    BY <1>5
  <2>2. new = IF s[k] \in Range(old) THEN old ELSE Append(old, s[k])
    BY <1>3 DEF KeepFirst
  <2> HIDE DEF old, new
  <2>3. /\ Range(Append(old, s[k])) = Range(old) \union {s[k]}
        /\ Append(old, s[k]) \in Seq(Range(Append(old, s[k])))
    BY <2>1, AppendWider
  <2>4. /\ new \in Seq(Range(new))
        /\ \A e : e \in Range(new) <=> e \in Range(old) \/ e = s[k]
    BY <2>1, <2>2, <2>3
  <2>5. \A i : i \in 1..k <=> i \in 1..(k - 1) \/ i = k
    BY <1>1
  <2>6. \A e : (\E i \in 1..k : e = s[i]) <=> (\E i \in 1..(k - 1) : e = s[i]) \/ e = s[k]
    BY <2>5, ZenonT(60)
  <2>7. \A e : e \in Range(new) <=> \E i \in 1..k : e = s[i]
    BY <2>1, <2>4, <2>6, ZenonT(60)
  <2> QED
    BY <2>4, <2>7 DEF new
<1>6. 0 \in S /\ \A k \in 1..n : k - 1 \in S => k \in S
  <2> HIDE DEF P
  <2>1. \A k \in 1..n : k \in 0..n
    BY <1>1
  <2> QED
    BY <1>1, <1>4, <1>5, <2>1
<1>7. n \in S
  <2> HIDE DEF S
  <2> QED
    BY <1>1, <1>6, UpTo
<1>8. P(n)
  BY <1>7
<1>9. \A e : e \in Range(s) <=> \E i \in 1..n : e = s[i]
  BY <1>1 DEF Range
<1> QED
  BY <1>3, <1>8, <1>9

-----------------------------------------------------------------------------
(* Translation: the directories and the effects that the fold has.         *)

Forked(call, t) == Works(call) /\ Clones(call, t)

LEMMA LineMoves ==
    ASSUME NEW out, Shaped(out), NEW x \in SysLines, NEW o, o = RecordLine(out, x)
    PROVE  /\ \A u : Forked(x.call, u) => /\ Span(o, u) = NoSpan
                                          /\ Attr(o, u) = Attr(out, x.tid)
                                          /\ Cwd(o, u) = Cwd(out, x.tid)
           /\ \A u : ~Forked(x.call, u) =>
                 /\ Span(o, u) = Span(out, u)
                 /\ ~RawGit(x) => Attr(o, u) = Attr(out, u)
                 /\ u # x.tid => Cwd(o, u) = Cwd(out, u)
           /\ ~Forked(x.call, x.tid) => Cwd(o, x.tid) = After(x.call, Cwd(out, x.tid))
           /\ o.open = out.open
           /\ o.unsupported = Absent => out.unsupported = Absent /\ ~RawGit(x)
<1> DEFINE p == RecordLine(out, x)
<1>1. /\ p.open = out.open
      /\ RawGit(x) => p.unsupported # Absent
      /\ out.unsupported # Absent => p.unsupported # Absent
  BY LineOpens
<1>2. \A u : Span(p, u) = IF Works(x.call) /\ x.call.name = "clone" /\ u = x.call.child
                            THEN NoSpan ELSE Span(out, u)
  BY LineDoes, ZenonT(120)
<1>3. \A u : Attr(p, u) = IF Works(x.call) /\ x.call.name = "clone" /\ u = x.call.child
                            THEN Attr(out, x.tid)
                          ELSE IF RawGit(x) /\ u = x.tid THEN "git"
                          ELSE Attr(out, u)
  BY LineDoes, ZenonT(120)
<1>4. \A u : Cwd(p, u) = IF Works(x.call) /\ x.call.name = "clone" /\ u = x.call.child
                           THEN Cwd(out, x.tid)
                         ELSE IF Works(x.call) /\ x.call.name \in {"chdir", "fchdir"} /\ u = x.tid
                           THEN Goes(x.call, Cwd(out, x.tid))
                         ELSE Cwd(out, u)
  BY LineDoes, ZenonT(120)
<1> HIDE DEF p
<1>5. \A u : Forked(x.call, u) <=> Works(x.call) /\ x.call.name = "clone" /\ u = x.call.child
  BY DEF Forked, Clones
<1>6. o = p
  BY DEF p
<1>7. \A u : Forked(x.call, u) => /\ Span(p, u) = NoSpan
                                  /\ Attr(p, u) = Attr(out, x.tid)
                                  /\ Cwd(p, u) = Cwd(out, x.tid)
  BY <1>2, <1>3, <1>4, <1>5, ZenonT(60)
<1>8. \A u : ~Forked(x.call, u) => /\ Span(p, u) = Span(out, u)
                                   /\ ~RawGit(x) => Attr(p, u) = Attr(out, u)
                                   /\ u # x.tid => Cwd(p, u) = Cwd(out, u)
  BY <1>2, <1>3, <1>4, <1>5, ZenonT(60)
<1>9. ~Forked(x.call, x.tid) => Cwd(p, x.tid) = After(x.call, Cwd(out, x.tid))
  <2>1. CASE Works(x.call) /\ x.call.name \in {"chdir", "fchdir"}
    BY <1>4, <1>5, <2>1, ZenonT(60) DEF After
  <2>2. CASE ~(Works(x.call) /\ x.call.name \in {"chdir", "fchdir"})
    BY <1>4, <1>5, <2>2, ZenonT(60) DEF After
  <2> QED
    BY <2>1, <2>2
<1> QED
  BY <1>1, <1>6, <1>7, <1>8, <1>9

LEMMA BeginStates ==
    ASSUME NEW out, Shaped(out), NEW r
    PROVE  LET o == RecordBegin(out, r)
               git == IsGitBuiltin(r.builtin)
           IN
           \A u : /\ Cwd(o, u) = Cwd(out, u) /\ Attr(o, u) = Attr(out, u)
                  /\ Span(o, u) = IF git /\ u = r.tid THEN r.id ELSE Span(out, u)
BY BeginDoes

LEMMA EndStates ==
    ASSUME NEW out, Shaped(out), NEW r, r.id \in DOMAIN out.open
    PROVE  LET o == RecordEnd(out, r)
               b == out.open[r.id]
               git == IsGitBuiltin(b.builtin)
           IN
           \A u : /\ Cwd(o, u) = Cwd(out, u) /\ Attr(o, u) = Attr(out, u)
                  /\ Span(o, u) = IF git /\ u = b.tid THEN NoSpan ELSE Span(out, u)
BY EndDoes

LEMMA BeginMoves ==
    ASSUME NEW out, Shaped(out), NEW r, NEW o, o = RecordBegin(out, r),
           r.id \notin DOMAIN out.open
    PROVE  /\ \A u : Cwd(o, u) = Cwd(out, u) /\ Attr(o, u) = Attr(out, u)
           /\ \A u : IsGitBuiltin(r.builtin) /\ u = r.tid => Span(o, u) = r.id
           /\ \A u : ~(IsGitBuiltin(r.builtin) /\ u = r.tid) => Span(o, u) = Span(out, u)
           /\ DOMAIN o.open = DOMAIN out.open \union {r.id}
           /\ o.events = out.events /\ o.gitReads = out.gitReads /\ o.wrote = out.wrote
           /\ o.unsupported = Absent => /\ out.unsupported = Absent
                                        /\ IsGitBuiltin(r.builtin) => Span(out, r.tid) = NoSpan
<1> DEFINE p == RecordBegin(out, r)
<1>1. /\ DOMAIN p.open = DOMAIN out.open \union {r.id}
      /\ out.unsupported # Absent => p.unsupported # Absent
  BY BeginOpens
<1>2. \A u : /\ Cwd(p, u) = Cwd(out, u) /\ Attr(p, u) = Attr(out, u)
             /\ Span(p, u) = IF IsGitBuiltin(r.builtin) /\ u = r.tid THEN r.id ELSE Span(out, u)
  BY BeginStates
<1>4. p.events = out.events /\ p.gitReads = out.gitReads /\ p.wrote = out.wrote
  BY BeginDoes
<1>5. ASSUME IsGitBuiltin(r.builtin), Span(out, r.tid) # NoSpan PROVE p.unsupported # Absent
  <2> DEFINE state == StateFor(out.states, r.tid)
             open == SetState(out.open, r.id, r)
             opened == [out EXCEPT !.open = open]
             states == SetState(opened.states, r.tid, [state EXCEPT !.span = r.id])
             marked == [opened EXCEPT !.states = states]
             refused == [marked EXCEPT !.unsupported = "overlapping spans"]
  <2>1. p = Refuse(marked, "overlapping spans")
    BY <1>5 DEF RecordBegin, Span
  <2>2. IsOut(out)
    BY DEF Shaped
  <2> HIDE DEF open
  <2>3. IsOut(opened)
    BY <2>2 DEF IsOut
  <2> HIDE DEF opened, states
  <2>4. IsOut(marked)
    BY <2>3 DEF IsOut
  <2> HIDE DEF marked
  <2>5. refused.unsupported = "overlapping spans"
    BY <2>4 DEF IsOut
  <2> HIDE DEF p, refused
  <2>6. p = IF marked.unsupported = Absent THEN refused ELSE marked
    BY <2>1 DEF Refuse, refused
  <2> QED
    BY <2>5, <2>6 DEF Absent
<1> HIDE DEF p
<1>6. o = p
  BY DEF p
<1>7. \A u : IsGitBuiltin(r.builtin) /\ u = r.tid => Span(p, u) = r.id
  BY <1>2, ZenonT(60)
<1>8. \A u : ~(IsGitBuiltin(r.builtin) /\ u = r.tid) => Span(p, u) = Span(out, u)
  BY <1>2, ZenonT(60)
<1> QED
  BY <1>1, <1>2, <1>4, <1>5, <1>6, <1>7, <1>8

LEMMA EndMoves ==
    ASSUME NEW out, Shaped(out), NEW r, NEW o, o = RecordEnd(out, r),
           r.id \in DOMAIN out.open, NEW b, b = out.open[r.id]
    PROVE  /\ \A u : Cwd(o, u) = Cwd(out, u) /\ Attr(o, u) = Attr(out, u)
           /\ \A u : IsGitBuiltin(b.builtin) /\ u = b.tid => Span(o, u) = NoSpan
           /\ \A u : ~(IsGitBuiltin(b.builtin) /\ u = b.tid) => Span(o, u) = Span(out, u)
           /\ DOMAIN o.open = DOMAIN out.open \ {r.id}
           /\ o.gitReads = out.gitReads /\ o.wrote = out.wrote
           /\ IsGitBuiltin(b.builtin) /\ r.exit = 0 /\ b.builtin # "git" /\ SeedResource(b.path)
                 => o.events = Append(out.events, Event("Stage", b.path))
           /\ ~(IsGitBuiltin(b.builtin) /\ r.exit = 0 /\ b.builtin # "git" /\ SeedResource(b.path))
                 => o.events = out.events
           /\ o.unsupported = Absent => out.unsupported = Absent
<1> DEFINE p == RecordEnd(out, r)
           c == out.open[r.id]
<1>1. DOMAIN p.open = DOMAIN out.open \ {r.id}
      /\ (out.unsupported # Absent => p.unsupported # Absent)
  BY EndOpens
<1>2. \A u : /\ Cwd(p, u) = Cwd(out, u) /\ Attr(p, u) = Attr(out, u)
             /\ Span(p, u) = IF IsGitBuiltin(c.builtin) /\ u = c.tid THEN NoSpan ELSE Span(out, u)
  BY EndStates
<1>4. p.gitReads = out.gitReads /\ p.wrote = out.wrote
  BY EndDoes
<1>5. p.events = IF IsGitBuiltin(c.builtin) /\ r.exit = 0 /\ c.builtin # "git" /\ SeedResource(c.path)
                   THEN Append(out.events, Event("Stage", c.path)) ELSE out.events
  BY EndDoes, ZenonT(120)
<1> HIDE DEF p, c
<1>6. o = p /\ b = c
  BY DEF p, c
<1>7. \A u : IsGitBuiltin(c.builtin) /\ u = c.tid => Span(p, u) = NoSpan
  BY <1>2, ZenonT(60)
<1>8. \A u : ~(IsGitBuiltin(c.builtin) /\ u = c.tid) => Span(p, u) = Span(out, u)
  BY <1>2, ZenonT(60)
<1>9. /\ IsGitBuiltin(c.builtin) /\ r.exit = 0 /\ c.builtin # "git" /\ SeedResource(c.path)
            => p.events = Append(out.events, Event("Stage", c.path))
      /\ ~(IsGitBuiltin(c.builtin) /\ r.exit = 0 /\ c.builtin # "git" /\ SeedResource(c.path))
            => p.events = out.events
  BY <1>5, ZenonT(60)
<1> QED
  BY <1>1, <1>2, <1>4, <1>6, <1>7, <1>8, <1>9, ZenonT(60)

\* The item that is observed: a line of the log, or an edge of a builtin.
LineItem(x, out, o) == x \in Returned /\ x \in SysLines /\ o = RecordLine(out, x)
BeginItem(x, i, out, o) ==
    /\ i \in DOMAIN records /\ records[i] = x /\ records[i].k = "b" /\ x.id = i
    /\ i \notin DOMAIN out.open /\ o = RecordBegin(out, x)
EndItem(x, i, b, out, o) ==
    /\ i \in DOMAIN records /\ records[i] = x /\ records[i].k = "e" /\ x.id = b
    /\ b \in DOMAIN out.open /\ b \in DOMAIN records /\ out.open[b] = records[b]
    /\ i \in EndsOf(b) /\ o = RecordEnd(out, x)

LEMMA ItemCases ==
    ASSUME LogInv, dumped, NEW k \in 1..Len(Evidence), NEW out, FoldOpen(out, k - 1),
           NEW x, x = Evidence[k], NEW o, o = Observe(out, x)
    PROVE  \/ LineItem(x, out, o)
           \/ \E i \in DOMAIN records : BeginItem(x, i, out, o)
           \/ \E i \in DOMAIN records, b \in DOMAIN records : EndItem(x, i, b, out, o)
<1>1. /\ x \in Items /\ x \in Returned \union Range(records)
      /\ Seen(k) = Seen(k - 1) \union {x} /\ x \notin Seen(k - 1)
      /\ \A y \in Seen(k - 1) : NotAfter(y, x)
      /\ \A y \in Returned \union Range(records) : y \in Seen(k) \/ NotAfter(x, y)
  BY SeenStep
<1>2. /\ Shaped(out)
      /\ \A id : id \in DOMAIN out.open <=>
            /\ id \in DOMAIN records /\ records[id].k = "b" /\ records[id] \in Seen(k - 1)
            /\ \A e \in EndsOf(id) : records[e] \notin Seen(k - 1)
      /\ \A id \in DOMAIN out.open : out.open[id] = records[id]
  BY DEF FoldOpen
<1>3. Typed /\ Spanned
  BY DEF LogInv
<1>4. \A i \in DOMAIN records : records[i] \in Items /\ records[i] \notin SysLines
                                 /\ (records[i].k = "b" => records[i] \in Begins)
                                 /\ (records[i].k = "e" => records[i] \in Ends)
                                 /\ records[i].k \in {"b", "e"}
                                 /\ records[i] \in Range(records)
  <2> TAKE i \in DOMAIN records
  <2>1. records[i] \in Begins \union Ends
    BY <1>3, ElementOfSeq DEF Typed
  <2> QED
    BY <2>1, ItemIs DEF Items, Range
<1>5. CASE x \in SysLines
  <2>1. o = RecordLine(out, x)
    BY <1>1, <1>5, ItemIs DEF Observe
  <2>2. x \in Returned
    BY <1>1, <1>4, <1>5 DEF Range
  <2> QED
    BY <1>5, <2>1, <2>2 DEF LineItem
<1>6. CASE x \notin SysLines
  <2>1. PICK i \in DOMAIN records : records[i] = x
    BY <1>1, <1>6, <1>3, ReturnedTyped DEF Range
  <2>2. CASE x.k = "b"
    <3>1. x \in Begins /\ x.id = i /\ records[i].k = "b" /\ o = RecordBegin(out, x)
      BY <1>1, <1>3, <1>4, <2>1, <2>2, ItemIs DEF Observe, Spanned, Numbered
    <3>2. i \notin DOMAIN out.open
      BY <1>1, <1>2, <2>1
    <3>3. BeginItem(x, i, out, o)
      BY <2>1, <3>1, <3>2 DEF BeginItem
    <3> QED
      BY <3>3
  <2>3. CASE x.k = "e"
    <3>1. x \in Ends /\ records[i].k = "e" /\ o = RecordEnd(out, x)
      BY <1>1, <1>4, <2>1, <2>3, ItemIs DEF Observe
    <3>2. PICK b : b = x.id
      OBVIOUS
    <3>3. b \in DOMAIN records /\ records[b].k = "b" /\ i \in EndsOf(b)
      BY <1>3, <2>1, <3>1, <3>2 DEF Spanned, Paired, EndsOf, EdgesOf
    <3>4. EndsOf(b) = {i} /\ ~NotAfter(records[i], records[b])
      BY <3>3, EndAfter
    <3>5. b \in DOMAIN out.open /\ out.open[b] = records[b]
      <4>1. records[b] \in Seen(k) /\ records[b] # x
        BY <1>1, <1>4, <2>1, <3>1, <3>3, <3>4
      <4> QED
        BY <1>1, <1>2, <2>1, <3>3, <3>4, <4>1
    <3>6. EndItem(x, i, b, out, o)
      BY <2>1, <3>1, <3>2, <3>3, <3>5 DEF EndItem
    <3> QED
      BY <3>3, <3>6
  <2> QED
    BY <1>4, <2>1, <2>2, <2>3
<1> QED
  BY <1>5, <1>6

\* What was seen before a line of the log is what has an earlier stamp.
LEMMA LineOrder ==
    ASSUME LogInv, dumped, NEW k \in 1..Len(Evidence), NEW x, x = Evidence[k], x \in Returned
    PROVE  /\ x \in SysLines /\ x.tid \in Tids /\ x.ts \in Nat
           /\ \A i \in DOMAIN records :
                 /\ records[i] \in Seen(k) <=> records[i] \in Seen(k - 1)
                 /\ records[i] \in Seen(k - 1) => records[i].ts <= x.ts
                 /\ records[i].tid = x.tid => (records[i] \in Seen(k - 1) <=> records[i].ts < x.ts)
           /\ \A z \in Returned :
                 /\ z \in Seen(k) <=> z \in Seen(k - 1) \/ z = x
                 /\ z \in Seen(k - 1) => z.ts <= x.ts
                 /\ z.ts < x.ts => z \in Seen(k - 1)
                 /\ z.tid = x.tid => (z \in Seen(k - 1) <=> z.ts < x.ts)
<1>1. /\ Seen(k) = Seen(k - 1) \union {x} /\ x \notin Seen(k - 1)
      /\ \A y \in Seen(k - 1) : NotAfter(y, x)
      /\ \A y \in Returned \union Range(records) : y \in Seen(k) \/ NotAfter(x, y)
  BY SeenStep
<1>2. Typed /\ Logged /\ Stamped
  BY DEF LogInv
<1>3. /\ Returned \subseteq SysLines
      /\ \A z \in Returned : /\ z.tid \in Tids /\ z.ts \in Nat
                             /\ z.call \in SysCalls \union ExitCalls
                             /\ Entered(z.tid, z.ts, z.call)
  BY <1>2, ReturnedTyped
<1>4. \A i \in DOMAIN records : /\ records[i] \in Range(records) /\ records[i].ts \in Nat
                                /\ records[i] \notin SysLines
  <2> TAKE i \in DOMAIN records
  <2>1. records[i] \in Begins \union Ends
    BY <1>2, ElementOfSeq DEF Typed
  <2> QED
    BY <2>1, ItemIs DEF Items, Range
<1>5. ASSUME NEW i \in DOMAIN records
      PROVE  /\ records[i] \in Seen(k) <=> records[i] \in Seen(k - 1)
             /\ records[i] \in Seen(k - 1) => records[i].ts <= x.ts
             /\ records[i].tid = x.tid => (records[i] \in Seen(k - 1) <=> records[i].ts < x.ts)
  <2>1. records[i] # x
    BY <1>3, <1>4
  <2>2. records[i] \in Seen(k) <=> records[i] \in Seen(k - 1)
    BY <1>1, <2>1
  <2>3. records[i] \in Seen(k - 1) => records[i].ts <= x.ts
    BY <1>1, <1>3, <1>4 DEF NotAfter
  <2>4. records[i] \notin Seen(k - 1) => x.ts <= records[i].ts
    BY <1>1, <1>3, <1>4, <2>2 DEF NotAfter
  <2>5. records[i].tid = x.tid => records[i].ts # x.ts
    BY <1>2, <1>3 DEF Stamped
  <2> QED
    BY <1>3, <1>4, <2>2, <2>3, <2>4, <2>5
<1>6. ASSUME NEW z \in Returned
      PROVE  /\ z \in Seen(k) <=> z \in Seen(k - 1) \/ z = x
             /\ z \in Seen(k - 1) => z.ts <= x.ts
             /\ z.ts < x.ts => z \in Seen(k - 1)
             /\ z.tid = x.tid => (z \in Seen(k - 1) <=> z.ts < x.ts)
  <2>1. z \in Seen(k) <=> z \in Seen(k - 1) \/ z = x
    BY <1>1
  <2>2. z \in Seen(k - 1) => z.ts <= x.ts
    BY <1>1, <1>3 DEF NotAfter
  <2>3. z \notin Seen(k - 1) /\ z # x => x.ts <= z.ts
    BY <1>1, <1>3, <2>1 DEF NotAfter
  <2>4. z.tid = x.tid /\ z.ts = x.ts => z = x
    BY <1>2 DEF Logged, Returned, Range
  <2> QED
    BY <1>1, <1>3, <2>1, <2>2, <2>3, <2>4
<1> QED
  BY <1>3, <1>5, <1>6

\* Nothing is in flight.
Settled == \A t \in Tids : ~InFlight(t)

\* A thread that shows in the log was cloned by a line that comes before.
Known(t, k) == t = Root \/ \E x \in Returned : x \in Seen(k) /\ Forked(x.call, t)

LEMMA ForkedIs ==
    ASSUME LogInv, Told, NEW x \in Returned, NEW t \in Tids, Forked(x.call, t)
    PROVE  /\ Cloned(x.tid, x.ts, t) /\ x.tid \in Tids /\ x.ts \in Nat
           /\ \A z \in Returned : z.tid = t => x.ts < z.ts
           /\ \A i \in DOMAIN records : records[i].tid = t => x.ts < records[i].ts
<1>1. /\ x.tid \in Tids /\ x.ts \in Nat /\ Entered(x.tid, x.ts, x.call)
      /\ x.call \in SysCalls \union ExitCalls
  BY ReturnedTyped DEF LogInv
<1>2. x.call \in SysCalls /\ Clones(x.call, t)
  BY <1>1 DEF Forked, Works, ExitCalls
<1>3. Cloned(x.tid, x.ts, t)
  BY <1>1, <1>2 DEF Cloned
<1> QED
  BY <1>1, <1>3 DEF Told, Parented

LEMMA KnownBefore ==
    ASSUME LogInv, Told, Settled, dumped, NEW k \in 1..Len(Evidence),
           NEW x, x = Evidence[k], x \in Returned
    PROVE  Known(x.tid, k - 1)
<1>1. x.tid \in Tids
  BY LineOrder
<1>2. CASE x.tid = Root
  BY <1>2 DEF Known
<1>3. CASE x.tid # Root
  <2>1. PICK u \in Tids, s \in Nat : Cloned(u, s, x.tid)
    BY <1>1, <1>3 DEF Told, Parented
  <2>2. PICK c \in SysCalls : Entered(u, s, c) /\ Clones(c, x.tid)
    BY <2>1 DEF Cloned
  <2>3. PICK y \in Returned : y.tid = u /\ y.ts = s /\ y.call = c
    BY <2>2 DEF Settled, Entered
  <2>4. c.ret = "ok" /\ c.name # "exited"
    <3>1. PICK W \in Homes : CwdOk(W)
      BY DEF Told
    <3>2. Heard(c, W[u][s])
      BY <2>2, <3>1 DEF CwdOk
    <3> QED
      BY <2>2, <3>2 DEF Heard, Clones
  <2>5. Forked(y.call, x.tid)
    BY <2>2, <2>3, <2>4 DEF Forked, Works
  <2>6. y.ts < x.ts
    BY <1>1, <2>5, ForkedIs
  <2>7. y \in Seen(k - 1)
    BY <2>6, LineOrder
  <2> QED
    BY <2>5, <2>7 DEF Known
<1> QED
  BY <1>2, <1>3

\* Unless something is refused, a thread is inside the git span that is open.
FoldSpan(out) ==
    /\ \A t : Attr(out, t) = "shell"
    /\ \A id \in DOMAIN out.open : IsGit(id) => Span(out, records[id].tid) = id
    /\ \A t : Span(out, t) # NoSpan =>
          /\ Span(out, t) \in DOMAIN out.open
          /\ IsGit(Span(out, t)) /\ records[Span(out, t)].tid = t

LEMMA SpanSeen ==
    ASSUME LogInv, dumped, NEW k \in 1..Len(Evidence), NEW x, x = Evidence[k], x \in Returned,
           NEW out, FoldOpen(out, k - 1), FoldSpan(out)
    PROVE  Span(out, x.tid) # NoSpan <=> InSpan(x.tid, x.ts)
<1>1. /\ x.ts \in Nat
      /\ \A i \in DOMAIN records : records[i].tid = x.tid =>
            (records[i] \in Seen(k - 1) <=> records[i].ts < x.ts)
      /\ \A i \in DOMAIN records : records[i].tid = x.tid => records[i].ts # x.ts
  <2>1. /\ x.ts \in Nat /\ x.tid \in Tids /\ x.call \in SysCalls \union ExitCalls
        /\ Entered(x.tid, x.ts, x.call)
    BY ReturnedTyped DEF LogInv
  <2> QED
    BY <2>1, LineOrder DEF LogInv, Stamped
<1>2. \A i \in DOMAIN records : records[i].ts \in Nat /\ i # NoSpan
  <2>1. \A i \in DOMAIN records : records[i].ts \in Nat
    BY LastTyped DEF Clocked
  <2>2. 0 \notin DOMAIN records
    BY LenProperties DEF LogInv, Typed
  <2> QED
    BY <2>1, <2>2 DEF NoSpan
<1>3. /\ \A id : id \in DOMAIN out.open <=>
            /\ id \in DOMAIN records /\ records[id].k = "b" /\ records[id] \in Seen(k - 1)
            /\ \A e \in EndsOf(id) : records[e] \notin Seen(k - 1)
  BY DEF FoldOpen
<1>4. \A b \in DOMAIN records : \A e \in EndsOf(b) :
         e \in DOMAIN records /\ records[e].tid = records[b].tid
  BY DEF LogInv, Spanned, Paired, EndsOf, EdgesOf
<1>5. ASSUME InSpan(x.tid, x.ts) PROVE Span(out, x.tid) # NoSpan
  <2>1. PICK b \in DOMAIN records : /\ IsGit(b) /\ records[b].tid = x.tid /\ records[b].ts < x.ts
                                    /\ \A e \in EndsOf(b) : x.ts < records[e].ts
    BY <1>5 DEF InSpan
  <2>2. \A e \in EndsOf(b) : records[e] \notin Seen(k - 1)
    BY <1>1, <1>2, <1>4, <2>1
  <2>3. b \in DOMAIN out.open
    BY <1>1, <1>3, <2>1, <2>2 DEF IsGit
  <2> QED
    BY <1>2, <2>1, <2>3 DEF FoldSpan
<1>6. ASSUME Span(out, x.tid) # NoSpan PROVE InSpan(x.tid, x.ts)
  <2>1. PICK b : b \in DOMAIN out.open /\ IsGit(b) /\ records[b].tid = x.tid
    BY <1>6 DEF FoldSpan
  <2>2. b \in DOMAIN records /\ records[b] \in Seen(k - 1)
        /\ \A e \in EndsOf(b) : records[e] \notin Seen(k - 1)
    BY <1>3, <2>1
  <2>3. \A e \in EndsOf(b) : x.ts < records[e].ts
    BY <1>1, <1>2, <1>4, <2>1, <2>2
  <2> QED
    BY <1>1, <2>1, <2>2, <2>3 DEF InSpan
<1> QED
  BY <1>5, <1>6

LEMMA SpanStep ==
    ASSUME LogInv, Told, dumped, NEW k \in 1..Len(Evidence), NEW out, FoldOpen(out, k - 1),
           NEW x, x = Evidence[k], NEW o, o = Observe(out, x),
           out.unsupported = Absent => FoldSpan(out), o.unsupported = Absent
    PROVE  FoldSpan(o) /\ FoldSpan(out) /\ out.unsupported = Absent
<1>0. Shaped(out)
  BY DEF FoldOpen
<1>1. CASE LineItem(x, out, o)
  <2>1. x \in Returned /\ x \in SysLines /\ o = RecordLine(out, x) /\ x.tid \in Tids
    BY <1>1, LineOrder DEF LineItem
  <2>2. /\ \A u : Forked(x.call, u) => /\ Span(o, u) = NoSpan
                                       /\ Attr(o, u) = Attr(out, x.tid)
        /\ \A u : ~Forked(x.call, u) =>
              /\ Span(o, u) = Span(out, u)
              /\ ~RawGit(x) => Attr(o, u) = Attr(out, u)
        /\ o.open = out.open
        /\ o.unsupported = Absent => out.unsupported = Absent /\ ~RawGit(x)
    BY <1>0, <2>1, LineMoves
  <2>3. FoldSpan(out) /\ out.unsupported = Absent /\ ~RawGit(x)
    BY <2>2
  \* Nothing was begun by a thread before it was cloned.
  <2>4. ASSUME NEW id \in DOMAIN out.open, Forked(x.call, records[id].tid) PROVE FALSE
    <3>1. id \in DOMAIN records /\ records[id] \in Seen(k - 1)
      BY DEF FoldOpen
    <3>2. records[id].ts <= x.ts /\ x.ts \in Nat
      BY <2>1, <3>1, LineOrder
    <3>3. records[id].tid \in Tids /\ records[id].ts \in Nat
      <4>1. records[id] \in Begins \union Ends
        BY <3>1, ElementOfSeq DEF LogInv, Typed
      <4> QED
        BY <4>1, ItemIs DEF Items
    <3>4. x.ts < records[id].ts
      BY <2>1, <2>4, <3>1, <3>3, ForkedIs
    <3> QED
      BY <3>2, <3>3, <3>4
  <2>5. \A t : Attr(o, t) = "shell"
    BY <2>2, <2>3 DEF FoldSpan
  <2>6. \A id \in DOMAIN o.open : IsGit(id) => Span(o, records[id].tid) = id
    BY <2>2, <2>3, <2>4 DEF FoldSpan
  <2>7. \A t : Span(o, t) # NoSpan =>
          /\ Span(o, t) \in DOMAIN o.open
          /\ IsGit(Span(o, t)) /\ records[Span(o, t)].tid = t
    BY <2>2, <2>3 DEF FoldSpan
  <2> QED
    BY <2>3, <2>5, <2>6, <2>7 DEF FoldSpan
<1>2. ASSUME NEW i \in DOMAIN records, BeginItem(x, i, out, o)
      PROVE  FoldSpan(o) /\ FoldSpan(out) /\ out.unsupported = Absent
  <2>1. /\ records[i] = x /\ records[i].k = "b" /\ x.id = i
        /\ i \notin DOMAIN out.open /\ o = RecordBegin(out, x)
    BY <1>2 DEF BeginItem
  <2>2. /\ \A u : Attr(o, u) = Attr(out, u)
        /\ \A u : IsGitBuiltin(x.builtin) /\ u = x.tid => Span(o, u) = i
        /\ \A u : ~(IsGitBuiltin(x.builtin) /\ u = x.tid) => Span(o, u) = Span(out, u)
        /\ DOMAIN o.open = DOMAIN out.open \union {i}
        /\ o.unsupported = Absent => /\ out.unsupported = Absent
                                     /\ IsGitBuiltin(x.builtin) => Span(out, x.tid) = NoSpan
    <3>1. x.id \notin DOMAIN out.open
      BY <2>1
    <3>2. /\ \A u : Attr(o, u) = Attr(out, u)
          /\ \A u : IsGitBuiltin(x.builtin) /\ u = x.tid => Span(o, u) = x.id
          /\ \A u : ~(IsGitBuiltin(x.builtin) /\ u = x.tid) => Span(o, u) = Span(out, u)
          /\ DOMAIN o.open = DOMAIN out.open \union {x.id}
          /\ o.unsupported = Absent => /\ out.unsupported = Absent
                                       /\ IsGitBuiltin(x.builtin) => Span(out, x.tid) = NoSpan
      BY <1>0, <2>1, <3>1, BeginMoves
    <3> QED
      BY <2>1, <3>2
  <2>3. FoldSpan(out) /\ out.unsupported = Absent /\ (IsGitBuiltin(x.builtin) => Span(out, x.tid) = NoSpan)
    BY <2>2
  <2>4. IsGit(i) <=> IsGitBuiltin(x.builtin)
    BY <2>1 DEF IsGit
  <2>5. \A id \in DOMAIN out.open : id # NoSpan
    <3>1. \A id \in DOMAIN out.open : id \in DOMAIN records
      BY DEF FoldOpen
    <3>2. 0 \notin DOMAIN records
      BY LenProperties DEF LogInv, Typed
    <3> QED
      BY <3>1, <3>2 DEF NoSpan
  <2>6. \A t : Attr(o, t) = "shell"
    BY <2>2, <2>3 DEF FoldSpan
  <2>7. \A id \in DOMAIN o.open : IsGit(id) => Span(o, records[id].tid) = id
    <3> TAKE id \in DOMAIN o.open
    <3>1. CASE id = i
      BY <2>1, <2>2, <2>4, <3>1
    <3>2. CASE id # i
      <4>1. id \in DOMAIN out.open
        BY <2>2, <3>2
      <4>2. ASSUME IsGit(id) PROVE Span(o, records[id].tid) = id
        <5>1. Span(out, records[id].tid) = id
          BY <2>3, <4>1, <4>2 DEF FoldSpan
        <5>2. ~(IsGitBuiltin(x.builtin) /\ records[id].tid = x.tid)
          BY <2>3, <2>5, <4>1, <5>1
        <5> QED
          BY <2>2, <5>1, <5>2
      <4> QED
        BY <4>2
    <3> QED
      BY <3>1, <3>2
  <2>8. \A t : Span(o, t) # NoSpan =>
          /\ Span(o, t) \in DOMAIN o.open
          /\ IsGit(Span(o, t)) /\ records[Span(o, t)].tid = t
    <3> TAKE t
    <3>1. CASE IsGitBuiltin(x.builtin) /\ t = x.tid
      BY <2>1, <2>2, <2>4, <3>1
    <3>2. CASE ~(IsGitBuiltin(x.builtin) /\ t = x.tid)
      <4>1. Span(o, t) = Span(out, t)
        BY <2>2, <3>2
      <4> QED
        BY <2>2, <2>3, <4>1 DEF FoldSpan
    <3> QED
      BY <3>1, <3>2
  <2> QED
    BY <2>3, <2>6, <2>7, <2>8 DEF FoldSpan
<1>3. ASSUME NEW i \in DOMAIN records, NEW b \in DOMAIN records, EndItem(x, i, b, out, o)
      PROVE  FoldSpan(o) /\ FoldSpan(out) /\ out.unsupported = Absent
  <2>1. /\ records[i] = x /\ x.id = b
        /\ b \in DOMAIN out.open /\ out.open[b] = records[b] /\ o = RecordEnd(out, x)
    BY <1>3 DEF EndItem
  <2>2. /\ \A u : Attr(o, u) = Attr(out, u)
        /\ \A u : IsGitBuiltin(records[b].builtin) /\ u = records[b].tid => Span(o, u) = NoSpan
        /\ \A u : ~(IsGitBuiltin(records[b].builtin) /\ u = records[b].tid) => Span(o, u) = Span(out, u)
        /\ DOMAIN o.open = DOMAIN out.open \ {b}
        /\ o.unsupported = Absent => out.unsupported = Absent
    <3>1. x.id \in DOMAIN out.open /\ records[b] = out.open[x.id]
      BY <2>1
    <3>2. /\ \A u : Attr(o, u) = Attr(out, u)
          /\ \A u : IsGitBuiltin(records[b].builtin) /\ u = records[b].tid => Span(o, u) = NoSpan
          /\ \A u : ~(IsGitBuiltin(records[b].builtin) /\ u = records[b].tid) => Span(o, u) = Span(out, u)
          /\ DOMAIN o.open = DOMAIN out.open \ {x.id}
          /\ o.unsupported = Absent => out.unsupported = Absent
      BY <1>0, <2>1, <3>1, EndMoves
    <3> QED
      BY <2>1, <3>2
  <2>3. FoldSpan(out) /\ out.unsupported = Absent
    BY <2>2
  <2>4. records[b].k = "b"
    BY <2>1 DEF FoldOpen
  <2>5. IsGit(b) <=> IsGitBuiltin(records[b].builtin)
    BY <2>4 DEF IsGit
  <2>6. \A t : Attr(o, t) = "shell"
    BY <2>2, <2>3 DEF FoldSpan
  <2>7. \A id \in DOMAIN o.open : IsGit(id) => Span(o, records[id].tid) = id
    <3> TAKE id \in DOMAIN o.open
    <3>1. id \in DOMAIN out.open /\ id # b
      BY <2>2
    <3>2. ASSUME IsGit(id) PROVE Span(o, records[id].tid) = id
      <4>1. Span(out, records[id].tid) = id
        BY <2>3, <3>1, <3>2 DEF FoldSpan
      <4>2. IsGit(b) => Span(out, records[b].tid) = b
        BY <2>1, <2>3 DEF FoldSpan
      <4>3. ~(IsGitBuiltin(records[b].builtin) /\ records[id].tid = records[b].tid)
        BY <2>5, <3>1, <4>1, <4>2
      <4> QED
        BY <2>2, <4>1, <4>3
    <3> QED
      BY <3>2
  <2>8. \A t : Span(o, t) # NoSpan =>
          /\ Span(o, t) \in DOMAIN o.open
          /\ IsGit(Span(o, t)) /\ records[Span(o, t)].tid = t
    <3> SUFFICES ASSUME NEW t, Span(o, t) # NoSpan
                 PROVE  /\ Span(o, t) \in DOMAIN o.open
                        /\ IsGit(Span(o, t)) /\ records[Span(o, t)].tid = t
      OBVIOUS
    <3>1. ~(IsGitBuiltin(records[b].builtin) /\ t = records[b].tid)
      BY <2>2
    <3>2. Span(o, t) = Span(out, t)
      BY <2>2, <3>1
    <3>3. /\ Span(out, t) \in DOMAIN out.open /\ IsGit(Span(out, t))
          /\ records[Span(out, t)].tid = t
      BY <2>3, <3>2 DEF FoldSpan
    <3>4. Span(out, t) # b
      BY <2>5, <3>1, <3>3
    <3> QED
      BY <2>2, <3>2, <3>3, <3>4
  <2> QED
    BY <2>3, <2>6, <2>7, <2>8 DEF FoldSpan
<1> QED
  BY <1>1, <1>2, <1>3, ItemCases

\* The directory that the fold has for a thread is the one in which it enters
\* the first of its calls that is not yet seen.
Passed(t, k, s) == \A z \in Returned : z.tid = t => (z \in Seen(k) <=> z.ts < s)
FoldCwd(out, k, W) == \A t \in Tids : Known(t, k) =>
    \A s \in Nat : Passed(t, k, s) => Cwd(out, t) = W[t][s]

LEMMA CwdSeen ==
    ASSUME LogInv, Told, Settled, dumped, NEW k \in 1..Len(Evidence),
           NEW x, x = Evidence[k], x \in Returned, NEW W, NEW out, FoldCwd(out, k - 1, W)
    PROVE  Cwd(out, x.tid) = W[x.tid][x.ts]
<1>1. x.tid \in Tids /\ x.ts \in Nat /\ Passed(x.tid, k - 1, x.ts)
  BY LineOrder DEF Passed
<1>2. Known(x.tid, k - 1)
  BY KnownBefore
<1> QED
  BY <1>1, <1>2 DEF FoldCwd

LEMMA CwdLine ==
    ASSUME LogInv, Told, Settled, dumped, NEW k \in 1..Len(Evidence),
           NEW x, x = Evidence[k], x \in Returned, NEW W, CwdOk(W),
           NEW out, Shaped(out), FoldCwd(out, k - 1, W), NEW o, o = RecordLine(out, x)
    PROVE  FoldCwd(o, k, W)
<1>1. /\ x \in SysLines /\ x.tid \in Tids /\ x.ts \in Nat
      /\ \A z \in Returned :
            /\ z \in Seen(k) <=> z \in Seen(k - 1) \/ z = x
            /\ z \in Seen(k - 1) => z.ts <= x.ts
            /\ z.tid = x.tid => (z \in Seen(k - 1) <=> z.ts < x.ts)
  BY LineOrder
<1>2. /\ \A u : Forked(x.call, u) => Cwd(o, u) = Cwd(out, x.tid)
      /\ \A u : ~Forked(x.call, u) /\ u # x.tid => Cwd(o, u) = Cwd(out, u)
      /\ ~Forked(x.call, x.tid) => Cwd(o, x.tid) = After(x.call, Cwd(out, x.tid))
  BY <1>1, LineMoves
<1>3. Cwd(out, x.tid) = W[x.tid][x.ts]
  BY CwdSeen
<1>4. \A z \in Returned : z.ts \in Nat
  BY ReturnedTyped DEF LogInv
<1> SUFFICES ASSUME NEW t \in Tids, Known(t, k), NEW s \in Nat, Passed(t, k, s)
             PROVE  Cwd(o, t) = W[t][s]
  BY DEF FoldCwd
<1>5. CASE Forked(x.call, t)
  <2>1. Cloned(x.tid, x.ts, t) /\ \A z \in Returned : z.tid = t => x.ts < z.ts
    BY <1>5, ForkedIs
  <2>2. \A z \in Returned : z.tid = t => s <= z.ts
    <3> TAKE z \in Returned
    <3>1. ASSUME z.tid = t PROVE s <= z.ts
      <4>1. x.ts < z.ts
        BY <2>1, <3>1
      <4>2. z # x /\ ~(z.ts <= x.ts)
        BY <1>1, <1>4, <4>1
      <4>3. z \notin Seen(k)
        BY <1>1, <4>2
      <4>4. ~(z.ts < s)
        BY <3>1, <4>3 DEF Passed
      <4> QED
        BY <1>4, <4>4
    <3> QED
      BY <3>1
  <2>3. W[t][s] = W[t][0]
    BY <2>2 DEF CwdOk
  <2>4. W[x.tid][x.ts] = W[t][0]
    BY <1>1, <2>1 DEF CwdOk
  <2> QED
    BY <1>2, <1>3, <1>5, <2>3, <2>4
<1>6. CASE ~Forked(x.call, t) /\ t = x.tid
  <2>1. x.ts < s
    <3>1. x \in Seen(k)
      BY <1>1
    <3> QED
      BY <1>6, <3>1 DEF Passed
  <2>2. \A z \in Returned : z.tid = x.tid /\ x.ts < z.ts => s <= z.ts
    <3> TAKE z \in Returned
    <3>1. ASSUME z.tid = x.tid, x.ts < z.ts PROVE s <= z.ts
      <4>1. z # x /\ ~(z.ts <= x.ts)
        BY <1>1, <1>4, <3>1
      <4>2. z \notin Seen(k)
        BY <1>1, <4>1
      <4>3. ~(z.ts < s)
        BY <1>6, <3>1, <4>2 DEF Passed
      <4> QED
        BY <1>4, <4>3
    <3> QED
      BY <3>1
  <2>3. W[x.tid][s] = After(x.call, W[x.tid][x.ts])
    BY <2>1, <2>2 DEF CwdOk
  <2> QED
    BY <1>2, <1>3, <1>6, <2>3
<1>7. CASE ~Forked(x.call, t) /\ t # x.tid
  <2>1. Known(t, k - 1)
    BY <1>1, <1>7 DEF Known
  <2>2. Passed(t, k - 1, s)
    BY <1>1, <1>7 DEF Passed
  <2>3. Cwd(out, t) = W[t][s]
    BY <2>1, <2>2 DEF FoldCwd
  <2> QED
    BY <1>2, <1>7, <2>3
<1> QED
  BY <1>5, <1>6, <1>7

LEMMA EdgeSeen ==
    ASSUME LogInv, dumped, NEW k \in 1..Len(Evidence), NEW i \in DOMAIN records,
           records[i] = Evidence[k]
    PROVE  /\ \A z \in Returned : z \in Seen(k) <=> z \in Seen(k - 1)
           /\ \A j \in DOMAIN records : records[j] \in Seen(k) <=> records[j] \in Seen(k - 1) \/ j = i
           /\ records[i] \notin Seen(k - 1)
<1> DEFINE x == Evidence[k]
<1>1. Seen(k) = Seen(k - 1) \union {x} /\ x \notin Seen(k - 1)
  BY SeenStep
<1> HIDE DEF x
<1>2. x = records[i]
  BY DEF x
<1>3. x \notin Returned
  <2>1. records[i] \in Begins \union Ends
    BY ElementOfSeq DEF LogInv, Typed
  <2>2. records[i] \notin SysLines
    BY <2>1, ItemIs DEF Items
  <2> QED
    BY <1>2, <2>2, ReturnedTyped DEF LogInv
<1>4. \A j \in DOMAIN records : records[j] = x => j = i
  BY <1>2, RecordsOnce DEF LogInv
<1> QED
  BY <1>1, <1>2, <1>3, <1>4

LEMMA CwdEdge ==
    ASSUME LogInv, dumped, NEW k \in 1..Len(Evidence), NEW i \in DOMAIN records,
           records[i] = Evidence[k], NEW W, NEW out, FoldCwd(out, k - 1, W),
           NEW o, \A u : Cwd(o, u) = Cwd(out, u)
    PROVE  FoldCwd(o, k, W)
<1>1. \A z \in Returned : z \in Seen(k) <=> z \in Seen(k - 1)
  BY EdgeSeen
<1>2. \A t : Known(t, k) <=> Known(t, k - 1)
  BY <1>1 DEF Known
<1>3. \A t, s : Passed(t, k, s) <=> Passed(t, k - 1, s)
  BY <1>1 DEF Passed
<1> QED
  BY <1>2, <1>3 DEF FoldCwd

LEMMA CwdStep ==
    ASSUME LogInv, Told, Settled, dumped, NEW k \in 1..Len(Evidence), NEW W, CwdOk(W),
           NEW out, FoldOpen(out, k - 1), FoldCwd(out, k - 1, W),
           NEW x, x = Evidence[k], NEW o, o = Observe(out, x)
    PROVE  FoldCwd(o, k, W)
<1>0. Shaped(out)
  BY DEF FoldOpen
<1>1. CASE LineItem(x, out, o)
  BY <1>0, <1>1, CwdLine DEF LineItem
<1>2. ASSUME NEW i \in DOMAIN records, BeginItem(x, i, out, o) PROVE FoldCwd(o, k, W)
  <2>1. records[i] = x /\ x.id \notin DOMAIN out.open /\ o = RecordBegin(out, x)
    BY <1>2 DEF BeginItem
  <2>2. \A u : Cwd(o, u) = Cwd(out, u)
    BY <1>0, <2>1, BeginMoves
  <2> QED
    BY <2>1, <2>2, CwdEdge
<1>3. ASSUME NEW i \in DOMAIN records, NEW b \in DOMAIN records, EndItem(x, i, b, out, o)
      PROVE  FoldCwd(o, k, W)
  <2>1. records[i] = x /\ x.id \in DOMAIN out.open /\ o = RecordEnd(out, x)
    BY <1>3 DEF EndItem
  <2>2. PICK c : c = out.open[x.id]
    OBVIOUS
  <2>3. \A u : Cwd(o, u) = Cwd(out, u)
    BY <1>0, <2>1, <2>2, EndMoves
  <2> QED
    BY <2>1, <2>3, CwdEdge
<1> QED
  BY <1>1, <1>2, <1>3, ItemCases

\* What the effects of a line are, in the directory that the fold has.
LEMMA EffectsSeen ==
    ASSUME NEW call \in SysCalls, Works(call), NEW dir, Heard(call, dir),
           NEW state, state.cwd = dir
    PROVE  /\ \E n \in Nat : DOMAIN FileEffects(call, state) = 1..n
           /\ \A e : e \in Uses(call, dir) <=>
                 \E i \in DOMAIN FileEffects(call, state) : FileEffects(call, state)[i] = e
<1> DEFINE effects == FileEffects(call, state)
           here == Path(dir, call.file)
           there == Path(dir, call.to)
<1>1. here # NoPath
  BY DEF Path, NoPath
<1>2. call.name \in {"open-r", "open-w"} => PathAt(call, call.file, state) = here
  BY <1>1 DEF Heard, Works, PathAt
<1>3. call.name \in {"unlink", "rename"} =>
         PathAt(call, call.file, state) = here /\ PathAt(call, call.to, state) = there
  BY DEF Heard, PathAt
<1> HIDE DEF here, there
<1>4. CASE call.name = "open-r"
  <2>1. effects = <<Event("Read", here)>> /\ Uses(call, dir) = {Event("Read", here)}
    BY <1>2, <1>4 DEF FileEffects, Uses, here
  <2>2. DOMAIN effects = 1..1 /\ effects[1] = Event("Read", here)
    BY <2>1
  <2> HIDE DEF effects
  <2>3. \A e : e \in Uses(call, dir) <=> \E i \in DOMAIN effects : effects[i] = e
    BY <2>1, <2>2
  <2> QED
    BY <2>2, <2>3 DEF effects
<1>5. CASE call.name \in {"open-w", "unlink"}
  <2>1. effects = <<Event("Edit", here)>> /\ Uses(call, dir) = {Event("Edit", here)}
    BY <1>2, <1>3, <1>5 DEF FileEffects, Uses, here
  <2>2. DOMAIN effects = 1..1 /\ effects[1] = Event("Edit", here)
    BY <2>1
  <2> HIDE DEF effects
  <2>3. \A e : e \in Uses(call, dir) <=> \E i \in DOMAIN effects : effects[i] = e
    BY <2>1, <2>2
  <2> QED
    BY <2>2, <2>3 DEF effects
<1>6. CASE call.name = "rename"
  <2>1. /\ effects = <<Event("Edit", here), Event("Edit", there)>>
        /\ Uses(call, dir) = {Event("Edit", here), Event("Edit", there)}
    BY <1>3, <1>6 DEF FileEffects, Uses, here, there
  <2>2. /\ DOMAIN effects = 1..2 /\ effects[1] = Event("Edit", here)
        /\ effects[2] = Event("Edit", there)
    BY <2>1
  <2> HIDE DEF effects
  <2>3. \A e : e \in Uses(call, dir) <=> \E i \in DOMAIN effects : effects[i] = e
    BY <2>1, <2>2
  <2> QED
    BY <2>2, <2>3 DEF effects
<1>7. CASE call.name \notin {"open-r", "open-w", "unlink", "rename"}
  <2>1. effects = <<>> /\ Uses(call, dir) = {}
    BY <1>7 DEF FileEffects, Uses
  <2>2. DOMAIN effects = 1..0
    BY <2>1
  <2> HIDE DEF effects
  <2>3. \A e : e \in Uses(call, dir) <=> \E i \in DOMAIN effects : effects[i] = e
    BY <2>1, <2>2
  <2> QED
    BY <2>2, <2>3 DEF effects
<1> QED
  BY <1>4, <1>5, <1>6, <1>7

\* What the translation of a line adds to what was requested, written and read.
LEMMA LineWorks ==
    ASSUME NEW out, Shaped(out), NEW x \in SysLines, NEW o, o = RecordLine(out, x),
           Attr(out, x.tid) = "shell", NEW dir, Cwd(out, x.tid) = dir,
           x.call \in SysCalls => Heard(x.call, dir),
           out.events \in Seq(Range(out.events)), out.wrote \in BOOLEAN
    PROVE  LET in == Span(out, x.tid) # NoSpan
               used(e) == Works(x.call) /\ e \in Uses(x.call, dir)
           IN
           /\ o.events \in Seq(Range(o.events)) /\ o.wrote \in BOOLEAN
           /\ \A e : e \in Range(o.events) <=>
                 e \in Range(out.events) \/ (~in /\ used(e) /\ SeedResource(e[2]))
           /\ o.wrote <=> out.wrote \/ \E e : used(e) /\ e[1] # "Read" /\ WorkRelative(e[2])
           /\ \A p : p \in o.gitReads <=> p \in out.gitReads
                 \/ (in /\ \E e : used(e) /\ e[1] = "Read" /\ WorkRelative(e[2]) /\ p = e[2])
<1> DEFINE call == x.call
           state == StateFor(out.states, x.tid)
           effects == FileEffects(call, state)
           p == RecordLine(out, x)
           in == Span(out, x.tid) # NoSpan
           used(e) == Works(call) /\ e \in Uses(call, dir)
<1>1. LET noted == Works(call) /\ ~Enters(call) /\ Attr(out, x.tid) # "git" IN
      /\ ~noted => p.events = out.events /\ p.gitReads = out.gitReads /\ p.wrote = out.wrote
      /\ noted => /\ p.wrote = (out.wrote \/ Writes(effects))
                  /\ p.events = IF Span(out, x.tid) # NoSpan THEN out.events
                                ELSE KeepResources(out.events, effects)
                  /\ p.gitReads = IF Span(out, x.tid) # NoSpan
                                    THEN out.gitReads \union
                                         {effects[i][2] : i \in {j \in DOMAIN effects :
                                            effects[j][1] = "Read" /\ WorkRelative(effects[j][2])}}
                                    ELSE out.gitReads
  BY LineDoes
<1>2. state.cwd = dir
  BY DEF Cwd
<1>3. call \in SysCalls \union ExitCalls
  BY DEF SysLines
<1>4. Works(call) => call \in SysCalls
  BY <1>3 DEF Works, ExitCalls
<1>5. Enters(call) => Uses(call, dir) = {}
  BY DEF Enters, Uses
<1>6. o = p
  OBVIOUS
<1> HIDE DEF p, state, call
<1>7. CASE ~(Works(call) /\ ~Enters(call))
  <2>1. p.events = out.events /\ p.gitReads = out.gitReads /\ p.wrote = out.wrote
    BY <1>1, <1>7
  <2>2. \A e : ~used(e)
    BY <1>5, <1>7
  <2> HIDE DEF used, in
  <2>3. /\ p.events \in Seq(Range(p.events)) /\ p.wrote \in BOOLEAN
        /\ \A e : e \in Range(p.events) <=>
              e \in Range(out.events) \/ (~in /\ used(e) /\ SeedResource(e[2]))
    BY <2>1, <2>2, ZenonT(60)
  <2>4. p.wrote <=> out.wrote \/ \E e : used(e) /\ e[1] # "Read" /\ WorkRelative(e[2])
    BY <2>1, <2>2, ZenonT(60)
  <2>5. \A q : q \in p.gitReads <=> q \in out.gitReads
           \/ (in /\ \E e : used(e) /\ e[1] = "Read" /\ WorkRelative(e[2]) /\ q = e[2])
    BY <2>1, <2>2, ZenonT(60)
  <2> QED
    BY <1>6, <2>3, <2>4, <2>5 DEF used, call, in
<1>8. CASE Works(call) /\ ~Enters(call)
  <2>1. /\ \E n \in Nat : DOMAIN effects = 1..n
        /\ \A e : e \in Uses(call, dir) <=> \E i \in DOMAIN effects : effects[i] = e
    <3>1. call \in SysCalls /\ Heard(call, dir) /\ Works(call)
      BY <1>4, <1>8 DEF call
    <3> QED
      BY <1>2, <3>1, EffectsSeen
  <2>2. Attr(out, x.tid) # "git"
    OBVIOUS
  <2>3. /\ p.wrote = (out.wrote \/ Writes(effects))
        /\ p.events = IF in THEN out.events ELSE KeepResources(out.events, effects)
        /\ p.gitReads = IF in
                          THEN out.gitReads \union
                               {effects[i][2] : i \in {j \in DOMAIN effects :
                                  effects[j][1] = "Read" /\ WorkRelative(effects[j][2])}}
                          ELSE out.gitReads
    BY <1>1, <1>8, <2>2
  <2> HIDE DEF effects, used
  <2>4. \A e : used(e) <=> \E i \in DOMAIN effects : effects[i] = e
    BY <1>8, <2>1 DEF used
  <2>5. PICK n \in Nat : DOMAIN effects = 1..n
    BY <2>1
  <2>6. LET r == KeepResources(out.events, effects) IN
        /\ r \in Seq(Range(r))
        /\ \A e : e \in Range(r) <=>
              e \in Range(out.events) \/ \E i \in 1..n : e = effects[i] /\ SeedResource(e[2])
    BY <2>5, KeptAre
  <2>7. \A e : (\E i \in 1..n : e = effects[i] /\ SeedResource(e[2])) <=> used(e) /\ SeedResource(e[2])
    BY <2>4, <2>5
  <2>8. /\ p.events \in Seq(Range(p.events))
        /\ \A e : e \in Range(p.events) <=>
              e \in Range(out.events) \/ (~in /\ used(e) /\ SeedResource(e[2]))
    <3> DEFINE r == KeepResources(out.events, effects)
    <3>1. r \in Seq(Range(r))
      BY <2>6
    <3>2. \A e : e \in Range(r) <=> e \in Range(out.events) \/ (used(e) /\ SeedResource(e[2]))
      BY <2>6, <2>7, ZenonT(60)
    <3> HIDE DEF r
    <3>3. CASE in
      <4>1. p.events = out.events
        BY <2>3, <3>3
      <4> QED
        BY <3>3, <4>1
    <3>4. CASE ~in
      <4>1. p.events = r
        BY <2>3, <3>4 DEF r
      <4> QED
        BY <3>1, <3>2, <3>4, <4>1
    <3> QED
      BY <3>3, <3>4
  <2>9. Writes(effects) <=> \E e : used(e) /\ e[1] # "Read" /\ WorkRelative(e[2])
    BY <2>4 DEF Writes
  <2>10. \A q : q \in p.gitReads <=> q \in out.gitReads
             \/ (in /\ \E e : used(e) /\ e[1] = "Read" /\ WorkRelative(e[2]) /\ q = e[2])
    <3> DEFINE reads == {effects[i][2] : i \in {j \in DOMAIN effects :
                            effects[j][1] = "Read" /\ WorkRelative(effects[j][2])}}
    <3>1. \A q : q \in reads <=> \E i \in DOMAIN effects :
             effects[i][1] = "Read" /\ WorkRelative(effects[i][2]) /\ q = effects[i][2]
      OBVIOUS
    <3>2. p.gitReads = IF in THEN out.gitReads \union reads ELSE out.gitReads
      BY <2>3
    <3> HIDE DEF reads, in
    <3>3. \A q : q \in reads <=> \E e : used(e) /\ e[1] = "Read" /\ WorkRelative(e[2]) /\ q = e[2]
      BY <2>4, <3>1
    <3>4. CASE in
      <4>1. p.gitReads = out.gitReads \union reads
        BY <3>2, <3>4
      <4>2. \A q : q \in p.gitReads <=> q \in out.gitReads \/ q \in reads
        BY <4>1
      <4> QED
        BY <3>3, <3>4, <4>2, ZenonT(60)
    <3>5. CASE ~in
      <4>1. p.gitReads = out.gitReads
        BY <3>2, <3>5
      <4> QED
        BY <3>5, <4>1, ZenonT(60)
    <3> QED
      BY <3>4, <3>5
  <2>11. p.wrote \in BOOLEAN
         /\ (p.wrote <=> out.wrote \/ \E e : used(e) /\ e[1] # "Read" /\ WorkRelative(e[2]))
    <3>1. Writes(effects) \in BOOLEAN
      BY DEF Writes
    <3> QED
      BY <2>3, <2>9, <3>1, ZenonT(60)
  <2> HIDE DEF in
  <2> QED
    BY <1>6, <2>8, <2>10, <2>11 DEF used, call, in
<1> QED
  BY <1>7, <1>8

\* What the calls that were seen and the end edges have asked for, written and
\* read, unless something is refused.
Used(W, y, e) == Works(y.call) /\ e \in Uses(y.call, W[y.tid][y.ts])
Asks(W, y, e) == ~InSpan(y.tid, y.ts) /\ Used(W, y, e) /\ SeedResource(e[2])
StagedBy(j, e) == AddEnds(j) /\ e = Event("Stage", records[records[j].id].path)
Writing(W, y) == \E e : Used(W, y, e) /\ e[1] # "Read" /\ WorkRelative(e[2])
Reading(W, y, p) == /\ InSpan(y.tid, y.ts)
                    /\ \E e : Used(W, y, e) /\ e[1] = "Read" /\ WorkRelative(e[2]) /\ p = e[2]

FoldWork(out, k, W) ==
    /\ out.events \in Seq(Range(out.events)) /\ out.wrote \in BOOLEAN
    /\ \A e : e \in Range(out.events) <=>
          \/ \E y \in Returned : y \in Seen(k) /\ Asks(W, y, e)
          \/ \E j \in DOMAIN records : records[j] \in Seen(k) /\ StagedBy(j, e)
    /\ out.wrote <=> \E y \in Returned : y \in Seen(k) /\ Writing(W, y)
    /\ \A p : p \in out.gitReads <=> \E y \in Returned : y \in Seen(k) /\ Reading(W, y, p)

LEMMA WorkLine ==
    ASSUME LogInv, Told, Settled, dumped, NEW k \in 1..Len(Evidence), NEW x, x = Evidence[k],
           NEW W, CwdOk(W), NEW out, FoldOpen(out, k - 1), FoldCwd(out, k - 1, W),
           FoldSpan(out), FoldWork(out, k - 1, W), NEW o, LineItem(x, out, o)
    PROVE  FoldWork(o, k, W)
<1>1. x \in Returned /\ x \in SysLines /\ o = RecordLine(out, x) /\ Shaped(out)
  BY DEF LineItem, FoldOpen
<1>2. /\ x.tid \in Tids /\ x.ts \in Nat
      /\ \A i \in DOMAIN records : records[i] \in Seen(k) <=> records[i] \in Seen(k - 1)
      /\ \A z \in Returned : z \in Seen(k) <=> z \in Seen(k - 1) \/ z = x
  BY <1>1, LineOrder
<1> DEFINE dir == W[x.tid][x.ts]
           in == Span(out, x.tid) # NoSpan
<1>3. Cwd(out, x.tid) = dir
  BY <1>1, CwdSeen
<1>4. in <=> InSpan(x.tid, x.ts)
  BY <1>1, SpanSeen
<1>5. Attr(out, x.tid) = "shell"
  BY DEF FoldSpan
<1>6. x.call \in SysCalls => Heard(x.call, dir)
  <2>1. Entered(x.tid, x.ts, x.call)
    BY <1>1, ReturnedTyped DEF LogInv
  <2> QED
    BY <1>2, <2>1 DEF CwdOk
<1>7. out.events \in Seq(Range(out.events)) /\ out.wrote \in BOOLEAN
  BY DEF FoldWork
<1> HIDE DEF dir
<1>8. /\ o.events \in Seq(Range(o.events)) /\ o.wrote \in BOOLEAN
      /\ \A e : e \in Range(o.events) <=>
            e \in Range(out.events)
            \/ (~in /\ (Works(x.call) /\ e \in Uses(x.call, dir)) /\ SeedResource(e[2]))
      /\ o.wrote <=> out.wrote \/ \E e : /\ Works(x.call) /\ e \in Uses(x.call, dir)
                                         /\ e[1] # "Read" /\ WorkRelative(e[2])
      /\ \A p : p \in o.gitReads <=> p \in out.gitReads
            \/ (in /\ \E e : /\ Works(x.call) /\ e \in Uses(x.call, dir)
                             /\ e[1] = "Read" /\ WorkRelative(e[2]) /\ p = e[2])
  BY <1>1, <1>3, <1>5, <1>6, <1>7, LineWorks
<1> HIDE DEF in
<1>9. \A e : e \in Range(o.events) <=> e \in Range(out.events) \/ Asks(W, x, e)
  <2>1. \A e : e \in Range(o.events) <=>
            e \in Range(out.events)
            \/ (~in /\ (Works(x.call) /\ e \in Uses(x.call, dir)) /\ SeedResource(e[2]))
    BY <1>8
  <2> QED
    BY <1>4, <2>1, ZenonT(60) DEF Asks, Used, dir
<1>10. o.wrote <=> out.wrote \/ Writing(W, x)
  <2>1. o.wrote <=> out.wrote \/ \E e : /\ Works(x.call) /\ e \in Uses(x.call, dir)
                                        /\ e[1] # "Read" /\ WorkRelative(e[2])
    BY <1>8
  <2> QED
    BY <2>1, ZenonT(60) DEF Writing, Used, dir
<1>11. \A p : p \in o.gitReads <=> p \in out.gitReads \/ Reading(W, x, p)
  <2>1. \A p : p \in o.gitReads <=> p \in out.gitReads
            \/ (in /\ \E e : /\ Works(x.call) /\ e \in Uses(x.call, dir)
                             /\ e[1] = "Read" /\ WorkRelative(e[2]) /\ p = e[2])
    BY <1>8
  <2> QED
    BY <1>4, <2>1, ZenonT(60) DEF Reading, Used, dir
<1>12. /\ \A e : e \in Range(out.events) <=>
            \/ \E y \in Returned : y \in Seen(k - 1) /\ Asks(W, y, e)
            \/ \E j \in DOMAIN records : records[j] \in Seen(k - 1) /\ StagedBy(j, e)
       /\ out.wrote <=> \E y \in Returned : y \in Seen(k - 1) /\ Writing(W, y)
       /\ \A p : p \in out.gitReads <=> \E y \in Returned : y \in Seen(k - 1) /\ Reading(W, y, p)
  BY DEF FoldWork
<1>13. \A e : e \in Range(o.events) <=>
          \/ \E y \in Returned : y \in Seen(k) /\ Asks(W, y, e)
          \/ \E j \in DOMAIN records : records[j] \in Seen(k) /\ StagedBy(j, e)
  BY <1>1, <1>2, <1>9, <1>12
<1>14. o.wrote <=> \E y \in Returned : y \in Seen(k) /\ Writing(W, y)
  BY <1>1, <1>2, <1>10, <1>12
<1>15. \A p : p \in o.gitReads <=> \E y \in Returned : y \in Seen(k) /\ Reading(W, y, p)
  BY <1>1, <1>2, <1>11, <1>12
<1> QED
  BY <1>8, <1>13, <1>14, <1>15 DEF FoldWork

LEMMA WorkEdge ==
    ASSUME LogInv, dumped, NEW k \in 1..Len(Evidence), NEW i \in DOMAIN records,
           records[i] = Evidence[k], NEW W, NEW out, FoldWork(out, k - 1, W),
           NEW o, o.events \in Seq(Range(o.events)),
           \A e : e \in Range(o.events) <=> e \in Range(out.events) \/ StagedBy(i, e),
           o.wrote = out.wrote, o.gitReads = out.gitReads
    PROVE  FoldWork(o, k, W)
<1>1. /\ \A z \in Returned : z \in Seen(k) <=> z \in Seen(k - 1)
      /\ \A j \in DOMAIN records : records[j] \in Seen(k) <=> records[j] \in Seen(k - 1) \/ j = i
  BY EdgeSeen
<1>2. /\ out.wrote \in BOOLEAN
      /\ \A e : e \in Range(out.events) <=>
            \/ \E y \in Returned : y \in Seen(k - 1) /\ Asks(W, y, e)
            \/ \E j \in DOMAIN records : records[j] \in Seen(k - 1) /\ StagedBy(j, e)
      /\ out.wrote <=> \E y \in Returned : y \in Seen(k - 1) /\ Writing(W, y)
      /\ \A p : p \in out.gitReads <=> \E y \in Returned : y \in Seen(k - 1) /\ Reading(W, y, p)
  BY DEF FoldWork
<1>3. \A e : e \in Range(o.events) <=>
          \/ \E y \in Returned : y \in Seen(k) /\ Asks(W, y, e)
          \/ \E j \in DOMAIN records : records[j] \in Seen(k) /\ StagedBy(j, e)
  BY <1>1, <1>2
<1>4. o.wrote \in BOOLEAN /\ (o.wrote <=> \E y \in Returned : y \in Seen(k) /\ Writing(W, y))
  BY <1>1, <1>2
<1>5. \A p : p \in o.gitReads <=> \E y \in Returned : y \in Seen(k) /\ Reading(W, y, p)
  BY <1>1, <1>2
<1> QED
  BY <1>3, <1>4, <1>5 DEF FoldWork

LEMMA WorkStep ==
    ASSUME LogInv, Told, Settled, dumped, NEW k \in 1..Len(Evidence), NEW x, x = Evidence[k],
           NEW W, CwdOk(W), NEW out, FoldOpen(out, k - 1), FoldCwd(out, k - 1, W),
           FoldSpan(out), FoldWork(out, k - 1, W), NEW o, o = Observe(out, x)
    PROVE  FoldWork(o, k, W)
<1>0. Shaped(out) /\ out.events \in Seq(Range(out.events))
  BY DEF FoldOpen, FoldWork
<1>1. CASE LineItem(x, out, o)
  BY <1>1, WorkLine
<1>2. ASSUME NEW i \in DOMAIN records, BeginItem(x, i, out, o) PROVE FoldWork(o, k, W)
  <2>1. /\ records[i] = x /\ records[i].k = "b"
        /\ x.id \notin DOMAIN out.open /\ o = RecordBegin(out, x)
    BY <1>2 DEF BeginItem
  <2>2. o.events = out.events /\ o.gitReads = out.gitReads /\ o.wrote = out.wrote
    BY <1>0, <2>1, BeginMoves
  <2>3. \A e : ~StagedBy(i, e)
    BY <2>1 DEF StagedBy, AddEnds
  <2>4. /\ o.events \in Seq(Range(o.events))
        /\ \A e : e \in Range(o.events) <=> e \in Range(out.events) \/ StagedBy(i, e)
    BY <1>0, <2>2, <2>3
  <2> QED
    BY <2>1, <2>2, <2>4, WorkEdge
<1>3. ASSUME NEW i \in DOMAIN records, NEW b \in DOMAIN records, EndItem(x, i, b, out, o)
      PROVE  FoldWork(o, k, W)
  <2>1. /\ records[i] = x /\ records[i].k = "e" /\ x.id = b /\ records[i].id = b
        /\ x.id \in DOMAIN out.open /\ records[b] = out.open[x.id] /\ o = RecordEnd(out, x)
    BY <1>3 DEF EndItem
  <2> DEFINE r == records[b]
             event == Event("Stage", r.path)
             added == IsGitBuiltin(r.builtin) /\ x.exit = 0 /\ r.builtin # "git" /\ SeedResource(r.path)
  <2>2. /\ o.gitReads = out.gitReads /\ o.wrote = out.wrote
        /\ added => o.events = Append(out.events, event)
        /\ ~added => o.events = out.events
    BY <1>0, <2>1, EndMoves
  <2>3. added <=> AddEnds(i)
    <3>1. r.builtin = "git add" /\ x.exit = 0 => SeedResource(r.path)
      BY <2>1 DEF LogInv, Spanned, Paired
    <3> QED
      BY <2>1, <3>1 DEF AddEnds, IsGitBuiltin
  <2>4. \A e : StagedBy(i, e) <=> added /\ e = event
    BY <2>1, <2>3 DEF StagedBy
  <2> HIDE DEF added, event
  <2>5. /\ o.events \in Seq(Range(o.events))
        /\ \A e : e \in Range(o.events) <=> e \in Range(out.events) \/ StagedBy(i, e)
    <3>1. CASE added
      <4>1. /\ Range(Append(out.events, event)) = Range(out.events) \union {event}
            /\ Append(out.events, event) \in Seq(Range(Append(out.events, event)))
        BY <1>0, AppendWider
      <4>2. o.events = Append(out.events, event)
        BY <2>2, <3>1
      <4> QED
        BY <2>4, <3>1, <4>1, <4>2
    <3>2. CASE ~added
      BY <1>0, <2>2, <2>4, <3>2
    <3> QED
      BY <3>1, <3>2
  <2> QED
    BY <2>1, <2>2, <2>5, WorkEdge
<1> QED
  BY <1>1, <1>2, <1>3, ItemCases

LEMMA WorkFolded ==
    ASSUME LogInv, Told, Settled, dumped, NEW W, CwdOk(W),
           NEW out, out = ObserveAll(EmptyOut, Evidence), out.unsupported = Absent
    PROVE  FoldWork(out, Len(Evidence), W)
<1> DEFINE n == Len(Evidence)
<1>1. n \in Nat /\ DOMAIN Evidence = 1..n /\ Seen(0) = {}
  BY SeenEnds
<1> HIDE DEF n
<1>2. PICK f : Observing(f, EmptyOut, n, Evidence)
  BY <1>1, ObserveFold
<1>3. /\ f[0] = EmptyOut /\ out = f[n]
      /\ \A k \in 1..n : f[k] = Observe(f[k - 1], Evidence[k])
  BY <1>2 DEF Observing
<1> DEFINE P(k) == /\ FoldOpen(f[k], k) /\ FoldCwd(f[k], k, W)
                   /\ f[k].unsupported = Absent => FoldSpan(f[k]) /\ FoldWork(f[k], k, W)
           S == {k \in 0..n : P(k)}
<1>4. P(0)
  <2>1. /\ Shaped(EmptyOut) /\ DOMAIN EmptyOut.open = {}
        /\ EmptyOut.events = <<>> /\ EmptyOut.gitReads = {} /\ EmptyOut.wrote = FALSE
        /\ \A t : Span(EmptyOut, t) = NoSpan /\ Cwd(EmptyOut, t) = "root" /\ Attr(EmptyOut, t) = "shell"
    BY EmptyShaped
  <2>2. FoldOpen(EmptyOut, 0)
    BY <1>1, <2>1 DEF FoldOpen
  <2>3. FoldSpan(EmptyOut)
    BY <2>1 DEF FoldSpan
  <2>4. FoldWork(EmptyOut, 0, W)
    <3>1. <<>> \in Seq(Range(<<>>)) /\ \A e : e \notin Range(<<>>)
      BY EmptySeq DEF Range
    <3> QED
      BY <1>1, <2>1, <3>1 DEF FoldWork
  <2>5. FoldCwd(EmptyOut, 0, W)
    <3> SUFFICES ASSUME NEW t \in Tids, Known(t, 0), NEW s \in Nat, Passed(t, 0, s)
                 PROVE  Cwd(EmptyOut, t) = W[t][s]
      BY DEF FoldCwd
    <3>1. t = Root
      BY <1>1 DEF Known
    <3>2. \A z \in Returned : z.tid = t => s <= z.ts
      <4>1. \A z \in Returned : z.ts \in Nat
        BY ReturnedTyped DEF LogInv
      <4> QED
        BY <1>1, <4>1 DEF Passed
    <3>3. W[t][s] = W[t][0] /\ W[Root][0] = "root"
      BY <3>2 DEF CwdOk
    <3> QED
      BY <2>1, <3>1, <3>3
  <2> QED
    BY <1>3, <2>2, <2>3, <2>4, <2>5
<1>5. ASSUME NEW k \in 1..n, P(k - 1) PROVE P(k)
  <2> DEFINE old == f[k - 1]
             new == f[k]
  <2>1. k \in 1..Len(Evidence) /\ new = Observe(old, Evidence[k])
    BY <1>3 DEF n
  <2>2. /\ FoldOpen(old, k - 1) /\ FoldCwd(old, k - 1, W)
        /\ old.unsupported = Absent => FoldSpan(old) /\ FoldWork(old, k - 1, W)
    BY <1>5
  <2> HIDE DEF old, new, P
  <2>3. FoldOpen(new, k)
    BY <2>1, <2>2, OpenStep
  <2>4. FoldCwd(new, k, W)
    BY <2>1, <2>2, CwdStep
  <2>5. ASSUME new.unsupported = Absent PROVE FoldSpan(new) /\ FoldWork(new, k, W)
    <3>1. FoldSpan(new) /\ FoldSpan(old) /\ old.unsupported = Absent
      BY <2>1, <2>2, <2>5, SpanStep
    <3>2. FoldWork(new, k, W)
      BY <2>1, <2>2, <3>1, WorkStep
    <3> QED
      BY <3>1, <3>2
  <2> QED
    BY <2>3, <2>4, <2>5 DEF P, new
<1> HIDE DEF P
<1>6. 0 \in S /\ \A k \in 1..n : k - 1 \in S => k \in S
  <2>1. 0 \in S
    BY <1>1, <1>4
  <2>2. \A k \in 1..n : k \in 0..n
    BY <1>1
  <2> QED
    BY <1>5, <2>1, <2>2
<1>7. \A k \in 0..n : k \in S
  <2> HIDE DEF S
  <2> QED
    BY <1>1, <1>6, UpTo
<1>8. P(n)
  BY <1>1, <1>7
<1> QED
  BY <1>3, <1>8 DEF P, n

\* A worker that exited 0 has nothing in flight.
LEMMA ZeroIsSettled ==
    ASSUME LogInv, over, ExitCode = 0
    PROVE  Settled
<1>1. Typed /\ Bounded
  BY DEF LogInv
<1>2. raw # <<>> /\ raw[1].tid = Root
  BY <1>1 DEF Bounded
<1> DEFINE exits == {i \in DOMAIN raw : raw[i].kind = "exited" /\ raw[i].tid = raw[1].tid}
<1>3. exits # {}
  <2> SUFFICES ASSUME exits = {} PROVE FALSE
    OBVIOUS
  <2>1. ExitCode = IF timedOut THEN 124 ELSE 137
    BY DEF ExitCode
  <2> QED
    BY <2>1
<1>4. PICK m \in DOMAIN raw : raw[m].kind = "exited" /\ raw[m].tid = Root
  BY <1>2, <1>3
<1>5. thread[Root].call = NoCall
  BY <1>1, <1>4 DEF Bounded
<1>6. \A t \in Tids \ {Root} : thread[t].call = NoCall
  BY <1>1 DEF Bounded
<1> QED
  BY <1>5, <1>6 DEF Settled, InFlight

\* What the translation that is not refused tells.
LEMMA TranslationTells ==
    ASSUME LogInv, dumped, NEW r, r = Translation, r.unsupported = Absent
    PROVE  \E out : /\ out = ObserveAll(EmptyOut, Evidence) /\ out.unsupported = Absent
                    /\ r.events = Dedup(out.events) /\ r.wrote = out.wrote
                    /\ r.gitReads = out.gitReads
<1> DEFINE out == ObserveAll(EmptyOut, Evidence)
           unclosed == \E id \in DOMAIN out.open : IsGitBuiltin(out.open[id].builtin)
           final == IF unclosed THEN Refuse(out, "span never closed") ELSE out
           told == Dedup(final.events)
<1>1. Shaped(out)
  BY Folded DEF FoldOpen
<1>2. r = [final EXCEPT !.events = told]
  BY DEF Translation
<1> HIDE DEF out, unclosed
<1>3. "span never closed" # Absent
  BY DEF Absent
<1> DEFINE refused == Refuse(out, "span never closed")
<1>4. /\ Shaped(refused) /\ refused.unsupported # Absent
      /\ refused.events = out.events /\ refused.wrote = out.wrote
      /\ refused.gitReads = out.gitReads
  BY <1>1, <1>3, Refused
<1> HIDE DEF refused
<1>5. /\ Shaped(final)
      /\ final.unsupported = Absent => out.unsupported = Absent
      /\ final.events = out.events /\ final.wrote = out.wrote /\ final.gitReads = out.gitReads
  <2>1. CASE unclosed
    <3>1. final = refused
      BY <2>1 DEF refused
    <3> HIDE DEF final
    <3> QED
      BY <1>4, <3>1
  <2>2. CASE ~unclosed
    <3>1. final = out
      BY <2>2
    <3> HIDE DEF final
    <3> QED
      BY <1>1, <3>1
  <2> QED
    BY <2>1, <2>2
<1>6. told = Dedup(out.events)
  BY <1>5
<1> HIDE DEF final, told
<1>7. /\ r.unsupported = final.unsupported /\ r.wrote = final.wrote
      /\ r.gitReads = final.gitReads /\ r.events = told
  <2>1. IsOut(final)
    BY <1>5 DEF Shaped
  <2> QED
    BY <1>2, <2>1 DEF IsOut
<1> QED
  BY <1>5, <1>6, <1>7 DEF out

\* What a run that is merged did, and what its translation says of it.
Agrees(r) == \E W :
    /\ \A d : d \in Range(did) <=> CallDid(W, d) \/ EndDid(d)
    /\ \A e : e \in Range(r.events) <=>
          (\E y \in Returned : Asks(W, y, e)) \/ (\E j \in DOMAIN records : StagedBy(j, e))
    /\ r.wrote <=> \E y \in Returned : Writing(W, y)
    /\ \A p : p \in r.gitReads <=> \E y \in Returned : Reading(W, y, p)

LEMMA MergedAgrees ==
    ASSUME LogInv, Told, Merged, NEW r, r = Translation
    PROVE  Agrees(r) /\ did \in Seq(Range(did)) /\ Spanned
<1>1. over /\ ExitCode = 0 /\ r.unsupported = Absent
  BY DEF Merged, Mergeable
<1>2. dumped /\ Settled
  BY <1>1, ZeroIsDumped, ZeroIsSettled
<1>3. ~Incomplete
  BY <1>1, <1>2, TranslationIs
<1>4. Sound
  <2>1. \A t \in Tids : thread[t].program # "git"
    BY <1>3 DEF Incomplete
  <2>2. ASSUME NEW b \in DOMAIN records, IsGit(b) PROVE EndsOf(b) # {}
    <3>1. b \in GitSpans /\ records[b].id = b
      BY <2>2 DEF GitSpans, IsGit, LogInv, Spanned, Numbered
    <3> QED
      BY <1>3, <3>1 DEF Incomplete, EndsOf
  <2> QED
    BY <2>1, <2>2 DEF Sound
<1>5. PICK W \in Homes : CwdOk(W) /\ DidOk(W)
  BY DEF Told
<1>6. PICK out : /\ out = ObserveAll(EmptyOut, Evidence) /\ out.unsupported = Absent
                 /\ r.events = Dedup(out.events) /\ r.wrote = out.wrote
                 /\ r.gitReads = out.gitReads
  BY <1>1, <1>2, TranslationTells
<1> DEFINE n == Len(Evidence)
<1>7. FoldWork(out, n, W)
  BY <1>2, <1>5, <1>6, WorkFolded
<1>8. Seen(n) = Returned \union Range(records)
  BY <1>2, SeenEnds
<1> HIDE DEF n
<1>9. \A j \in DOMAIN records : records[j] \in Seen(n)
  BY <1>8 DEF Range
<1>10. Range(r.events) = Range(out.events)
  <2>1. out.events \in Seq(Range(out.events))
    BY <1>7 DEF FoldWork
  <2> QED
    BY <1>6, <2>1, DedupIs
<1>11. \A e : e \in Range(r.events) <=>
          (\E y \in Returned : Asks(W, y, e)) \/ (\E j \in DOMAIN records : StagedBy(j, e))
  BY <1>7, <1>8, <1>9, <1>10 DEF FoldWork
<1>12. r.wrote <=> \E y \in Returned : Writing(W, y)
  BY <1>6, <1>7, <1>8 DEF FoldWork
<1>13. \A p : p \in r.gitReads <=> \E y \in Returned : Reading(W, y, p)
  BY <1>6, <1>7, <1>8 DEF FoldWork
<1>14. \A d : d \in Range(did) <=> CallDid(W, d) \/ EndDid(d)
  BY <1>4, <1>5 DEF DidOk
<1> QED
  BY <1>11, <1>12, <1>13, <1>14 DEF Agrees, Told, LogInv

\* What a call uses is read or edited.
LEMMA UsesIs ==
    ASSUME NEW call, NEW dir, NEW e \in Uses(call, dir)
    PROVE  e[1] \in {"Read", "Edit"}
BY DEF Uses, Event

\* A deed of a call, and one that an end edge records.
LEMMA CallDeeds ==
    ASSUME NEW W, NEW d, CallDid(W, d)
    PROVE  \E y \in Returned : /\ Used(W, y, d.event) /\ d.event[1] \in {"Read", "Edit"}
                               /\ d.by = By(y.tid, y.ts)
<1>1. PICK y \in Returned : Works(y.call) /\ Deed(d, y.call, W[y.tid][y.ts], y.tid, By(y.tid, y.ts))
  BY DEF CallDid
<1>2. PICK e \in Uses(y.call, W[y.tid][y.ts]) : d = Doing(e, y.tid, By(y.tid, y.ts))
  BY <1>1 DEF Deed
<1>3. d.event = e /\ d.by = By(y.tid, y.ts)
  BY <1>2 DEF Doing
<1> QED
  BY <1>1, <1>2, <1>3, UsesIs DEF Used

LEMMA CallsDeed ==
    ASSUME NEW W, NEW y \in Returned, NEW e, Used(W, y, e)
    PROVE  /\ \E d : CallDid(W, d) /\ d.event = e /\ d.by = By(y.tid, y.ts)
           /\ e[1] \in {"Read", "Edit"}
<1>1. PICK d : d = Doing(e, y.tid, By(y.tid, y.ts))
  OBVIOUS
<1>2. CallDid(W, d)
  BY <1>1 DEF CallDid, Deed, Used
<1>3. d.event = e /\ d.by = By(y.tid, y.ts)
  BY <1>1 DEF Doing
<1> QED
  BY <1>2, <1>3, UsesIs DEF Used

LEMMA EndDeed ==
    ASSUME NEW d, EndDid(d)
    PROVE  d.by = "record" /\ \E j \in DOMAIN records : StagedBy(j, d.event)
BY DEF EndDid, StagedBy, Doing

LEMMA EndsDeed ==
    ASSUME Spanned, NEW j \in DOMAIN records, NEW e, StagedBy(j, e)
    PROVE  SeedResource(e[2]) /\ \E d : EndDid(d) /\ d.event = e /\ d.by = "record"
<1>1. AddEnds(j) /\ e = Event("Stage", records[records[j].id].path)
  BY DEF StagedBy
<1>2. SeedResource(records[records[j].id].path)
  BY <1>1 DEF AddEnds, Spanned, Paired
<1>3. e[2] = records[records[j].id].path
  BY <1>1 DEF Event
<1>4. PICK d : d = Doing(e, records[j].tid, "record")
  OBVIOUS
<1>5. EndDid(d) /\ d.event = e /\ d.by = "record"
  BY <1>1, <1>4 DEF EndDid, Doing
<1> QED
  BY <1>2, <1>3, <1>5

LEMMA EventsFollow ==
    ASSUME LogInv, Told
    PROVE  EventsExact
<1> SUFFICES ASSUME Merged
             PROVE  Range(Translation.events) =
                       {did[i].event : i \in {j \in DOMAIN did : Asked(did[j])}}
  BY DEF EventsExact
<1>1. PICK r : r = Translation
  OBVIOUS
<1>2. Agrees(r) /\ Spanned
  BY <1>1, MergedAgrees
<1>3. PICK W :
          /\ \A d : d \in Range(did) <=> CallDid(W, d) \/ EndDid(d)
          /\ \A e : e \in Range(r.events) <=>
                (\E y \in Returned : Asks(W, y, e)) \/ (\E j \in DOMAIN records : StagedBy(j, e))
  BY <1>2 DEF Agrees
<1> DEFINE asked == {did[i].event : i \in {j \in DOMAIN did : Asked(did[j])}}
<1>4. \A e : e \in asked <=> \E d \in Range(did) : Asked(d) /\ d.event = e
  BY DEF Range
<1> HIDE DEF asked
<1>5. ASSUME NEW e \in Range(r.events) PROVE e \in asked
  <2>1. CASE \E y \in Returned : Asks(W, y, e)
    <3>1. PICK y \in Returned : Asks(W, y, e)
      BY <2>1
    <3>2. ~InSpan(y.tid, y.ts) /\ Used(W, y, e) /\ SeedResource(e[2])
      BY <3>1 DEF Asks
    <3>3. PICK d : CallDid(W, d) /\ d.event = e /\ d.by = By(y.tid, y.ts)
      BY <3>2, CallsDeed
    <3>4. d.by = "shell"
      BY <3>2, <3>3 DEF By
    <3> QED
      BY <1>3, <1>4, <3>2, <3>3, <3>4 DEF Asked
  <2>2. CASE \E j \in DOMAIN records : StagedBy(j, e)
    <3>1. PICK j \in DOMAIN records : StagedBy(j, e)
      BY <2>2
    <3>2. SeedResource(e[2])
      BY <1>2, <3>1, EndsDeed
    <3>3. PICK d : EndDid(d) /\ d.event = e /\ d.by = "record"
      BY <1>2, <3>1, EndsDeed
    <3> QED
      BY <1>3, <1>4, <3>2, <3>3 DEF Asked
  <2> QED
    BY <1>3, <2>1, <2>2
<1>6. ASSUME NEW e \in asked PROVE e \in Range(r.events)
  <2>1. PICK d \in Range(did) : Asked(d) /\ d.event = e
    BY <1>4
  <2>2. CASE CallDid(W, d)
    <3>1. PICK y \in Returned : Used(W, y, e) /\ d.by = By(y.tid, y.ts)
      BY <2>1, <2>2, CallDeeds
    <3>2. ~InSpan(y.tid, y.ts) /\ SeedResource(e[2])
      BY <2>1, <3>1 DEF Asked, By
    <3> QED
      BY <1>3, <3>1, <3>2 DEF Asks
  <2>3. CASE EndDid(d)
    BY <1>3, <2>1, <2>3, EndDeed
  <2> QED
    BY <1>3, <2>1, <2>2, <2>3
<1> QED
  BY <1>1, <1>5, <1>6 DEF asked

LEMMA FootprintFollows ==
    ASSUME LogInv, Told
    PROVE  FootprintExact
<1> SUFFICES ASSUME Merged
             PROVE  /\ Translation.wrote <=> Did({"shell", "builtin"}, "Edit") # {}
                    /\ Translation.gitReads = {did[i].event[2] : i \in Did({"builtin"}, "Read")}
  BY DEF FootprintExact
<1>1. PICK r : r = Translation
  OBVIOUS
<1>2. Agrees(r)
  BY <1>1, MergedAgrees
<1>3. PICK W :
          /\ \A d : d \in Range(did) <=> CallDid(W, d) \/ EndDid(d)
          /\ r.wrote <=> \E y \in Returned : Writing(W, y)
          /\ \A p : p \in r.gitReads <=> \E y \in Returned : Reading(W, y, p)
  BY <1>2 DEF Agrees
<1>4. r.wrote <=> Did({"shell", "builtin"}, "Edit") # {}
  <2>1. Did({"shell", "builtin"}, "Edit") # {} <=>
           \E d \in Range(did) : /\ d.by \in {"shell", "builtin"} /\ d.event[1] = "Edit"
                                 /\ WorkRelative(d.event[2])
    BY DEF Did, Range
  <2>2. ASSUME NEW y \in Returned, Writing(W, y)
        PROVE  \E d \in Range(did) : /\ d.by \in {"shell", "builtin"} /\ d.event[1] = "Edit"
                                     /\ WorkRelative(d.event[2])
    <3>1. PICK e : Used(W, y, e) /\ e[1] # "Read" /\ WorkRelative(e[2])
      BY <2>2 DEF Writing
    <3>2. e[1] = "Edit"
      BY <3>1, CallsDeed
    <3>3. PICK d : CallDid(W, d) /\ d.event = e /\ d.by = By(y.tid, y.ts)
      BY <3>1, CallsDeed
    <3> QED
      BY <1>3, <3>1, <3>2, <3>3 DEF By
  <2>3. ASSUME NEW d \in Range(did), d.by \in {"shell", "builtin"}, d.event[1] = "Edit",
               WorkRelative(d.event[2])
        PROVE  \E y \in Returned : Writing(W, y)
    <3>1. CallDid(W, d)
      BY <1>3, <2>3, EndDeed
    <3>2. PICK y \in Returned : Used(W, y, d.event)
      BY <3>1, CallDeeds
    <3> QED
      BY <2>3, <3>2 DEF Writing
  <2> QED
    BY <1>3, <2>1, <2>2, <2>3
<1> DEFINE read == {did[i].event[2] : i \in Did({"builtin"}, "Read")}
<1>5. \A p : p \in read <=> \E d \in Range(did) : /\ d.by = "builtin" /\ d.event[1] = "Read"
                                                   /\ WorkRelative(d.event[2]) /\ d.event[2] = p
  BY DEF Did, Range
<1> HIDE DEF read
<1>6. ASSUME NEW p \in r.gitReads PROVE p \in read
  <2>1. PICK y \in Returned : Reading(W, y, p)
    BY <1>3
  <2>2. InSpan(y.tid, y.ts)
    BY <2>1 DEF Reading
  <2>3. PICK e : Used(W, y, e) /\ e[1] = "Read" /\ WorkRelative(e[2]) /\ p = e[2]
    BY <2>1 DEF Reading
  <2>4. PICK d : CallDid(W, d) /\ d.event = e /\ d.by = By(y.tid, y.ts)
    BY <2>3, CallsDeed
  <2>5. d.by = "builtin"
    BY <2>2, <2>4 DEF By
  <2> QED
    BY <1>3, <1>5, <2>3, <2>4, <2>5
<1>7. ASSUME NEW p \in read PROVE p \in r.gitReads
  <2>1. PICK d \in Range(did) : /\ d.by = "builtin" /\ d.event[1] = "Read"
                                /\ WorkRelative(d.event[2]) /\ d.event[2] = p
    BY <1>5
  <2>2. CallDid(W, d)
    BY <1>3, <2>1, EndDeed
  <2>3. PICK y \in Returned : Used(W, y, d.event) /\ d.by = By(y.tid, y.ts)
    BY <2>2, CallDeeds
  <2>4. InSpan(y.tid, y.ts)
    BY <2>1, <2>3 DEF By
  <2>5. Reading(W, y, p)
    BY <2>1, <2>3, <2>4 DEF Reading
  <2> QED
    BY <1>3, <2>5
<1>8. r.gitReads = read
  BY <1>6, <1>7
<1> QED
  BY <1>1, <1>4, <1>8 DEF read

\* translate.rs: the capabilities that a command is authorized for are exactly
\* the ones it used, however its calls were cut, interleaved and stamped.
THEOREM EventsAreExact == TraceSpec => []EventsExact
<1>1. timedOut => EventsExact
  BY DEF EventsExact, Merged
<1>2. LogInv /\ Told => EventsExact
  BY EventsFollow
<1> QED
  BY <1>1, <1>2, ToldHolds, PTL

\* translate.rs: a command is taken to have written exactly if it or a git
\* builtin of it edited inside the snapshot, and the read set of its git
\* builtins is what they read.
THEOREM FootprintIsExact == TraceSpec => []FootprintExact
<1>1. timedOut => FootprintExact
  BY DEF FootprintExact, Merged
<1>2. LogInv /\ Told => FootprintExact
  BY FootprintFollows
<1> QED
  BY <1>1, <1>2, ToldHolds, PTL
=============================================================================
