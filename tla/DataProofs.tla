----------------------------- MODULE DataProofs -----------------------------
(***************************************************************************)
(* Queues and sums: what the operations of Queues return for every queue,  *)
(* and sums over a finite set, as the contract of the scheduler takes them.*)
(***************************************************************************)
EXTENDS Queues, FiniteSetsExt, FiniteSetTheorems, TLAPS

USE SMTT(30)

\* A non-empty set of naturals has a least element. (The provers cannot
\* instantiate the induction theorems of the library; this consequence of the
\* well-foundedness of < serves in their place.)
LEMMA LeastNat ==
  ASSUME NEW T, T \subseteq Nat, T # {}
  PROVE  \E x \in T : \A y \in T : x <= y
<1>1. PICK x \in T : \A y \in T : ~ (<<y, x>> \in OpToRel(<, Nat))
  BY NatLessThanWellFounded, WFMin, Zenon
<1>2. \A y \in T : ~ (y < x) BY <1>1, Zenon DEF OpToRel
<1> QED BY <1>2

\* A non-empty bounded set of naturals has a greatest element.
LEMMA GreatestNat ==
  ASSUME NEW n \in Nat, NEW T, T \subseteq 0 .. n, T # {}
  PROVE  \E x \in T : \A y \in T : y <= x
<1> DEFINE U == {n - x : x \in T}
<1>1. U \subseteq Nat /\ U # {}
  <2>1. \A x \in T : x \in 0 .. n BY Zenon
  <2>2. \A x \in T : n - x \in Nat BY <2>1
  <2>3. PICK x : x \in T BY Zenon
  <2>4. n - x \in U BY <2>3, Zenon
  <2> QED BY <2>2, <2>4, Zenon
<1>2. PICK z \in U : \A y \in U : z <= y BY <1>1, LeastNat, Zenon
<1>3. PICK x \in T : z = n - x BY <1>2, Zenon
<1>4. ASSUME NEW y \in T PROVE y <= x
  <2>1. n - y \in U OBVIOUS
  <2>2. z <= n - y BY <1>2, <2>1, Zenon
  <2> QED BY <1>3, <2>2
<1> QED BY <1>4, Zenon

\* The place of u is one of the queue's; nothing before it has a lower
\* priority, and what is there has.
LEMMA InsertPosAt ==
  ASSUME NEW S, NEW queue \in Seq(S), NEW priority \in [S -> Int], NEW u \in S
  PROVE  LET pos == InsertPos(queue, priority, u) IN
         /\ pos \in 1 .. Len(queue) + 1
         /\ \A i \in 1 .. pos - 1 : priority[queue[i]] >= priority[u]
         /\ pos <= Len(queue) => priority[queue[pos]] < priority[u]
<1> DEFINE lower == {i \in 1 .. Len(queue) : priority[queue[i]] < priority[u]}
<1>1. CASE lower = {}
  BY <1>1 DEF InsertPos
<1>2. CASE lower # {}
  <2> DEFINE first == CHOOSE i \in lower : \A j \in lower : i <= j
  <2>1. lower \subseteq Nat OBVIOUS
  <2>2. \E i \in lower : \A j \in lower : i <= j BY <1>2, <2>1, LeastNat, Zenon
  <2>3. first \in lower /\ \A j \in lower : first <= j BY <2>2, Zenon
  <2>4. InsertPos(queue, priority, u) = first BY <1>2, Zenon DEF InsertPos
  <2> HIDE DEF first
  <2> QED BY <2>3, <2>4
<1> QED BY <1>1, <1>2, Zenon

\* Insertion moves the entries from pos on by one place.
LEMMA InsertAtIs ==
  ASSUME NEW S, NEW queue \in Seq(S), NEW pos \in 1 .. Len(queue) + 1, NEW u \in S
  PROVE  LET r == InsertAt(queue, pos, u) IN
         /\ r \in Seq(S) /\ Len(r) = Len(queue) + 1
         /\ \A i \in 1 .. Len(r) :
               r[i] = IF i < pos THEN queue[i] ELSE IF i = pos THEN u ELSE queue[i - 1]
<1> DEFINE a == SubSeq(queue, 1, pos - 1)
           b == SubSeq(queue, pos, Len(queue))
<1>1. a \in Seq(S) /\ Len(a) = pos - 1 /\ \A i \in 1 .. pos - 1 : a[i] = queue[i]
  OBVIOUS
<1>2. /\ b \in Seq(S) /\ Len(b) = Len(queue) - pos + 1
      /\ \A i \in 1 .. Len(b) : b[i] = queue[pos + i - 1]
  OBVIOUS
<1> HIDE DEF a, b
<1>3. a \o <<u>> \in Seq(S) /\ Len(a \o <<u>>) = pos /\ (a \o <<u>>)[pos] = u
      /\ \A i \in 1 .. pos - 1 : (a \o <<u>>)[i] = queue[i]
  BY <1>1
<1>4. /\ (a \o <<u>>) \o b \in Seq(S)
      /\ Len((a \o <<u>>) \o b) = Len(queue) + 1
  BY <1>2, <1>3
<1> DEFINE r == (a \o <<u>>) \o b
<1>5. ASSUME NEW i \in 1 .. Len(queue) + 1
      PROVE  r[i] = IF i < pos THEN queue[i] ELSE IF i = pos THEN u ELSE queue[i - 1]
  <2>1. CASE i <= pos
    <3>1. r[i] = (a \o <<u>>)[i] BY <2>1, <1>2, <1>3
    <3> HIDE DEF r
    <3> QED BY <2>1, <3>1, <1>3
  <2>2. CASE i > pos
    <3>1. r[i] = b[i - pos] BY <2>2, <1>2, <1>3
    <3>2. b[i - pos] = queue[i - 1] BY <2>2, <1>2
    <3> HIDE DEF r
    <3> QED BY <2>2, <3>1, <3>2
  <2> HIDE DEF r
  <2> QED BY <2>1, <2>2
<1>6. InsertAt(queue, pos, u) = (a \o <<u>>) \o b BY Zenon DEF InsertAt, a, b
<1> QED BY <1>4, <1>5, <1>6, Zenon

\* The queue after insertion by priority holds the old entries and u.
LEMMA InsertIs ==
  ASSUME NEW S, NEW queue \in Seq(S), NEW priority \in [S -> Int], NEW u \in S
  PROVE  LET r == InsertByPriority(queue, priority, u) IN
         /\ r \in Seq(S) /\ Len(r) = Len(queue) + 1
         /\ \E pos \in 1 .. Len(queue) + 1 :
              /\ \A i \in 1 .. Len(r) :
                   r[i] = IF i < pos THEN queue[i] ELSE IF i = pos THEN u ELSE queue[i - 1]
              /\ \A i \in 1 .. pos - 1 : priority[queue[i]] >= priority[u]
              /\ pos <= Len(queue) => priority[queue[pos]] < priority[u]
<1> DEFINE pos == InsertPos(queue, priority, u)
<1>1. /\ pos \in 1 .. Len(queue) + 1
      /\ \A i \in 1 .. pos - 1 : priority[queue[i]] >= priority[u]
      /\ pos <= Len(queue) => priority[queue[pos]] < priority[u]
  BY InsertPosAt, Zenon
<1>2. InsertByPriority(queue, priority, u) = InsertAt(queue, pos, u)
  BY Zenon DEF InsertByPriority
<1> HIDE DEF pos
<1>3. LET r == InsertAt(queue, pos, u) IN
         /\ r \in Seq(S) /\ Len(r) = Len(queue) + 1
         /\ \A i \in 1 .. Len(r) :
               r[i] = IF i < pos THEN queue[i] ELSE IF i = pos THEN u ELSE queue[i - 1]
  BY <1>1, InsertAtIs
<1> QED BY <1>1, <1>2, <1>3, Zenon

\* What is kept of a queue: the entries at the positions I, in their order.
LEMMA RetainedIs ==
  ASSUME NEW S, NEW queue \in Seq(S), NEW I \in SUBSET (1 .. Len(queue)),
         NEW r \in Retained(queue, I)
  PROVE  /\ r \in Seq(S) /\ Len(r) = Cardinality(I)
         /\ \E f \in [1 .. Len(r) -> I] :
              /\ \A k \in 1 .. Len(r) : r[k] = queue[f[k]]
              /\ \A j, k \in 1 .. Len(r) : j < k => f[j] < f[k]
              /\ \A i \in I : \E k \in 1 .. Len(r) : f[k] = i
<1>1. IsFiniteSet(1 .. Len(queue)) BY FS_Interval
<1>2. IsFiniteSet(I) /\ Cardinality(I) \in Nat BY <1>1, FS_Subset, FS_CardinalityType, Zenon
<1> DEFINE n == Cardinality(I)
<1>3. PICK f \in Ascending(I) : r = [k \in 1 .. n |-> queue[f[k]]]
  BY Zenon DEF Retained
<1>4. /\ f \in [1 .. n -> I]
      /\ \A j, k \in 1 .. n : j < k => f[j] < f[k]
  BY <1>3, Zenon DEF Ascending
<1> HIDE DEF n
<1>5. r \in Seq(S) /\ Len(r) = n
  <2>1. \A i \in I : queue[i] \in S OBVIOUS
  <2>2. \A k \in 1 .. n : queue[f[k]] \in S BY <1>4, <2>1, Zenon
  <2> QED BY <1>2, <1>3, <2>2 DEF n
<1>6. f \in Injection(1 .. n, I)
  <2>1. \A j, k \in 1 .. n : f[j] = f[k] => j = k
    <3> SUFFICES ASSUME NEW j \in 1 .. n, NEW k \in 1 .. n, f[j] = f[k], j # k PROVE FALSE
      OBVIOUS
    <3>0. I \subseteq Int OBVIOUS
    <3>1. f[j] \in Int /\ f[k] \in Int BY <1>4, <3>0, Zenon
    <3>2. j < k \/ k < j OBVIOUS
    <3> QED BY <1>4, <3>1, <3>2
  <2> QED BY <1>4, <2>1, Zenon DEF Injection, IsInjective
<1>7. IsFiniteSet(1 .. n) /\ Cardinality(1 .. n) = n BY <1>2, FS_Interval DEF n
<1>8. f \in Surjection(1 .. n, I)
  BY <1>2, <1>6, <1>7, FS_Injection, Zenon DEF n
<1>9. \A i \in I : \E k \in 1 .. n : f[k] = i BY <1>8, Zenon DEF Surjection
<1> QED BY <1>2, <1>3, <1>4, <1>5, <1>9, Zenon DEF n

-----------------------------------------------------------------------------
(* What insertion, removal and the loss of the head preserve. *)

Distinct(queue) == \A i, j \in 1 .. Len(queue) : queue[i] = queue[j] => i = j

Sorted(queue, priority) ==
    \A i, j \in 1 .. Len(queue) : i < j => priority[queue[i]] >= priority[queue[j]]

\* The entries of a queue.
LEMMA RangeIs ==
  ASSUME NEW S, NEW queue \in Seq(S)
  PROVE  /\ Range(queue) = {queue[i] : i \in 1 .. Len(queue)}
         /\ Range(queue) \subseteq S
BY DEF Range

\* enqueue adds its entry to the queue and keeps it free of duplicates and in
\* priority order.
LEMMA InsertKeeps ==
  ASSUME NEW S, NEW queue \in Seq(S), NEW priority \in [S -> Int], NEW u \in S
  PROVE  LET r == InsertByPriority(queue, priority, u) IN
         /\ r \in Seq(S)
         /\ Range(r) = Range(queue) \union {u}
         /\ Distinct(queue) /\ u \notin Range(queue) => Distinct(r)
         /\ Sorted(queue, priority) => Sorted(r, priority)
<1> DEFINE r == InsertByPriority(queue, priority, u)
<1>1. r \in Seq(S) /\ Len(r) = Len(queue) + 1 BY InsertIs
<1>2. PICK pos \in 1 .. Len(queue) + 1 :
         /\ \A i \in 1 .. Len(r) :
              r[i] = IF i < pos THEN queue[i] ELSE IF i = pos THEN u ELSE queue[i - 1]
         /\ \A i \in 1 .. pos - 1 : priority[queue[i]] >= priority[u]
         /\ pos <= Len(queue) => priority[queue[pos]] < priority[u]
  BY InsertIs, Zenon
<1> HIDE DEF r
<1>3. Range(r) = {r[i] : i \in 1 .. Len(r)} /\ Range(queue) = {queue[i] : i \in 1 .. Len(queue)}
  BY <1>1, RangeIs, Zenon
<1>4. Range(r) = Range(queue) \union {u}
  <2>1. ASSUME NEW i \in 1 .. Len(r) PROVE r[i] \in Range(queue) \union {u}
    BY <1>1, <1>2, <1>3
  <2>2. ASSUME NEW i \in 1 .. Len(queue) PROVE queue[i] \in Range(r)
    <3>1. CASE i < pos
      <4>1. i \in 1 .. Len(r) BY <1>1
      <4>2. r[i] = queue[i] BY <1>2, <3>1, <4>1, Zenon
      <4> QED BY <1>3, <4>1, <4>2, Zenon
    <3>2. CASE i >= pos
      <4>1. i + 1 \in 1 .. Len(r) /\ ~ (i + 1 < pos) /\ i + 1 # pos /\ (i + 1) - 1 = i
        BY <1>1, <3>2
      <4>2. r[i + 1] = queue[(i + 1) - 1] BY <1>2, <4>1, Zenon
      <4> QED BY <1>3, <4>1, <4>2, Zenon
    <3> QED BY <3>1, <3>2
  <2>3. u \in Range(r) BY <1>1, <1>2, <1>3
  <2> QED BY <1>3, <2>1, <2>2, <2>3, Zenon
<1>5. ASSUME Distinct(queue), u \notin Range(queue) PROVE Distinct(r)
  <2>1. \A i \in 1 .. Len(queue) : queue[i] # u BY <1>3, <1>5, Zenon
  <2> SUFFICES ASSUME NEW i \in 1 .. Len(r), NEW j \in 1 .. Len(r), r[i] = r[j], i < j
               PROVE  FALSE
    BY <1>1 DEF Distinct
  <2>2. \A k, l \in 1 .. Len(queue) : queue[k] = queue[l] => k = l BY <1>5, Zenon DEF Distinct
  <2>3. CASE i < pos
    <3>1. r[i] = queue[i] /\ i \in 1 .. Len(queue) BY <1>1, <1>2, <2>3
    <3>2. CASE j < pos
      <4>1. r[j] = queue[j] /\ j \in 1 .. Len(queue) BY <1>1, <1>2, <3>2
      <4>2. i = j BY <2>2, <3>1, <4>1, Zenon
      <4> QED BY <1>1, <4>2
    <3>3. CASE j = pos
      <4>1. r[j] = u BY <1>1, <1>2, <3>3
      <4> QED BY <2>1, <3>1, <4>1, Zenon
    <3>4. CASE j > pos
      <4>1. ~ (j < pos) /\ j # pos /\ j - 1 \in 1 .. Len(queue) /\ i < j - 1
        BY <1>1, <2>3, <3>4
      <4>2. r[j] = queue[j - 1] BY <1>2, <4>1, Zenon
      <4>3. i = j - 1 BY <2>2, <3>1, <4>1, <4>2, Zenon
      <4> QED BY <4>1, <4>3
    <3> QED BY <3>2, <3>3, <3>4
  <2>4. CASE i >= pos
    <3>1. r[j] = queue[j - 1] /\ j - 1 \in 1 .. Len(queue) 
      <4>1. j \in 1 .. Len(r) /\ ~ (j < pos) /\ j # pos /\ j - 1 \in 1 .. Len(queue)
        BY <1>1, <2>4
      <4> QED BY <1>2, <4>1, Zenon
    <3>2. CASE i = pos BY <1>1, <1>2, <2>1, <3>1, <3>2
    <3>3. CASE i > pos
      <4>1. r[i] = queue[i - 1] /\ i - 1 \in 1 .. Len(queue) /\ i - 1 < j - 1
        BY <1>1, <1>2, <3>3
      <4>2. i - 1 = j - 1 BY <2>2, <3>1, <4>1, Zenon
      <4> QED BY <1>1, <4>1, <4>2
    <3> QED BY <2>4, <3>2, <3>3
  <2> QED BY <2>3, <2>4
<1>6. ASSUME Sorted(queue, priority) PROVE Sorted(r, priority)
  <2> SUFFICES ASSUME NEW i \in 1 .. Len(r), NEW j \in 1 .. Len(r), i < j
               PROVE  priority[r[i]] >= priority[r[j]]
    BY Zenon DEF Sorted
  <2>1. \A k \in 1 .. Len(queue) : priority[queue[k]] \in Int OBVIOUS
  <2>2. \A k, l \in 1 .. Len(queue) : k < l => priority[queue[k]] >= priority[queue[l]]
    BY <1>6, Zenon DEF Sorted
  <2>3. priority[u] \in Int OBVIOUS
  <2>4. CASE i < pos /\ j < pos
    <3>1. r[i] = queue[i] /\ r[j] = queue[j] BY <1>1, <1>2, <2>4, Zenon
    <3>2. i \in 1 .. Len(queue) /\ j \in 1 .. Len(queue) BY <1>1, <2>4
    <3> QED BY <2>2, <3>1, <3>2, Zenon
  <2>5. CASE i < pos /\ j = pos
    <3>1. r[i] = queue[i] /\ r[j] = u BY <1>1, <1>2, <2>5
    <3>2. i \in 1 .. pos - 1 BY <1>1, <2>5
    <3> QED BY <1>2, <3>1, <3>2, Zenon
  <2>6. CASE i < pos /\ j > pos
    <3>1. r[i] = queue[i] /\ r[j] = queue[j - 1] BY <1>1, <1>2, <2>6
    <3>2. i \in 1 .. Len(queue) /\ j - 1 \in 1 .. Len(queue) /\ i < j - 1 BY <1>1, <2>6
    <3> QED BY <2>2, <3>1, <3>2, Zenon
  <2>7. CASE i = pos /\ j > pos
    <3>1. r[i] = u /\ r[j] = queue[j - 1] BY <1>1, <1>2, <2>7
    <3>2. pos \in 1 .. Len(queue) /\ j - 1 \in 1 .. Len(queue) /\ pos <= j - 1 BY <1>1, <2>7
    <3>3. priority[queue[pos]] < priority[u] BY <1>2, <3>2
    <3>4. priority[queue[pos]] >= priority[queue[j - 1]] BY <2>1, <2>2, <3>2
    <3> QED BY <2>1, <2>3, <3>1, <3>2, <3>3, <3>4
  <2>8. CASE i > pos /\ j > pos
    <3>1. r[i] = queue[i - 1] /\ r[j] = queue[j - 1] BY <1>1, <1>2, <2>8
    <3>2. i - 1 \in 1 .. Len(queue) /\ j - 1 \in 1 .. Len(queue) /\ i - 1 < j - 1
      BY <1>1, <2>8
    <3> QED BY <2>2, <3>1, <3>2, Zenon
  <2> QED BY <1>1, <2>4, <2>5, <2>6, <2>7, <2>8
<1> QED BY <1>1, <1>4, <1>5, <1>6, Zenon DEF r

\* What is kept of a queue keeps its order and is free of duplicates.
LEMMA RetainedKeeps ==
  ASSUME NEW S, NEW queue \in Seq(S), NEW I \in SUBSET (1 .. Len(queue)),
         NEW r \in Retained(queue, I), NEW priority
  PROVE  /\ r \in Seq(S)
         /\ Range(r) = {queue[i] : i \in I}
         /\ Distinct(queue) => Distinct(r)
         /\ Sorted(queue, priority) => Sorted(r, priority)
<1>1. r \in Seq(S) BY RetainedIs, Zenon
<1>2. PICK f \in [1 .. Len(r) -> I] :
        /\ \A k \in 1 .. Len(r) : r[k] = queue[f[k]]
        /\ \A j, k \in 1 .. Len(r) : j < k => f[j] < f[k]
        /\ \A i \in I : \E k \in 1 .. Len(r) : f[k] = i
  BY RetainedIs
<1>3. \A k \in 1 .. Len(r) : f[k] \in I /\ f[k] \in 1 .. Len(queue) BY <1>2, Zenon
<1>4. Range(r) = {r[k] : k \in 1 .. Len(r)} BY <1>1, RangeIs, Zenon
<1>5. Range(r) = {queue[i] : i \in I}
  <2>1. \A k \in 1 .. Len(r) : r[k] \in {queue[i] : i \in I} BY <1>2, <1>3, Zenon
  <2>2. ASSUME NEW i \in I PROVE queue[i] \in {r[k] : k \in 1 .. Len(r)}
    <3>1. PICK k \in 1 .. Len(r) : f[k] = i BY <1>2, Zenon
    <3>2. queue[i] = r[k] BY <1>2, <3>1, Zenon
    <3> QED BY <3>2, Zenon
  <2> QED BY <1>4, <2>1, <2>2, Zenon
<1>6. Distinct(queue) => Distinct(r)
  <2> SUFFICES ASSUME Distinct(queue), NEW j \in 1 .. Len(r), NEW k \in 1 .. Len(r),
                      r[j] = r[k], j # k
               PROVE  FALSE
    BY Zenon DEF Distinct
  <2>1. f[j] = f[k] BY <1>2, <1>3, Zenon DEF Distinct
  <2>2. j < k \/ k < j BY <1>1
  <2> QED BY <1>2, <1>3, <2>1, <2>2
<1>7. Sorted(queue, priority) => Sorted(r, priority) BY <1>2, <1>3, Zenon DEF Sorted
<1> QED BY <1>1, <1>5, <1>6, <1>7, Zenon

\* So does what follows the head.
LEMMA TailKeeps ==
  ASSUME NEW S, NEW queue \in Seq(S), queue # <<>>, NEW priority
  PROVE  /\ Tail(queue) \in Seq(S) /\ Head(queue) \in Range(queue)
         /\ Len(Tail(queue)) = Len(queue) - 1
         /\ \A i \in 1 .. Len(queue) - 1 : Tail(queue)[i] = queue[i + 1]
         /\ Range(queue) = Range(Tail(queue)) \union {Head(queue)}
         /\ Distinct(queue) => /\ Distinct(Tail(queue))
                               /\ Head(queue) \notin Range(Tail(queue))
         /\ Sorted(queue, priority) => Sorted(Tail(queue), priority)
<1>1. /\ Tail(queue) \in Seq(S) /\ Len(Tail(queue)) = Len(queue) - 1 /\ Len(queue) > 0
      /\ \A i \in 1 .. Len(queue) - 1 : Tail(queue)[i] = queue[i + 1]
      /\ Head(queue) = queue[1]
  OBVIOUS
<1> DEFINE r == Tail(queue)  h == Head(queue)
<1> HIDE DEF r, h
<1>2. /\ r \in Seq(S) /\ Len(r) = Len(queue) - 1 /\ h = queue[1]
      /\ \A i \in 1 .. Len(queue) - 1 : r[i] = queue[i + 1]
  BY <1>1, Zenon DEF r, h
<1>3. Range(r) = {r[k] : k \in 1 .. Len(r)} /\ Range(queue) = {queue[k] : k \in 1 .. Len(queue)}
  BY <1>2, RangeIs, Zenon
<1>4. h \in Range(queue) BY <1>1, <1>2, <1>3
<1>5. Range(queue) = Range(r) \union {h}
  <2>1. ASSUME NEW i \in 1 .. Len(queue) PROVE queue[i] \in Range(r) \union {h}
    <3>1. CASE i = 1 BY <3>1, <1>2, Zenon
    <3>2. CASE i > 1
      <4>1. i - 1 \in 1 .. Len(r) /\ r[i - 1] = queue[i] BY <3>2, <1>2
      <4> QED BY <4>1, <1>3, Zenon
    <3> QED BY <3>1, <3>2
  <2>2. ASSUME NEW i \in 1 .. Len(r) PROVE r[i] \in Range(queue)
    <3>1. i + 1 \in 1 .. Len(queue) /\ r[i] = queue[i + 1] BY <1>2
    <3> QED BY <3>1, <1>3, Zenon
  <2> QED BY <1>3, <1>4, <2>1, <2>2, Zenon
<1>6. ASSUME Distinct(queue) PROVE Distinct(r) /\ h \notin Range(r)
  <2>1. Distinct(r) BY <1>2, <1>6 DEF Distinct
  <2>2. \A i \in 1 .. Len(r) : r[i] # h
    BY <1>1, <1>2, <1>6 DEF Distinct
  <2> QED BY <1>3, <2>1, <2>2, Zenon
<1>7. Sorted(queue, priority) => Sorted(r, priority) BY <1>2 DEF Sorted
<1> QED BY <1>1, <1>4, <1>5, <1>6, <1>7, Zenon DEF r, h

-----------------------------------------------------------------------------
(* Sums over a finite set *)

SumOver(f, S) == MapThenSumSet(LAMBDA u : f[u], S)

Some(s) == CHOOSE x \in s : TRUE

\* One step of the fold that computes the sum.
SumStep(g, f, s) == IF s = {} THEN 0 ELSE f[Some(s)] + g[s \ {Some(s)}]

IsSum(g, f, S) == g = [s \in SUBSET S |-> SumStep(g, f, s)]

\* The sum is that of the fold in FiniteSetsExt.
LEMMA SumIs ==
  ASSUME NEW f, NEW S
  PROVE  SumOver(f, S) = (CHOOSE g : IsSum(g, f, S))[S]
BY Zenon DEF SumOver, MapThenSumSet, MapThenFoldSet, IsSum, SumStep, Some

\* The fold takes one element from a set after the other.
LEMMA SomeIn == ASSUME NEW s, s # {} PROVE Some(s) \in s
BY Zenon DEF Some

\* Induction over the subsets of a finite set, one element at a time. The
\* predicate is a set: the provers do not instantiate operators.
LEMMA SubsetInduction ==
  ASSUME NEW S, IsFiniteSet(S), NEW P, {} \in P,
         \A s \in SUBSET S : s # {} /\ s \ {Some(s)} \in P => s \in P
  PROVE  SUBSET S \subseteq P
<1> SUFFICES ASSUME NEW r \in SUBSET S, r \notin P PROVE FALSE BY Zenon
<1> DEFINE Bad == {s \in SUBSET S : s \notin P}
           Sizes == {Cardinality(s) : s \in Bad}
<1>1. \A s \in SUBSET S : IsFiniteSet(s) /\ Cardinality(s) \in Nat
  BY FS_Subset, FS_CardinalityType, Zenon
<1>2. Sizes \subseteq Nat /\ Sizes # {}
  <2>1. Cardinality(r) \in Sizes BY Zenon
  <2>2. ASSUME NEW n \in Sizes PROVE n \in Nat
    <3>1. PICK s \in SUBSET S : n = Cardinality(s) BY <2>2, Zenon
    <3> QED BY <1>1, <3>1, Zenon
  <2> HIDE DEF Sizes
  <2> QED BY <2>1, <2>2, Zenon
<1>3. PICK n \in Sizes : \A m \in Sizes : n <= m BY <1>2, LeastNat, Zenon
<1>4. PICK s \in Bad : n = Cardinality(s) BY <1>3, Zenon
<1>5. s # {} /\ Some(s) \in s BY <1>4, SomeIn, Zenon
<1> DEFINE t == s \ {Some(s)}
<1>6. t \in SUBSET S BY <1>4, Zenon
<1>7. Cardinality(t) = Cardinality(s) - 1 BY <1>1, <1>4, <1>5, FS_RemoveElement, Zenon
<1>8. t \notin P BY <1>4, <1>5, Zenon
<1>9. Cardinality(t) \in Sizes BY <1>6, <1>8, Zenon
<1>10. n <= Cardinality(t) BY <1>3, <1>9, Zenon
<1>11. n \in Nat BY <1>2, <1>3, Zenon
<1> HIDE DEF t, Bad, Sizes
<1> QED BY <1>4, <1>7, <1>10, <1>11

\* The fold is defined: some function satisfies its recursion.
LEMMA SumExists ==
  ASSUME NEW S, IsFiniteSet(S), NEW f
  PROVE  IsSum(CHOOSE g : IsSum(g, f, S), f, S)
<1> DEFINE Size(s) == Cardinality(s)
           Upto(n) == \E g : g = [s \in SUBSET S |-> g[s]]
                             /\ \A s \in SUBSET S : Size(s) <= n => g[s] = SumStep(g, f, s)
           Bad == {n \in Nat : ~Upto(n)}
<1>1. \A s \in SUBSET S : IsFiniteSet(s) /\ Size(s) \in Nat
  BY FS_Subset, FS_CardinalityType, Zenon
<1>2. Upto(0)
  <2> DEFINE g == [s \in SUBSET S |-> 0]
  <2>1. ASSUME NEW s \in SUBSET S, Size(s) <= 0 PROVE s = {}
    <3>1. Size(s) = 0 BY <1>1, <2>1
    <3> QED BY <1>1, <3>1, FS_EmptySet, Zenon
  <2>2. \A s \in SUBSET S : Size(s) <= 0 => g[s] = SumStep(g, f, s) BY <2>1, Zenon DEF SumStep
  <2>3. g = [s \in SUBSET S |-> g[s]] BY Zenon
  <2> QED BY <2>2, <2>3, Zenon
<1>3. ASSUME NEW n \in Nat, Upto(n) PROVE Upto(n + 1)
  <2>1. PICK g : \A s \in SUBSET S : Size(s) <= n => g[s] = SumStep(g, f, s) BY <1>3, Zenon
  <2> DEFINE h == [s \in SUBSET S |-> SumStep(g, f, s)]
  <2>2. ASSUME NEW s \in SUBSET S, Size(s) <= n + 1 PROVE h[s] = SumStep(h, f, s)
    <3>1. CASE s = {} BY <3>1, Zenon DEF SumStep
    <3>2. CASE s # {}
      <4> DEFINE t == s \ {Some(s)}
      <4>1. t \in SUBSET S BY Zenon
      <4>2. Size(t) = Size(s) - 1 BY <1>1, <3>2, SomeIn, FS_RemoveElement, Zenon
      <4> HIDE DEF Size
      <4>3. Size(t) <= n BY <1>1, <2>2, <4>2
      <4>4. h[t] = g[t] BY <2>1, <4>1, <4>3, Zenon
      <4> QED BY <3>2, <4>4, Zenon DEF SumStep
    <3> QED BY <3>1, <3>2, Zenon
  <2>3. h = [s \in SUBSET S |-> h[s]] BY Zenon
  <2> QED BY <2>2, <2>3, Zenon
<1> HIDE DEF Upto
<1>4. Upto(Size(S))
  <2> SUFFICES ASSUME ~Upto(Size(S)) PROVE FALSE BY Zenon
  <2>1. Bad \subseteq Nat /\ Bad # {} BY <1>1, Zenon
  <2>2. PICK n \in Bad : \A m \in Bad : n <= m BY <2>1, LeastNat, Zenon
  <2>3. n \in Nat /\ n # 0 BY <1>2, <2>2, Zenon
  <2>4. n - 1 \in Nat /\ ~ (n <= n - 1) /\ (n - 1) + 1 = n BY <2>3
  <2>5. Upto(n - 1) BY <2>2, <2>4, Zenon
  <2>6. Upto((n - 1) + 1) BY <1>3, <2>4, <2>5, Zenon
  <2> QED BY <2>2, <2>4, <2>6
<1>5. PICK g : /\ g = [s \in SUBSET S |-> g[s]]
               /\ \A s \in SUBSET S : Size(s) <= Size(S) => g[s] = SumStep(g, f, s)
  BY <1>4, Zenon DEF Upto
<1>6. \A s \in SUBSET S : Size(s) <= Size(S) BY FS_Subset, Zenon
<1>7. [s \in SUBSET S |-> g[s]] = [s \in SUBSET S |-> SumStep(g, f, s)] BY <1>5, <1>6, Zenon
<1>8. IsSum(g, f, S) BY <1>5, <1>7, Zenon DEF IsSum
<1> QED BY <1>8, Zenon

\* A sum of naturals is one, and adding k to one of the terms adds k to it.
LEMMA SumAdd ==
  ASSUME NEW S, IsFiniteSet(S), NEW f \in [S -> Nat], NEW u \in S, NEW k \in Nat,
         NEW e, e = [f EXCEPT ![u] = @ + k]
  PROVE  SumOver(f, S) \in Nat /\ SumOver(e, S) = SumOver(f, S) + k
<1> DEFINE g == CHOOSE x : IsSum(x, f, S)
           h == CHOOSE x : IsSum(x, e, S)
           Part(s) == IF u \in s THEN k ELSE 0
           P == {s \in SUBSET S : g[s] \in Nat /\ h[s] = g[s] + Part(s)}
<1>1. IsSum(g, f, S) /\ IsSum(h, e, S) BY SumExists, Zenon
<1> HIDE DEF g, h
<1>2. \A s \in SUBSET S : g[s] = SumStep(g, f, s) /\ h[s] = SumStep(h, e, s)
  BY <1>1, Zenon DEF IsSum
<1>3. {} \in P
  <2>1. g[{}] = 0 /\ h[{}] = 0 BY <1>2, Zenon DEF SumStep
  <2>2. Part({}) = 0 BY Zenon
  <2> HIDE DEF Part
  <2>3. g[{}] \in Nat /\ h[{}] = g[{}] + Part({}) BY <2>1, <2>2
  <2> QED BY <2>3, Zenon
<1>4. ASSUME NEW s \in SUBSET S, s # {}, s \ {Some(s)} \in P PROVE s \in P
  <2> DEFINE x == Some(s)  t == s \ {x}
  <2>1. x \in s /\ x \in S BY <1>4, SomeIn, Zenon
  <2>2. g[s] = f[x] + g[t] /\ h[s] = e[x] + h[t] BY <1>2, <1>4, Zenon DEF SumStep
  <2>3. g[t] \in Nat /\ h[t] = g[t] + Part(t) BY <1>4, Zenon
  <2>4. CASE x = u
    <3>1. Part(t) = 0 /\ Part(s) = k BY <2>1, <2>4, Zenon
    <3>2. e[x] = f[x] + k /\ f[x] \in Nat BY <2>1, <2>4
    <3> HIDE DEF Part, x, t
    <3>3. g[s] \in Nat /\ h[s] = g[s] + Part(s) BY <2>2, <2>3, <3>1, <3>2
    <3> QED BY <3>3, Zenon
  <2>5. CASE x # u
    <3>1. Part(t) = Part(s) /\ Part(s) \in Nat BY <2>1, <2>5
    <3>2. e[x] = f[x] /\ f[x] \in Nat BY <2>1, <2>5
    <3> HIDE DEF Part, x, t
    <3>3. g[s] \in Nat /\ h[s] = g[s] + Part(s) BY <2>2, <2>3, <3>1, <3>2
    <3> QED BY <3>3, Zenon
  <2> QED BY <2>4, <2>5, Zenon
<1> HIDE DEF P
<1>5. SUBSET S \subseteq P BY <1>3, <1>4, SubsetInduction, Zenon
<1>6. g[S] \in Nat /\ h[S] = g[S] + Part(S) BY <1>5, Zenon DEF P
<1>7. SumOver(f, S) = g[S] /\ SumOver(e, S) = h[S] BY SumIs, Zenon DEF g, h
<1> QED BY <1>6, <1>7, Zenon

\* The allocations of a call that begins sum to 0.
LEMMA SumZero ==
  ASSUME NEW S, IsFiniteSet(S)
  PROVE  SumOver([u \in S |-> 0], S) = 0
<1> DEFINE f == [u \in S |-> 0]
           g == CHOOSE x : IsSum(x, f, S)
           P == {s \in SUBSET S : g[s] = 0}
<1> HIDE DEF f
<1>1. IsSum(g, f, S) BY SumExists, Zenon
<1> HIDE DEF g
<1>2. \A s \in SUBSET S : g[s] = SumStep(g, f, s) BY <1>1, Zenon DEF IsSum
<1>3. {} \in P BY <1>2, Zenon DEF SumStep
<1>4. ASSUME NEW s \in SUBSET S, s # {}, s \ {Some(s)} \in P PROVE s \in P
  <2>1. Some(s) \in S BY <1>4, SomeIn, Zenon
  <2>2. g[s] = f[Some(s)] + g[s \ {Some(s)}] BY <1>2, <1>4, Zenon DEF SumStep
  <2>3. f[Some(s)] = 0 BY <2>1, Zenon DEF f
  <2>4. g[s \ {Some(s)}] = 0 BY <1>4, Zenon
  <2>5. g[s] = 0 + 0 BY <2>2, <2>3, <2>4, Zenon
  <2>6. g[s] = 0 BY <2>5
  <2> QED BY <2>6, Zenon
<1> HIDE DEF P
<1>5. SUBSET S \subseteq P BY <1>3, <1>4, SubsetInduction, Zenon
<1>6. g[S] = 0 BY <1>5, Zenon DEF P
<1> QED BY <1>6, SumIs, Zenon DEF f, g

\* Any element may be taken from the set first.
LEMMA SumTake ==
  ASSUME NEW S, IsFiniteSet(S), NEW f \in [S -> Nat], NEW g, IsSum(g, f, S)
  PROVE  \A s \in SUBSET S : /\ g[s] \in Nat
                             /\ \A x \in s : g[s] = f[x] + g[s \ {x}]
<1> DEFINE Good(s) == g[s] \in Nat /\ \A x \in s : g[s] = f[x] + g[s \ {x}]
           Bad == {s \in SUBSET S : ~Good(s)}
           Sizes == {Cardinality(s) : s \in Bad}
<1>0. \A s \in SUBSET S : g[s] = SumStep(g, f, s) BY Zenon DEF IsSum
<1>1. \A s \in SUBSET S : IsFiniteSet(s) /\ Cardinality(s) \in Nat
  BY FS_Subset, FS_CardinalityType, Zenon
<1> SUFFICES ASSUME NEW r \in Bad PROVE FALSE BY Zenon
<1>2. Sizes \subseteq Nat /\ Sizes # {}
  <2>1. Cardinality(r) \in Sizes BY Zenon
  <2>2. ASSUME NEW n \in Sizes PROVE n \in Nat
    <3>1. PICK s \in SUBSET S : n = Cardinality(s) BY <2>2, Zenon
    <3> QED BY <1>1, <3>1, Zenon
  <2> HIDE DEF Sizes
  <2> QED BY <2>1, <2>2, Zenon
<1>3. PICK n \in Sizes : \A m \in Sizes : n <= m BY <1>2, LeastNat, Zenon
<1>4. PICK s \in Bad : n = Cardinality(s) BY <1>3, Zenon
<1>5. ASSUME NEW x \in s PROVE Good(s \ {x})
  <2>1. Cardinality(s \ {x}) = Cardinality(s) - 1 BY <1>1, <1>4, FS_RemoveElement, Zenon
  <2>2. Cardinality(s) \in Nat BY <1>1, <1>4, Zenon
  <2>3. ~ (n <= Cardinality(s \ {x})) BY <1>4, <2>1, <2>2
  <2>4. Cardinality(s \ {x}) \notin Sizes BY <1>3, <2>3, Zenon
  <2>5. s \ {x} \in SUBSET S BY <1>4, Zenon
  <2> QED BY <2>4, <2>5, Zenon
<1>6. \A x \in S : f[x] \in Nat BY Zenon
<1>7. CASE s = {}
  <2>1. g[s] = 0 BY <1>0, <1>4, <1>7, Zenon DEF SumStep
  <2>2. g[s] \in Nat BY <2>1
  <2> QED BY <1>4, <1>7, <2>2, Zenon
<1>8. CASE s # {}
  <2> DEFINE c == Some(s)
  <2>1. c \in s /\ g[s] = f[c] + g[s \ {c}] BY <1>0, <1>4, <1>8, SomeIn, Zenon DEF SumStep
  <2> HIDE DEF c
  <2>2. c \in S /\ Good(s \ {c}) BY <1>4, <1>5, <2>1, Zenon
  <2>3. g[s] \in Nat
    <3>1. f[c] \in Nat /\ g[s \ {c}] \in Nat BY <1>6, <2>2, Zenon
    <3> QED BY <2>1, <3>1
  <2>4. ASSUME NEW x \in s PROVE g[s] = f[x] + g[s \ {x}]
    <3>1. CASE x = c BY <2>1, <3>1, Zenon
    <3>2. CASE x # c
      <4> DEFINE t == (s \ {c}) \ {x}
      <4>1. x \in s \ {c} /\ c \in s \ {x} /\ x \in S BY <1>4, <2>1, <3>2, Zenon
      <4>2. g[s \ {c}] = f[x] + g[t] BY <2>2, <4>1, Zenon
      <4>3. Good(s \ {x}) BY <1>5, Zenon
      <4>4. (s \ {x}) \ {c} = t BY Zenon
      <4>5. g[s \ {x}] = f[c] + g[t] BY <4>1, <4>3, <4>4, Zenon
      <4>6. Good(t)
        <5>1. t \in SUBSET S BY <1>4, Zenon
        <5>2. Cardinality(s \ {c}) = Cardinality(s) - 1 /\ s \ {c} \in SUBSET S
          BY <1>1, <1>4, <2>1, FS_RemoveElement, Zenon
        <5>3. Cardinality(t) = Cardinality(s \ {c}) - 1
          BY <1>1, <4>1, <5>2, FS_RemoveElement, Zenon
        <5>4. Cardinality(s) \in Nat BY <1>1, <1>4, Zenon
        <5> HIDE DEF t
        <5>5. ~ (n <= Cardinality(t)) BY <1>4, <5>2, <5>3, <5>4
        <5>6. Cardinality(t) \notin Sizes BY <1>3, <5>5, Zenon
        <5> QED BY <5>1, <5>6, Zenon
      <4>7. f[x] \in Nat /\ f[c] \in Nat /\ g[t] \in Nat BY <1>6, <2>2, <4>1, <4>6, Zenon
      <4> HIDE DEF t
      <4> QED BY <2>1, <4>2, <4>5, <4>7
    <3> QED BY <3>1, <3>2, Zenon
  <2> QED BY <1>4, <2>3, <2>4, Zenon
<1> QED BY <1>7, <1>8, Zenon

\* The sum over a subset is no larger.
LEMMA SumSubset ==
  ASSUME NEW S, IsFiniteSet(S), NEW f \in [S -> Nat], NEW R \in SUBSET S
  PROVE  /\ SumOver(f, S) \in Nat /\ SumOver(f, R) \in Nat
         /\ SumOver(f, R) <= SumOver(f, S)
<1> DEFINE g == CHOOSE x : IsSum(x, f, S)
           h == CHOOSE x : IsSum(x, f, R)
           P == {s \in SUBSET R : h[s] = g[s]}
           Q == {s \in SUBSET (S \ R) : g[R] <= g[R \union s]}
<1>0. IsFiniteSet(R) /\ IsFiniteSet(S \ R)
  <2>1. S \ R \in SUBSET S BY Zenon
  <2> QED BY <2>1, FS_Subset, Zenon
<1>1. IsSum(g, f, S) /\ IsSum(h, f, R) BY <1>0, SumExists, Zenon
<1> HIDE DEF g, h
<1>2. /\ \A s \in SUBSET S : g[s] = SumStep(g, f, s)
      /\ \A s \in SUBSET R : h[s] = SumStep(h, f, s)
  BY <1>1, Zenon DEF IsSum
<1>3. {} \in P
  <2>1. {} \in SUBSET R /\ {} \in SUBSET S BY Zenon
  <2>2. g[{}] = 0 /\ h[{}] = 0 BY <1>2, <2>1, Zenon DEF SumStep
  <2> QED BY <2>1, <2>2, Zenon
<1>4. ASSUME NEW s \in SUBSET R, s # {}, s \ {Some(s)} \in P PROVE s \in P
  <2>1. s \in SUBSET S BY <1>4, Zenon
  <2>2. g[s] = f[Some(s)] + g[s \ {Some(s)}] /\ h[s] = f[Some(s)] + h[s \ {Some(s)}]
    BY <1>2, <1>4, <2>1, Zenon DEF SumStep
  <2> QED BY <1>4, <2>2, Zenon
<1>5. \A s \in SUBSET S : g[s] \in Nat /\ \A x \in s : g[s] = f[x] + g[s \ {x}]
  BY <1>1, SumTake
<1>6. {} \in Q
  <2>1. g[R] \in Nat BY <1>5, Zenon
  <2>2. R \union {} = R BY Zenon
  <2>3. g[R] <= g[R \union {}] BY <2>1, <2>2
  <2> QED BY <2>3, Zenon
<1>7. ASSUME NEW s \in SUBSET (S \ R), s # {}, s \ {Some(s)} \in Q PROVE s \in Q
  <2> DEFINE c == Some(s)  t == R \union (s \ {c})
  <2>1. c \in s BY <1>7, SomeIn, Zenon
  <2>2. (R \union s) \ {c} = t /\ c \in R \union s BY <1>7, <2>1, Zenon
  <2>3. R \union s \in SUBSET S /\ t \in SUBSET S /\ c \in S BY <1>7, <2>1, Zenon
  <2>4. g[R \union s] = f[c] + g[t] BY <1>5, <2>2, <2>3, Zenon
  <2>5. g[R] <= g[t] BY <1>7, Zenon
  <2>6. g[R] \in Nat /\ g[t] \in Nat /\ f[c] \in Nat BY <1>5, <2>3, Zenon
  <2> HIDE DEF c, t
  <2>7. g[R] <= g[R \union s] BY <2>4, <2>5, <2>6
  <2> QED BY <2>7, Zenon
<1> HIDE DEF P, Q
<1>8. SUBSET R \subseteq P BY <1>0, <1>3, <1>4, SubsetInduction, Zenon
<1>9. SUBSET (S \ R) \subseteq Q BY <1>0, <1>6, <1>7, SubsetInduction
<1>10. h[R] = g[R] BY <1>8, Zenon DEF P
<1>11. R \union (S \ R) = S BY Zenon
<1>12. g[R] <= g[S]
  <2>1. S \ R \in Q BY <1>9, Zenon
  <2> QED BY <1>11, <2>1, Zenon DEF Q
<1>13. SumOver(f, S) = g[S] /\ SumOver(f, R) = h[R] BY SumIs, Zenon DEF g, h
<1> QED BY <1>5, <1>10, <1>12, <1>13, Zenon
=============================================================================
