---------------------------- MODULE RunQueuesProofs ----------------------------
(***************************************************************************)
(* Proofs about RunQueues, for any number of queues, buckets, tasks and    *)
(* advances of the clock: the sizes and the bitmap agree with the queues,  *)
(* interactive tasks come first and in order, and batch tasks in order of  *)
(* priority until the clock moves the insertion index.                     *)
(***************************************************************************)
EXTENDS RunQueues, Numbers, FiniteSetTheorems

LEMMA Sizes ==
  /\ NInteractive \in Nat \ {0} /\ NBatch \in Nat /\ NBatch >= 2
  /\ Priorities \subseteq 0 .. NInteractive + NBatch - 1
  /\ Increments \subseteq 0 .. NBatch - 1
BY SizesAssumption

------------------------------------------------------------------------------
(* Sequences of tasks.                                                      *)

\* No task is twice in a sequence.
Once(seq) == \A i, j \in 1 .. Len(seq) : seq[i] = seq[j] => i = j

LEMMA AppendFacts ==
  ASSUME NEW seq \in Seq(Tasks), NEW t \in Tasks
  PROVE  /\ Append(seq, t) \in Seq(Tasks) /\ Append(seq, t) # <<>>
         /\ Len(Append(seq, t)) = Len(seq) + 1 /\ Len(seq) \in Nat
         /\ \A i \in 1 .. Len(seq) : Append(seq, t)[i] = seq[i]
         /\ Append(seq, t)[Len(seq) + 1] = t
  OBVIOUS

LEMMA TailFacts ==
  ASSUME NEW seq \in Seq(Tasks), seq # <<>>
  PROVE  /\ Len(seq) \in Nat \ {0} /\ seq[1] \in Tasks /\ Head(seq) = seq[1]
         /\ Tail(seq) \in Seq(Tasks) /\ Len(Tail(seq)) = Len(seq) - 1
         /\ \A i \in 1 .. Len(seq) - 1 : Tail(seq)[i] = seq[i + 1]
  OBVIOUS

\* A new task is behind all others.
LEMMA AppendOnce ==
  ASSUME NEW seq \in Seq(Tasks), Once(seq), NEW t \in Tasks, ~InSeq(t, seq)
  PROVE  /\ Once(Append(seq, t))
         /\ \A u : InSeq(u, Append(seq, t)) <=> InSeq(u, seq) \/ u = t
         /\ \A u, w : Ahead(u, w, seq) => Ahead(u, w, Append(seq, t))
         /\ \A u : InSeq(u, seq) => Ahead(u, t, Append(seq, t))
         /\ \A u, w : Ahead(u, w, Append(seq, t)) => u # t /\ (w # t => Ahead(u, w, seq))
<1> DEFINE new == Append(seq, t)
<1>1. /\ new \in Seq(Tasks) /\ Len(new) = Len(seq) + 1 /\ Len(seq) \in Nat
      /\ \A i \in 1 .. Len(seq) : new[i] = seq[i]
      /\ new[Len(seq) + 1] = t
  BY AppendFacts
<1> HIDE DEF new
<1>2. \A u : InSeq(u, new) <=> InSeq(u, seq) \/ u = t
  BY <1>1 DEF InSeq
<1>3. Once(new) BY <1>1 DEF Once, InSeq
<1>4. \A u, w : Ahead(u, w, seq) => Ahead(u, w, new) BY <1>1 DEF Ahead
<1>5. \A u : InSeq(u, seq) => Ahead(u, t, new) BY <1>1 DEF Ahead, InSeq
<1>6. \A u, w : Ahead(u, w, new) => u # t /\ (w # t => Ahead(u, w, seq))
  BY <1>1 DEF Ahead, InSeq
<1> QED BY <1>2, <1>3, <1>4, <1>5, <1>6 DEF new

\* A task that leaves takes nobody's place.
LEMMA WithoutOnce ==
  ASSUME NEW seq \in Seq(Tasks), Once(seq), NEW t \in Tasks, InSeq(t, seq)
  PROVE  /\ Without(seq, t) \in Seq(Tasks)
         /\ Once(Without(seq, t))
         /\ \A u : InSeq(u, Without(seq, t)) <=> InSeq(u, seq) /\ u # t
         /\ \A u, w : Ahead(u, w, Without(seq, t)) <=> Ahead(u, w, seq) /\ u # t /\ w # t
<1> DEFINE k == CHOOSE i \in 1 .. Len(seq) : seq[i] = t
           new == [i \in 1 .. Len(seq) - 1 |-> IF i < k THEN seq[i] ELSE seq[i + 1]]
<1>1. k \in 1 .. Len(seq) /\ seq[k] = t BY DEF InSeq
<1>2. Len(seq) \in Nat /\ \A i \in 1 .. Len(seq) : seq[i] \in Tasks OBVIOUS
<1> HIDE DEF k
<1>3. new \in Seq(Tasks) /\ Len(new) = Len(seq) - 1
  BY <1>1, <1>2
<1>4. \A i \in 1 .. Len(seq) - 1 : new[i] = IF i < k THEN seq[i] ELSE seq[i + 1]
  OBVIOUS
<1> HIDE DEF new
<1>5. \A i \in 1 .. Len(seq) : i # k =>
         \E j \in 1 .. Len(new) : new[j] = seq[i] /\ j = IF i < k THEN i ELSE i - 1
  <2> TAKE i \in 1 .. Len(seq)
  <2> HAVE i # k
  <2>1. CASE i < k BY <1>1, <1>2, <1>3, <1>4, <2>1
  <2>2. CASE i > k BY <1>1, <1>2, <1>3, <1>4, <2>2
  <2> QED BY <1>1, <1>2, <2>1, <2>2
<1>6. \A j \in 1 .. Len(new) :
         \E i \in 1 .. Len(seq) : i # k /\ new[j] = seq[i] /\ j = IF i < k THEN i ELSE i - 1
  <2> TAKE j \in 1 .. Len(new)
  <2>1. CASE j < k
    <3>1. j \in 1 .. Len(seq) /\ j # k BY <1>1, <1>2, <1>3, <2>1
    <3>2. new[j] = seq[j] BY <1>1, <1>2, <1>3, <1>4, <2>1
    <3> QED BY <2>1, <3>1, <3>2
  <2>2. CASE j >= k
    <3>1. j + 1 \in 1 .. Len(seq) /\ j + 1 # k /\ ~(j + 1 < k) /\ j = (j + 1) - 1
      BY <1>1, <1>2, <1>3, <2>2
    <3>2. new[j] = seq[j + 1] BY <1>1, <1>2, <1>3, <1>4, <2>2
    <3> QED BY <3>1, <3>2
  <2>3. j \in Int /\ k \in Int BY <1>1, <1>3
  <2> QED BY <2>1, <2>2, <2>3
<1>7. \A i \in 1 .. Len(seq) : seq[i] = t <=> i = k BY <1>1 DEF Once
<1>8. Once(new)
  <2> SUFFICES ASSUME NEW a \in 1 .. Len(new), NEW b \in 1 .. Len(new), new[a] = new[b]
               PROVE  a = b
    BY DEF Once
  <2>1. PICK i \in 1 .. Len(seq) : i # k /\ new[a] = seq[i] /\ a = IF i < k THEN i ELSE i - 1
    BY <1>6
  <2>2. PICK j \in 1 .. Len(seq) : j # k /\ new[b] = seq[j] /\ b = IF j < k THEN j ELSE j - 1
    BY <1>6
  <2>3. i = j BY <2>1, <2>2 DEF Once
  <2> QED BY <2>1, <2>2, <2>3
<1>9. \A u : InSeq(u, new) <=> InSeq(u, seq) /\ u # t
  <2> TAKE u
  <2>1. ASSUME InSeq(u, new) PROVE InSeq(u, seq) /\ u # t
    <3>1. PICK j \in 1 .. Len(new) : new[j] = u BY <2>1 DEF InSeq
    <3>2. PICK i \in 1 .. Len(seq) : i # k /\ new[j] = seq[i] BY <1>6
    <3> QED BY <1>7, <3>1, <3>2 DEF InSeq
  <2>2. ASSUME InSeq(u, seq), u # t PROVE InSeq(u, new)
    <3>1. PICK i \in 1 .. Len(seq) : seq[i] = u BY <2>2 DEF InSeq
    <3>2. PICK j \in 1 .. Len(new) : new[j] = seq[i] BY <1>5, <1>7, <2>2, <3>1
    <3> QED BY <3>1, <3>2 DEF InSeq
  <2> QED BY <2>1, <2>2
<1>10. \A u, w : Ahead(u, w, new) => Ahead(u, w, seq) /\ u # t /\ w # t
  <2> TAKE u, w
  <2> HAVE Ahead(u, w, new)
  <2>1. PICK a, b \in 1 .. Len(new) : a < b /\ new[a] = u /\ new[b] = w BY DEF Ahead
  <2>2. PICK i \in 1 .. Len(seq) : i # k /\ new[a] = seq[i] /\ a = IF i < k THEN i ELSE i - 1
    BY <1>6
  <2>3. PICK j \in 1 .. Len(seq) : j # k /\ new[b] = seq[j] /\ b = IF j < k THEN j ELSE j - 1
    BY <1>6
  <2>4. i < j BY <1>1, <2>1, <2>2, <2>3
  <2> QED BY <1>7, <2>1, <2>2, <2>3, <2>4 DEF Ahead
<1>11. \A u, w : Ahead(u, w, seq) /\ u # t /\ w # t => Ahead(u, w, new)
  <2> TAKE u, w
  <2> HAVE Ahead(u, w, seq) /\ u # t /\ w # t
  <2>1. PICK i, j \in 1 .. Len(seq) : i < j /\ seq[i] = u /\ seq[j] = w BY DEF Ahead
  <2>2. i # k /\ j # k BY <1>7, <2>1
  <2>3. PICK a \in 1 .. Len(new) : new[a] = seq[i] /\ a = IF i < k THEN i ELSE i - 1
    BY <1>5, <2>2
  <2>4. PICK b \in 1 .. Len(new) : new[b] = seq[j] /\ b = IF j < k THEN j ELSE j - 1
    BY <1>5, <2>2
  <2>5. a < b BY <1>1, <2>1, <2>2, <2>3, <2>4
  <2> QED BY <2>1, <2>3, <2>4, <2>5 DEF Ahead
<1>12. Without(seq, t) = new BY DEF Without, new, k
<1> QED BY <1>3, <1>8, <1>9, <1>10, <1>11, <1>12

------------------------------------------------------------------------------
(* Families of queues.                                                      *)

Family(D, f) == f \in [D -> Seq(Tasks)]

\* How a family changes in one queue.
Puts(D, f, g, d, t) == g[d] = Append(f[d], t) /\ \A e \in D \ {d} : g[e] = f[e]
Takes(D, f, g, d) == g[d] = Tail(f[d]) /\ \A e \in D \ {d} : g[e] = f[e]

\* A task that is not in the family goes to the end of one of its queues.
LEMMA PutInto ==
  ASSUME NEW D, NEW f, Family(D, f), HeldOnce(f), IsFiniteSet(Held(f)),
         NEW t \in Tasks, t \notin Held(f), NEW d \in D,
         NEW g, Family(D, g), Puts(D, f, g, d, t)
  PROVE  /\ HeldOnce(g)
         /\ \A e \in D : \A u : InSeq(u, g[e]) <=> InSeq(u, f[e]) \/ (e = d /\ u = t)
         /\ IsFiniteSet(Held(g)) /\ Held(g) = Held(f) \cup {t}
         /\ Cardinality(Held(g)) = Cardinality(Held(f)) + 1
<1>1. DOMAIN g = D /\ DOMAIN f = D BY DEF Family
<1>2. /\ \A e \in D \ {d} : g[e] = f[e]
      /\ Len(g[d]) = Len(f[d]) + 1 /\ Len(f[d]) \in Nat
      /\ \A i \in 1 .. Len(f[d]) : g[d][i] = f[d][i]
      /\ g[d][Len(f[d]) + 1] = t
  BY AppendFacts DEF Family, Puts
<1>3. \A e \in D : \A i \in 1 .. Len(f[e]) : f[e][i] # t BY <1>1 DEF Held, InSeq
<1>4. ASSUME NEW p \in D, NEW i \in 1 .. Len(g[p])
      PROVE  \/ p = d /\ i = Len(f[d]) + 1 /\ g[p][i] = t
             \/ i \in 1 .. Len(f[p]) /\ g[p][i] = f[p][i] /\ g[p][i] # t
  <2>1. CASE p # d
    <3>1. g[p] = f[p] BY <1>2, <2>1
    <3> QED BY <1>3, <3>1
  <2>2. CASE p = d /\ i \in 1 .. Len(f[d])
    <3>1. g[d][i] = f[d][i] BY <1>2, <2>2
    <3> QED BY <1>3, <2>2, <3>1
  <2>3. CASE p = d /\ i \notin 1 .. Len(f[d])
    <3>1. i = Len(f[d]) + 1 BY <1>2, <2>3
    <3> QED BY <1>2, <2>3, <3>1
  <2> QED BY <2>1, <2>2, <2>3
<1>5. HeldOnce(g)
  <2> SUFFICES ASSUME NEW p \in D, NEW q \in D, NEW i \in 1 .. Len(g[p]), NEW j \in 1 .. Len(g[q]),
                      g[p][i] = g[q][j]
               PROVE  p = q /\ i = j
    BY <1>1 DEF HeldOnce
  <2>1. CASE g[p][i] = t
    <3>1. p = d /\ i = Len(f[d]) + 1 BY <1>4, <2>1
    <3>2. q = d /\ j = Len(f[d]) + 1 BY <1>4, <2>1
    <3> QED BY <3>1, <3>2
  <2>2. CASE g[p][i] # t
    <3>1. i \in 1 .. Len(f[p]) /\ g[p][i] = f[p][i] BY <1>4, <2>2
    <3>2. j \in 1 .. Len(f[q]) /\ g[q][j] = f[q][j] BY <1>4, <2>2
    <3>3. f[p][i] = f[q][j] BY <3>1, <3>2
    <3> QED BY <1>1, <3>1, <3>2, <3>3 DEF HeldOnce
  <2> QED BY <2>1, <2>2
<1>6. \A e \in D : \A u : InSeq(u, g[e]) <=> InSeq(u, f[e]) \/ (e = d /\ u = t)
  <2> TAKE e \in D
  <2>1. CASE e # d
    <3>1. g[e] = f[e] BY <1>2, <2>1
    <3> QED BY <2>1, <3>1
  <2>2. CASE e = d
    <3>1. \A u : InSeq(u, g[d]) => InSeq(u, f[d]) \/ u = t BY <1>4, <2>2 DEF InSeq
    <3>2. 1 .. Len(f[d]) \subseteq 1 .. Len(g[d]) /\ Len(f[d]) + 1 \in 1 .. Len(g[d])
      BY <1>2
    <3>3. \A u : InSeq(u, f[d]) \/ u = t => InSeq(u, g[d]) BY <1>2, <3>2 DEF InSeq
    <3> QED BY <2>2, <3>1, <3>3
  <2> QED BY <2>1, <2>2
<1>7. Held(g) = Held(f) \cup {t} BY <1>1, <1>6 DEF Held
<1>8. /\ IsFiniteSet(Held(f) \cup {t})
      /\ Cardinality(Held(f) \cup {t}) = Cardinality(Held(f)) + 1
  BY FS_AddElement
<1> QED BY <1>5, <1>6, <1>7, <1>8

\* The task at the front of one of the queues leaves the family.
LEMMA TakeFrom ==
  ASSUME NEW D, NEW f, Family(D, f), HeldOnce(f), IsFiniteSet(Held(f)),
         NEW d \in D, f[d] # <<>>, NEW t, t = Head(f[d]),
         NEW g, Family(D, g), Takes(D, f, g, d)
  PROVE  /\ t \in Held(f) /\ InSeq(t, f[d])
         /\ HeldOnce(g)
         /\ \A e \in D : \A u : InSeq(u, g[e]) <=> InSeq(u, f[e]) /\ u # t
         /\ IsFiniteSet(Held(g)) /\ Held(g) = Held(f) \ {t}
         /\ Cardinality(Held(g)) = Cardinality(Held(f)) - 1
<1>1. /\ Len(f[d]) \in Nat \ {0} /\ f[d][1] \in Tasks /\ t = f[d][1]
      /\ Tail(f[d]) \in Seq(Tasks) /\ Len(Tail(f[d])) = Len(f[d]) - 1
      /\ \A i \in 1 .. Len(f[d]) - 1 : Tail(f[d])[i] = f[d][i + 1]
  BY TailFacts DEF Family
<1>2. DOMAIN g = D /\ DOMAIN f = D BY DEF Family
<1>3. /\ \A e \in D \ {d} : g[e] = f[e]
      /\ Len(g[d]) = Len(f[d]) - 1
      /\ \A i \in 1 .. Len(g[d]) : g[d][i] = f[d][i + 1]
  BY <1>1 DEF Takes
<1>4. InSeq(t, f[d]) /\ t \in Held(f) BY <1>1, <1>2 DEF InSeq, Held
<1>5. \A e \in D : \A i \in 1 .. Len(f[e]) : f[e][i] = t => e = d /\ i = 1
  BY <1>1, <1>2 DEF HeldOnce
<1>6. ASSUME NEW p \in D, NEW i \in 1 .. Len(g[p])
      PROVE  \E k \in 1 .. Len(f[p]) : g[p][i] = f[p][k] /\ k = IF p = d THEN i + 1 ELSE i
  <2>1. CASE p # d BY <1>3, <2>1
  <2>2. CASE p = d
    <3>1. i + 1 \in 1 .. Len(f[d]) BY <1>1, <1>3, <2>2
    <3> QED BY <1>3, <2>2, <3>1
  <2> QED BY <2>1, <2>2
<1>7. HeldOnce(g)
  <2> SUFFICES ASSUME NEW p \in D, NEW q \in D, NEW i \in 1 .. Len(g[p]), NEW j \in 1 .. Len(g[q]),
                      g[p][i] = g[q][j]
               PROVE  p = q /\ i = j
    BY <1>2 DEF HeldOnce
  <2>1. PICK k \in 1 .. Len(f[p]) : g[p][i] = f[p][k] /\ k = IF p = d THEN i + 1 ELSE i
    BY <1>6
  <2>2. PICK l \in 1 .. Len(f[q]) : g[q][j] = f[q][l] /\ l = IF q = d THEN j + 1 ELSE j
    BY <1>6
  <2>3. f[p][k] = f[q][l] BY <2>1, <2>2
  <2>4. p = q /\ k = l BY <1>2, <2>3 DEF HeldOnce
  <2> QED BY <2>1, <2>2, <2>4
<1>8. \A e \in D : \A u : InSeq(u, g[e]) <=> InSeq(u, f[e]) /\ u # t
  <2> TAKE e \in D
  <2> TAKE u
  <2>1. ASSUME InSeq(u, g[e]) PROVE InSeq(u, f[e]) /\ u # t
    <3>1. PICK i \in 1 .. Len(g[e]) : g[e][i] = u BY <2>1 DEF InSeq
    <3>2. PICK k \in 1 .. Len(f[e]) : g[e][i] = f[e][k] /\ k = IF e = d THEN i + 1 ELSE i
      BY <1>6
    <3> QED BY <1>5, <3>1, <3>2 DEF InSeq
  <2>2. ASSUME InSeq(u, f[e]), u # t PROVE InSeq(u, g[e])
    <3>1. PICK k \in 1 .. Len(f[e]) : f[e][k] = u BY <2>2 DEF InSeq
    <3>2. CASE e # d BY <1>3, <3>1, <3>2 DEF InSeq
    <3>3. CASE e = d
      <4>1. k # 1 BY <1>1, <2>2, <3>1, <3>3
      <4>2. k - 1 \in 1 .. Len(g[d]) /\ (k - 1) + 1 = k BY <1>1, <1>3, <3>1, <3>3, <4>1
      <4>3. g[d][k - 1] = u BY <1>3, <3>1, <3>3, <4>2
      <4> QED BY <3>3, <4>2, <4>3 DEF InSeq
    <3> QED BY <3>2, <3>3
  <2> QED BY <2>1, <2>2
<1>9. Held(g) = Held(f) \ {t} BY <1>2, <1>8 DEF Held
<1>10. /\ IsFiniteSet(Held(f) \ {t})
       /\ Cardinality(Held(f) \ {t}) = Cardinality(Held(f)) - 1
  BY <1>4, FS_RemoveElement
<1> QED BY <1>2, <1>4, <1>7, <1>8, <1>9, <1>10

------------------------------------------------------------------------------
(* Queues, sizes and bitmap.                                                *)

\* Tasks are queued in the order in which they came.
Ordered ==
    \A p \in Levels : \A i, j \in 1 .. Len(queue[p]) :
        i < j => Before(queue[p][i], queue[p][j])

\* A search for a batch task has one to find, and no interactive task waits.
SearchInv == searching => queueSize = 0 /\ bucketSize > 0

QueuesInv ==
    /\ QueuesAgree
    /\ Once(arrivals)
    /\ IsFiniteSet(Held(queue)) /\ IsFiniteSet(Held(bucket))
    /\ Ordered
    /\ SearchInv

LEMMA Arrival ==
  ASSUME QueuesInv, NEW t \in Tasks, ~Queued(t),
         NEW p \in 0 .. NInteractive + NBatch - 1, Arrives(t, p)
  PROVE  /\ prio' \in [Tasks -> 0 .. NInteractive + NBatch - 1]
         /\ prio'[t] = p /\ \A u \in Tasks \ {t} : prio'[u] = prio[u]
         /\ arrivals' \in Seq(Tasks) /\ Once(arrivals')
         /\ \A u : InSeq(u, arrivals') <=> InSeq(u, arrivals) \/ u = t
         /\ \A u, w : Ahead(u, w, arrivals) => Ahead(u, w, arrivals')
         /\ \A u : InSeq(u, arrivals) => Ahead(u, t, arrivals')
         /\ \A u, w : Ahead(u, w, arrivals') => u # t /\ (w # t => Ahead(u, w, arrivals))
<1>1. arrivals \in Seq(Tasks) /\ prio \in [Tasks -> 0 .. NInteractive + NBatch - 1]
      /\ Once(arrivals) /\ ~InSeq(t, arrivals)
  BY DEF QueuesInv, QueuesAgree, TypeOK, Queued
<1>2. arrivals' = Append(arrivals, t) /\ prio' = [prio EXCEPT ![t] = p]
  BY DEF Arrives
<1>3. /\ prio' \in [Tasks -> 0 .. NInteractive + NBatch - 1]
      /\ prio'[t] = p /\ \A u \in Tasks \ {t} : prio'[u] = prio[u]
  BY <1>1, <1>2
<1>4. arrivals' \in Seq(Tasks) BY <1>1, <1>2, AppendFacts
<1> QED BY <1>1, <1>2, <1>3, <1>4, AppendOnce

LEMMA Departure ==
  ASSUME QueuesInv, NEW t \in Tasks, Queued(t), Leaves(t)
  PROVE  /\ prio' \in [Tasks -> 0 .. NInteractive + NBatch - 1]
         /\ \A u \in Tasks \ {t} : prio'[u] = prio[u]
         /\ arrivals' \in Seq(Tasks) /\ Once(arrivals')
         /\ \A u : InSeq(u, arrivals') <=> InSeq(u, arrivals) /\ u # t
         /\ \A u, w : Ahead(u, w, arrivals') <=> Ahead(u, w, arrivals) /\ u # t /\ w # t
<1>1. arrivals \in Seq(Tasks) /\ prio \in [Tasks -> 0 .. NInteractive + NBatch - 1]
      /\ Once(arrivals) /\ InSeq(t, arrivals)
  BY DEF QueuesInv, QueuesAgree, TypeOK, Queued
<1>2. arrivals' = Without(arrivals, t) /\ prio' = [prio EXCEPT ![t] = 0]
  BY DEF Leaves
<1>3. /\ prio' \in [Tasks -> 0 .. NInteractive + NBatch - 1]
      /\ \A u \in Tasks \ {t} : prio'[u] = prio[u]
  BY <1>1, <1>2, Sizes
<1> QED BY <1>1, <1>2, <1>3, WithoutOnce

\* What QueuesInv says of the tasks in the two families.
LEMMA Placed ==
  ASSUME QueuesInv
  PROVE  /\ queue \in [Levels -> Seq(Tasks)] /\ bucket \in [Buckets -> Seq(Tasks)]
         /\ DOMAIN queue = Levels /\ DOMAIN bucket = Buckets
         /\ queueSize \in Nat /\ queueSize = Cardinality(Held(queue))
         /\ bucketSize \in Nat /\ bucketSize = Cardinality(Held(bucket))
         /\ \A t \in Held(queue) : t \in Tasks /\ Queued(t) /\ prio[t] \in Levels
         /\ \A t \in Held(bucket) : t \in Tasks /\ Queued(t) /\ prio[t] \notin Levels
         /\ \A t \in Tasks : Queued(t) =>
               IF prio[t] \in Levels THEN t \in Held(queue) ELSE t \in Held(bucket)
BY DEF QueuesInv, QueuesAgree, TypeOK, Held

LEMMA InitQueues == Init => QueuesInv
<1> SUFFICES ASSUME Init PROVE QueuesInv
  OBVIOUS
<1>1. TypeOK
  <2>1. /\ queue \in [Levels -> Seq(Tasks)] /\ bitmap \in [Levels -> BOOLEAN]
        /\ bucket \in [Buckets -> Seq(Tasks)] /\ arrivals \in Seq(Tasks)
    BY DEF Init
  <2>2. prio \in [Tasks -> 0 .. NInteractive + NBatch - 1] BY Sizes DEF Init
  <2>3. runq \in Buckets /\ insq \in Buckets BY Sizes DEF Init, Buckets
  <2> QED BY <2>1, <2>2, <2>3 DEF Init, TypeOK
<1>2. \A u : ~Queued(u) /\ (\A p \in Levels : ~InSeq(u, queue[p]))
      /\ (\A b \in Buckets : ~InSeq(u, bucket[b]))
  BY DEF Init, Queued, InSeq
<1>3. DOMAIN queue = Levels /\ DOMAIN bucket = Buckets BY DEF Init
<1>4. Held(queue) = {} /\ Held(bucket) = {} BY <1>2, <1>3 DEF Held
<1>5. insq # runq /\ BitmapAgrees BY DEF Init, BitmapAgrees
<1>6. HeldOnce(queue) /\ HeldOnce(bucket) /\ Once(arrivals) /\ Ordered
  BY DEF Init, HeldOnce, Once, Ordered
<1>7. queueSize = Cardinality(Held(queue)) /\ bucketSize = Cardinality(Held(bucket))
      /\ IsFiniteSet(Held(queue)) /\ IsFiniteSet(Held(bucket))
  BY <1>4, FS_EmptySet DEF Init
<1>8. SearchInv BY DEF Init, SearchInv
<1> QED BY <1>1, <1>2, <1>4, <1>5, <1>6, <1>7, <1>8 DEF QueuesInv, QueuesAgree

LEMMA SubmitInteractiveKeeps ==
  ASSUME QueuesInv, NEW t \in Tasks, NEW p \in Priorities, SubmitInteractive(t, p)
  PROVE  QueuesInv'
<1>1. ~Queued(t) /\ p \in Levels /\ Arrives(t, p) /\ ~searching
      /\ UNCHANGED <<calendar, searching>>
      /\ queue' = [queue EXCEPT ![p] = Append(@, t)]
      /\ bitmap' = [bitmap EXCEPT ![p] = TRUE] /\ queueSize' = queueSize + 1
  BY DEF SubmitInteractive
<1>2. p \in 0 .. NInteractive + NBatch - 1 BY Sizes
<1>3. /\ prio' \in [Tasks -> 0 .. NInteractive + NBatch - 1]
      /\ prio'[t] = p /\ \A u \in Tasks \ {t} : prio'[u] = prio[u]
      /\ arrivals' \in Seq(Tasks) /\ Once(arrivals')
      /\ \A u : InSeq(u, arrivals') <=> InSeq(u, arrivals) \/ u = t
      /\ \A u, w : Ahead(u, w, arrivals) => Ahead(u, w, arrivals')
      /\ \A u : InSeq(u, arrivals) => Ahead(u, t, arrivals')
  BY <1>1, <1>2, Arrival
<1>4. t \notin Held(queue) /\ t \notin Held(bucket) BY <1>1, Placed
<1>5. /\ queue \in [Levels -> Seq(Tasks)] /\ HeldOnce(queue) /\ IsFiniteSet(Held(queue))
      /\ DOMAIN queue = Levels
  BY Placed DEF QueuesInv, QueuesAgree
<1>6. /\ queue' \in [Levels -> Seq(Tasks)]
       /\ queue'[p] = Append(queue[p], t) /\ \A e \in Levels \ {p} : queue'[e] = queue[e]
  BY <1>1, <1>5, AppendFacts
<1>7. /\ HeldOnce(queue')
      /\ \A e \in Levels : \A u : InSeq(u, queue'[e]) <=> InSeq(u, queue[e]) \/ (e = p /\ u = t)
      /\ IsFiniteSet(Held(queue')) /\ Held(queue') = Held(queue) \cup {t}
      /\ Cardinality(Held(queue')) = Cardinality(Held(queue)) + 1
  <2>1. p \in Levels BY <1>1
  <2>2. Family(Levels, queue) /\ Family(Levels, queue') /\ Puts(Levels, queue, queue', p, t)
    BY <1>5, <1>6 DEF Family, Puts
  <2>3. t \in Tasks /\ t \notin Held(queue) /\ HeldOnce(queue) /\ IsFiniteSet(Held(queue))
    BY <1>4, <1>5
  <2>4. HeldOnce(queue') BY <2>1, <2>2, <2>3, PutInto
  <2>5. \A e \in Levels : \A u : InSeq(u, queue'[e]) <=> InSeq(u, queue[e]) \/ (e = p /\ u = t)
    BY <2>1, <2>2, <2>3, PutInto
  <2>6. /\ IsFiniteSet(Held(queue')) /\ Held(queue') = Held(queue) \cup {t}
        /\ Cardinality(Held(queue')) = Cardinality(Held(queue)) + 1
    BY <2>1, <2>2, <2>3, PutInto
  <2> QED BY <2>4, <2>5, <2>6
<1>8. TypeOK'
  <2>1. TypeOK BY DEF QueuesInv, QueuesAgree
  <2>2. bitmap' \in [Levels -> BOOLEAN] /\ queueSize' \in Nat BY <1>1, <2>1 DEF TypeOK
  <2> QED BY <1>1, <1>3, <1>6, <2>1, <2>2 DEF TypeOK, calendar
<1>9. BitmapAgrees'
  <2>1. \A e \in Levels \ {p} : queue'[e] = queue[e] /\ bitmap'[e] = bitmap[e]
    BY <1>1, <1>6 DEF QueuesInv, QueuesAgree, TypeOK
  <2>2. queue'[p] # <<>> /\ bitmap'[p]
    <3>1. queue[p] \in Seq(Tasks) BY <1>1, <1>5
    <3>2. Append(queue[p], t) # <<>> BY <3>1, AppendFacts
    <3>3. queue'[p] # <<>> BY <1>6, <3>2
    <3> QED BY <1>1, <3>3 DEF QueuesInv, QueuesAgree, TypeOK
  <2> QED BY <2>1, <2>2 DEF QueuesInv, QueuesAgree, BitmapAgrees
<1>10. \A u \in Tasks :
         /\ \A e \in Levels : InSeq(u, queue'[e]) <=> Queued(u)' /\ prio'[u] = e
         /\ u \in Held(bucket)' <=> Queued(u)' /\ prio'[u] \notin Levels
  <2> TAKE u \in Tasks
  <2>1. CASE u = t
    <3>1. \A e \in Levels : ~InSeq(t, queue[e]) BY <1>4, <1>5 DEF Held
    <3> QED BY <1>1, <1>3, <1>4, <1>7, <2>1, <3>1 DEF Queued, calendar, Held
  <2>2. CASE u # t
    <3>1. Queued(u)' <=> Queued(u) BY <1>3, <2>2 DEF Queued
    <3>2. prio'[u] = prio[u] BY <1>3, <2>2
    <3>3. Held(bucket)' = Held(bucket) BY <1>1 DEF calendar, Held
    <3> QED BY <1>7, <2>2, <3>1, <3>2, <3>3 DEF QueuesInv, QueuesAgree
  <2> QED BY <2>1, <2>2
<1>11. Ordered'
  <2> SUFFICES ASSUME NEW e \in Levels, NEW i \in 1 .. Len(queue'[e]),
                      NEW j \in 1 .. Len(queue'[e]), i < j
               PROVE  Ahead(queue'[e][i], queue'[e][j], arrivals')
    BY DEF Ordered, Before
  <2>1. /\ Len(queue[p]) \in Nat /\ Len(queue'[p]) = Len(queue[p]) + 1
        /\ \A k \in 1 .. Len(queue[p]) : queue'[p][k] = queue[p][k]
        /\ queue'[p][Len(queue[p]) + 1] = t
    BY <1>1, <1>5, <1>6, AppendFacts
  <2>2. CASE e # p \/ j \in 1 .. Len(queue[p])
    <3>1. i \in 1 .. Len(queue[e]) /\ j \in 1 .. Len(queue[e])
          /\ queue'[e][i] = queue[e][i] /\ queue'[e][j] = queue[e][j]
      <4>1. CASE e # p
        <5>1. queue'[e] = queue[e] BY <1>6, <4>1
        <5> QED BY <5>1
      <4>2. CASE e = p
        <5>1. i \in 1 .. Len(queue[p]) /\ j \in 1 .. Len(queue[p]) BY <2>2, <2>1, <4>2
        <5> QED BY <2>1, <4>2, <5>1
      <4> QED BY <4>1, <4>2
    <3> QED BY <1>3, <3>1 DEF QueuesInv, Ordered, Before
  <2>3. CASE e = p /\ j \notin 1 .. Len(queue[p])
    <3>1. j = Len(queue[p]) + 1 /\ i \in 1 .. Len(queue[p]) /\ queue'[e][j] = t
          /\ queue'[e][i] = queue[p][i]
      BY <2>3, <2>1
    <3>2. queue[p][i] \in Tasks /\ InSeq(queue[p][i], queue[p])
      BY <1>1, <1>5, <3>1 DEF InSeq
    <3>3. Queued(queue[p][i]) BY <1>1, <3>2 DEF QueuesInv, QueuesAgree
    <3> QED BY <1>3, <3>1, <3>3 DEF Queued
  <2> QED BY <2>2, <2>3
<1>12. UNCHANGED <<bucket, bucketSize, runq, insq, searching>> BY <1>1 DEF calendar
<1>13. (Held(bucket) = Held(bucket'))  /\ (HeldOnce(bucket) => HeldOnce(bucket')) BY <1>12
<1> QED BY <1>1, <1>3, <1>7, <1>8, <1>9, <1>10, <1>11, <1>12, <1>13
        DEF QueuesInv, QueuesAgree, SearchInv

\* The front of an interactive queue: where it is, and that nobody waits longer.
LEMMA TakeInteractiveFacts ==
  ASSUME QueuesInv, NEW p \in Levels, TakeInteractive(p)
  PROVE  /\ queue[p] # <<>> /\ queue[p] \in Seq(Tasks)
         /\ Head(queue[p]) = queue[p][1] /\ Head(queue[p]) \in Tasks
         /\ InSeq(Head(queue[p]), queue[p])
         /\ Queued(Head(queue[p])) /\ prio[Head(queue[p])] = p
         /\ Leaves(Head(queue[p]))
<1>1. queue[p] # <<>> BY DEF TakeInteractive, QueuesInv, QueuesAgree, BitmapAgrees
<1>2. queue[p] \in Seq(Tasks) BY Placed
<1>3. /\ Head(queue[p]) = queue[p][1] /\ Head(queue[p]) \in Tasks
      /\ Len(queue[p]) \in Nat \ {0}
  BY <1>1, <1>2, TailFacts
<1>4. InSeq(Head(queue[p]), queue[p]) BY <1>3 DEF InSeq
<1>5. Queued(Head(queue[p])) /\ prio[Head(queue[p])] = p
  BY <1>3, <1>4 DEF QueuesInv, QueuesAgree
<1> QED BY <1>1, <1>2, <1>3, <1>4, <1>5 DEF TakeInteractive

LEMMA TakeInteractiveKeeps ==
  ASSUME QueuesInv, NEW p \in Levels, TakeInteractive(p)
  PROVE  QueuesInv'
<1> DEFINE t == Head(queue[p])
<1>1. /\ UNCHANGED <<calendar, searching>> /\ ~searching
      /\ queue' = [queue EXCEPT ![p] = Tail(@)]
      /\ bitmap' = [bitmap EXCEPT ![p] = Tail(queue[p]) # <<>>]
      /\ queueSize' = queueSize - 1
  BY DEF TakeInteractive
<1>2. /\ queue[p] # <<>> /\ queue[p] \in Seq(Tasks) /\ t = queue[p][1] /\ t \in Tasks
      /\ InSeq(t, queue[p]) /\ Queued(t) /\ prio[t] = p /\ Leaves(t)
  BY TakeInteractiveFacts
<1> HIDE DEF t
<1>3. /\ prio' \in [Tasks -> 0 .. NInteractive + NBatch - 1]
      /\ \A u \in Tasks \ {t} : prio'[u] = prio[u]
      /\ arrivals' \in Seq(Tasks) /\ Once(arrivals')
      /\ \A u : InSeq(u, arrivals') <=> InSeq(u, arrivals) /\ u # t
      /\ \A u, w : Ahead(u, w, arrivals') <=> Ahead(u, w, arrivals) /\ u # t /\ w # t
  BY <1>2, Departure
<1>4. /\ queue \in [Levels -> Seq(Tasks)] /\ HeldOnce(queue) /\ IsFiniteSet(Held(queue))
      /\ DOMAIN queue = Levels /\ queueSize \in Nat /\ queueSize = Cardinality(Held(queue))
  BY Placed DEF QueuesInv, QueuesAgree
<1>5. /\ Tail(queue[p]) \in Seq(Tasks) /\ Len(Tail(queue[p])) = Len(queue[p]) - 1
      /\ Len(queue[p]) \in Nat \ {0}
      /\ \A i \in 1 .. Len(queue[p]) - 1 : Tail(queue[p])[i] = queue[p][i + 1]
  BY <1>2, TailFacts
<1>6. /\ queue' \in [Levels -> Seq(Tasks)]
      /\ queue'[p] = Tail(queue[p]) /\ \A e \in Levels \ {p} : queue'[e] = queue[e]
  BY <1>1, <1>4, <1>5
<1>7. /\ t \in Held(queue) /\ HeldOnce(queue')
      /\ \A e \in Levels : \A u : InSeq(u, queue'[e]) <=> InSeq(u, queue[e]) /\ u # t
      /\ IsFiniteSet(Held(queue')) /\ Held(queue') = Held(queue) \ {t}
      /\ Cardinality(Held(queue')) = Cardinality(Held(queue)) - 1
  <2>1. Family(Levels, queue) /\ Family(Levels, queue') /\ Takes(Levels, queue, queue', p)
    BY <1>4, <1>6 DEF Family, Takes
  <2>2. t = Head(queue[p]) BY DEF t
  <2>3. HeldOnce(queue) /\ IsFiniteSet(Held(queue)) /\ queue[p] # <<>> BY <1>2, <1>4
  <2>4. t \in Held(queue) /\ HeldOnce(queue') BY <2>1, <2>2, <2>3, TakeFrom
  <2>5. \A e \in Levels : \A u : InSeq(u, queue'[e]) <=> InSeq(u, queue[e]) /\ u # t
    BY <2>1, <2>2, <2>3, TakeFrom
  <2>6. /\ IsFiniteSet(Held(queue')) /\ Held(queue') = Held(queue) \ {t}
        /\ Cardinality(Held(queue')) = Cardinality(Held(queue)) - 1
    BY <2>1, <2>2, <2>3, TakeFrom
  <2> QED BY <2>4, <2>5, <2>6
<1>8. queueSize' \in Nat /\ queueSize' = Cardinality(Held(queue'))
  <2>1. Cardinality(Held(queue)) # 0 BY <1>4, <1>7, FS_EmptySet
  <2> QED BY <1>1, <1>4, <1>7, <2>1
<1>9. TypeOK'
  <2>1. TypeOK BY DEF QueuesInv, QueuesAgree
  <2>2. bitmap' \in [Levels -> BOOLEAN] BY <1>1, <2>1 DEF TypeOK
  <2> QED BY <1>1, <1>3, <1>6, <1>8, <2>1, <2>2 DEF TypeOK, calendar
<1>10. BitmapAgrees'
  <2>1. \A e \in Levels \ {p} : bitmap'[e] = bitmap[e]
    BY <1>1 DEF QueuesInv, QueuesAgree, TypeOK
  <2>2. bitmap'[p] = (Tail(queue[p]) # <<>>)
    BY <1>1 DEF QueuesInv, QueuesAgree, TypeOK
  <2> QED BY <1>6, <2>1, <2>2 DEF QueuesInv, QueuesAgree, BitmapAgrees
<1>11. UNCHANGED <<bucket, bucketSize, runq, insq, searching>> BY <1>1 DEF calendar
<1>12. \A u \in Tasks :
         /\ \A e \in Levels : InSeq(u, queue'[e]) <=> Queued(u)' /\ prio'[u] = e
         /\ u \in Held(bucket)' <=> Queued(u)' /\ prio'[u] \notin Levels
  <2> TAKE u \in Tasks
  <2>1. Held(bucket)' = Held(bucket) BY <1>11
  <2>2. CASE u = t
    <3>1. t \notin Held(bucket) BY <1>2, Placed
    <3> QED BY <1>3, <1>7, <2>1, <2>2, <3>1 DEF Queued
  <2>3. CASE u # t
    <3>1. Queued(u)' <=> Queued(u) BY <1>3, <2>3 DEF Queued
    <3>2. prio'[u] = prio[u] BY <1>3, <2>3
    <3> QED BY <1>7, <2>1, <2>3, <3>1, <3>2 DEF QueuesInv, QueuesAgree
  <2> QED BY <2>2, <2>3
<1>13. Ordered'
  <2> SUFFICES ASSUME NEW e \in Levels, NEW i \in 1 .. Len(queue'[e]),
                      NEW j \in 1 .. Len(queue'[e]), i < j
               PROVE  Ahead(queue'[e][i], queue'[e][j], arrivals')
    BY DEF Ordered, Before
  <2>1. InSeq(queue'[e][i], queue'[e]) /\ InSeq(queue'[e][j], queue'[e]) BY DEF InSeq
  <2>2. queue'[e][i] # t /\ queue'[e][j] # t BY <1>7, <2>1
  <2>3. Ahead(queue'[e][i], queue'[e][j], arrivals)
    <3>1. CASE e # p
      <4>1. queue'[e] = queue[e] BY <1>6, <3>1
      <4> QED BY <4>1 DEF QueuesInv, Ordered, Before
    <3>2. CASE e = p
      <4>1. i + 1 \in 1 .. Len(queue[p]) /\ j + 1 \in 1 .. Len(queue[p]) /\ i + 1 < j + 1
        BY <1>5, <1>6, <3>2
      <4>2. queue'[e][i] = queue[p][i + 1] /\ queue'[e][j] = queue[p][j + 1]
        BY <1>5, <1>6, <3>2
      <4> QED BY <4>1, <4>2 DEF QueuesInv, Ordered, Before
    <3> QED BY <3>1, <3>2
  <2> QED BY <1>3, <2>2, <2>3
<1>14. (Held(bucket) = Held(bucket'))  /\ (HeldOnce(bucket) => HeldOnce(bucket')) BY <1>11
<1> QED BY <1>1, <1>3, <1>7, <1>8, <1>9, <1>10, <1>11, <1>12, <1>13, <1>14
        DEF QueuesInv, QueuesAgree, SearchInv

------------------------------------------------------------------------------
(* The calendar.                                                            *)

\* The next bucket is another one.
LEMMA AfterFacts ==
  ASSUME NEW b \in Buckets
  PROVE  After(b) \in Buckets /\ After(b) # b /\ After(b) = IF b = NBatch - 1 THEN 0 ELSE b + 1
<1>1. CASE b = NBatch - 1
  <2>1. NBatch % NBatch = 0 BY Sizes, RemainderLemma
  <2> QED BY <1>1, <2>1, Sizes DEF After, Buckets
<1>2. CASE b # NBatch - 1
  <2>1. b + 1 \in Nat /\ b + 1 < NBatch BY <1>2, Sizes DEF Buckets
  <2>2. (b + 1) % NBatch = b + 1 BY <2>1, Sizes, SmallMod
  <2> QED BY <1>2, <2>1, <2>2, Sizes DEF After, Buckets
<1> QED BY <1>1, <1>2

LEMMA AdvancedFacts ==
  ASSUME TypeOK, NEW i \in Increments
  PROVE  Advanced(i) \in Buckets /\ Advanced(i) # runq
<1>1. (insq + i) % NBatch \in Buckets
  <2>1. insq + i \in Int
    <3>1. insq \in Int BY Sizes DEF TypeOK, Buckets
    <3>2. i \in Int BY Sizes
    <3> QED BY <3>1, <3>2
  <2>2. (insq + i) % NBatch \in 0 .. NBatch - 1
    <3>1. NBatch \in Nat \ {0} BY Sizes
    <3> QED BY <2>1, <3>1, RemainderLemma
  <2> QED BY <2>2 DEF Buckets
<1> QED BY <1>1, AfterFacts DEF Advanced, TypeOK

LEMMA PositionFacts ==
  ASSUME NEW q \in Buckets, NEW p \in Int
  PROVE  Position(q, p) \in Buckets
<1>1. q + p - NInteractive \in Int BY Sizes DEF Buckets
<1> QED BY <1>1, Sizes, RemainderLemma DEF Position, Buckets

LEMMA SubmitBatchKeeps ==
  ASSUME QueuesInv, NEW t \in Tasks, NEW p \in Priorities, NEW i \in Increments,
         SubmitBatch(t, p, i)
  PROVE  QueuesInv'
<1> DEFINE b == Position(Advanced(i), p)
<1>1. ~Queued(t) /\ p \notin Levels /\ Arrives(t, p) /\ ~searching
      /\ UNCHANGED <<interactive, runq, searching>>
      /\ insq' = Advanced(i) /\ late' \in BOOLEAN
      /\ bucket' = [bucket EXCEPT ![b] = Append(@, t)]
      /\ bucketSize' = bucketSize + 1
  BY DEF SubmitBatch, QueuesInv, QueuesAgree, TypeOK
<1>2. p \in 0 .. NInteractive + NBatch - 1 /\ p \in Int BY Sizes
<1>3. b \in Buckets /\ insq' \in Buckets /\ insq' # runq
  BY <1>1, <1>2, AdvancedFacts, PositionFacts DEF QueuesInv, QueuesAgree
<1> HIDE DEF b
<1>4. /\ prio' \in [Tasks -> 0 .. NInteractive + NBatch - 1]
      /\ prio'[t] = p /\ \A u \in Tasks \ {t} : prio'[u] = prio[u]
      /\ arrivals' \in Seq(Tasks) /\ Once(arrivals')
      /\ \A u : InSeq(u, arrivals') <=> InSeq(u, arrivals) \/ u = t
      /\ \A u, w : Ahead(u, w, arrivals) => Ahead(u, w, arrivals')
  BY <1>1, <1>2, Arrival
<1>5. t \notin Held(queue) /\ t \notin Held(bucket) BY <1>1, Placed
<1>6. /\ bucket \in [Buckets -> Seq(Tasks)] /\ HeldOnce(bucket) /\ IsFiniteSet(Held(bucket))
      /\ DOMAIN bucket = Buckets /\ bucketSize \in Nat /\ bucketSize = Cardinality(Held(bucket))
  BY Placed DEF QueuesInv, QueuesAgree
<1>7. /\ bucket' \in [Buckets -> Seq(Tasks)]
      /\ bucket'[b] = Append(bucket[b], t) /\ \A e \in Buckets \ {b} : bucket'[e] = bucket[e]
  BY <1>1, <1>3, <1>6, AppendFacts
<1>8. /\ HeldOnce(bucket')
      /\ IsFiniteSet(Held(bucket')) /\ Held(bucket') = Held(bucket) \cup {t}
      /\ Cardinality(Held(bucket')) = Cardinality(Held(bucket)) + 1
  <2>1. Family(Buckets, bucket) /\ Family(Buckets, bucket') /\ Puts(Buckets, bucket, bucket', b, t)
    BY <1>6, <1>7 DEF Family, Puts
  <2>2. t \in Tasks /\ t \notin Held(bucket) /\ HeldOnce(bucket) /\ IsFiniteSet(Held(bucket))
    BY <1>5, <1>6
  <2>3. HeldOnce(bucket') BY <1>3, <2>1, <2>2, PutInto
  <2>4. /\ IsFiniteSet(Held(bucket')) /\ Held(bucket') = Held(bucket) \cup {t}
        /\ Cardinality(Held(bucket')) = Cardinality(Held(bucket)) + 1
    BY <1>3, <2>1, <2>2, PutInto
  <2> QED BY <2>3, <2>4
<1>9. UNCHANGED <<queue, bitmap, queueSize, runq, searching>> BY <1>1 DEF interactive
<1>10. TypeOK'
  <2>1. TypeOK BY DEF QueuesInv, QueuesAgree
  <2>2. bucketSize' \in Nat BY <1>1, <1>6
  <2> QED BY <1>1, <1>3, <1>4, <1>7, <1>9, <2>1, <2>2 DEF TypeOK
<1>11. BitmapAgrees' /\ HeldOnce(queue') /\ Held(queue') = Held(queue)
  BY <1>9 DEF QueuesInv, QueuesAgree, BitmapAgrees
<1>12. \A u \in Tasks :
         /\ \A e \in Levels : InSeq(u, queue'[e]) <=> Queued(u)' /\ prio'[u] = e
         /\ u \in Held(bucket)' <=> Queued(u)' /\ prio'[u] \notin Levels
  <2> TAKE u \in Tasks
  <2>1. CASE u = t
    <3>1. \A e \in Levels : ~InSeq(t, queue[e]) BY <1>5, Placed DEF Held
    <3> QED BY <1>1, <1>4, <1>8, <1>9, <2>1, <3>1 DEF Queued
  <2>2. CASE u # t
    <3>1. Queued(u)' <=> Queued(u) BY <1>4, <2>2 DEF Queued
    <3>2. prio'[u] = prio[u] BY <1>4, <2>2
    <3>3. u \in Held(bucket') <=> u \in Held(bucket) BY <1>8, <2>2
    <3> QED BY <1>9, <3>1, <3>2, <3>3 DEF QueuesInv, QueuesAgree
  <2> QED BY <2>1, <2>2
<1>13. Ordered' BY <1>4, <1>9 DEF QueuesInv, Ordered, Before
<1>14. insq' # runq' /\ bucketSize' = Cardinality(Held(bucket'))
       /\ queueSize' = Cardinality(Held(queue'))
  BY <1>1, <1>3, <1>6, <1>8, <1>9, <1>11, Placed
<1>15. QueuesAgree' BY <1>8, <1>10, <1>11, <1>12, <1>14 DEF QueuesAgree
<1>16. IsFiniteSet(Held(queue')) BY <1>9 DEF QueuesInv
<1>17. SearchInv' BY <1>1 DEF SearchInv
<1> QED BY <1>4, <1>8, <1>13, <1>15, <1>16, <1>17 DEF QueuesInv

\* The front of the bucket at which a search ends.
LEMMA TakeBatchFacts ==
  ASSUME QueuesInv, TakeBatch
  PROVE  /\ runq \in Buckets /\ bucket[runq] # <<>> /\ bucket[runq] \in Seq(Tasks)
         /\ Head(bucket[runq]) \in Tasks /\ Head(bucket[runq]) \in Held(bucket)
         /\ InSeq(Head(bucket[runq]), bucket[runq])
         /\ Queued(Head(bucket[runq])) /\ prio[Head(bucket[runq])] \notin Levels
         /\ Leaves(Head(bucket[runq])) /\ queueSize = 0 /\ searching
<1>1. runq \in Buckets BY DEF QueuesInv, QueuesAgree, TypeOK
<1>2. bucket[runq] # <<>> /\ bucket[runq] \in Seq(Tasks) BY <1>1, Placed DEF TakeBatch
<1>3. /\ Head(bucket[runq]) = bucket[runq][1] /\ Head(bucket[runq]) \in Tasks
      /\ Len(bucket[runq]) \in Nat \ {0}
  BY <1>2, TailFacts
<1>4. InSeq(Head(bucket[runq]), bucket[runq]) BY <1>3 DEF InSeq
<1>5. Head(bucket[runq]) \in Held(bucket) BY <1>1, <1>3, <1>4, Placed DEF Held
<1>6. Queued(Head(bucket[runq])) /\ prio[Head(bucket[runq])] \notin Levels
  BY <1>5, Placed
<1> QED BY <1>1, <1>2, <1>3, <1>4, <1>5, <1>6 DEF TakeBatch, QueuesInv, SearchInv

LEMMA TakeBatchKeeps ==
  ASSUME QueuesInv, TakeBatch
  PROVE  QueuesInv'
<1> DEFINE t == Head(bucket[runq])
<1>1. /\ UNCHANGED <<interactive, runq, insq, late>> /\ searching' = FALSE
      /\ bucket' = [bucket EXCEPT ![runq] = Tail(@)]
      /\ bucketSize' = bucketSize - 1
  BY DEF TakeBatch, QueuesInv, QueuesAgree, TypeOK
<1>2. /\ runq \in Buckets /\ bucket[runq] # <<>> /\ bucket[runq] \in Seq(Tasks)
      /\ t \in Tasks /\ t \in Held(bucket) /\ Queued(t) /\ prio[t] \notin Levels /\ Leaves(t)
  BY TakeBatchFacts
<1> HIDE DEF t
<1>3. /\ prio' \in [Tasks -> 0 .. NInteractive + NBatch - 1]
      /\ \A u \in Tasks \ {t} : prio'[u] = prio[u]
      /\ arrivals' \in Seq(Tasks) /\ Once(arrivals')
      /\ \A u : InSeq(u, arrivals') <=> InSeq(u, arrivals) /\ u # t
      /\ \A u, w : Ahead(u, w, arrivals') <=> Ahead(u, w, arrivals) /\ u # t /\ w # t
  BY <1>2, Departure
<1>4. /\ bucket \in [Buckets -> Seq(Tasks)] /\ HeldOnce(bucket) /\ IsFiniteSet(Held(bucket))
      /\ DOMAIN bucket = Buckets /\ bucketSize \in Nat /\ bucketSize = Cardinality(Held(bucket))
  BY Placed DEF QueuesInv, QueuesAgree
<1>5. /\ bucket' \in [Buckets -> Seq(Tasks)]
      /\ bucket'[runq] = Tail(bucket[runq]) /\ \A e \in Buckets \ {runq} : bucket'[e] = bucket[e]
  BY <1>1, <1>2, <1>4, TailFacts
<1>6. /\ HeldOnce(bucket')
      /\ IsFiniteSet(Held(bucket')) /\ Held(bucket') = Held(bucket) \ {t}
      /\ Cardinality(Held(bucket')) = Cardinality(Held(bucket)) - 1
  <2>1. Family(Buckets, bucket) /\ Family(Buckets, bucket') /\ Takes(Buckets, bucket, bucket', runq)
    BY <1>4, <1>5 DEF Family, Takes
  <2>2. t = Head(bucket[runq]) BY DEF t
  <2>3. HeldOnce(bucket) /\ IsFiniteSet(Held(bucket)) /\ bucket[runq] # <<>> /\ runq \in Buckets
    BY <1>2, <1>4
  <2>4. HeldOnce(bucket') BY <2>1, <2>2, <2>3, TakeFrom
  <2>5. /\ IsFiniteSet(Held(bucket')) /\ Held(bucket') = Held(bucket) \ {t}
        /\ Cardinality(Held(bucket')) = Cardinality(Held(bucket)) - 1
    BY <2>1, <2>2, <2>3, TakeFrom
  <2> QED BY <2>4, <2>5
<1>7. bucketSize' \in Nat /\ bucketSize' = Cardinality(Held(bucket'))
  <2>1. Cardinality(Held(bucket)) # 0 BY <1>2, <1>4, FS_EmptySet
  <2> QED BY <1>1, <1>4, <1>6, <2>1
<1>8. UNCHANGED <<queue, bitmap, queueSize, runq, insq, late>> BY <1>1 DEF interactive
<1>9. TypeOK'
  <2>1. TypeOK BY DEF QueuesInv, QueuesAgree
  <2>2. searching' \in BOOLEAN BY <1>1
  <2>3. /\ queue' \in [Levels -> Seq(Tasks)] /\ bitmap' \in [Levels -> BOOLEAN]
        /\ queueSize' \in Nat /\ runq' \in Buckets /\ insq' \in Buckets /\ late' \in BOOLEAN
    BY <1>8, <2>1 DEF TypeOK
  <2> QED BY <1>3, <1>5, <1>7, <2>2, <2>3 DEF TypeOK
<1>10. BitmapAgrees' /\ HeldOnce(queue') /\ Held(queue') = Held(queue)
  BY <1>8 DEF QueuesInv, QueuesAgree, BitmapAgrees
<1>11. \A u \in Tasks :
         /\ \A e \in Levels : InSeq(u, queue'[e]) <=> Queued(u)' /\ prio'[u] = e
         /\ u \in Held(bucket)' <=> Queued(u)' /\ prio'[u] \notin Levels
  <2> TAKE u \in Tasks
  <2>1. CASE u = t
    <3>1. \A e \in Levels : ~InSeq(t, queue[e]) BY <1>2 DEF QueuesInv, QueuesAgree
    <3> QED BY <1>3, <1>6, <1>8, <2>1, <3>1 DEF Queued
  <2>2. CASE u # t
    <3>1. Queued(u)' <=> Queued(u) BY <1>3, <2>2 DEF Queued
    <3>2. prio'[u] = prio[u] BY <1>3, <2>2
    <3>3. u \in Held(bucket') <=> u \in Held(bucket) BY <1>6, <2>2
    <3> QED BY <1>8, <3>1, <3>2, <3>3 DEF QueuesInv, QueuesAgree
  <2> QED BY <2>1, <2>2
<1>12. Ordered'
  <2> SUFFICES ASSUME NEW e \in Levels, NEW i \in 1 .. Len(queue[e]),
                      NEW j \in 1 .. Len(queue[e]), i < j
               PROVE  Ahead(queue[e][i], queue[e][j], arrivals')
    BY <1>8 DEF Ordered, Before
  <2>1. \A k \in 1 .. Len(queue[e]) : queue[e][k] # t
    BY <1>2 DEF QueuesInv, QueuesAgree, InSeq
  <2> QED BY <1>3, <2>1 DEF QueuesInv, Ordered, Before
<1> QED BY <1>1, <1>3, <1>6, <1>7, <1>8, <1>9, <1>10, <1>11, <1>12
        DEF QueuesInv, QueuesAgree, SearchInv

LEMMA SearchKeeps ==
  ASSUME QueuesInv, StartSearch \/ PassBucket
  PROVE  QueuesInv'
<1>1. /\ UNCHANGED <<queue, bitmap, queueSize, bucket, bucketSize, late, prio, arrivals>>
      /\ searching' /\ queueSize = 0 /\ bucketSize > 0
  BY DEF StartSearch, PassBucket, interactive, calendar, QueuesInv, SearchInv
<1>2. runq' \in Buckets /\ insq' \in Buckets /\ insq' # runq' /\ searching' \in BOOLEAN
  <2>1. runq \in Buckets /\ insq \in Buckets /\ insq # runq /\ After(runq) \in Buckets
    BY AfterFacts DEF QueuesInv, QueuesAgree, TypeOK
  <2>2. After(After(runq)) \in Buckets /\ After(After(runq)) # After(runq)
    BY <2>1, AfterFacts
  <2> QED BY <2>1, <2>2 DEF StartSearch, PassBucket, calendar
<1>3. TypeOK' BY <1>1, <1>2 DEF QueuesInv, QueuesAgree, TypeOK
<1> QED BY <1>1, <1>2, <1>3
        DEF QueuesInv, QueuesAgree, SearchInv, BitmapAgrees, Ordered, Before, Queued

LEMMA NextQueues == QueuesInv /\ [Next]_vars => QueuesInv'
<1> SUFFICES ASSUME QueuesInv, [Next]_vars PROVE QueuesInv'
  OBVIOUS
<1>1. CASE UNCHANGED vars
  BY <1>1 DEF vars, interactive, calendar, QueuesInv, QueuesAgree, TypeOK, SearchInv,
              BitmapAgrees, Ordered, Before, Queued
<1>2. CASE Submit BY <1>2, SubmitInteractiveKeeps, SubmitBatchKeeps DEF Submit
<1>3. CASE GetNextTask BY <1>3, TakeInteractiveKeeps, TakeBatchKeeps, SearchKeeps DEF GetNextTask
<1> QED BY <1>1, <1>2, <1>3 DEF Next

LEMMA QueuesHold == Spec => []QueuesInv
BY InitQueues, NextQueues, PTL DEF Spec

\* The queues, buckets and indices keep their types, for any numbers of queues
\* and buckets: neither index leaves the ring (calender_queue.cc:8-13 and :24-27).
THEOREM Typing == Spec => []TypeOK
<1>1. QueuesInv => TypeOK BY DEF QueuesInv, QueuesAgree
<1> QED BY <1>1, QueuesHold, PTL

\* What getNextTask goes by agrees with the queues: no task is lost or queued
\* twice, none is taken from an empty queue, and insq is never runq
\* (priority_queue.cc:7-27, calender_queue.cc:6-34).
THEOREM QueuesAlwaysAgree == Spec => []QueuesAgree
<1>1. QueuesInv => QueuesAgree BY DEF QueuesInv
<1> QED BY <1>1, QueuesHold, PTL

\* A search for a batch task has one to find, and no interactive task waits.
LEMMA SearchFinds ==
  ASSUME QueuesInv, searching
  PROVE  /\ \E b \in Buckets : bucket[b] # <<>>
         /\ Held(queue) = {}
<1>1. queueSize = 0 /\ bucketSize > 0 BY DEF QueuesInv, SearchInv
<1>2. IsFiniteSet(Held(queue)) /\ IsFiniteSet(Held(bucket)) BY DEF QueuesInv
<1>3. Held(queue) = {} BY <1>1, <1>2, Placed, FS_EmptySet
<1>4. Cardinality(Held(bucket)) # 0 BY <1>1, Placed
<1>5. Held(bucket) # {} BY <1>4, FS_EmptySet
<1>6. PICK b \in Buckets : \E t \in Tasks : InSeq(t, bucket[b]) BY <1>5, Placed DEF Held
<1>7. bucket[b] # <<>> BY <1>6 DEF InSeq
<1> QED BY <1>3, <1>7

\* While the calendar queue is searched there is a task to find: the search
\* could go round for ever only if there were none (calender_queue.cc:22-34).
THEOREM SearchAlwaysFinds == Spec => [](searching => \E b \in Buckets : bucket[b] # <<>>)
<1>1. QueuesInv => (searching => \E b \in Buckets : bucket[b] # <<>>) BY SearchFinds
<1> QED BY <1>1, QueuesHold, PTL

\* Only the task at the front of a queue leaves.
LEMMA TakenOnly ==
  ASSUME QueuesInv, [Next]_vars, NEW t \in Tasks, Taken(t)
  PROVE  \/ \E p \in Levels : TakeInteractive(p) /\ t = Head(queue[p])
         \/ TakeBatch /\ t = Head(bucket[runq])
<1>1. InSeq(t, arrivals) /\ ~InSeq(t, arrivals') BY DEF Taken, Queued
<1>2. CASE UNCHANGED arrivals BY <1>1, <1>2
<1>3. CASE Submit
  <2>1. PICK u \in Tasks, p \in Priorities : ~Queued(u) /\ Arrives(u, p)
    BY <1>3 DEF Submit, SubmitInteractive, SubmitBatch
  <2>2. p \in 0 .. NInteractive + NBatch - 1 BY Sizes
  <2> QED BY <1>1, <2>1, <2>2, Arrival
<1>4. ASSUME NEW p \in Levels, TakeInteractive(p) PROVE t = Head(queue[p])
  <2>1. Head(queue[p]) \in Tasks /\ Queued(Head(queue[p])) /\ Leaves(Head(queue[p]))
    BY <1>4, TakeInteractiveFacts
  <2> QED BY <1>1, <2>1, Departure
<1>5. CASE TakeBatch
  <2>1. /\ Head(bucket[runq]) \in Tasks /\ Queued(Head(bucket[runq]))
        /\ Leaves(Head(bucket[runq]))
    BY <1>5, TakeBatchFacts
  <2>2. t = Head(bucket[runq]) BY <1>1, <2>1, Departure
  <2> QED BY <1>5, <2>2
<1>6. StartSearch \/ PassBucket => UNCHANGED arrivals BY DEF StartSearch, PassBucket
<1> QED BY <1>2, <1>3, <1>4, <1>5, <1>6 DEF Next, GetNextTask, vars

\* Interactive tasks come before batch tasks, in order of priority, and those of
\* one priority in order of submission (scheduler.cc:83-87, priority_queue.cc:14-27).
THEOREM InteractiveAlwaysFirst == Spec => InteractiveFirst
<1>1. QueuesInv /\ [Next]_vars =>
        [\A t, u \in Tasks :
            Taken(t) /\ Queued(u) /\ u # t /\ prio[u] \in Levels =>
              prio[t] < prio[u] \/ (prio[t] = prio[u] /\ Before(t, u))]_vars
  <2> SUFFICES ASSUME QueuesInv, [Next]_vars, NEW t \in Tasks, NEW u \in Tasks,
                      Taken(t), Queued(u), u # t, prio[u] \in Levels
               PROVE  prio[t] < prio[u] \/ (prio[t] = prio[u] /\ Before(t, u))
    OBVIOUS
  <2>1. u \in Held(queue) /\ InSeq(u, queue[prio[u]]) BY Placed DEF QueuesInv, QueuesAgree
  <2>2. ~TakeBatch BY <2>1, SearchFinds DEF TakeBatch
  <2>3. PICK p \in Levels : TakeInteractive(p) /\ t = Head(queue[p]) BY <2>2, TakenOnly
  <2>4. prio[t] = p /\ t = queue[p][1] /\ queue[p] # <<>> /\ queue[p] \in Seq(Tasks)
    BY <2>3, TakeInteractiveFacts
  <2>5. queue[prio[u]] # <<>> BY <2>1 DEF InSeq
  <2>6. bitmap[prio[u]] BY <2>5 DEF QueuesInv, QueuesAgree, BitmapAgrees
  <2>7. ~(prio[u] < p) BY <2>3, <2>6 DEF TakeInteractive
  <2>8. p \in Int /\ prio[u] \in Int BY DEF Levels
  <2>9. CASE prio[u] # p BY <2>4, <2>7, <2>8, <2>9
  <2>10. CASE prio[u] = p
    <3>1. PICK j \in 1 .. Len(queue[p]) : queue[p][j] = u BY <2>1, <2>10 DEF InSeq
    <3>2. 1 \in 1 .. Len(queue[p]) /\ 1 < j BY <2>4, <3>1
    <3>3. Before(queue[p][1], queue[p][j]) BY <3>1, <3>2 DEF QueuesInv, Ordered
    <3> QED BY <2>4, <2>10, <3>1, <3>3
  <2> QED BY <2>9, <2>10
<1> QED BY <1>1, QueuesHold, PTL DEF Spec, InteractiveFirst

------------------------------------------------------------------------------
(* The order of the calendar, until the clock moves insq.                   *)

\* How far a bucket is from the one tasks are taken from.
Distance(r, b) == (b - r) % NBatch

LEMMA DistanceFacts ==
  ASSUME NEW r \in Buckets, NEW b \in Buckets
  PROVE  /\ Distance(r, b) \in Nat
         /\ Distance(r, b) = IF b >= r THEN b - r ELSE b - r + NBatch
<1>1. NBatch \in Nat \ {0} /\ r \in Nat /\ b \in Nat /\ r < NBatch /\ b < NBatch
  BY Sizes DEF Buckets
<1>2. CASE b >= r
  <2>1. b - r \in Nat /\ b - r < NBatch BY <1>1, <1>2
  <2>2. (b - r) % NBatch = b - r BY <1>1, <2>1, SmallMod
  <2> QED BY <1>2, <2>1, <2>2 DEF Distance
<1>3. CASE b < r
  <2>1. b - r \in Int /\ -NBatch <= b - r /\ b - r < 0 BY <1>1, <1>3
  <2>2. (b - r) % NBatch = b - r + NBatch BY <1>1, <2>1, NegativeMod
  <2>3. b - r + NBatch \in Nat /\ ~(b >= r) BY <1>1, <1>3
  <2> QED BY <2>2, <2>3 DEF Distance
<1> QED BY <1>1, <1>2, <1>3

\* Every bucket but the one passed comes nearer.
LEMMA Nearer ==
  ASSUME NEW r \in Buckets, NEW b \in Buckets, b # r
  PROVE  Distance(After(r), b) = Distance(r, b) - 1
<1>1. After(r) \in Buckets /\ After(r) = IF r = NBatch - 1 THEN 0 ELSE r + 1 BY AfterFacts
<1>2. Distance(r, b) = IF b >= r THEN b - r ELSE b - r + NBatch BY DistanceFacts
<1>3. Distance(After(r), b) = IF b >= After(r) THEN b - After(r) ELSE b - After(r) + NBatch
  BY <1>1, DistanceFacts
<1> QED BY <1>1, <1>2, <1>3, Sizes DEF Buckets

\* Where a task is inserted when insq is right after runq.
LEMMA InsertedAt ==
  ASSUME NEW r \in Buckets, NEW p \in Int,
         NInteractive <= p, p < NInteractive + NBatch - 1
  PROVE  Distance(r, Position(After(r), p)) = p - NInteractive + 1
<1> DEFINE x == After(r) + p - NInteractive
<1>1. /\ After(r) \in Buckets /\ After(r) = IF r = NBatch - 1 THEN 0 ELSE r + 1
      /\ Position(After(r), p) \in Buckets
  BY AfterFacts, PositionFacts
<1>2. x \in Nat /\ x < 2 * NBatch - 1 /\ NBatch \in Nat \ {0} BY <1>1, Sizes DEF Buckets
<1>3. Position(After(r), p) = x % NBatch BY DEF Position
<1>4. CASE x < NBatch
  <2>1. Position(After(r), p) = x BY <1>2, <1>3, <1>4, SmallMod
  <2>2. Distance(r, x) = IF x >= r THEN x - r ELSE x - r + NBatch
    BY <1>1, <2>1, DistanceFacts
  <2> QED BY <1>1, <1>4, <2>1, <2>2, Sizes DEF Buckets
<1>5. CASE x >= NBatch
  <2>1. x % NBatch = x - NBatch BY <1>2, <1>5, WrapMod
  <2>2. Position(After(r), p) = x - NBatch BY <1>3, <2>1
  <2>3. x - NBatch \in Buckets BY <1>1, <2>2
  <2>4. Distance(r, x - NBatch) = IF x - NBatch >= r THEN x - NBatch - r ELSE x - NBatch - r + NBatch
    BY <2>3, DistanceFacts
  <2>5. x \in Int /\ r \in Int /\ NBatch \in Int BY <1>2 DEF Buckets
  <2> HIDE DEF x
  <2>6. Distance(r, x - NBatch) = IF x - NBatch >= r THEN x - NBatch - r ELSE x - r
    BY <2>4, <2>5
  <2> QED BY <1>1, <1>5, <2>2, <2>6, <2>5, Sizes DEF Buckets, x
<1> QED BY <1>2, <1>4, <1>5

\* Until the clock moves it, insq is right after runq.  A task is then never
\* farther away than its priority says, and nearer than a later one of a lower
\* priority.
CalendarInv ==
    late \/ /\ insq = After(runq)
            /\ \A b \in Buckets : \A t \in Tasks :
                  InSeq(t, bucket[b]) => Distance(runq, b) <= prio[t] - NInteractive + 1
            /\ \A b, c \in Buckets : \A u, t \in Tasks :
                  InSeq(u, bucket[b]) /\ InSeq(t, bucket[c]) /\ Before(u, t) /\ prio[u] < prio[t]
                  => Distance(runq, b) < Distance(runq, c)

\* A task that takes part in a step, leaving, leaves the others' order alone.
LEMMA OthersKeep ==
  ASSUME QueuesInv, CalendarInv, ~late, insq' = insq, runq' = runq, NEW t \in Tasks,
         \A u \in Tasks \ {t} : prio'[u] = prio[u],
         \A b \in Buckets : \A u \in Tasks : InSeq(u, bucket'[b]) => InSeq(u, bucket[b]) /\ u # t,
         \A u, w \in Tasks \ {t} : Ahead(u, w, arrivals') => Ahead(u, w, arrivals)
  PROVE  CalendarInv'
<1>1. \A b \in Buckets : \A u \in Tasks :
         InSeq(u, bucket'[b]) => Distance(runq, b) <= prio'[u] - NInteractive + 1
  BY DEF CalendarInv
<1>2. \A b, c \in Buckets : \A u, w \in Tasks :
         InSeq(u, bucket'[b]) /\ InSeq(w, bucket'[c]) /\ Ahead(u, w, arrivals') /\ prio'[u] < prio'[w]
         => Distance(runq, b) < Distance(runq, c)
  BY DEF CalendarInv, Before
<1>3. insq' = After(runq)' BY DEF CalendarInv, After
<1> QED BY <1>1, <1>2, <1>3 DEF CalendarInv, Before

LEMMA SubmitBatchOrder ==
  ASSUME QueuesInv, CalendarInv, NInteractive + NBatch - 1 \notin Priorities,
         NEW t \in Tasks, NEW p \in Priorities, NEW i \in Increments, SubmitBatch(t, p, i)
  PROVE  CalendarInv'
<1> SUFFICES ASSUME ~late' PROVE CalendarInv'
  BY DEF CalendarInv
<1> DEFINE b == Position(Advanced(i), p)
<1>1. /\ ~Queued(t) /\ p \notin Levels /\ Arrives(t, p) /\ runq' = runq
      /\ insq' = Advanced(i) /\ ~late /\ i = 0
      /\ bucket' = [bucket EXCEPT ![b] = Append(@, t)]
  BY DEF SubmitBatch
<1>2. /\ p \in 0 .. NInteractive + NBatch - 1 /\ p \in Int
      /\ NInteractive <= p /\ p < NInteractive + NBatch - 1
  <2>1. p \in 0 .. NInteractive + NBatch - 1 /\ p # NInteractive + NBatch - 1 BY Sizes
  <2>2. ~(p < NInteractive) BY <1>1, <2>1, Sizes DEF Levels
  <2> QED BY <2>1, <2>2, Sizes
<1>3. runq \in Buckets /\ insq \in Buckets /\ insq # runq /\ insq = After(runq)
  BY <1>1 DEF QueuesInv, QueuesAgree, TypeOK, CalendarInv
<1>4. Advanced(i) = insq
  <2>1. insq \in Nat /\ insq < NBatch /\ insq + i = insq BY <1>1, <1>3, Sizes DEF Buckets
  <2>2. NBatch \in Nat \ {0} BY Sizes
  <2>3. (insq + i) % NBatch = insq BY <2>1, <2>2, SmallMod
  <2> QED BY <1>3, <2>3 DEF Advanced
<1>5. b \in Buckets /\ Distance(runq, b) = p - NInteractive + 1
  BY <1>2, <1>3, <1>4, PositionFacts, InsertedAt
<1> HIDE DEF b
<1>6. /\ prio' \in [Tasks -> 0 .. NInteractive + NBatch - 1]
      /\ prio'[t] = p /\ \A u \in Tasks \ {t} : prio'[u] = prio[u]
      /\ \A u, w : Ahead(u, w, arrivals') => u # t /\ (w # t => Ahead(u, w, arrivals))
  BY <1>1, <1>2, Arrival
<1>7. \A e \in Buckets : \A u \in Tasks :
         InSeq(u, bucket'[e]) => (u # t /\ InSeq(u, bucket[e])) \/ (u = t /\ e = b)
  <2>1. bucket \in [Buckets -> Seq(Tasks)] BY Placed
  <2>2. \A e \in Buckets : ~InSeq(t, bucket[e]) BY <1>1, Placed DEF Held
  <2>3. bucket'[b] = Append(bucket[b], t) /\ \A e \in Buckets \ {b} : bucket'[e] = bucket[e]
    BY <1>1, <1>5, <2>1
  <2>4. bucket[b] \in Seq(Tasks) /\ Len(bucket[b]) \in Nat BY <1>5, <2>1
  <2>5. \A u : InSeq(u, bucket'[b]) => InSeq(u, bucket[b]) \/ u = t
    BY <2>3, <2>4, AppendFacts DEF InSeq
  <2>6. \A e \in Buckets : \A u \in Tasks :
           InSeq(u, bucket'[e]) => InSeq(u, bucket[e]) \/ (u = t /\ e = b)
    BY <2>2, <2>3, <2>5
  <2> QED BY <2>2, <2>6
<1>8. \A e \in Buckets : \A u \in Tasks :
         InSeq(u, bucket'[e]) => Distance(runq, e) <= prio'[u] - NInteractive + 1
  <2> SUFFICES ASSUME NEW e \in Buckets, NEW u \in Tasks, InSeq(u, bucket'[e])
               PROVE  Distance(runq, e) <= prio'[u] - NInteractive + 1
    OBVIOUS
  <2>1. CASE u = t /\ e = b
    <3>1. prio'[u] = p /\ Distance(runq, e) = p - NInteractive + 1 BY <1>5, <1>6, <2>1
    <3>2. p - NInteractive + 1 \in Int BY <1>2, Sizes
    <3> QED BY <3>1, <3>2
  <2>2. CASE u # t /\ InSeq(u, bucket[e])
    <3>1. prio'[u] = prio[u] BY <1>6, <2>2
    <3> QED BY <1>1, <2>2, <3>1 DEF CalendarInv
  <2> QED BY <1>7, <2>1, <2>2
<1>9. \A c, e \in Buckets : \A u, w \in Tasks :
         InSeq(u, bucket'[c]) /\ InSeq(w, bucket'[e]) /\ Ahead(u, w, arrivals') /\ prio'[u] < prio'[w]
         => Distance(runq, c) < Distance(runq, e)
  <2> SUFFICES ASSUME NEW c \in Buckets, NEW e \in Buckets, NEW u \in Tasks, NEW w \in Tasks,
                      InSeq(u, bucket'[c]), InSeq(w, bucket'[e]),
                      Ahead(u, w, arrivals'), prio'[u] < prio'[w]
               PROVE  Distance(runq, c) < Distance(runq, e)
    OBVIOUS
  <2>1. u # t /\ InSeq(u, bucket[c]) /\ prio'[u] = prio[u] BY <1>6, <1>7
  <2>2. CASE w = t /\ e = b
    <3>1. Distance(runq, c) <= prio[u] - NInteractive + 1 BY <1>1, <2>1 DEF CalendarInv
    <3>2. prio[u] < p /\ Distance(runq, e) = p - NInteractive + 1 BY <1>5, <1>6, <2>1, <2>2
    <3>3. Distance(runq, c) \in Int BY <1>3, DistanceFacts
    <3>4. prio[u] \in Int BY Sizes DEF QueuesInv, QueuesAgree, TypeOK
    <3> QED BY <1>2, <3>1, <3>2, <3>3, <3>4, Sizes
  <2>3. CASE w # t /\ InSeq(w, bucket[e])
    <3>1. prio'[w] = prio[w] /\ Ahead(u, w, arrivals) BY <1>6, <2>3
    <3> QED BY <1>1, <2>1, <2>3, <3>1 DEF CalendarInv, Before
  <2> QED BY <1>7, <2>2, <2>3
<1>10. insq' = After(runq)' BY <1>1, <1>3, <1>4 DEF After
<1> QED BY <1>1, <1>8, <1>9, <1>10 DEF CalendarInv, Before

LEMMA PassBucketOrder ==
  ASSUME QueuesInv, CalendarInv, PassBucket
  PROVE  CalendarInv'
<1> SUFFICES ASSUME ~late PROVE CalendarInv'
  BY DEF CalendarInv, PassBucket
<1>1. /\ UNCHANGED <<bucket, prio, arrivals, late>> /\ bucket[runq] = <<>>
      /\ runq \in Buckets /\ insq = After(runq)
      /\ runq' = After(runq) /\ insq' = After(After(runq))
  BY DEF PassBucket, CalendarInv, QueuesInv, QueuesAgree, TypeOK
<1>2. \A b \in Buckets : \A t \in Tasks : InSeq(t, bucket[b]) =>
         /\ Distance(runq', b) = Distance(runq, b) - 1
         /\ Distance(runq, b) \in Nat
  <2> SUFFICES ASSUME NEW b \in Buckets, NEW t \in Tasks, InSeq(t, bucket[b])
               PROVE  /\ Distance(runq', b) = Distance(runq, b) - 1
                      /\ Distance(runq, b) \in Nat
    OBVIOUS
  <2>1. b # runq BY <1>1 DEF InSeq
  <2> QED BY <1>1, <2>1, Nearer, DistanceFacts
<1>3. \A b \in Buckets : \A t \in Tasks :
         InSeq(t, bucket[b]) => Distance(runq', b) <= prio[t] - NInteractive + 1
  <2> SUFFICES ASSUME NEW b \in Buckets, NEW t \in Tasks, InSeq(t, bucket[b])
               PROVE  Distance(runq', b) <= prio[t] - NInteractive + 1
    OBVIOUS
  <2>1. Distance(runq, b) <= prio[t] - NInteractive + 1 BY DEF CalendarInv
  <2>2. prio[t] \in Int BY Sizes DEF QueuesInv, QueuesAgree, TypeOK
  <2> QED BY <1>2, <2>1, <2>2, Sizes
<1>4. \A b, c \in Buckets : \A u, t \in Tasks :
         InSeq(u, bucket[b]) /\ InSeq(t, bucket[c]) /\ Before(u, t) /\ prio[u] < prio[t]
         => Distance(runq', b) < Distance(runq', c)
  BY <1>2 DEF CalendarInv
<1>5. insq' = After(runq)' BY <1>1 DEF After
<1> QED BY <1>1, <1>3, <1>4, <1>5 DEF CalendarInv, Before

LEMMA NextOrder ==
  ASSUME NInteractive + NBatch - 1 \notin Priorities, QueuesInv, CalendarInv, [Next]_vars
  PROVE  CalendarInv'
<1>1. CASE UNCHANGED vars
  BY <1>1 DEF vars, calendar, CalendarInv, Before, After
<1>2. ASSUME NEW t \in Tasks, NEW p \in Priorities, SubmitInteractive(t, p) PROVE CalendarInv'
  <2>1. ~Queued(t) /\ Arrives(t, p) /\ UNCHANGED calendar BY <1>2 DEF SubmitInteractive
  <2>2. p \in 0 .. NInteractive + NBatch - 1 BY Sizes
  <2>3. \A b \in Buckets : ~InSeq(t, bucket[b]) BY <2>1, Placed DEF Held
  <2>4. /\ \A u \in Tasks \ {t} : prio'[u] = prio[u]
        /\ \A u, w : Ahead(u, w, arrivals') => u # t /\ (w # t => Ahead(u, w, arrivals))
    BY <2>1, <2>2, Arrival
  <2>5. CASE late BY <2>1, <2>5 DEF calendar, CalendarInv
  <2>6. CASE ~late BY <2>1, <2>3, <2>4, <2>6, OthersKeep DEF calendar
  <2> QED BY <2>5, <2>6
<1>3. ASSUME NEW p \in Levels, TakeInteractive(p) PROVE CalendarInv'
  <2> DEFINE t == Head(queue[p])
  <2>1. /\ t \in Tasks /\ Queued(t) /\ prio[t] = p /\ Leaves(t) /\ UNCHANGED calendar
    BY <1>3, TakeInteractiveFacts DEF TakeInteractive
  <2> HIDE DEF t
  <2>2. \A b \in Buckets : ~InSeq(t, bucket[b]) BY <2>1, Placed DEF Held
  <2>3. /\ \A u \in Tasks \ {t} : prio'[u] = prio[u]
        /\ \A u, w : Ahead(u, w, arrivals') <=> Ahead(u, w, arrivals) /\ u # t /\ w # t
    BY <2>1, Departure
  <2>4. CASE late BY <2>1, <2>4 DEF calendar, CalendarInv
  <2>5. CASE ~late BY <2>1, <2>2, <2>3, <2>5, OthersKeep DEF calendar
  <2> QED BY <2>4, <2>5
<1>4. CASE TakeBatch
  <2> DEFINE t == Head(bucket[runq])
  <2>1. /\ runq \in Buckets /\ bucket[runq] # <<>> /\ t \in Tasks /\ Queued(t) /\ Leaves(t)
    BY <1>4, TakeBatchFacts
  <2>2. /\ bucket' = [bucket EXCEPT ![runq] = Tail(@)] /\ UNCHANGED <<runq, insq, late>>
    BY <1>4 DEF TakeBatch
  <2>3. \A b \in Buckets : \A u \in Tasks : InSeq(u, bucket'[b]) => InSeq(u, bucket[b]) /\ u # t
    <3>1. bucket[runq] \in Seq(Tasks) /\ bucket \in [Buckets -> Seq(Tasks)] BY <2>1, Placed
    <3>2. bucket'[runq] = Tail(bucket[runq]) /\ \A e \in Buckets \ {runq} : bucket'[e] = bucket[e]
      BY <2>1, <2>2, <3>1
    <3>3. \A u : InSeq(u, Tail(bucket[runq])) => InSeq(u, bucket[runq])
      BY <2>1, <3>1, TailFacts DEF InSeq
    <3>4. \A u \in Tasks : u \in Held(bucket') => u # t
      <4>1. QueuesInv' BY <1>4, TakeBatchKeeps
      <4>2. \A u : InSeq(u, arrivals') => u # t BY <2>1, Departure
      <4> QED BY <4>1, <4>2 DEF QueuesInv, QueuesAgree, Queued
    <3>5. DOMAIN bucket' = Buckets BY <2>2, <3>1
    <3> QED BY <3>2, <3>3, <3>4, <3>5 DEF Held
  <2> HIDE DEF t
  <2>4. /\ \A u \in Tasks \ {t} : prio'[u] = prio[u]
        /\ \A u, w : Ahead(u, w, arrivals') <=> Ahead(u, w, arrivals) /\ u # t /\ w # t
    BY <2>1, Departure
  <2>5. CASE late BY <2>2, <2>5 DEF CalendarInv
  <2>6. CASE ~late BY <2>1, <2>2, <2>3, <2>4, <2>6, OthersKeep
  <2> QED BY <2>5, <2>6
<1>5. CASE StartSearch
  BY <1>5 DEF StartSearch, calendar, CalendarInv, Before, After
<1> QED BY <1>1, <1>2, <1>3, <1>4, <1>5, SubmitBatchOrder, PassBucketOrder
        DEF Next, Submit, GetNextTask

\* Until the clock moves the insertion index, no batch task is overtaken by a
\* later one of a lower priority, if none has the very lowest priority, whose
\* bucket is the one before insq (calender_queue.cc:8-16 and :22-33).
THEOREM PriorityOrderAtFirst ==
  ASSUME NInteractive + NBatch - 1 \notin Priorities
  PROVE  Spec => HigherPriorityFirstAtFirst
<1>1. Init => CalendarInv
  <2> SUFFICES ASSUME Init PROVE CalendarInv
    OBVIOUS
  <2>1. After(runq) = insq
    <3>1. 0 \in Buckets /\ 0 # NBatch - 1 BY Sizes DEF Buckets
    <3> QED BY <3>1, AfterFacts DEF Init
  <2>2. \A b \in Buckets : \A t : ~InSeq(t, bucket[b]) BY DEF Init, InSeq
  <2> QED BY <2>1, <2>2 DEF CalendarInv
<1>2. QueuesInv /\ CalendarInv /\ [Next]_vars => CalendarInv' BY NextOrder
<1>3. QueuesInv /\ CalendarInv /\ [Next]_vars => [~late => ~Overtakes]_vars
  <2> SUFFICES ASSUME QueuesInv, CalendarInv, [Next]_vars, ~late, Overtakes PROVE FALSE
    OBVIOUS
  <2>1. PICK t, u \in Tasks : /\ Taken(t) /\ Before(u, t) /\ prio[u] < prio[t]
                              /\ prio[t] \notin Levels /\ prio[u] \notin Levels
    BY DEF Overtakes
  <2>2. TakeBatch /\ t = Head(bucket[runq]) BY <2>1, TakenOnly, TakeInteractiveFacts
  <2>3. runq \in Buckets /\ InSeq(t, bucket[runq]) BY <2>2, TakeBatchFacts
  <2>4. Queued(u) BY <2>1 DEF Before, Ahead, Queued, InSeq
  <2>5. PICK b \in Buckets : InSeq(u, bucket[b]) BY <2>1, <2>4, Placed DEF Held
  <2>6. Distance(runq, b) < Distance(runq, runq) BY <2>1, <2>3, <2>5 DEF CalendarInv
  <2>7. Distance(runq, runq) = 0 /\ Distance(runq, b) \in Nat
    BY <2>3, DistanceFacts, Sizes DEF Buckets
  <2> QED BY <2>6, <2>7
<1> QED BY <1>1, <1>2, <1>3, InitQueues, NextQueues, PTL DEF Spec, HigherPriorityFirstAtFirst
===============================================================================
