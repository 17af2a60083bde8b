-------------------------- MODULE DeltaListProofs --------------------------
(***************************************************************************)
(* Lemmas about the delta list operators, for lists of every length.       *)
(*                                                                         *)
(* The induction principles of the library are stated for an operator      *)
(* parameter; the two lemmas below restate them for sets, which the        *)
(* backends can instantiate, starting from the well-foundedness of <.      *)
(***************************************************************************)
EXTENDS DeltaList, SequenceTheorems, FiniteSetTheorems, WellFoundedInduction, TLAPS

\* Every non-empty set of naturals has a least element.
LEMMA LeastNatural ==
    ASSUME NEW T \in SUBSET Nat, T # {}
    PROVE  \E x \in T : \A y \in T : x <= y
<1> DEFINE R == {ss \in Nat \X Nat : ss[1] < ss[2]}
<1>1. IsWellFoundedOn(R, Nat)
  BY NatLessThanWellFounded, Zenon DEF OpToRel
<1>2. \A x, y \in Nat : ~(<<y, x>> \in R) => x <= y
  OBVIOUS
<1> HIDE DEF R
<1>3. PICK x \in T : \A y \in T : ~(<<y, x>> \in R)
  BY <1>1, WFMin, Zenon
<1>4. \A y \in T : x <= y
  BY <1>2, <1>3, Zenon
<1> QED
  BY <1>4, Zenon

\* Induction over the naturals, for a set.
LEMMA SetInduction ==
    ASSUME NEW S \in SUBSET Nat, 0 \in S, \A n \in S : n + 1 \in S
    PROVE  S = Nat
<1> SUFFICES ASSUME S # Nat PROVE FALSE
  OBVIOUS
<1> DEFINE T == Nat \ S
<1>1. T # {} /\ T \in SUBSET Nat
  OBVIOUS
<1>2. PICK x \in T : \A y \in T : x <= y
  <2> HIDE DEF T
  <2> QED BY <1>1, LeastNatural, Zenon
<1>3. x \in Nat /\ x # 0 /\ x \notin S
  OBVIOUS
<1>4. x - 1 \in Nat /\ x - 1 \in S
  BY <1>2, <1>3
<1>5. (x - 1) + 1 \in S
  BY <1>4, Zenon
<1> QED
  BY <1>3, <1>5

-----------------------------------------------------------------------------
\* A list of nodes whose pids are drawn from P.
NodeList(P) == Seq([pid : P, delay : Int])

\* The nodes of a list have a pid of P and an integer delay.
LEMMA NodeListProperties ==
    ASSUME NEW P, NEW q \in NodeList(P)
    PROVE  /\ Len(q) \in Nat
           /\ DOMAIN q = 1 .. Len(q)
           /\ \A i \in 1 .. Len(q) : /\ q[i] \in [pid : P, delay : Int]
                                     /\ q[i].pid \in P
                                     /\ q[i].delay \in Int
<1> DEFINE N == [pid : P, delay : Int]
<1>1. \A r \in N : r.pid \in P /\ r.delay \in Int
  OBVIOUS
<1>2. q \in Seq(N)
  BY DEF NodeList
<1> HIDE DEF N
<1>3. Len(q) \in Nat /\ DOMAIN q = 1 .. Len(q) /\ \A i \in 1 .. Len(q) : q[i] \in N
  BY <1>2
<1> QED
  BY <1>1, <1>3 DEF N

\* f is the running total of the delays of the first n nodes of q.
IsSum(f, q, n) ==
    /\ f \in [0 .. n -> Int]
    /\ f[0] = 0
    /\ \A i \in 1 .. n : f[i] = f[i - 1] + q[i].delay

\* The running total exists, so the recursive definition of DelaySums, which
\* stands for the delay_sum variable of sleep(), means what it says.
LEMMA SumExists ==
    ASSUME NEW P, NEW q \in NodeList(P)
    PROVE  \E f : IsSum(f, q, Len(q))
<1> DEFINE S == {n \in Nat : n <= Len(q) => \E f : IsSum(f, q, n)}
<1>0. Len(q) \in Nat /\ \A i \in 1 .. Len(q) : q[i].delay \in Int
  BY NodeListProperties
<1>1. 0 \in S
  <2>1. IsSum([i \in 0 .. 0 |-> 0], q, 0)
    BY DEF IsSum
  <2> QED BY <2>1
<1>2. ASSUME NEW n \in S PROVE n + 1 \in S
  <2> SUFFICES ASSUME n + 1 <= Len(q) PROVE \E f : IsSum(f, q, n + 1)
    OBVIOUS
  <2>1. PICK f : IsSum(f, q, n)
    BY <1>0
  <2> DEFINE g == [i \in 0 .. n + 1 |-> IF i = n + 1 THEN f[n] + q[n + 1].delay ELSE f[i]]
  <2>2. f[n] + q[n + 1].delay \in Int
    BY <1>0, <2>1 DEF IsSum
  <2>3. g \in [0 .. n + 1 -> Int]
    BY <2>1, <2>2 DEF IsSum
  <2>4. g[0] = 0
    BY <2>1 DEF IsSum
  <2>5. ASSUME NEW i \in 1 .. n + 1 PROVE g[i] = g[i - 1] + q[i].delay
    <3>1. CASE i = n + 1
      BY <3>1, <2>1 DEF IsSum
    <3>2. CASE i # n + 1
      BY <3>2, <2>1 DEF IsSum
    <3> QED BY <3>1, <3>2
  <2>6. IsSum(g, q, n + 1)
    BY <2>3, <2>4, <2>5 DEF IsSum
  <2> QED BY <2>6
<1>3. S = Nat
  <2> HIDE DEF S
  <2>1. S \in SUBSET Nat BY DEF S
  <2> QED BY <1>1, <1>2, <2>1, SetInduction
<1> QED
  BY <1>0, <1>3

\* What delay_sum is after each node of the list.
LEMMA DelaySumsProperties ==
    ASSUME NEW P, NEW q \in NodeList(P)
    PROVE  IsSum(DelaySums(q), q, Len(q))
<1> DEFINE F(f) == f = [i \in 0 .. Len(q) |-> IF i = 0 THEN 0 ELSE f[i - 1] + q[i].delay]
<1>0. Len(q) \in Nat /\ \A i \in 1 .. Len(q) : q[i].delay \in Int
  BY NodeListProperties
<1>1. PICK f : IsSum(f, q, Len(q))
  BY SumExists
<1>2. F(f)
  BY <1>0, <1>1 DEF IsSum
<1>3. F(DelaySums(q))
  BY <1>2 DEF DelaySums
<1>4. SUFFICES ASSUME NEW s, F(s) PROVE IsSum(s, q, Len(q))
  BY <1>3
<1>5. /\ DOMAIN s = 0 .. Len(q)
      /\ s = [i \in 0 .. Len(q) |-> s[i]]
      /\ s[0] = 0
      /\ \A i \in 1 .. Len(q) : s[i] = s[i - 1] + q[i].delay
  <2> DEFINE B == [i \in 0 .. Len(q) |-> IF i = 0 THEN 0 ELSE s[i - 1] + q[i].delay]
  <2>1. s = B
    BY <1>4
  <2>2. /\ DOMAIN B = 0 .. Len(q)
        /\ B = [i \in 0 .. Len(q) |-> B[i]]
        /\ \A i \in 0 .. Len(q) : B[i] = IF i = 0 THEN 0 ELSE s[i - 1] + q[i].delay
    OBVIOUS
  <2> HIDE DEF B
  <2> QED BY <1>0, <2>1, <2>2
<1> DEFINE S == {n \in Nat : n <= Len(q) => s[n] \in Int}
<1>6. 0 \in S
  BY <1>5
<1>7. ASSUME NEW n \in S PROVE n + 1 \in S
  <2> SUFFICES ASSUME n + 1 <= Len(q) PROVE s[n + 1] \in Int
    OBVIOUS
  <2>1. n + 1 \in 1 .. Len(q) /\ s[n] \in Int /\ (n + 1) - 1 = n
    BY <1>0
  <2>2. s[n + 1] = s[n] + q[n + 1].delay
    BY <1>5, <2>1
  <2> QED BY <1>0, <2>1, <2>2
<1>8. S = Nat
  <2> HIDE DEF S
  <2>1. S \in SUBSET Nat BY DEF S
  <2> QED BY <1>6, <1>7, <2>1, SetInduction
<1>9. \A i \in 0 .. Len(q) : s[i] \in Int
  BY <1>0, <1>8
<1>10. s \in [0 .. Len(q) -> Int]
  BY <1>5, <1>9
<1> QED
  BY <1>5, <1>10 DEF IsSum

-----------------------------------------------------------------------------
\* The cursor of sleep() passes at most all the nodes.
LEMMA PassedBounded ==
    ASSUME NEW P, NEW q \in NodeList(P), NEW delay
    PROVE  Cardinality(Passed(q, delay)) \in 0 .. Len(q)
<1>1. Len(q) \in Nat
  BY NodeListProperties
<1>2. IsFiniteSet(1 .. Len(q)) /\ Cardinality(1 .. Len(q)) = Len(q)
  <2> DEFINE one == 1
  <2> DEFINE n == Len(q)
  <2>1. one \in Int /\ n \in Int /\ one = 1 /\ n >= 0
    BY <1>1
  <2> HIDE DEF one, n
  <2>2. IsFiniteSet(one .. n) /\ Cardinality(one .. n) = IF one > n THEN 0 ELSE n - one + 1
    BY <2>1, FS_Interval, Zenon
  <2>3. Cardinality(one .. n) = n
    BY <2>1, <2>2
  <2> QED BY <2>2, <2>3 DEF one, n
<1>3. Passed(q, delay) \subseteq 1 .. Len(q)
  BY DEF Passed
<1>4. /\ IsFiniteSet(Passed(q, delay))
      /\ Cardinality(Passed(q, delay)) <= Cardinality(1 .. Len(q))
  BY <1>2, <1>3, FS_Subset
<1>5. Cardinality(Passed(q, delay)) \in Nat
  BY <1>4, FS_CardinalityType
<1> QED
  BY <1>1, <1>2, <1>4, <1>5

\* Inserting a node at any position keeps all the others, with their pids.
LEMMA InsertAtProperties ==
    ASSUME NEW P, NEW q \in NodeList(P), NEW i \in 1 .. Len(q) + 1,
           NEW pid \in P, NEW rel \in Int
    PROVE  /\ InsertAt(q, i, pid, rel) \in NodeList(P)
           /\ Len(InsertAt(q, i, pid, rel)) = Len(q) + 1
           /\ PidsOf(InsertAt(q, i, pid, rel)) = PidsOf(q) \cup {pid}
<1> DEFINE N == [pid : P, delay : Int]
<1> DEFINE r == InsertAt(q, i, pid, rel)
<1> DEFINE m == [pid |-> q[i].pid, delay |-> q[i].delay - rel]
<1>1. /\ Len(q) \in Nat
      /\ DOMAIN q = 1 .. Len(q)
      /\ \A j \in 1 .. Len(q) : q[j] \in N /\ q[j].pid \in P /\ q[j].delay \in Int
  BY NodeListProperties
<1>2. DOMAIN r = 1 .. Len(q) + 1
  BY DEF InsertAt
<1>3. /\ \A j \in 1 .. Len(q) + 1 : j < i => r[j] = q[j]
      /\ r[i] = [pid |-> pid, delay |-> rel]
      /\ i + 1 \in 1 .. Len(q) + 1 => r[i + 1] = m
      /\ \A j \in 1 .. Len(q) + 1 : j > i + 1 => r[j] = q[j - 1]
  BY <1>1 DEF InsertAt, ProcessDelay
<1>4. i \in 1 .. Len(q) =>
        m \in N /\ m.pid = q[i].pid
  BY <1>1
<1>5. r = [j \in 1 .. Len(q) + 1 |-> r[j]]
  BY DEF InsertAt
<1> HIDE DEF r
<1>6. [pid |-> pid, delay |-> rel] \in N /\ [pid |-> pid, delay |-> rel].pid = pid
  OBVIOUS
<1>7. ASSUME NEW j \in 1 .. Len(q) + 1 PROVE r[j] \in N
  <2>1. CASE j < i
    BY <2>1, <1>1, <1>3
  <2>2. CASE j = i
    BY <2>2, <1>3, <1>6
  <2>3. CASE j = i + 1
    BY <2>3, <1>1, <1>3, <1>4
  <2>4. CASE j > i + 1
    BY <2>4, <1>1, <1>3
  <2> QED BY <1>1, <2>1, <2>2, <2>3, <2>4
<1>8. r \in Seq(N) /\ Len(r) = Len(q) + 1
  <2>1. Len(q) + 1 \in Nat
    BY <1>1
  <2> HIDE DEF N
  <2>2. [j \in 1 .. Len(q) + 1 |-> r[j]] \in Seq(N)
    BY <2>1, <1>7, IsASeq
  <2> QED BY <2>1, <2>2, <1>5, <1>2, LenProperties
<1>9. PidsOf(r) \subseteq PidsOf(q) \cup {pid}
  <2> SUFFICES ASSUME NEW j \in 1 .. Len(q) + 1 PROVE r[j].pid \in PidsOf(q) \cup {pid}
    BY <1>2 DEF PidsOf
  <2>1. CASE j < i
    <3>1. j \in DOMAIN q /\ r[j] = q[j]
      BY <2>1, <1>1, <1>3
    <3> QED BY <3>1 DEF PidsOf
  <2>2. CASE j = i
    BY <2>2, <1>3, <1>6
  <2>3. CASE j = i + 1
    BY <2>3, <1>1, <1>3, <1>4 DEF PidsOf
  <2>4. CASE j > i + 1
    <3>1. j - 1 \in DOMAIN q /\ r[j] = q[j - 1]
      BY <2>4, <1>1, <1>3
    <3> QED BY <3>1 DEF PidsOf
  <2> QED BY <1>1, <2>1, <2>2, <2>3, <2>4
<1>10. ASSUME NEW j \in 1 .. Len(q) PROVE q[j].pid \in PidsOf(r)
  <2>1. CASE j < i
    <3>1. j \in DOMAIN r /\ r[j] = q[j]
      BY <2>1, <1>1, <1>2, <1>3
    <3> QED BY <3>1 DEF PidsOf
  <2>2. CASE j = i
    <3>1. i + 1 \in DOMAIN r /\ r[i + 1].pid = q[i].pid
      BY <2>2, <1>1, <1>2, <1>3, <1>4
    <3> QED BY <2>2, <3>1 DEF PidsOf
  <2>3. CASE j > i
    <3>1. j + 1 \in DOMAIN r /\ (j + 1) - 1 = j /\ j + 1 > i + 1
      BY <2>3, <1>1, <1>2
    <3>2. r[j + 1] = q[j]
      BY <3>1, <1>2, <1>3
    <3> QED BY <3>1, <3>2 DEF PidsOf
  <2> QED BY <1>1, <2>1, <2>2, <2>3
<1>11. pid \in PidsOf(r)
  BY <1>1, <1>2, <1>3, <1>6 DEF PidsOf
<1>12. PidsOf(q) \cup {pid} \subseteq PidsOf(r)
  BY <1>1, <1>10, <1>11 DEF PidsOf
<1> QED
  BY <1>8, <1>9, <1>12 DEF r, NodeList

\* The list half of sleep() adds one node, for pid, and loses none.
LEMMA InsertProperties ==
    ASSUME NEW P, NEW q \in NodeList(P), NEW pid \in P, NEW delay \in Int
    PROVE  /\ Insert(q, pid, delay) \in NodeList(P)
           /\ Len(Insert(q, pid, delay)) = Len(q) + 1
           /\ PidsOf(Insert(q, pid, delay)) = PidsOf(q) \cup {pid}
<1> DEFINE n == Cardinality(Passed(q, delay))
<1>1. n \in 0 .. Len(q) /\ Len(q) \in Nat
  BY PassedBounded, NodeListProperties
<1>2. DelaySums(q)[n] \in Int
  BY <1>1, DelaySumsProperties DEF IsSum
<1>3. n + 1 \in 1 .. Len(q) + 1 /\ delay - DelaySums(q)[n] \in Int
  BY <1>1, <1>2
<1>4. Insert(q, pid, delay) = InsertAt(q, n + 1, pid, delay - DelaySums(q)[n])
  BY DEF Insert
<1> HIDE DEF n
<1> QED
  BY <1>3, <1>4, InsertAtProperties

-----------------------------------------------------------------------------
\* Taking a tick off the front node changes no pid.
LEMMA DecrementProperties ==
    ASSUME NEW P, NEW q \in NodeList(P)
    PROVE  /\ Decrement(q) \in NodeList(P)
           /\ Len(Decrement(q)) = Len(q)
           /\ \A j \in 1 .. Len(q) : Decrement(q)[j].pid = q[j].pid
<1> DEFINE N == [pid : P, delay : Int]
<1> DEFINE d == IF q[1].delay >= 1 THEN q[1].delay - 1 ELSE q[1].delay
<1>1. /\ Len(q) \in Nat
      /\ DOMAIN q = 1 .. Len(q)
      /\ \A j \in 1 .. Len(q) : q[j] \in N /\ q[j].pid \in P /\ q[j].delay \in Int
  BY NodeListProperties
<1>2. CASE q = << >>
  BY <1>2 DEF Decrement
<1>3. CASE q # << >>
  <2>1. 1 \in 1 .. Len(q)
    <3>1. Len(q) # 0
      BY <1>3, EmptySeq DEF NodeList
    <3> QED BY <1>1, <3>1
  <2>2. Decrement(q) = [q EXCEPT ![1] = [pid |-> q[1].pid, delay |-> d]]
    BY <1>3, <2>1 DEF Decrement, ProcessDelay
  <2>3. [pid |-> q[1].pid, delay |-> d] \in N /\ [pid |-> q[1].pid, delay |-> d].pid = q[1].pid
    BY <1>1, <2>1
  <2> DEFINE e == [pid |-> q[1].pid, delay |-> d]
  <2>4. Decrement(q) = [q EXCEPT ![1] = e] /\ e \in N /\ e.pid = q[1].pid
    BY <2>2, <2>3
  <2>5. q \in Seq(N)
    BY DEF NodeList
  <2> HIDE DEF e, N
  <2>6. [q EXCEPT ![1] = e] \in Seq(N) /\ Len([q EXCEPT ![1] = e]) = Len(q)
    BY <2>1, <2>4, <2>5, ExceptSeq
  <2>7. \A j \in 1 .. Len(q) : [q EXCEPT ![1] = e][j].pid = q[j].pid
    BY <1>1, <2>4
  <2> QED BY <2>4, <2>6, <2>7 DEF N, NodeList
<1> QED
  BY <1>2, <1>3

\* The nodes wakeup() removes are the first so many: a node that has not
\* expired lies behind all that have.
LEMMA ExpiredIsPrefix ==
    ASSUME NEW P, NEW d \in NodeList(P)
    PROVE  /\ Cardinality(Expired(d)) \in 0 .. Len(d)
           /\ \A j \in 1 .. Len(d) : j \in Expired(d) <=> j <= Cardinality(Expired(d))
<1> DEFINE n == Cardinality(Expired(d))
<1>1. Len(d) \in Nat
  BY NodeListProperties
<1>2. \A k \in Nat : IsFiniteSet(1 .. k) /\ Cardinality(1 .. k) = k
  BY FS_Interval
<1>3. Expired(d) \subseteq 1 .. Len(d)
  BY DEF Expired
<1>4. IsFiniteSet(Expired(d)) /\ n <= Cardinality(1 .. Len(d)) /\ n \in Nat
  BY <1>1, <1>2, <1>3, FS_Subset, FS_CardinalityType
<1>5. n \in 0 .. Len(d)
  BY <1>1, <1>2, <1>4
<1>6. ASSUME NEW j \in 1 .. Len(d), j \in Expired(d) PROVE j <= n
  <2>1. 1 .. j \subseteq Expired(d)
    BY <1>1, <1>6 DEF Expired
  <2>2. Cardinality(1 .. j) <= n
    BY <2>1, <1>4, FS_Subset
  <2> QED BY <1>2, <2>2
<1>7. ASSUME NEW j \in 1 .. Len(d), j \notin Expired(d) PROVE ~(j <= n)
  <2>1. Expired(d) \subseteq 1 .. (j - 1)
    <3> SUFFICES ASSUME NEW k \in Expired(d), ~(k <= j - 1) PROVE FALSE
      BY <1>3
    <3>1. k \in 1 .. Len(d) /\ j \in 1 .. k
      BY <1>1, <1>3
    <3>2. j \in Expired(d)
      BY <3>1 DEF Expired
    <3> QED BY <1>7, <3>2
  <2>2. j - 1 \in Nat
    OBVIOUS
  <2>3. n <= Cardinality(1 .. (j - 1))
    BY <2>1, <2>2, <1>2, FS_Subset
  <2>4. n <= j - 1
    BY <2>2, <2>3, <1>2
  <2> HIDE DEF n
  <2> QED BY <2>4, <1>4
<1> QED
  BY <1>5, <1>6, <1>7

\* wakeup() takes the expired pids off the list and keeps all the others.
LEMMA TickProperties ==
    ASSUME NEW P, NEW q \in NodeList(P)
    PROVE  /\ Tick(q) \in NodeList(P)
           /\ Due(q) \subseteq P
           /\ PidsOf(q) = PidsOf(Tick(q)) \cup Due(q)
<1> DEFINE N == [pid : P, delay : Int]
<1> DEFINE d == Decrement(q)
<1> DEFINE n == Cardinality(Expired(d))
<1> DEFINE t == [j \in 1 .. Len(d) - n |-> d[j + n]]
<1>1. /\ Len(q) \in Nat
      /\ DOMAIN q = 1 .. Len(q)
      /\ d \in NodeList(P)
      /\ Len(d) = Len(q)
      /\ \A j \in 1 .. Len(q) : d[j].pid = q[j].pid /\ d[j] \in N /\ d[j].pid \in P
  <2>1. d \in NodeList(P) /\ Len(d) = Len(q) /\ \A j \in 1 .. Len(q) : d[j].pid = q[j].pid
    BY DecrementProperties
  <2> HIDE DEF d
  <2> QED BY <2>1, NodeListProperties
<1>2. Tick(q) = t
  BY DEF Tick
<1>3. Due(q) = {d[j].pid : j \in Expired(d)}
  BY DEF Due
<1> HIDE DEF d
<1>4. /\ n \in 0 .. Len(q)
      /\ \A j \in 1 .. Len(q) : j \in Expired(d) <=> j <= n
  BY <1>1, ExpiredIsPrefix
<1>5. Expired(d) \subseteq 1 .. Len(q)
  BY <1>1 DEF Expired
<1> HIDE DEF n
<1>6. Len(q) - n \in Nat /\ DOMAIN t = 1 .. Len(q) - n
  BY <1>1, <1>4
<1>7. \A j \in 1 .. Len(q) - n : t[j] = d[j + n] /\ j + n \in 1 .. Len(q)
  BY <1>1, <1>4
<1>8. t \in Seq(N)
  <2>1. \A j \in 1 .. Len(q) - n : d[j + n] \in N
    BY <1>1, <1>7
  <2> HIDE DEF N
  <2>2. [j \in 1 .. Len(q) - n |-> d[j + n]] \in Seq(N)
    BY <2>1, <1>6, IsASeq
  <2> QED BY <2>2, <1>1
<1>9. Due(q) \subseteq P
  BY <1>1, <1>3, <1>5
<1> HIDE DEF t
<1>10. PidsOf(t) \cup Due(q) \subseteq PidsOf(q)
  <2>1. ASSUME NEW j \in 1 .. Len(q) - n PROVE t[j].pid \in PidsOf(q)
    BY <1>1, <1>7 DEF PidsOf
  <2>2. ASSUME NEW j \in Expired(d) PROVE d[j].pid \in PidsOf(q)
    BY <1>1, <1>5 DEF PidsOf
  <2> QED BY <2>1, <2>2, <1>3, <1>6 DEF PidsOf
<1>11. ASSUME NEW j \in 1 .. Len(q) PROVE q[j].pid \in PidsOf(t) \cup Due(q)
  <2>1. CASE j \in Expired(d)
    BY <2>1, <1>1, <1>3
  <2>2. CASE j \notin Expired(d)
    <3>1. j - n \in 1 .. Len(q) - n /\ (j - n) + n = j
      BY <2>2, <1>1, <1>4
    <3>2. t[j - n] = d[j]
      BY <3>1, <1>7
    <3> QED BY <3>1, <3>2, <1>1, <1>6 DEF PidsOf
  <2> QED BY <2>1, <2>2
<1>12. PidsOf(q) \subseteq PidsOf(t) \cup Due(q)
  BY <1>1, <1>11 DEF PidsOf
<1> QED
  BY <1>2, <1>8, <1>9, <1>10, <1>12 DEF NodeList

-----------------------------------------------------------------------------
(***************************************************************************)
(* The unsigned subtractions of sleep() and wakeup() do not underflow.     *)
(***************************************************************************)

\* The nodes the cursor of sleep() passes are the first so many.
LEMMA PassedIsPrefix ==
    ASSUME NEW P, NEW q \in NodeList(P), NEW delay
    PROVE  \A j \in 1 .. Len(q) : j \in Passed(q, delay) <=> j <= Cardinality(Passed(q, delay))
<1> DEFINE n == Cardinality(Passed(q, delay))
<1>1. Len(q) \in Nat
  BY NodeListProperties
<1>2. \A k \in Nat : IsFiniteSet(1 .. k) /\ Cardinality(1 .. k) = k
  BY FS_Interval
<1>3. Passed(q, delay) \subseteq 1 .. Len(q)
  BY DEF Passed
<1>4. IsFiniteSet(Passed(q, delay)) /\ n \in Nat
  BY <1>1, <1>2, <1>3, FS_Subset, FS_CardinalityType
<1>5. ASSUME NEW j \in 1 .. Len(q), j \in Passed(q, delay) PROVE j <= n
  <2>1. 1 .. j \subseteq Passed(q, delay)
    BY <1>1, <1>5 DEF Passed
  <2>2. Cardinality(1 .. j) <= n
    BY <2>1, <1>4, FS_Subset
  <2> QED BY <1>2, <2>2
<1>6. ASSUME NEW j \in 1 .. Len(q), j \notin Passed(q, delay) PROVE ~(j <= n)
  <2>1. Passed(q, delay) \subseteq 1 .. (j - 1)
    <3> SUFFICES ASSUME NEW k \in Passed(q, delay), ~(k <= j - 1) PROVE FALSE
      BY <1>3
    <3>1. k \in 1 .. Len(q) /\ j \in 1 .. k
      BY <1>1, <1>3
    <3>2. j \in Passed(q, delay)
      BY <3>1 DEF Passed
    <3> QED BY <1>6, <3>2
  <2>2. j - 1 \in Nat
    OBVIOUS
  <2>3. n <= Cardinality(1 .. (j - 1))
    BY <2>1, <2>2, <1>2, FS_Subset
  <2>4. n <= j - 1
    BY <2>2, <2>3, <1>2
  <2> HIDE DEF n
  <2> QED BY <2>4, <1>4
<1> QED
  BY <1>5, <1>6

\* The cursor of sleep() stops between two nodes whose absolute delays enclose
\* the new one.
LEMMA CursorStops ==
    ASSUME NEW P, NEW q \in NodeList(P), NEW delay \in Nat
    PROVE  LET n == Cardinality(Passed(q, delay))
           IN  /\ DelaySums(q)[n] <= delay
               /\ n < Len(q) => delay < DelaySums(q)[n] + q[n + 1].delay
<1> DEFINE n == Cardinality(Passed(q, delay))
<1> DEFINE sum == DelaySums(q)
<1>1. /\ n \in 0 .. Len(q) /\ Len(q) \in Nat
      /\ \A j \in 1 .. Len(q) : j \in Passed(q, delay) <=> j <= n
      /\ \A j \in 1 .. Len(q) : q[j].delay \in Int
  BY PassedBounded, PassedIsPrefix, NodeListProperties
<1>2. /\ sum \in [0 .. Len(q) -> Int]
      /\ sum[0] = 0
      /\ \A i \in 1 .. Len(q) : sum[i] = sum[i - 1] + q[i].delay
  BY DelaySumsProperties DEF IsSum
<1>3. \A j \in 1 .. Len(q) : j \in Passed(q, delay) <=> \A k \in 1 .. j : sum[k] <= delay
  BY DEF Passed
<1> HIDE DEF n, sum
<1>4. sum[n] <= delay
  <2>1. CASE n = 0
    BY <2>1, <1>2
  <2>2. CASE n # 0
    <3>1. n \in 1 .. Len(q) /\ n \in 1 .. n
      BY <2>2, <1>1
    <3> QED BY <3>1, <1>1, <1>3
  <2> QED BY <2>1, <2>2
<1>5. ASSUME n < Len(q) PROVE delay < sum[n] + q[n + 1].delay
  <2>1. n + 1 \in 1 .. Len(q) /\ n + 1 \notin Passed(q, delay) /\ sum[n + 1] \in Int
    BY <1>1, <1>2, <1>5
  <2>2. PICK k \in 1 .. n + 1 : ~(sum[k] <= delay)
    BY <2>1, <1>3
  <2>3. k = n + 1
    <3> SUFFICES ASSUME k # n + 1 PROVE FALSE
      OBVIOUS
    <3>1. n \in 1 .. Len(q) /\ k \in 1 .. n
      BY <2>2, <1>1
    <3> QED BY <3>1, <2>2, <1>1, <1>3
  <2>4. sum[n + 1] = sum[(n + 1) - 1] + q[n + 1].delay /\ (n + 1) - 1 = n
    BY <2>1, <1>1, <1>2
  <2> QED BY <2>1, <2>2, <2>3, <2>4
<1> QED
  BY <1>4, <1>5 DEF n, sum

\* sleep() keeps every relative delay non-negative: neither delay - delay_sum nor
\* the delay of the node behind the new one underflows.
LEMMA InsertNonNegative ==
    ASSUME NEW P, NEW q \in NodeList(P), NonNegative(q), NEW pid \in P, NEW delay \in Nat
    PROVE  NonNegative(Insert(q, pid, delay))
<1> DEFINE n == Cardinality(Passed(q, delay))
<1> DEFINE sum == DelaySums(q)
<1> DEFINE rel == delay - sum[n]
<1> DEFINE r == InsertAt(q, n + 1, pid, rel)
<1>1. /\ n \in 0 .. Len(q) /\ Len(q) \in Nat /\ DOMAIN q = 1 .. Len(q)
      /\ \A j \in 1 .. Len(q) : q[j].delay \in Int /\ q[j].delay >= 0
  BY PassedBounded, NodeListProperties DEF NonNegative
<1>2. sum[n] \in Int
  BY <1>1, DelaySumsProperties DEF IsSum
<1>3. sum[n] <= delay /\ (n < Len(q) => delay < sum[n] + q[n + 1].delay)
  BY CursorStops
<1>4. Insert(q, pid, delay) = r
  BY DEF Insert
<1> HIDE DEF n, sum
<1>5. rel \in Int /\ rel >= 0 /\ (n < Len(q) => q[n + 1].delay - rel >= 0)
  BY <1>1, <1>2, <1>3
<1>6. DOMAIN r = 1 .. Len(q) + 1
  BY DEF InsertAt
<1>7. ASSUME NEW j \in 1 .. Len(q) + 1 PROVE r[j].delay >= 0
  <2>1. CASE j < n + 1
    <3>1. r[j] = q[j] /\ j \in 1 .. Len(q)
      BY <2>1, <1>1 DEF InsertAt
    <3> QED BY <3>1, <1>1
  <2>2. CASE j = n + 1
    <3>1. r[j].delay = rel
      BY <2>2, <1>1 DEF InsertAt, ProcessDelay
    <3> QED BY <3>1, <1>5
  <2>3. CASE j = n + 2
    <3>1. r[j].delay = q[n + 1].delay - rel /\ n < Len(q)
      BY <2>3, <1>1 DEF InsertAt, ProcessDelay
    <3> QED BY <3>1, <1>5
  <2>4. CASE j > n + 2
    <3>1. r[j] = q[j - 1] /\ j - 1 \in 1 .. Len(q)
      BY <2>4, <1>1 DEF InsertAt
    <3> QED BY <3>1, <1>1
  <2> QED BY <2>1, <2>2, <2>3, <2>4, <1>1
<1> QED
  BY <1>4, <1>6, <1>7 DEF NonNegative

\* wakeup() keeps every relative delay non-negative.
LEMMA TickNonNegative ==
    ASSUME NEW P, NEW q \in NodeList(P), NonNegative(q)
    PROVE  NonNegative(Tick(q))
<1> DEFINE d == Decrement(q)
<1> DEFINE n == Cardinality(Expired(d))
<1>1. /\ Len(q) \in Nat /\ DOMAIN q = 1 .. Len(q)
      /\ \A j \in 1 .. Len(q) : q[j].delay \in Int /\ q[j].delay >= 0
  BY NodeListProperties DEF NonNegative
<1>2. d \in NodeList(P) /\ Len(d) = Len(q)
  BY DecrementProperties
<1>3. \A j \in 1 .. Len(q) : d[j].delay >= 0
  <2>1. CASE q = << >>
    BY <2>1, <1>1 DEF Decrement
  <2>2. CASE q # << >>
    <3>1. d = [q EXCEPT ![1] = [pid |-> q[1].pid,
                                delay |-> IF q[1].delay >= 1 THEN q[1].delay - 1 ELSE q[1].delay]]
      BY <2>2 DEF Decrement, ProcessDelay
    <3> QED BY <3>1, <1>1
  <2> QED BY <2>1, <2>2
<1>4. Tick(q) = [j \in 1 .. Len(d) - n |-> d[j + n]]
  BY DEF Tick
<1> HIDE DEF d
<1>5. n \in 0 .. Len(q)
  BY <1>2, ExpiredIsPrefix
<1> HIDE DEF n
<1>6. \A j \in 1 .. Len(q) - n : j + n \in 1 .. Len(q)
  BY <1>1, <1>5
<1> QED
  BY <1>2, <1>3, <1>4, <1>6 DEF NonNegative

-----------------------------------------------------------------------------
(***************************************************************************)
(* Where sleep() and wakeup() leave the nodes.                             *)
(***************************************************************************)

\* The nodes of the list r after sleep(): the n that were passed, the new one, the
\* one behind it made relative to it, and the rest.
Inserted(q, pid, n, rel, r) ==
    /\ n \in 0 .. Len(q) /\ rel \in Int /\ DOMAIN r = 1 .. Len(q) + 1
    /\ \A j \in 1 .. n : r[j] = q[j]
    /\ r[n + 1] = [pid |-> pid, delay |-> rel]
    /\ n < Len(q) => r[n + 2] = [pid |-> q[n + 1].pid, delay |-> q[n + 1].delay - rel]
    /\ \A j \in n + 3 .. Len(q) + 1 : r[j] = q[j - 1]

LEMMA InsertNodes ==
    ASSUME NEW P, NEW q \in NodeList(P), NEW pid \in P, NEW delay \in Int
    PROVE  LET n == Cardinality(Passed(q, delay))
           IN  Inserted(q, pid, n, delay - DelaySums(q)[n], Insert(q, pid, delay))
<1> DEFINE n == Cardinality(Passed(q, delay))
<1> DEFINE rel == delay - DelaySums(q)[n]
<1> DEFINE r == InsertAt(q, n + 1, pid, rel)
<1>1. n \in 0 .. Len(q) /\ Len(q) \in Nat
  BY PassedBounded, NodeListProperties
<1>2. DelaySums(q)[n] \in Int
  BY <1>1, DelaySumsProperties DEF IsSum
<1>3. rel \in Int
  BY <1>2
<1>4. Insert(q, pid, delay) = r
  BY DEF Insert
<1> HIDE DEF n, rel
<1>5. /\ DOMAIN r = 1 .. Len(q) + 1
      /\ \A j \in 1 .. n : r[j] = q[j]
      /\ r[n + 1] = [pid |-> pid, delay |-> rel]
      /\ n < Len(q) => r[n + 2] = [pid |-> q[n + 1].pid, delay |-> q[n + 1].delay - rel]
      /\ \A j \in n + 3 .. Len(q) + 1 : r[j] = q[j - 1]
  BY <1>1, <1>3 DEF InsertAt, ProcessDelay
<1> HIDE DEF r
<1>6. Inserted(q, pid, n, rel, r)
  BY <1>1, <1>3, <1>5 DEF Inserted
<1> QED
  BY <1>4, <1>6 DEF n, rel

\* The nodes of the list after wakeup(): those that have not expired.
LEMMA TickNodes ==
    ASSUME NEW P, NEW q \in NodeList(P)
    PROVE  LET d == Decrement(q)
               n == Cardinality(Expired(d))
           IN  /\ n \in 0 .. Len(q) /\ DOMAIN Tick(q) = 1 .. Len(q) - n
               /\ \A j \in 1 .. Len(q) - n : Tick(q)[j] = d[j + n]
               /\ \A j \in 1 .. Len(q) : d[j].pid = q[j].pid
               /\ \A j \in 1 .. n : d[j].delay = 0
               /\ n < Len(q) => d[n + 1].delay # 0
               /\ Due(q) = {q[j].pid : j \in 1 .. n}
<1> DEFINE d == Decrement(q)
<1> DEFINE n == Cardinality(Expired(d))
<1>1. Len(q) \in Nat /\ d \in NodeList(P) /\ Len(d) = Len(q) /\ \A j \in 1 .. Len(q) : d[j].pid = q[j].pid
  BY NodeListProperties, DecrementProperties
<1>2. Tick(q) = [j \in 1 .. Len(d) - n |-> d[j + n]] /\ Due(q) = {d[j].pid : j \in Expired(d)}
  BY DEF Tick, Due
<1> HIDE DEF d
<1>3. n \in 0 .. Len(q) /\ \A j \in 1 .. Len(q) : j \in Expired(d) <=> j <= n
  BY <1>1, ExpiredIsPrefix
<1>4. Expired(d) \subseteq 1 .. Len(q)
  BY <1>1 DEF Expired
<1>5. (\A j \in 1 .. n : d[j].delay = 0) /\ (n < Len(q) => d[n + 1].delay # 0)
  <2>1. ASSUME NEW j \in 1 .. n PROVE d[j].delay = 0
    <3>1. j \in 1 .. Len(q) /\ j \in Expired(d)
      BY <1>1, <1>3
    <3> QED BY <3>1, <1>1 DEF Expired
  <2>2. ASSUME n < Len(q), d[n + 1].delay = 0 PROVE FALSE
    <3>1. n + 1 \in 1 .. Len(q) /\ n + 1 \notin Expired(d)
      BY <2>2, <1>1, <1>3
    <3>2. \A k \in 1 .. n + 1 : k = n + 1 \/ k \in 1 .. n
      BY <1>1, <1>3
    <3> QED BY <3>1, <3>2, <2>1, <2>2, <1>1 DEF Expired
  <2> QED BY <2>1, <2>2
<1> HIDE DEF n
<1>6. Expired(d) = 1 .. n
  <2>1. \A j \in Expired(d) : j \in 1 .. n
    BY <1>1, <1>3, <1>4
  <2>2. \A j \in 1 .. n : j \in Expired(d)
    BY <1>1, <1>3
  <2> QED BY <2>1, <2>2
<1>7. Due(q) = {q[j].pid : j \in 1 .. n}
  <2>1. \A j \in 1 .. n : d[j].pid = q[j].pid
    BY <1>1, <1>3
  <2> QED BY <1>2, <1>6, <2>1
<1> QED
  BY <1>1, <1>2, <1>3, <1>5, <1>7 DEF d, n

\* No process has two nodes.
Distinct(q) == \A i, j \in DOMAIN q : q[i].pid = q[j].pid => i = j

\* A process that is not in the list gets one node.
LEMMA InsertDistinct ==
    ASSUME NEW P, NEW q \in NodeList(P), Distinct(q), NEW pid \in P, pid \notin PidsOf(q),
           NEW delay \in Int
    PROVE  Distinct(Insert(q, pid, delay))
<1> DEFINE n == Cardinality(Passed(q, delay))
<1> DEFINE r == Insert(q, pid, delay)
<1> DEFINE Old(j) == IF j <= n THEN j ELSE j - 1
<1>1. /\ n \in 0 .. Len(q) /\ DOMAIN r = 1 .. Len(q) + 1
      /\ \A j \in 1 .. n : r[j] = q[j]
      /\ r[n + 1].pid = pid
      /\ n < Len(q) => r[n + 2].pid = q[n + 1].pid
      /\ \A j \in n + 3 .. Len(q) + 1 : r[j] = q[j - 1]
  <2> DEFINE rel == delay - DelaySums(q)[n]
  <2>1. /\ n \in 0 .. Len(q) /\ rel \in Int /\ DOMAIN r = 1 .. Len(q) + 1
        /\ \A j \in 1 .. n : r[j] = q[j]
        /\ r[n + 1] = [pid |-> pid, delay |-> rel]
        /\ n < Len(q) => r[n + 2] = [pid |-> q[n + 1].pid, delay |-> q[n + 1].delay - rel]
        /\ \A j \in n + 3 .. Len(q) + 1 : r[j] = q[j - 1]
    <3>1. Inserted(q, pid, n, rel, r)
      BY InsertNodes
    <3> HIDE DEF n, rel, r
    <3> QED BY <3>1 DEF Inserted
  <2> HIDE DEF n, r, rel
  <2> QED BY <2>1
<1>2. Len(q) \in Nat /\ DOMAIN q = 1 .. Len(q)
  BY NodeListProperties
<1> HIDE DEF n, r
<1>3. ASSUME NEW j \in DOMAIN r, j # n + 1
      PROVE  Old(j) \in DOMAIN q /\ r[j].pid = q[Old(j)].pid
  <2>1. CASE j <= n
    BY <2>1, <1>1, <1>2
  <2>2. CASE j = n + 2
    BY <2>2, <1>1, <1>2
  <2>3. CASE j > n + 2
    <3>1. j \in n + 3 .. Len(q) + 1
      BY <2>3, <1>1, <1>2
    <3> QED BY <2>3, <3>1, <1>1, <1>2
  <2> QED BY <1>3, <1>1, <1>2, <2>1, <2>2, <2>3
<1>4. \A j \in DOMAIN r : j # n + 1 => r[j].pid # pid
  BY <1>3 DEF PidsOf
<1>5. ASSUME NEW i \in DOMAIN r, NEW j \in DOMAIN r, r[i].pid = r[j].pid PROVE i = j
  <2>1. CASE i = n + 1 \/ j = n + 1
    BY <1>1, <1>4, <1>5, <2>1
  <2>2. CASE i # n + 1 /\ j # n + 1
    <3>1. Old(i) = Old(j)
      BY <1>3, <1>5, <2>2 DEF Distinct
    <3> QED BY <3>1, <2>2, <1>1, <1>2
  <2> QED BY <2>1, <2>2
<1> QED
  BY <1>5 DEF Distinct, r

\* wakeup() parts the list: no process keeps a node and is due.
LEMMA TickDistinct ==
    ASSUME NEW P, NEW q \in NodeList(P), Distinct(q)
    PROVE  Distinct(Tick(q)) /\ PidsOf(Tick(q)) \cap Due(q) = {}
<1> DEFINE n == Cardinality(Expired(Decrement(q)))
<1> DEFINE t == Tick(q)
<1>1. /\ n \in 0 .. Len(q) /\ DOMAIN t = 1 .. Len(q) - n
      /\ \A j \in 1 .. Len(q) - n : t[j] = Decrement(q)[j + n]
      /\ \A j \in 1 .. Len(q) : Decrement(q)[j].pid = q[j].pid
      /\ Due(q) = {q[j].pid : j \in 1 .. n}
  BY TickNodes
<1>2. Len(q) \in Nat /\ DOMAIN q = 1 .. Len(q)
  BY NodeListProperties
<1> HIDE DEF n, t
<1>3. ASSUME NEW j \in DOMAIN t PROVE j + n \in DOMAIN q /\ t[j].pid = q[j + n].pid
  <2>1. j + n \in 1 .. Len(q)
    BY <1>1, <1>2
  <2> QED BY <2>1, <1>1, <1>2
<1>4. Distinct(t)
  <2>1. ASSUME NEW i \in DOMAIN t, NEW j \in DOMAIN t, t[i].pid = t[j].pid PROVE i = j
    <3>1. i + n = j + n
      BY <1>3, <2>1 DEF Distinct
    <3> QED BY <3>1, <1>1, <1>2
  <2> QED BY <2>1 DEF Distinct
<1>5. PidsOf(t) \cap Due(q) = {}
  <2>1. ASSUME NEW j \in DOMAIN t, NEW k \in 1 .. n, t[j].pid = q[k].pid PROVE FALSE
    <3>1. j + n = k
      BY <1>1, <1>2, <1>3, <2>1 DEF Distinct
    <3> QED BY <3>1, <1>1, <1>2
  <2> QED BY <2>1, <1>1 DEF PidsOf
<1> QED
  BY <1>4, <1>5 DEF t
=============================================================================
