-------------------------- MODULE PageTableProofs --------------------------
(***************************************************************************)
(* The properties of PageTable for every size of pages and tables, every   *)
(* number of levels, and any processes, programs and windows.              *)
(***************************************************************************)
EXTENDS PageTable, TLAPS

D == INSTANCE DeltaListProofs

-----------------------------------------------------------------------------
(***************************************************************************)
(* Division.                                                               *)
(***************************************************************************)

LEMMA ModRange ==
    ASSUME NEW M \in Nat \ {0}, NEW x \in Int
    PROVE  x % M \in 0 .. M - 1
OBVIOUS

LEMMA DivRemainder ==
    ASSUME NEW M \in Nat \ {0}, NEW x \in Int
    PROVE  x \div M \in Int /\ x = M * (x \div M) + (x % M)
OBVIOUS

LEMMA DivNat ==
    ASSUME NEW M \in Nat \ {0}, NEW x \in Nat
    PROVE  x \div M \in Nat
OBVIOUS

\* A number has one quotient and one remainder.
LEMMA SmallMultiple ==
    ASSUME NEW M \in Nat \ {0}, NEW k \in Int, -M < M * k, M * k < M
    PROVE  k = 0
<1>1. CASE k >= 1
  <2>1. M * k >= M
    BY <1>1
  <2> QED BY <2>1
<1>2. CASE k <= -1
  <2>1. M * k <= -M
    BY <1>2
  <2> QED BY <2>1
<1> QED BY <1>1, <1>2

LEMMA DivUnique ==
    ASSUME NEW M \in Nat \ {0}, NEW x \in Int, NEW q \in Int, NEW r \in 0 .. M - 1, x = M * q + r
    PROVE  x \div M = q /\ x % M = r
<1> DEFINE d == x \div M
<1> DEFINE s == x % M
<1>1. d \in Int /\ x = M * d + s
  BY DivRemainder
<1>2. s \in 0 .. M - 1
  BY ModRange
<1> HIDE DEF d, s
<1> DEFINE k == q - d
<1>3. k \in Int /\ M * k = s - r
  BY <1>1, <1>2
<1>4. -M < M * k /\ M * k < M
  BY <1>2, <1>3
<1>5. k = 0
  <2> HIDE DEF k
  <2> QED BY <1>3, <1>4, SmallMultiple
<1>6. q = d /\ s = r
  BY <1>1, <1>2, <1>3, <1>5
<1> QED BY <1>6 DEF d, s

LEMMA ModSmall ==
    ASSUME NEW M \in Nat \ {0}, NEW x \in 0 .. M - 1
    PROVE  x \div M = 0 /\ x % M = x
<1>1. x = M * 0 + x /\ 0 \in Int /\ x \in Int
  OBVIOUS
<1> QED BY <1>1, DivUnique

\* Multiples of M do not count.
LEMMA ModMultiple ==
    ASSUME NEW M \in Nat \ {0}, NEW x \in Int, NEW k \in Int
    PROVE  (M * k + x) % M = x % M
<1> DEFINE d == x \div M
<1> DEFINE s == x % M
<1> DEFINE y == M * k + x
<1>1. d \in Int /\ x = M * d + s
  BY DivRemainder
<1>2. s \in 0 .. M - 1
  BY ModRange
<1> HIDE DEF d, s
<1> DEFINE q == k + d
<1>3. M * q = M * k + M * d
  BY <1>1
<1>4. q \in Int /\ y \in Int /\ M * k \in Int /\ M * d \in Int
  BY <1>1
<1>5. y = M * q + s
  <2> DEFINE a == M * k
  <2> DEFINE b == M * d
  <2> DEFINE c == M * q
  <2>1. a \in Int /\ b \in Int /\ c = a + b /\ x = b + s /\ y = a + x
    BY <1>1, <1>3, <1>4
  <2>2. s \in Int
    BY <1>2
  <2> HIDE DEF a, b, c, y
  <2>3. y = c + s
    BY <2>1, <2>2
  <2> QED BY <2>3 DEF c
<1> HIDE DEF q, y
<1>6. y % M = s
  BY <1>2, <1>4, <1>5, DivUnique
<1> QED BY <1>6 DEF y, s

LEMMA ProductNat ==
    ASSUME NEW a \in Nat \ {0}, NEW b \in Nat \ {0}
    PROVE  a * b \in Nat \ {0}
OBVIOUS

\* Dividing twice.
LEMMA DivDiv ==
    ASSUME NEW a \in Nat \ {0}, NEW b \in Nat \ {0}, NEW x \in Nat
    PROVE  (x \div a) \div b = x \div (b * a)
<1> DEFINE d == x \div a
<1> DEFINE s == x % a
<1>1. d \in Nat /\ x = a * d + s
  BY DivRemainder, DivNat
<1>2. s \in 0 .. a - 1
  BY ModRange
<1> HIDE DEF d, s
<1> DEFINE e == d \div b
<1> DEFINE t == d % b
<1>3. e \in Nat /\ d = b * e + t
  BY <1>1, DivRemainder, DivNat
<1>4. t \in 0 .. b - 1
  BY <1>1, ModRange
<1> HIDE DEF e, t
<1> DEFINE M == b * a
<1> DEFINE r == a * t + s
<1>5. M \in Nat \ {0}
  BY ProductNat
<1>6. r \in 0 .. M - 1
  <2>1. a * t <= a * (b - 1)
    BY <1>4
  <2>2. a * (b - 1) = M - a
    OBVIOUS
  <2>3. a * t \in Nat
    BY <1>4
  <2> HIDE DEF M
  <2> QED BY <2>1, <2>2, <2>3, <1>2, <1>5
<1>7. x = M * e + r
  <2>1. a * d = a * (b * e) + a * t
    BY <1>1, <1>3, <1>4
  <2>2. a * (b * e) = M * e
    BY <1>3
  <2>3. a * t \in Int /\ M * e \in Int /\ s \in Int
    BY <1>2, <1>3, <1>4, <1>5
  <2>4. x = a * d + s
    BY <1>1
  <2> DEFINE at == a * t
  <2> DEFINE ad == a * d
  <2> DEFINE Me == M * e
  <2>5. ad = Me + at /\ x = ad + s /\ r = at + s /\ at \in Int /\ Me \in Int
    BY <2>1, <2>2, <2>3, <2>4
  <2> HIDE DEF at, ad, Me, r
  <2>6. x = Me + r
    BY <2>3, <2>5
  <2> QED BY <2>6 DEF Me
<1> HIDE DEF M, r
<1>8. e \in Int /\ x \in Int
  BY <1>3
<1>9. x \div M = e
  BY <1>5, <1>6, <1>7, <1>8, DivUnique
<1> QED BY <1>9 DEF M, e, d

-----------------------------------------------------------------------------
(***************************************************************************)
(* The recursive functions have the steps of the loops they stand for.     *)
(***************************************************************************)

\* f multiplies by TableLen, n times.
Spans(f, n) ==
    /\ f = [i \in 0 .. n |-> f[i]]
    /\ f[0] = 1
    /\ \A i \in 1 .. n : f[i] = TableLen * f[i - 1]

LEMMA SpansExists ==
    ASSUME NEW m \in Nat
    PROVE  \E f : Spans(f, m)
<1> DEFINE S == {n \in Nat : \E f : Spans(f, n)}
<1>1. 0 \in S
  <2>1. Spans([i \in 0 .. 0 |-> 1], 0)
    BY DEF Spans
  <2> QED BY <2>1
<1>2. ASSUME NEW n \in S PROVE n + 1 \in S
  <2>1. n \in Nat /\ n + 1 \in Nat
    OBVIOUS
  <2>2. PICK f : Spans(f, n)
    OBVIOUS
  <2> DEFINE last == TableLen * f[n]
  <2> DEFINE g == [i \in 0 .. n + 1 |-> IF i = n + 1 THEN last ELSE f[i]]
  <2> HIDE DEF last
  <2>3. g = [i \in 0 .. n + 1 |-> g[i]] /\ g[0] = 1
    BY <2>1, <2>2 DEF Spans
  <2>4. ASSUME NEW i \in 1 .. n + 1 PROVE g[i] = TableLen * g[i - 1]
    <3>1. CASE i = n + 1
      <4>1. g[i] = last /\ g[i - 1] = f[n]
        BY <3>1, <2>1
      <4> HIDE DEF g
      <4> QED BY <4>1, <3>1 DEF last
    <3>2. CASE i # n + 1
      <4>1. i \in 1 .. n /\ g[i] = f[i] /\ g[i - 1] = f[i - 1]
        BY <3>2, <2>1
      <4>2. f[i] = TableLen * f[i - 1]
        BY <4>1, <2>2 DEF Spans
      <4> HIDE DEF g
      <4> QED BY <4>1, <4>2
    <3> QED BY <3>1, <3>2
  <2> HIDE DEF g
  <2>5. Spans(g, n + 1)
    BY <2>3, <2>4 DEF Spans
  <2> QED BY <2>1, <2>5
<1>3. S \in SUBSET Nat
  OBVIOUS
<1> HIDE DEF S
<1>4. S = Nat
  BY <1>1, <1>2, <1>3, D!SetInduction
<1> QED BY <1>4 DEF S

\* The pages of an entry at each level.
LEMMA SpanIsRecursive ==
    ASSUME LEVELS \in Nat
    PROVE  Spans(Span, LEVELS)
<1> DEFINE F(f) == f = [i \in 0 .. LEVELS |-> IF i = 0 THEN 1 ELSE TableLen * f[i - 1]]
<1>1. PICK f : Spans(f, LEVELS)
  BY SpansExists
<1>2. F(f)
  <2>1. \A i \in 0 .. LEVELS : f[i] = IF i = 0 THEN 1 ELSE TableLen * f[i - 1]
    <3>1. \A i \in 0 .. LEVELS : i = 0 \/ i \in 1 .. LEVELS
      OBVIOUS
    <3>2. f[0] = 1 /\ \A i \in 1 .. LEVELS : f[i] = TableLen * f[i - 1]
      BY <1>1, Zenon DEF Spans
    <3>3. \A i \in 1 .. LEVELS : i # 0
      OBVIOUS
    <3> QED BY <3>1, <3>2, <3>3
  <2>2. f = [i \in 0 .. LEVELS |-> f[i]]
    BY <1>1 DEF Spans
  <2> QED BY <2>1, <2>2
<1> DEFINE d == CHOOSE g : F(g)
<1>3. F(d)
  BY <1>2
<1>4. Span = d
  BY DEF Span
<1> HIDE DEF d
<1>5. Spans(d, LEVELS)
  <2> DEFINE B == [i \in 0 .. LEVELS |-> IF i = 0 THEN 1 ELSE TableLen * d[i - 1]]
  <2>1. d = B
    BY <1>3
  <2>2. /\ B = [i \in 0 .. LEVELS |-> B[i]]
        /\ \A i \in 0 .. LEVELS : B[i] = IF i = 0 THEN 1 ELSE TableLen * d[i - 1]
    OBVIOUS
  <2> HIDE DEF B
  <2>3. d = [i \in 0 .. LEVELS |-> d[i]]
    BY <2>1, <2>2
  <2>4. d[0] = 1 /\ \A i \in 1 .. LEVELS : d[i] = TableLen * d[i - 1]
    <3>1. 0 \in 0 .. LEVELS /\ \A i \in 1 .. LEVELS : i \in 0 .. LEVELS /\ i # 0
      OBVIOUS
    <3> QED BY <2>1, <2>2, <3>1
  <2> QED BY <2>3, <2>4 DEF Spans
<1> QED BY <1>4, <1>5

\* f has the places of map() in its loop: a heap, and an entry in it.
Walk(f, h, root, vaddr, n) ==
    /\ f = [i \in 0 .. n |-> f[i]]
    /\ f[0] = [heap |-> h, page |-> root, idx |-> Vpn(vaddr, LEVELS - 1)]
    /\ \A i \in 1 .. n : f[i] = StepDown(f[i - 1], LEVELS - 1 - i, vaddr)

LEMMA WalkExists ==
    ASSUME NEW h, NEW root, NEW vaddr, NEW m \in Nat
    PROVE  \E f : Walk(f, h, root, vaddr, m)
<1> DEFINE S == {n \in Nat : \E f : Walk(f, h, root, vaddr, n)}
<1>1. 0 \in S
  <2>1. Walk([i \in 0 .. 0 |-> [heap |-> h, page |-> root, idx |-> Vpn(vaddr, LEVELS - 1)]], h, root, vaddr, 0)
    BY DEF Walk
  <2> QED BY <2>1
<1>2. ASSUME NEW n \in S PROVE n + 1 \in S
  <2>1. n \in Nat /\ n + 1 \in Nat
    OBVIOUS
  <2>2. PICK f : Walk(f, h, root, vaddr, n)
    OBVIOUS
  <2> DEFINE last == StepDown(f[n], LEVELS - 1 - (n + 1), vaddr)
  <2> DEFINE g == [i \in 0 .. n + 1 |-> IF i = n + 1 THEN last ELSE f[i]]
  <2> HIDE DEF last
  <2>3. g = [i \in 0 .. n + 1 |-> g[i]] /\ g[0] = [heap |-> h, page |-> root, idx |-> Vpn(vaddr, LEVELS - 1)]
    BY <2>1, <2>2 DEF Walk
  <2>4. ASSUME NEW i \in 1 .. n + 1 PROVE g[i] = StepDown(g[i - 1], LEVELS - 1 - i, vaddr)
    <3>1. CASE i = n + 1
      <4>1. g[i] = last /\ g[i - 1] = f[n]
        BY <3>1, <2>1
      <4> HIDE DEF g
      <4> QED BY <4>1, <3>1 DEF last
    <3>2. CASE i # n + 1
      <4>1. i \in 1 .. n /\ g[i] = f[i] /\ g[i - 1] = f[i - 1]
        BY <3>2, <2>1
      <4>2. f[i] = StepDown(f[i - 1], LEVELS - 1 - i, vaddr)
        BY <4>1, <2>2 DEF Walk
      <4> HIDE DEF g
      <4> QED BY <4>1, <4>2
    <3> QED BY <3>1, <3>2
  <2> HIDE DEF g
  <2>5. Walk(g, h, root, vaddr, n + 1)
    BY <2>3, <2>4 DEF Walk
  <2> QED BY <2>1, <2>5
<1>3. S \in SUBSET Nat
  OBVIOUS
<1> HIDE DEF S
<1>4. S = Nat
  BY <1>1, <1>2, <1>3, D!SetInduction
<1> QED BY <1>4 DEF S

\* map() sets the entry its loop ends at.
LEMMA MapWalks ==
    ASSUME NEW h, NEW root, NEW vaddr, NEW page, NEW bits, (LEVELS - 1) \in Nat
    PROVE  \E f : /\ Walk(f, h, root, vaddr, (LEVELS - 1))
                  /\ Map(h, root, vaddr, page, bits) = SetEntry(f[LEVELS - 1].heap, f[LEVELS - 1].page, f[LEVELS - 1].idx, [ppn |-> page, flags |-> bits \cup {"V"}])
<1> DEFINE F(f) == f = [i \in 0 .. (LEVELS - 1) |-> IF i = 0 THEN [heap |-> h, page |-> root, idx |-> Vpn(vaddr, LEVELS - 1)] ELSE StepDown(f[i - 1], LEVELS - 1 - i, vaddr)]
<1>1. PICK f : Walk(f, h, root, vaddr, (LEVELS - 1))
  BY WalkExists
<1>2. F(f)
  <2>1. \A i \in 0 .. (LEVELS - 1) : f[i] = IF i = 0 THEN [heap |-> h, page |-> root, idx |-> Vpn(vaddr, LEVELS - 1)] ELSE StepDown(f[i - 1], LEVELS - 1 - i, vaddr)
    <3>1. \A i \in 0 .. (LEVELS - 1) : i = 0 \/ i \in 1 .. (LEVELS - 1)
      OBVIOUS
    <3>2. f[0] = [heap |-> h, page |-> root, idx |-> Vpn(vaddr, LEVELS - 1)] /\ \A i \in 1 .. (LEVELS - 1) : f[i] = StepDown(f[i - 1], LEVELS - 1 - i, vaddr)
      BY <1>1, Zenon DEF Walk
    <3>3. \A i \in 1 .. (LEVELS - 1) : i # 0
      OBVIOUS
    <3> QED BY <3>1, <3>2, <3>3
  <2>2. f = [i \in 0 .. (LEVELS - 1) |-> f[i]]
    BY <1>1 DEF Walk
  <2> QED BY <2>1, <2>2
<1> DEFINE d == CHOOSE g : F(g)
<1>3. F(d)
  BY <1>2
<1>4. Map(h, root, vaddr, page, bits) = SetEntry(d[LEVELS - 1].heap, d[LEVELS - 1].page, d[LEVELS - 1].idx, [ppn |-> page, flags |-> bits \cup {"V"}])
  BY DEF Map
<1> HIDE DEF d
<1>5. Walk(d, h, root, vaddr, (LEVELS - 1))
  <2> DEFINE B == [i \in 0 .. (LEVELS - 1) |-> IF i = 0 THEN [heap |-> h, page |-> root, idx |-> Vpn(vaddr, LEVELS - 1)] ELSE StepDown(d[i - 1], LEVELS - 1 - i, vaddr)]
  <2>1. d = B
    BY <1>3
  <2>2. /\ B = [i \in 0 .. (LEVELS - 1) |-> B[i]]
        /\ \A i \in 0 .. (LEVELS - 1) : B[i] = IF i = 0 THEN [heap |-> h, page |-> root, idx |-> Vpn(vaddr, LEVELS - 1)] ELSE StepDown(d[i - 1], LEVELS - 1 - i, vaddr)
    OBVIOUS
  <2> HIDE DEF B
  <2>3. d = [i \in 0 .. (LEVELS - 1) |-> d[i]]
    BY <2>1, <2>2
  <2>4. d[0] = [heap |-> h, page |-> root, idx |-> Vpn(vaddr, LEVELS - 1)] /\ \A i \in 1 .. (LEVELS - 1) : d[i] = StepDown(d[i - 1], LEVELS - 1 - i, vaddr)
    <3>1. 0 \in 0 .. (LEVELS - 1) /\ \A i \in 1 .. (LEVELS - 1) : i \in 0 .. (LEVELS - 1) /\ i # 0
      OBVIOUS
    <3> QED BY <2>1, <2>2, <3>1
  <2> QED BY <2>3, <2>4 DEF Walk
<1> QED BY <1>4, <1>5

\* f has the heaps of map_range() in its loop.
Ranges(f, h, root, base, page, bits, n) ==
    /\ f = [i \in 0 .. n |-> f[i]]
    /\ f[0] = h
    /\ \A i \in 1 .. n : f[i] = Map(f[i - 1], root, base + ((i - 1) * PageSize), page + (i - 1), bits)

LEMMA RangesExists ==
    ASSUME NEW h, NEW root, NEW base, NEW page, NEW bits, NEW m \in Nat
    PROVE  \E f : Ranges(f, h, root, base, page, bits, m)
<1> DEFINE S == {n \in Nat : \E f : Ranges(f, h, root, base, page, bits, n)}
<1>1. 0 \in S
  <2>1. Ranges([i \in 0 .. 0 |-> h], h, root, base, page, bits, 0)
    BY DEF Ranges
  <2> QED BY <2>1
<1>2. ASSUME NEW n \in S PROVE n + 1 \in S
  <2>1. n \in Nat /\ n + 1 \in Nat
    OBVIOUS
  <2>2. PICK f : Ranges(f, h, root, base, page, bits, n)
    OBVIOUS
  <2> DEFINE last == Map(f[n], root, base + (((n + 1) - 1) * PageSize), page + ((n + 1) - 1), bits)
  <2> DEFINE g == [i \in 0 .. n + 1 |-> IF i = n + 1 THEN last ELSE f[i]]
  <2> HIDE DEF last
  <2>3. g = [i \in 0 .. n + 1 |-> g[i]] /\ g[0] = h
    BY <2>1, <2>2 DEF Ranges
  <2>4. ASSUME NEW i \in 1 .. n + 1 PROVE g[i] = Map(g[i - 1], root, base + ((i - 1) * PageSize), page + (i - 1), bits)
    <3>1. CASE i = n + 1
      <4>1. g[i] = last /\ g[i - 1] = f[n]
        BY <3>1, <2>1
      <4> HIDE DEF g
      <4> QED BY <4>1, <3>1 DEF last
    <3>2. CASE i # n + 1
      <4>1. i \in 1 .. n /\ g[i] = f[i] /\ g[i - 1] = f[i - 1]
        BY <3>2, <2>1
      <4>2. f[i] = Map(f[i - 1], root, base + ((i - 1) * PageSize), page + (i - 1), bits)
        BY <4>1, <2>2 DEF Ranges
      <4> HIDE DEF g
      <4> QED BY <4>1, <4>2
    <3> QED BY <3>1, <3>2
  <2> HIDE DEF g
  <2>5. Ranges(g, h, root, base, page, bits, n + 1)
    BY <2>3, <2>4 DEF Ranges
  <2> QED BY <2>1, <2>5
<1>3. S \in SUBSET Nat
  OBVIOUS
<1> HIDE DEF S
<1>4. S = Nat
  BY <1>1, <1>2, <1>3, D!SetInduction
<1> QED BY <1>4 DEF S

\* map_range() maps one page after the other.
LEMMA MapRangeMaps ==
    ASSUME NEW h, NEW root, NEW base, NEW page, NEW bits, NEW vaddr, NEW size, base = (vaddr \div PageSize) * PageSize, NumPages(size) \in Nat
    PROVE  \E f : /\ Ranges(f, h, root, base, page, bits, NumPages(size))
                  /\ MapRange(h, root, vaddr, page, size, bits) = f[NumPages(size)]
<1> DEFINE F(f) == f = [i \in 0 .. NumPages(size) |-> IF i = 0 THEN h ELSE Map(f[i - 1], root, base + ((i - 1) * PageSize), page + (i - 1), bits)]
<1>1. PICK f : Ranges(f, h, root, base, page, bits, NumPages(size))
  BY RangesExists
<1>2. F(f)
  <2>1. \A i \in 0 .. NumPages(size) : f[i] = IF i = 0 THEN h ELSE Map(f[i - 1], root, base + ((i - 1) * PageSize), page + (i - 1), bits)
    <3>1. \A i \in 0 .. NumPages(size) : i = 0 \/ i \in 1 .. NumPages(size)
      OBVIOUS
    <3>2. f[0] = h /\ \A i \in 1 .. NumPages(size) : f[i] = Map(f[i - 1], root, base + ((i - 1) * PageSize), page + (i - 1), bits)
      BY <1>1, Zenon DEF Ranges
    <3>3. \A i \in 1 .. NumPages(size) : i # 0
      OBVIOUS
    <3> QED BY <3>1, <3>2, <3>3
  <2>2. f = [i \in 0 .. NumPages(size) |-> f[i]]
    BY <1>1 DEF Ranges
  <2> QED BY <2>1, <2>2
<1> DEFINE d == CHOOSE g : F(g)
<1>3. F(d)
  BY <1>2
<1>4. MapRange(h, root, vaddr, page, size, bits) = d[NumPages(size)]
  BY DEF MapRange
<1> HIDE DEF d
<1>5. Ranges(d, h, root, base, page, bits, NumPages(size))
  <2> DEFINE B == [i \in 0 .. NumPages(size) |-> IF i = 0 THEN h ELSE Map(d[i - 1], root, base + ((i - 1) * PageSize), page + (i - 1), bits)]
  <2>1. d = B
    BY <1>3
  <2>2. /\ B = [i \in 0 .. NumPages(size) |-> B[i]]
        /\ \A i \in 0 .. NumPages(size) : B[i] = IF i = 0 THEN h ELSE Map(d[i - 1], root, base + ((i - 1) * PageSize), page + (i - 1), bits)
    OBVIOUS
  <2> HIDE DEF B
  <2>3. d = [i \in 0 .. NumPages(size) |-> d[i]]
    BY <2>1, <2>2
  <2>4. d[0] = h /\ \A i \in 1 .. NumPages(size) : d[i] = Map(d[i - 1], root, base + ((i - 1) * PageSize), page + (i - 1), bits)
    <3>1. 0 \in 0 .. NumPages(size) /\ \A i \in 1 .. NumPages(size) : i \in 0 .. NumPages(size) /\ i # 0
      OBVIOUS
    <3> QED BY <2>1, <2>2, <3>1
  <2> QED BY <2>3, <2>4 DEF Ranges
<1> QED BY <1>4, <1>5

\* f has the tables of each level.
Levels(f, root, n) ==
    /\ f = [i \in 0 .. n |-> f[i]]
    /\ f[0] = {root}
    /\ \A i \in 1 .. n : f[i] = Branches(f[i - 1])

LEMMA LevelsExists ==
    ASSUME NEW root, NEW m \in Nat
    PROVE  \E f : Levels(f, root, m)
<1> DEFINE S == {n \in Nat : \E f : Levels(f, root, n)}
<1>1. 0 \in S
  <2>1. Levels([i \in 0 .. 0 |-> {root}], root, 0)
    BY DEF Levels
  <2> QED BY <2>1
<1>2. ASSUME NEW n \in S PROVE n + 1 \in S
  <2>1. n \in Nat /\ n + 1 \in Nat
    OBVIOUS
  <2>2. PICK f : Levels(f, root, n)
    OBVIOUS
  <2> DEFINE last == Branches(f[n])
  <2> DEFINE g == [i \in 0 .. n + 1 |-> IF i = n + 1 THEN last ELSE f[i]]
  <2> HIDE DEF last
  <2>3. g = [i \in 0 .. n + 1 |-> g[i]] /\ g[0] = {root}
    BY <2>1, <2>2 DEF Levels
  <2>4. ASSUME NEW i \in 1 .. n + 1 PROVE g[i] = Branches(g[i - 1])
    <3>1. CASE i = n + 1
      <4>1. g[i] = last /\ g[i - 1] = f[n]
        BY <3>1, <2>1
      <4> HIDE DEF g
      <4> QED BY <4>1, <3>1 DEF last
    <3>2. CASE i # n + 1
      <4>1. i \in 1 .. n /\ g[i] = f[i] /\ g[i - 1] = f[i - 1]
        BY <3>2, <2>1
      <4>2. f[i] = Branches(f[i - 1])
        BY <4>1, <2>2 DEF Levels
      <4> HIDE DEF g
      <4> QED BY <4>1, <4>2
    <3> QED BY <3>1, <3>2
  <2> HIDE DEF g
  <2>5. Levels(g, root, n + 1)
    BY <2>3, <2>4 DEF Levels
  <2> QED BY <2>1, <2>5
<1>3. S \in SUBSET Nat
  OBVIOUS
<1> HIDE DEF S
<1>4. S = Nat
  BY <1>1, <1>2, <1>3, D!SetInduction
<1> QED BY <1>4 DEF S

\* The tables of a level are what those of the level above point to.
LEMMA TablesAtIsRecursive ==
    ASSUME NEW root, LEVELS \in Nat
    PROVE  Levels(TablesAt(root), root, LEVELS)
<1> DEFINE F(f) == f = [i \in 0 .. LEVELS |-> IF i = 0 THEN {root} ELSE Branches(f[i - 1])]
<1>1. PICK f : Levels(f, root, LEVELS)
  BY LevelsExists
<1>2. F(f)
  <2>1. \A i \in 0 .. LEVELS : f[i] = IF i = 0 THEN {root} ELSE Branches(f[i - 1])
    <3>1. \A i \in 0 .. LEVELS : i = 0 \/ i \in 1 .. LEVELS
      OBVIOUS
    <3>2. f[0] = {root} /\ \A i \in 1 .. LEVELS : f[i] = Branches(f[i - 1])
      BY <1>1, Zenon DEF Levels
    <3>3. \A i \in 1 .. LEVELS : i # 0
      OBVIOUS
    <3> QED BY <3>1, <3>2, <3>3
  <2>2. f = [i \in 0 .. LEVELS |-> f[i]]
    BY <1>1 DEF Levels
  <2> QED BY <2>1, <2>2
<1> DEFINE d == CHOOSE g : F(g)
<1>3. F(d)
  BY <1>2
<1>4. TablesAt(root) = d
  BY DEF TablesAt
<1> HIDE DEF d
<1>5. Levels(d, root, LEVELS)
  <2> DEFINE B == [i \in 0 .. LEVELS |-> IF i = 0 THEN {root} ELSE Branches(d[i - 1])]
  <2>1. d = B
    BY <1>3
  <2>2. /\ B = [i \in 0 .. LEVELS |-> B[i]]
        /\ \A i \in 0 .. LEVELS : B[i] = IF i = 0 THEN {root} ELSE Branches(d[i - 1])
    OBVIOUS
  <2> HIDE DEF B
  <2>3. d = [i \in 0 .. LEVELS |-> d[i]]
    BY <2>1, <2>2
  <2>4. d[0] = {root} /\ \A i \in 1 .. LEVELS : d[i] = Branches(d[i - 1])
    <3>1. 0 \in 0 .. LEVELS /\ \A i \in 1 .. LEVELS : i \in 0 .. LEVELS /\ i # 0
      OBVIOUS
    <3> QED BY <2>1, <2>2, <3>1
  <2> QED BY <2>3, <2>4 DEF Levels
<1> QED BY <1>4, <1>5

\* f has the places of virt_to_phys() in its loop.
Looks(f, root, vaddr, n) ==
    /\ f = [i \in 0 .. n |-> f[i]]
    /\ f[0] = [page |-> root, addr |-> None]
    /\ \A i \in 1 .. n : f[i] = LookUp(f[i - 1], LEVELS - i, vaddr)

LEMMA LooksExists ==
    ASSUME NEW root, NEW vaddr, NEW m \in Nat
    PROVE  \E f : Looks(f, root, vaddr, m)
<1> DEFINE S == {n \in Nat : \E f : Looks(f, root, vaddr, n)}
<1>1. 0 \in S
  <2>1. Looks([i \in 0 .. 0 |-> [page |-> root, addr |-> None]], root, vaddr, 0)
    BY DEF Looks
  <2> QED BY <2>1
<1>2. ASSUME NEW n \in S PROVE n + 1 \in S
  <2>1. n \in Nat /\ n + 1 \in Nat
    OBVIOUS
  <2>2. PICK f : Looks(f, root, vaddr, n)
    OBVIOUS
  <2> DEFINE last == LookUp(f[n], LEVELS - (n + 1), vaddr)
  <2> DEFINE g == [i \in 0 .. n + 1 |-> IF i = n + 1 THEN last ELSE f[i]]
  <2> HIDE DEF last
  <2>3. g = [i \in 0 .. n + 1 |-> g[i]] /\ g[0] = [page |-> root, addr |-> None]
    BY <2>1, <2>2 DEF Looks
  <2>4. ASSUME NEW i \in 1 .. n + 1 PROVE g[i] = LookUp(g[i - 1], LEVELS - i, vaddr)
    <3>1. CASE i = n + 1
      <4>1. g[i] = last /\ g[i - 1] = f[n]
        BY <3>1, <2>1
      <4> HIDE DEF g
      <4> QED BY <4>1, <3>1 DEF last
    <3>2. CASE i # n + 1
      <4>1. i \in 1 .. n /\ g[i] = f[i] /\ g[i - 1] = f[i - 1]
        BY <3>2, <2>1
      <4>2. f[i] = LookUp(f[i - 1], LEVELS - i, vaddr)
        BY <4>1, <2>2 DEF Looks
      <4> HIDE DEF g
      <4> QED BY <4>1, <4>2
    <3> QED BY <3>1, <3>2
  <2> HIDE DEF g
  <2>5. Looks(g, root, vaddr, n + 1)
    BY <2>3, <2>4 DEF Looks
  <2> QED BY <2>1, <2>5
<1>3. S \in SUBSET Nat
  OBVIOUS
<1> HIDE DEF S
<1>4. S = Nat
  BY <1>1, <1>2, <1>3, D!SetInduction
<1> QED BY <1>4 DEF S

\* virt_to_phys() returns what its loop ends with.
LEMMA VirtToPhysLooks ==
    ASSUME NEW root, NEW vaddr, LEVELS \in Nat
    PROVE  \E f : /\ Looks(f, root, vaddr, LEVELS)
                  /\ VirtToPhys(root, vaddr) = f[LEVELS].addr
<1> DEFINE F(f) == f = [i \in 0 .. LEVELS |-> IF i = 0 THEN [page |-> root, addr |-> None] ELSE LookUp(f[i - 1], LEVELS - i, vaddr)]
<1>1. PICK f : Looks(f, root, vaddr, LEVELS)
  BY LooksExists
<1>2. F(f)
  <2>1. \A i \in 0 .. LEVELS : f[i] = IF i = 0 THEN [page |-> root, addr |-> None] ELSE LookUp(f[i - 1], LEVELS - i, vaddr)
    <3>1. \A i \in 0 .. LEVELS : i = 0 \/ i \in 1 .. LEVELS
      OBVIOUS
    <3>2. f[0] = [page |-> root, addr |-> None] /\ \A i \in 1 .. LEVELS : f[i] = LookUp(f[i - 1], LEVELS - i, vaddr)
      BY <1>1, Zenon DEF Looks
    <3>3. \A i \in 1 .. LEVELS : i # 0
      OBVIOUS
    <3> QED BY <3>1, <3>2, <3>3
  <2>2. f = [i \in 0 .. LEVELS |-> f[i]]
    BY <1>1 DEF Looks
  <2> QED BY <2>1, <2>2
<1> DEFINE d == CHOOSE g : F(g)
<1>3. F(d)
  BY <1>2
<1>4. VirtToPhys(root, vaddr) = d[LEVELS].addr
  BY DEF VirtToPhys
<1> HIDE DEF d
<1>5. Looks(d, root, vaddr, LEVELS)
  <2> DEFINE B == [i \in 0 .. LEVELS |-> IF i = 0 THEN [page |-> root, addr |-> None] ELSE LookUp(d[i - 1], LEVELS - i, vaddr)]
  <2>1. d = B
    BY <1>3
  <2>2. /\ B = [i \in 0 .. LEVELS |-> B[i]]
        /\ \A i \in 0 .. LEVELS : B[i] = IF i = 0 THEN [page |-> root, addr |-> None] ELSE LookUp(d[i - 1], LEVELS - i, vaddr)
    OBVIOUS
  <2> HIDE DEF B
  <2>3. d = [i \in 0 .. LEVELS |-> d[i]]
    BY <2>1, <2>2
  <2>4. d[0] = [page |-> root, addr |-> None] /\ \A i \in 1 .. LEVELS : d[i] = LookUp(d[i - 1], LEVELS - i, vaddr)
    <3>1. 0 \in 0 .. LEVELS /\ \A i \in 1 .. LEVELS : i \in 0 .. LEVELS /\ i # 0
      OBVIOUS
    <3> QED BY <2>1, <2>2, <3>1
  <2> QED BY <2>3, <2>4 DEF Looks
<1> QED BY <1>4, <1>5

\* f has what load_exe() did after each program header.
Loads(f, l, root, segs, n) ==
    /\ f = [i \in 0 .. n |-> f[i]]
    /\ f[0] = l
    /\ \A i \in 1 .. n : f[i] = LoadSegment(f[i - 1], root, segs[i])

LEMMA LoadsExists ==
    ASSUME NEW l, NEW root, NEW segs, NEW m \in Nat
    PROVE  \E f : Loads(f, l, root, segs, m)
<1> DEFINE S == {n \in Nat : \E f : Loads(f, l, root, segs, n)}
<1>1. 0 \in S
  <2>1. Loads([i \in 0 .. 0 |-> l], l, root, segs, 0)
    BY DEF Loads
  <2> QED BY <2>1
<1>2. ASSUME NEW n \in S PROVE n + 1 \in S
  <2>1. n \in Nat /\ n + 1 \in Nat
    OBVIOUS
  <2>2. PICK f : Loads(f, l, root, segs, n)
    OBVIOUS
  <2> DEFINE last == LoadSegment(f[n], root, segs[(n + 1)])
  <2> DEFINE g == [i \in 0 .. n + 1 |-> IF i = n + 1 THEN last ELSE f[i]]
  <2> HIDE DEF last
  <2>3. g = [i \in 0 .. n + 1 |-> g[i]] /\ g[0] = l
    BY <2>1, <2>2 DEF Loads
  <2>4. ASSUME NEW i \in 1 .. n + 1 PROVE g[i] = LoadSegment(g[i - 1], root, segs[i])
    <3>1. CASE i = n + 1
      <4>1. g[i] = last /\ g[i - 1] = f[n]
        BY <3>1, <2>1
      <4> HIDE DEF g
      <4> QED BY <4>1, <3>1 DEF last
    <3>2. CASE i # n + 1
      <4>1. i \in 1 .. n /\ g[i] = f[i] /\ g[i - 1] = f[i - 1]
        BY <3>2, <2>1
      <4>2. f[i] = LoadSegment(f[i - 1], root, segs[i])
        BY <4>1, <2>2 DEF Loads
      <4> HIDE DEF g
      <4> QED BY <4>1, <4>2
    <3> QED BY <3>1, <3>2
  <2> HIDE DEF g
  <2>5. Loads(g, l, root, segs, n + 1)
    BY <2>3, <2>4 DEF Loads
  <2> QED BY <2>1, <2>5
<1>3. S \in SUBSET Nat
  OBVIOUS
<1> HIDE DEF S
<1>4. S = Nat
  BY <1>1, <1>2, <1>3, D!SetInduction
<1> QED BY <1>4 DEF S

\* load_exe() loads one segment after the other.
LEMMA LoadSegmentsLoads ==
    ASSUME NEW l, NEW root, NEW segs, Len(segs) \in Nat
    PROVE  \E f : /\ Loads(f, l, root, segs, Len(segs))
                  /\ LoadSegments(l, root, segs) = f[Len(segs)]
<1> DEFINE F(f) == f = [i \in 0 .. Len(segs) |-> IF i = 0 THEN l ELSE LoadSegment(f[i - 1], root, segs[i])]
<1>1. PICK f : Loads(f, l, root, segs, Len(segs))
  BY LoadsExists
<1>2. F(f)
  <2>1. \A i \in 0 .. Len(segs) : f[i] = IF i = 0 THEN l ELSE LoadSegment(f[i - 1], root, segs[i])
    <3>1. \A i \in 0 .. Len(segs) : i = 0 \/ i \in 1 .. Len(segs)
      OBVIOUS
    <3>2. f[0] = l /\ \A i \in 1 .. Len(segs) : f[i] = LoadSegment(f[i - 1], root, segs[i])
      BY <1>1, Zenon DEF Loads
    <3>3. \A i \in 1 .. Len(segs) : i # 0
      OBVIOUS
    <3> QED BY <3>1, <3>2, <3>3
  <2>2. f = [i \in 0 .. Len(segs) |-> f[i]]
    BY <1>1 DEF Loads
  <2> QED BY <2>1, <2>2
<1> DEFINE d == CHOOSE g : F(g)
<1>3. F(d)
  BY <1>2
<1>4. LoadSegments(l, root, segs) = d[Len(segs)]
  BY DEF LoadSegments
<1> HIDE DEF d
<1>5. Loads(d, l, root, segs, Len(segs))
  <2> DEFINE B == [i \in 0 .. Len(segs) |-> IF i = 0 THEN l ELSE LoadSegment(d[i - 1], root, segs[i])]
  <2>1. d = B
    BY <1>3
  <2>2. /\ B = [i \in 0 .. Len(segs) |-> B[i]]
        /\ \A i \in 0 .. Len(segs) : B[i] = IF i = 0 THEN l ELSE LoadSegment(d[i - 1], root, segs[i])
    OBVIOUS
  <2> HIDE DEF B
  <2>3. d = [i \in 0 .. Len(segs) |-> d[i]]
    BY <2>1, <2>2
  <2>4. d[0] = l /\ \A i \in 1 .. Len(segs) : d[i] = LoadSegment(d[i - 1], root, segs[i])
    <3>1. 0 \in 0 .. Len(segs) /\ \A i \in 1 .. Len(segs) : i \in 0 .. Len(segs) /\ i # 0
      OBVIOUS
    <3> QED BY <2>1, <2>2, <3>1
  <2> QED BY <2>3, <2>4 DEF Loads
<1> QED BY <1>4, <1>5

-----------------------------------------------------------------------------
(***************************************************************************)
(* Page numbers.  An entry at level i of a table stands for the pages v    *)
(* with the same Pre(v, i): the indices of the levels above and its own.   *)
(***************************************************************************)

Pre(v, i) == v \div Span[i]

\* The number of an entry's table, its index in it, and the number again.
Up(x)     == x \div TableLen
Idx(x)    == x % TableLen
Sub(q, j) == q * TableLen + j

Indices == 0 .. TableLen - 1

LEMMA SpanFacts ==
    /\ Span[0] = 1
    /\ \A i \in 1 .. LEVELS : Span[i] = TableLen * Span[i - 1]
    /\ \A i \in 0 .. LEVELS : Span[i] \in Nat \ {0}
<1>0. LEVELS \in Nat /\ TableLen \in Nat \ {0}
  BY TableAssumption
<1>1. Spans(Span, LEVELS)
  BY <1>0, SpanIsRecursive
<1>2. Span[0] = 1 /\ \A i \in 1 .. LEVELS : Span[i] = TableLen * Span[i - 1]
  BY <1>1, Zenon DEF Spans
<1> DEFINE S == {i \in Nat : i <= LEVELS => Span[i] \in Nat \ {0}}
<1>3. 0 \in S
  BY <1>2
<1>4. ASSUME NEW i \in S PROVE i + 1 \in S
  <2>1. CASE i + 1 <= LEVELS
    <3>1. i + 1 \in 1 .. LEVELS /\ (i + 1) - 1 = i /\ i <= LEVELS /\ i \in Nat
      BY <2>1, <1>0
    <3>2. Span[i] \in Nat \ {0} /\ Span[i + 1] = TableLen * Span[i]
      BY <3>1, <1>2
    <3>3. TableLen * Span[i] \in Nat \ {0}
      BY <3>2, <1>0, ProductNat
    <3> QED BY <3>1, <3>2, <3>3
  <2> QED BY <2>1, <1>0
<1>5. S \in SUBSET Nat
  OBVIOUS
<1> HIDE DEF S
<1>6. S = Nat
  BY <1>3, <1>4, <1>5, D!SetInduction
<1>7. \A i \in 0 .. LEVELS : Span[i] \in Nat \ {0}
  BY <1>6, <1>0 DEF S
<1> QED BY <1>2, <1>7

\* A whole number of entries of level i fill the address space.
LEMMA SpanDivides ==
    ASSUME NEW i \in 0 .. LEVELS
    PROVE  \E m \in Nat : Span[LEVELS] = Span[i] * m
<1>0. LEVELS \in Nat /\ TableLen \in Nat
  BY TableAssumption
<1> DEFINE S == {j \in Nat : j <= LEVELS => \E m \in Nat : Span[LEVELS] = Span[LEVELS - j] * m}
<1>1. 0 \in S
  <2>1. Span[LEVELS] \in Nat /\ LEVELS - 0 = LEVELS
    BY <1>0, SpanFacts
  <2>2. Span[LEVELS] = Span[LEVELS - 0] * 1
    BY <2>1
  <2> QED BY <2>2
<1>2. ASSUME NEW j \in S PROVE j + 1 \in S
  <2> SUFFICES ASSUME j + 1 <= LEVELS PROVE \E m \in Nat : Span[LEVELS] = Span[LEVELS - (j + 1)] * m
    OBVIOUS
  <2>1. PICK m \in Nat : Span[LEVELS] = Span[LEVELS - j] * m
    BY <1>0
  <2> DEFINE k == LEVELS - (j + 1)
  <2>2. k \in 0 .. LEVELS /\ LEVELS - j \in 1 .. LEVELS /\ (LEVELS - j) - 1 = k
    BY <1>0
  <2>3. Span[LEVELS - j] = TableLen * Span[k] /\ Span[k] \in Nat
    BY <2>2, SpanFacts
  <2> HIDE DEF k
  <2>4. Span[LEVELS] = Span[k] * (TableLen * m) /\ TableLen * m \in Nat
    BY <2>1, <2>3, <1>0
  <2> QED BY <2>4 DEF k
<1>3. S \in SUBSET Nat
  OBVIOUS
<1> HIDE DEF S
<1>4. S = Nat
  BY <1>1, <1>2, <1>3, D!SetInduction
<1>5. LEVELS - i \in Nat /\ LEVELS - i <= LEVELS /\ LEVELS - (LEVELS - i) = i
  BY <1>0
<1> QED BY <1>4, <1>5 DEF S

LEMMA EntryNumbers ==
    /\ \A x \in Nat : Up(x) \in Nat /\ Idx(x) \in Indices /\ Sub(Up(x), Idx(x)) = x
    /\ \A q \in Nat, j \in Indices : Sub(q, j) \in Nat /\ Up(Sub(q, j)) = q /\ Idx(Sub(q, j)) = j
<1>0. TableLen \in Nat \ {0}
  BY TableAssumption
<1>1. ASSUME NEW x \in Nat PROVE Up(x) \in Nat /\ Idx(x) \in Indices /\ Sub(Up(x), Idx(x)) = x
  <2>0. x \in Int
    OBVIOUS
  <2>1. x \div TableLen \in Nat /\ x % TableLen \in 0 .. TableLen - 1
    BY <1>0, <2>0, DivNat, ModRange, Zenon
  <2>2. x = TableLen * (x \div TableLen) + (x % TableLen)
    BY <1>0, DivRemainder
  <2> QED BY <1>0, <2>1, <2>2 DEF Up, Idx, Sub, Indices
<1>2. ASSUME NEW q \in Nat, NEW j \in Indices PROVE Sub(q, j) \in Nat /\ Up(Sub(q, j)) = q /\ Idx(Sub(q, j)) = j
  <2> DEFINE x == q * TableLen + j
  <2>1. j \in 0 .. TableLen - 1 /\ j \in Nat
    BY <1>0 DEF Indices
  <2>2. x \in Nat /\ x = TableLen * q + j
    BY <1>0, <2>1
  <2> HIDE DEF x
  <2>3. q \in Int /\ x \in Int
    BY <2>2
  <2>4. x \div TableLen = q /\ x % TableLen = j
    BY <1>0, <2>1, <2>2, <2>3, DivUnique
  <2> QED BY <2>2, <2>4 DEF Up, Idx, Sub, x
<1> QED BY <1>1, <1>2

\* One level up.
LEMMA PreUp ==
    ASSUME NEW v \in Nat, NEW i \in 0 .. LEVELS - 1
    PROVE  Pre(v, i) \in Nat /\ Pre(v, i + 1) \in Nat /\ Up(Pre(v, i)) = Pre(v, i + 1)
<1>0. LEVELS \in Nat /\ TableLen \in Nat \ {0}
  BY TableAssumption
<1> DEFINE a == Span[i]
<1>1. i \in 0 .. LEVELS /\ i + 1 \in 1 .. LEVELS /\ i + 1 \in 0 .. LEVELS /\ (i + 1) - 1 = i
  BY <1>0
<1>2. a \in Nat \ {0} /\ Span[i + 1] = TableLen * a /\ Span[i + 1] \in Nat \ {0}
  BY <1>1, SpanFacts
<1> HIDE DEF a
<1>3. (v \div a) \div TableLen = v \div (TableLen * a)
  BY <1>0, <1>2, DivDiv
<1>4. v \div a \in Nat /\ v \div Span[i + 1] \in Nat
  BY <1>2, DivNat
<1> QED BY <1>2, <1>3, <1>4 DEF Pre, Up, a

LEMMA PreEnds ==
    ASSUME NEW v \in VPages
    PROVE  v \in Nat /\ Pre(v, 0) = v /\ Pre(v, LEVELS) = 0
<1>0. LEVELS \in Nat
  BY TableAssumption
<1> DEFINE N == Span[LEVELS]
<1>1. Span[0] = 1 /\ N \in Nat \ {0}
  BY <1>0, SpanFacts
<1>2. v \in 0 .. N - 1
  BY DEF VPages
<1> HIDE DEF N
<1>3. v \div N = 0
  BY <1>1, <1>2, ModSmall
<1>4. v \div 1 = v /\ v \in Nat
  BY <1>1, <1>2
<1> QED BY <1>1, <1>3, <1>4 DEF Pre, N

\* The index at level i is that of the page, whatever bits are above.
LEMMA VpnIsIdx ==
    ASSUME NEW vaddr \in Nat, NEW i \in 0 .. LEVELS - 1
    PROVE  /\ PageOf(vaddr) \in VPages
           /\ Vpn(vaddr, i) = Idx(Pre(PageOf(vaddr), i))
<1>0. LEVELS \in Nat /\ TableLen \in Nat \ {0} /\ PageSize \in Nat \ {0}
  BY TableAssumption
<1> DEFINE N == Span[LEVELS]
<1> DEFINE a == Span[i]
<1> DEFINE x == vaddr \div PageSize
<1> DEFINE y == x % N
<1>1. i \in 0 .. LEVELS /\ i + 1 \in 1 .. LEVELS /\ i + 1 \in 0 .. LEVELS /\ (i + 1) - 1 = i /\ LEVELS \in 0 .. LEVELS
  BY <1>0
<1>2. a \in Nat \ {0} /\ Span[i + 1] = TableLen * a /\ N \in Nat \ {0}
  BY <1>1, SpanFacts
<1>3. PICK m \in Nat : N = (TableLen * a) * m
  BY <1>1, <1>2, SpanDivides
<1>4. x \in Nat
  BY <1>0, DivNat
<1> HIDE DEF N, a, x
<1> DEFINE d == x \div N
<1>5. y \in 0 .. N - 1 /\ d \in Int /\ x = N * d + y
  <2>1. N \in Nat \ {0} /\ x \in Int
    BY <1>2, <1>4
  <2>2. x % N \in 0 .. N - 1
    BY <2>1, ModRange, Zenon
  <2>3. x \div N \in Int /\ x = N * (x \div N) + (x % N)
    BY <2>1, DivRemainder, Zenon
  <2> QED BY <2>2, <2>3
<1>6. y \in Int
  BY <1>2, <1>5
<1> HIDE DEF d, y
<1> DEFINE e == y \div a
<1> DEFINE s == y % a
<1>7. e \in Int /\ y = a * e + s /\ s \in 0 .. a - 1
  BY <1>2, <1>6, ModRange, DivRemainder
<1> HIDE DEF e, s
<1> DEFINE k == m * d
<1> DEFINE q == TableLen * k + e
<1>8. k \in Int /\ N * d = a * (TableLen * k)
  <2>1. k \in Int
    BY <1>3, <1>5
  <2>2. N * d = ((TableLen * a) * m) * d
    BY <1>3
  <2>3. ((TableLen * a) * m) * d = (TableLen * a) * (m * d)
    BY <1>0, <1>2, <1>5
  <2> HIDE DEF k
  <2>4. (TableLen * a) * k = a * (TableLen * k)
    BY <1>0, <1>2, <2>1
  <2> QED BY <2>1, <2>2, <2>3, <2>4 DEF k
<1> HIDE DEF k
<1>9. q \in Int /\ a * q = a * (TableLen * k) + a * e
  BY <1>0, <1>2, <1>7, <1>8
<1>10. x = a * q + s
  <2> DEFINE u == a * (TableLen * k)
  <2> DEFINE w == a * e
  <2> DEFINE z == a * q
  <2>1. u \in Int /\ w \in Int /\ s \in Int
    BY <1>0, <1>2, <1>7, <1>8
  <2>2. x = u + y /\ y = w + s /\ z = u + w
    BY <1>5, <1>7, <1>8, <1>9
  <2> HIDE DEF u, w, z
  <2>3. x = z + s
    BY <2>1, <2>2
  <2> QED BY <2>3 DEF z
<1>11. x \div a = q
  <2> HIDE DEF q
  <2>1. x \in Int /\ q \in Int
    BY <1>4, <1>9
  <2> QED BY <2>1, <1>2, <1>7, <1>10, DivUnique
<1>12. q % TableLen = e % TableLen
  BY <1>0, <1>7, <1>8, ModMultiple
<1>13. Vpn(vaddr, i) = Idx(Pre(PageOf(vaddr), i))
  <2>1. Vpn(vaddr, i) = (x \div a) % TableLen
    BY DEF Vpn, x, a
  <2>2. Idx(Pre(PageOf(vaddr), i)) = e % TableLen
    BY DEF Idx, Pre, PageOf, e, y, x, N, a
  <2> QED BY <2>1, <2>2, <1>11, <1>12
<1>14. PageOf(vaddr) \in VPages
  BY <1>5 DEF PageOf, VPages, y, x, N
<1> QED BY <1>13, <1>14

-----------------------------------------------------------------------------
(***************************************************************************)
(* The heap.  own says of each table in which tree it is, at which level,  *)
(* and for which pages; S what the pages of each tree stand for.           *)
(***************************************************************************)

Flags   == {"V", "R", "W", "X", "U"}
Entries == [ppn : Nat, flags : SUBSET Flags]
Nodes   == [root : Pages, level : 0 .. LEVELS - 1, pre : Nat]
Spaces  == [VPages -> Nat \cup {None}]

Node(r, i, q) == [root |-> r, level |-> i, pre |-> q]

\* Tables are allocated pages.
HeapType(h, own, S) ==
    /\ h.used \subseteq Pages
    /\ h.table \in [DOMAIN own -> [Indices -> Entries]]
    /\ DOMAIN own \subseteq h.used
    /\ own \in [DOMAIN own -> Nodes]
    /\ S \in [DOMAIN S -> Spaces]

\* Each tree has one root, the table of the highest level.
RootsOK(own, S) ==
    /\ \A t \in DOMAIN own : own[t].root \in DOMAIN S /\ (own[t].level = LEVELS - 1 => own[t].root = t)
    /\ \A r \in DOMAIN S : r \in DOMAIN own /\ own[r] = Node(r, LEVELS - 1, 0)

\* A valid entry is a leaf at level 0 and points to a table of the same tree above.
DownOK(h, own) ==
    \A t \in DOMAIN own, j \in Indices :
        LET e == h.table[t][j]
        IN  IsValid(e) =>
                /\ own[t].level = 0 => IsLeaf(e)
                /\ own[t].level # 0 => /\ ~IsLeaf(e)
                                       /\ e.ppn \in DOMAIN own
                                       /\ own[e.ppn] = Node(own[t].root, own[t].level - 1, Sub(own[t].pre, j))

\* A table that is not a root hangs on an entry of the level above.
UpOK(h, own) ==
    \A t \in DOMAIN own :
        own[t].level # LEVELS - 1 =>
            \E u \in DOMAIN own :
                LET e == h.table[u][Idx(own[t].pre)]
                IN  /\ own[u] = Node(own[t].root, own[t].level + 1, Up(own[t].pre))
                    /\ IsValid(e) /\ e.ppn = t

\* No two tables of a tree are for the same pages.
OneEach(own) == \A t, u \in DOMAIN own : own[t] = own[u] => t = u

\* An entry says what the pages it is for stand for, if it is invalid or a leaf.
Exact(h, own, S) ==
    \A t \in DOMAIN own, v \in VPages :
        LET i == own[t].level
            e == h.table[t][Idx(Pre(v, i))]
        IN  Pre(v, i + 1) = own[t].pre =>
                /\ ~IsValid(e) => S[own[t].root][v] = None
                /\ IsValid(e) /\ i = 0 => S[own[t].root][v] = e.ppn

Shape(h, own, S) ==
    /\ HeapType(h, own, S)
    /\ RootsOK(own, S)
    /\ DownOK(h, own)
    /\ UpOK(h, own)
    /\ OneEach(own)
    /\ Exact(h, own, S)

\* From h to g the pages N were allocated, and tables for the tree of r.
Grown(h, own, g, own2, r, N) ==
    /\ DOMAIN own \subseteq DOMAIN own2
    /\ \A t \in DOMAIN own : own2[t] = own[t]
    /\ \A t \in DOMAIN own2 : t \notin DOMAIN own => own2[t].root = r /\ t \notin h.used
    /\ g.used = (h.used \cup N) \cup DOMAIN own2
    /\ N \cap h.used = {}
    /\ N \cap DOMAIN own2 = {}

LEMMA GrownRefl ==
    ASSUME NEW h, NEW own, NEW S, Shape(h, own, S), NEW r
    PROVE  Grown(h, own, h, own, r, {})
  BY DEF Shape, HeapType, Grown

LEMMA GrownTrans ==
    ASSUME NEW h, NEW own, NEW h1, NEW own1, NEW S1, NEW h2, NEW own2, NEW r, NEW N1, NEW N2,
           Shape(h1, own1, S1), Grown(h, own, h1, own1, r, N1), Grown(h1, own1, h2, own2, r, N2)
    PROVE  Grown(h, own, h2, own2, r, N1 \cup N2)
<1>1. DOMAIN own1 \subseteq h1.used
  BY DEF Shape, HeapType
<1>2. /\ DOMAIN own \subseteq DOMAIN own1 /\ DOMAIN own1 \subseteq DOMAIN own2
      /\ \A t \in DOMAIN own : own1[t] = own[t]
      /\ \A t \in DOMAIN own1 : own2[t] = own1[t]
      /\ \A t \in DOMAIN own1 : t \notin DOMAIN own => own1[t].root = r /\ t \notin h.used
      /\ \A t \in DOMAIN own2 : t \notin DOMAIN own1 => own2[t].root = r /\ t \notin h1.used
  BY DEF Grown
<1>3. /\ h1.used = (h.used \cup N1) \cup DOMAIN own1 /\ N1 \cap h.used = {} /\ N1 \cap DOMAIN own1 = {}
      /\ h2.used = (h1.used \cup N2) \cup DOMAIN own2 /\ N2 \cap h1.used = {} /\ N2 \cap DOMAIN own2 = {}
  BY DEF Grown
<1>4. h2.used = (h.used \cup (N1 \cup N2)) \cup DOMAIN own2
  BY <1>2, <1>3
<1>5. (N1 \cup N2) \cap h.used = {}
  BY <1>3
<1>6. (N1 \cup N2) \cap DOMAIN own2 = {}
  BY <1>2, <1>3
<1>7. \A t \in DOMAIN own2 : t \notin DOMAIN own => own2[t].root = r /\ t \notin h.used
  BY <1>2, <1>3
<1> QED BY <1>2, <1>4, <1>5, <1>6, <1>7 DEF Grown

\* The allocator hands out free pages, or none.
LEMMA FirstFitFits ==
    ASSUME NEW h, NEW n \in Nat, FirstFit(h, n) # 0
    PROVE  FirstFit(h, n) \in Pages /\ Fits(h, FirstFit(h, n), n)
<1> DEFINE F == {q \in Pages : Fits(h, q, n)}
<1> DEFINE P(first) == Fits(h, first, n) /\ \A q \in 1 .. first - 1 : ~Fits(h, q, n)
<1>1. F # {} /\ F \in SUBSET Nat
  BY TableAssumption DEF FirstFit, Pages
<1>2. PICK x \in F : \A y \in F : x <= y
  <2> HIDE DEF F
  <2> QED BY <1>1, D!LeastNatural, Zenon
<1>3. x \in Pages /\ P(x)
  <2>1. x \in Pages /\ Fits(h, x, n) /\ x \in 1 .. MaxPage
    BY <1>2 DEF Pages
  <2>2. ASSUME NEW q \in 1 .. x - 1, Fits(h, q, n) PROVE FALSE
    <3>1. q \in Pages /\ q < x
      BY <2>1, TableAssumption DEF Pages
    <3>2. x <= q
      BY <3>1, <2>2, <1>2
    <3> QED BY <3>1, <3>2, <2>1, TableAssumption
  <2> QED BY <2>1, <2>2
<1>4. FirstFit(h, n) = CHOOSE first \in Pages : P(first)
  BY <1>3 DEF FirstFit
<1> HIDE DEF P, F
<1>5. FirstFit(h, n) \in Pages /\ P(FirstFit(h, n))
  BY <1>3, <1>4
<1> QED BY <1>5 DEF P

\* alloc() of pages that will hold no table.
LEMMA TakeShape ==
    ASSUME NEW h, NEW own, NEW S, Shape(h, own, S), NEW n \in Nat, NEW first, Fits(h, first, n), NEW r
    PROVE  /\ Shape(Take(h, first, n), own, S)
           /\ Grown(h, own, Take(h, first, n), own, r, first .. first + n - 1)
<1> DEFINE g == Take(h, first, n)
<1> DEFINE N == first .. first + n - 1
<1>1. g.used = h.used \cup N /\ g.table = h.table
  BY DEF Take
<1>2. N \subseteq Pages \ h.used
  BY DEF Fits
<1> HIDE DEF g, N
<1>3. /\ h.used \subseteq Pages /\ DOMAIN own \subseteq h.used
      /\ h.table \in [DOMAIN own -> [Indices -> Entries]]
      /\ own \in [DOMAIN own -> Nodes] /\ S \in [DOMAIN S -> Spaces]
  BY DEF Shape, HeapType
<1>4. g.used \subseteq Pages /\ DOMAIN own \subseteq g.used
  BY <1>1, <1>2, <1>3
<1>5. HeapType(g, own, S)
  BY <1>1, <1>3, <1>4 DEF HeapType
<1>6. DownOK(g, own) /\ UpOK(g, own) /\ Exact(g, own, S)
  BY <1>1 DEF Shape, DownOK, UpOK, Exact
<1>7. Shape(g, own, S)
  BY <1>5, <1>6 DEF Shape
<1>8. Grown(h, own, g, own, r, N)
  BY <1>1, <1>2, <1>3 DEF Grown
<1> QED BY <1>7, <1>8 DEF g, N

-----------------------------------------------------------------------------
(***************************************************************************)
(* New tables and new entries.                                             *)
(***************************************************************************)

LEMMA EntryFacts ==
    /\ Zero \in Entries /\ ~IsValid(Zero)
    /\ \A n \in Nat : LET e == [ppn |-> n, flags |-> {"V"}]
                      IN  e \in Entries /\ IsValid(e) /\ ~IsLeaf(e) /\ e.ppn = n
    /\ \A n \in Nat, bits \in SUBSET Flags :
        LET e == [ppn |-> n, flags |-> bits \cup {"V"}]
        IN  e \in Entries /\ IsValid(e) /\ e.ppn = n /\ (bits \cap {"R", "W", "X"} # {} => IsLeaf(e))
<1>1. Zero \in Entries /\ ~IsValid(Zero)
  BY DEF Zero, Entries, IsValid
<1>2. ASSUME NEW n \in Nat
      PROVE  LET e == [ppn |-> n, flags |-> {"V"}]
             IN  e \in Entries /\ IsValid(e) /\ ~IsLeaf(e) /\ e.ppn = n
  BY DEF Entries, Flags, IsValid, IsLeaf
<1>3. ASSUME NEW n \in Nat, NEW bits \in SUBSET Flags
      PROVE  LET e == [ppn |-> n, flags |-> bits \cup {"V"}]
             IN  e \in Entries /\ IsValid(e) /\ e.ppn = n /\ (bits \cap {"R", "W", "X"} # {} => IsLeaf(e))
  BY DEF Entries, Flags, IsValid, IsLeaf
<1> QED BY <1>1, <1>2, <1>3

\* g is h with another entry.
EntrySet(g, h, T, t, j, e) ==
    /\ g.used = h.used
    /\ g.table \in [T -> [Indices -> Entries]]
    /\ g.table[t][j] = e
    /\ \A u \in T, k \in Indices : u # t \/ k # j => g.table[u][k] = h.table[u][k]

LEMMA SetEntryAt ==
    ASSUME NEW h, NEW T, h.table \in [T -> [Indices -> Entries]],
           NEW t \in T, NEW j \in Indices, NEW e \in Entries
    PROVE  EntrySet(SetEntry(h, t, j, e), h, T, t, j, e)
<1> DEFINE a == h.table
<1> DEFINE b == [a EXCEPT ![t][j] = e]
<1>1. SetEntry(h, t, j, e).used = h.used /\ SetEntry(h, t, j, e).table = b
  BY DEF SetEntry
<1>2. a \in [T -> [Indices -> Entries]]
  OBVIOUS
<1> HIDE DEF a
<1>3. b \in [T -> [Indices -> Entries]] /\ b[t][j] = e /\ \A u \in T, k \in Indices : u # t \/ k # j => b[u][k] = a[u][k]
  BY <1>2
<1> HIDE DEF b
<1> QED BY <1>1, <1>3 DEF a, EntrySet

\* g is h with another table.
TableTaken(g, h, T, n) ==
    /\ g.used = h.used \cup {n}
    /\ g.table \in [T \cup {n} -> [Indices -> Entries]]
    /\ \A k \in Indices : g.table[n][k] = Zero
    /\ \A u \in T : g.table[u] = h.table[u]

LEMMA TakeTableAt ==
    ASSUME NEW h, NEW T, h.table \in [T -> [Indices -> Entries]], NEW n, n \notin T
    PROVE  TableTaken(TakeTable(h, n), h, T, n)
<1> DEFINE a == h.table
<1> DEFINE b == [q \in DOMAIN a \cup {n} |-> IF q = n THEN EmptyTable ELSE a[q]]
<1>1. TakeTable(h, n).used = h.used \cup {n} /\ TakeTable(h, n).table = b
  BY DEF TakeTable
<1>2. a \in [T -> [Indices -> Entries]]
  OBVIOUS
<1> HIDE DEF a
<1>3. EmptyTable \in [Indices -> Entries] /\ \A k \in Indices : EmptyTable[k] = Zero
  BY EntryFacts DEF EmptyTable, Indices
<1>4. b \in [T \cup {n} -> [Indices -> Entries]] /\ b[n] = EmptyTable /\ \A u \in T : b[u] = a[u]
  BY <1>2, <1>3
<1> HIDE DEF b
<1> QED BY <1>1, <1>3, <1>4 DEF a, TableTaken

LEMMA NodeFields ==
    ASSUME NEW r, NEW i, NEW q
    PROVE  /\ Node(r, i, q).root = r /\ Node(r, i, q).level = i /\ Node(r, i, q).pre = q
           /\ \A a, b, c : Node(a, b, c) = Node(r, i, q) => a = r /\ b = i /\ c = q
  BY DEF Node

LEMMA NodeEta ==
    ASSUME NEW x \in Nodes
    PROVE  /\ x = Node(x.root, x.level, x.pre)
           /\ x.root \in Pages /\ x.level \in 0 .. LEVELS - 1 /\ x.pre \in Nat
  BY DEF Node, Nodes

\* g is f with another value for p.
Extended(g, f, p, x) ==
    /\ DOMAIN g = DOMAIN f \cup {p}
    /\ g[p] = x
    /\ \A q \in DOMAIN f : q # p => g[q] = f[q]

LEMMA WithAt ==
    ASSUME NEW f, NEW p, NEW x
    PROVE  Extended(With(f, p, x), f, p, x)
  BY DEF With, Extended

LEMMA WithType ==
    ASSUME NEW f, NEW p, NEW X, f \in [DOMAIN f -> X], NEW x \in X
    PROVE  With(f, p, x) \in [DOMAIN f \cup {p} -> X]
  BY DEF With

\* A table hung on an entry that was invalid is for pages no other table is for.
LEMMA LinkShape ==
    ASSUME NEW h, NEW own, NEW S, Shape(h, own, S),
           NEW t \in DOMAIN own, own[t].level # 0, NEW j \in Indices, ~IsValid(h.table[t][j]),
           NEW n \in Pages, n \notin h.used,
           NEW g, g = SetEntry(TakeTable(h, n), t, j, [ppn |-> n, flags |-> {"V"}]),
           NEW own2, own2 = With(own, n, Node(own[t].root, own[t].level - 1, Sub(own[t].pre, j)))
    PROVE  Shape(g, own2, S) /\ Grown(h, own, g, own2, own[t].root, {})
<1> DEFINE T == DOMAIN own
<1> DEFINE r == own[t].root
<1> DEFINE i == own[t].level - 1
<1> DEFINE q == Sub(own[t].pre, j)
<1> DEFINE x == Node(r, i, q)
<1> DEFINE e == [ppn |-> n, flags |-> {"V"}]
<1>1. /\ h.used \subseteq Pages /\ T \subseteq h.used
      /\ h.table \in [T -> [Indices -> Entries]]
      /\ own \in [T -> Nodes] /\ S \in [DOMAIN S -> Spaces]
  BY DEF Shape, HeapType
<1>2. n \notin T /\ t # n
  BY <1>1
<1>3. n \in Nat
  BY TableAssumption DEF Pages
<1>4. e \in Entries /\ IsValid(e) /\ ~IsLeaf(e) /\ e.ppn = n
  BY <1>3, EntryFacts
<1> HIDE DEF e
<1>5. /\ g.used = h.used \cup {n}
      /\ g.table \in [T \cup {n} -> [Indices -> Entries]]
      /\ g.table[t][j] = e
      /\ \A k \in Indices : g.table[n][k] = Zero
      /\ \A u \in T, k \in Indices : u # t \/ k # j => g.table[u][k] = h.table[u][k]
  <2> DEFINE m == TakeTable(h, n)
  <2> DEFINE T2 == T \cup {n}
  <2>2. g = SetEntry(m, t, j, e)
    BY DEF e
  <2>3. t \in T2 /\ n \in T2
    OBVIOUS
  <2>4. h.table \in [T -> [Indices -> Entries]] /\ n \notin T
    BY <1>1, <1>2
  <2> HIDE DEF T
  <2>1. /\ m.used = h.used \cup {n}
        /\ m.table \in [T2 -> [Indices -> Entries]]
        /\ \A k \in Indices : m.table[n][k] = Zero
        /\ \A u \in T : m.table[u] = h.table[u]
    <3>1. TableTaken(m, h, T, n)
      BY <2>4, TakeTableAt
    <3> HIDE DEF m
    <3> QED BY <3>1 DEF TableTaken
  <2> HIDE DEF m, T2
  <2>5. m.table \in [T2 -> [Indices -> Entries]] /\ e \in Entries /\ t \in T2
    BY <1>4, <2>1, <2>3
  <2>6. /\ g.used = m.used
        /\ g.table \in [T2 -> [Indices -> Entries]]
        /\ g.table[t][j] = e
        /\ \A u \in T2, k \in Indices : u # t \/ k # j => g.table[u][k] = m.table[u][k]
    <3>1. EntrySet(g, m, T2, t, j, e)
      BY <2>5, <2>2, SetEntryAt
    <3> QED BY <3>1 DEF EntrySet
  <2>7. t \in T /\ n # t /\ T2 = T \cup {n} /\ (\A u \in T : u \in T2)
    <3>1. T2 = T \cup {n}
      BY DEF T2
    <3> QED BY <3>1, <1>2 DEF T
  <2> HIDE DEF e
  <2>8. g.used = h.used \cup {n}
    BY <2>1, <2>6
  <2>9. g.table \in [T \cup {n} -> [Indices -> Entries]] /\ g.table[t][j] = e
    BY <2>6, <2>7, Zenon
  <2>10. ASSUME NEW k \in Indices PROVE g.table[n][k] = Zero
    <3>1. m.table[n][k] = Zero
      BY <2>1, Zenon
    <3>2. g.table[n][k] = m.table[n][k]
      BY <2>6, <2>7, <2>3, Zenon
    <3> QED BY <3>1, <3>2, Zenon
  <2>11. ASSUME NEW u \in T, NEW k \in Indices, u # t \/ k # j PROVE g.table[u][k] = h.table[u][k]
    <3>1. m.table[u] = h.table[u] /\ u \in T2
      BY <2>1, <2>7, Zenon
    <3>2. g.table[u][k] = m.table[u][k]
      BY <3>1, <2>6, <2>11, Zenon
    <3> QED BY <3>1, <3>2, Zenon
  <2> QED BY <2>8, <2>9, <2>10, <2>11, Zenon
<1>6. /\ own[t] = Node(r, i + 1, own[t].pre)
      /\ r \in Pages /\ i \in 0 .. LEVELS - 1 /\ own[t].pre \in Nat /\ i + 1 # 0 /\ i # LEVELS - 1 /\ i \in Nat
      /\ own[t].level = i + 1
  <2>1. own[t] \in Nodes
    BY <1>1
  <2>2. /\ own[t] = Node(r, own[t].level, own[t].pre)
        /\ r \in Pages /\ own[t].level \in 0 .. LEVELS - 1 /\ own[t].pre \in Nat
    BY <2>1, NodeEta, Zenon
  <2>3. /\ i \in 0 .. LEVELS - 1 /\ i + 1 # 0 /\ i # LEVELS - 1 /\ i \in Nat /\ own[t].level = i + 1
    BY <2>2, TableAssumption
  <2> HIDE DEF i, r
  <2> QED BY <2>2, <2>3
<1>7. q \in Nat /\ Up(q) = own[t].pre /\ Idx(q) = j
  BY <1>6, EntryNumbers
<1>8. x \in Nodes /\ x.root = r /\ x.level = i /\ x.pre = q
  <2>1. x \in Nodes
    BY <1>6, <1>7 DEF Node, Nodes
  <2> QED BY <2>1, NodeFields
<1>9. /\ DOMAIN own2 = T \cup {n} /\ own2[n] = x /\ \A u \in T : own2[u] = own[u]
      /\ own2 \in [DOMAIN own2 -> Nodes]
  <2>1. own2 = With(own, n, x)
    OBVIOUS
  <2>2. own \in [DOMAIN own -> Nodes] /\ x \in Nodes /\ n \notin DOMAIN own
    BY <1>1, <1>2, <1>8
  <2> HIDE DEF x
  <2>3. /\ DOMAIN own2 = DOMAIN own \cup {n} /\ own2[n] = x
        /\ \A u \in DOMAIN own : u # n => own2[u] = own[u]
        /\ own2 \in [DOMAIN own \cup {n} -> Nodes]
    <3>1. Extended(own2, own, n, x)
      BY <2>1, WithAt
    <3>2. With(own, n, x) \in [DOMAIN own \cup {n} -> Nodes]
      BY <2>2, WithType, Zenon
    <3> QED BY <2>1, <3>1, <3>2 DEF Extended
  <2> QED BY <2>2, <2>3
<1> HIDE DEF T, r, i, q, x
<1>a. T = DOMAIN own /\ t \in T
  BY DEF T
<1>10. HeapType(g, own2, S)
  BY <1>1, <1>5, <1>9 DEF HeapType
<1>11. RootsOK(own2, S)
  <2>1. RootsOK(own, S)
    BY DEF Shape
  <2>2. r \in DOMAIN S
    BY <2>1, <1>a DEF RootsOK, r
  <2>3. ASSUME NEW u \in DOMAIN own2 PROVE own2[u].root \in DOMAIN S /\ (own2[u].level = LEVELS - 1 => own2[u].root = u)
    <3>1. CASE u = n
      BY <3>1, <1>9, <1>8, <1>6, <2>2
    <3>2. CASE u \in T
      BY <3>2, <1>9, <2>1, <1>a DEF RootsOK
    <3> QED BY <3>1, <3>2, <1>9
  <2>4. ASSUME NEW u \in DOMAIN S PROVE u \in DOMAIN own2 /\ own2[u] = Node(u, LEVELS - 1, 0)
    BY <2>1, <1>9, <1>a DEF RootsOK
  <2> QED BY <2>3, <2>4 DEF RootsOK
<1>12. DownOK(g, own2)
  <2> SUFFICES ASSUME NEW u \in DOMAIN own2, NEW k \in Indices, IsValid(g.table[u][k])
               PROVE  /\ own2[u].level = 0 => IsLeaf(g.table[u][k])
                      /\ own2[u].level # 0 =>
                            /\ ~IsLeaf(g.table[u][k])
                            /\ g.table[u][k].ppn \in DOMAIN own2
                            /\ own2[g.table[u][k].ppn] = Node(own2[u].root, own2[u].level - 1, Sub(own2[u].pre, k))
    BY DEF DownOK
  <2>1. u # n
    <3>1. g.table[n][k] = Zero /\ ~IsValid(Zero)
      BY <1>5, EntryFacts
    <3> QED BY <3>1
  <2>2. u \in T /\ own2[u] = own[u]
    BY <2>1, <1>9
  <2>3. CASE u = t /\ k = j
    <3>1. g.table[u][k] = e
      BY <2>3, <1>5
    <3>2. own2[u].level = i + 1 /\ own2[u].root = r /\ own2[u].pre = own[t].pre
      BY <2>2, <2>3, <1>6 DEF r
    <3>3. own2[n] = Node(r, i, q)
      BY <1>9 DEF x
    <3>4. own2[u].level - 1 = i /\ own2[u].level # 0
      BY <3>2, <1>6
    <3>5. q = Sub(own2[u].pre, k)
      BY <3>2, <2>3 DEF q
    <3>6. n \in DOMAIN own2
      BY <1>9
    <3> QED BY <3>1, <3>2, <3>3, <3>4, <3>5, <3>6, <1>4
  <2>4. CASE ~(u = t /\ k = j)
    <3>1. g.table[u][k] = h.table[u][k]
      BY <2>2, <2>4, <1>5
    <3> DEFINE y == h.table[u][k]
    <3>2. /\ own[u].level = 0 => IsLeaf(y)
          /\ own[u].level # 0 => /\ ~IsLeaf(y)
                                 /\ y.ppn \in T
                                 /\ own[y.ppn] = Node(own[u].root, own[u].level - 1, Sub(own[u].pre, k))
      BY <3>1, <2>2, <1>a DEF Shape, DownOK
    <3> HIDE DEF y
    <3>3. g.table[u][k] = y
      BY <3>1 DEF y
    <3> QED BY <3>2, <3>3, <2>2, <1>9
  <2> QED BY <2>3, <2>4
<1>13. UpOK(g, own2)
  <2> SUFFICES ASSUME NEW u \in DOMAIN own2, own2[u].level # LEVELS - 1
               PROVE  \E w \in DOMAIN own2 :
                        /\ own2[w] = Node(own2[u].root, own2[u].level + 1, Up(own2[u].pre))
                        /\ IsValid(g.table[w][Idx(own2[u].pre)]) /\ g.table[w][Idx(own2[u].pre)].ppn = u
    BY DEF UpOK
  <2>1. CASE u = n
    <3>1. own2[u].root = r /\ own2[u].level = i /\ own2[u].pre = q
      BY <2>1, <1>8, <1>9
    <3>2. t \in DOMAIN own2 /\ own2[t] = Node(r, i + 1, Up(q))
      BY <1>6, <1>7, <1>9, <1>a
    <3>3. g.table[t][Idx(q)] = e
      BY <1>5, <1>7
    <3> QED BY <3>1, <3>2, <3>3, <1>4, <2>1
  <2>2. CASE u # n
    <3>1. u \in T /\ own2[u] = own[u]
      BY <2>2, <1>9
    <3>2. UpOK(h, own) /\ own[u].level # LEVELS - 1
      BY <3>1 DEF Shape
    <3>3. PICK w \in T : /\ own[w] = Node(own[u].root, own[u].level + 1, Up(own[u].pre))
                         /\ IsValid(h.table[w][Idx(own[u].pre)]) /\ h.table[w][Idx(own[u].pre)].ppn = u
      BY <3>1, <3>2, <1>a DEF UpOK
    <3>4. Idx(own[u].pre) \in Indices
      <4>1. own[u].pre \in Nat
        BY <3>1, <1>1, NodeEta
      <4> QED BY <4>1, EntryNumbers
    <3>5. g.table[w][Idx(own[u].pre)] = h.table[w][Idx(own[u].pre)]
      BY <3>3, <3>4, <1>5
    <3>6. w \in DOMAIN own2 /\ own2[w] = own[w]
      BY <1>9
    <3> QED BY <3>1, <3>3, <3>5, <3>6
  <2> QED BY <2>1, <2>2
<1>14. \A u \in T : own[u] # x
  <2> SUFFICES ASSUME NEW u \in T, own[u] = x PROVE FALSE
    OBVIOUS
  <2>1. own[u].root = r /\ own[u].level = i /\ own[u].pre = q
    BY <1>8
  <2>2. UpOK(h, own) /\ own[u].level # LEVELS - 1
    BY <2>1, <1>6 DEF Shape
  <2>3. PICK w \in T : /\ own[w] = Node(own[u].root, own[u].level + 1, Up(own[u].pre))
                       /\ IsValid(h.table[w][Idx(own[u].pre)])
    BY <2>2, <1>a DEF UpOK
  <2>4. own[w] = own[t]
    BY <2>1, <2>3, <1>6, <1>7
  <2>5. w = t
    BY <2>4, <1>a DEF Shape, OneEach
  <2> QED BY <2>1, <2>3, <2>5, <1>7
<1>15. OneEach(own2)
  <2>1. OneEach(own)
    BY DEF Shape
  <2> QED BY <2>1, <1>9, <1>14, <1>a DEF OneEach
<1>16. Exact(g, own2, S)
  <2> SUFFICES ASSUME NEW u \in DOMAIN own2, NEW v \in VPages,
                      Pre(v, own2[u].level + 1) = own2[u].pre
               PROVE  LET y == g.table[u][Idx(Pre(v, own2[u].level))]
                      IN  /\ ~IsValid(y) => S[own2[u].root][v] = None
                          /\ IsValid(y) /\ own2[u].level = 0 => S[own2[u].root][v] = y.ppn
    BY DEF Exact
  <2>0. v \in Nat
    BY PreEnds
  <2>1. CASE u = n
    <3>1. own2[u].root = r /\ own2[u].level = i /\ own2[u].pre = q
      BY <2>1, <1>8, <1>9
    <3>2. Pre(v, i + 1) = q /\ i \in 0 .. LEVELS - 1 /\ i + 1 \in 0 .. LEVELS - 1
      BY <3>1, <1>6, TableAssumption
    <3>3. Up(q) = Pre(v, (i + 1) + 1)
      BY <3>2, <2>0, PreUp
    <3>4. own[t].level = i + 1 /\ Pre(v, (i + 1) + 1) = own[t].pre /\ Idx(Pre(v, i + 1)) = j
      BY <3>2, <3>3, <1>6, <1>7
    <3>5. S[r][v] = None
      BY <3>4, <1>a DEF Shape, Exact, r
    <3>6. Idx(Pre(v, i)) \in Indices
      BY <3>2, <2>0, PreUp, EntryNumbers
    <3>7. g.table[u][Idx(Pre(v, i))] = Zero
      BY <3>6, <2>1, <1>5
    <3> QED BY <3>1, <3>5, <3>7, EntryFacts
  <2>2. CASE u # n
    <3>1. u \in T /\ own2[u] = own[u]
      BY <2>2, <1>9
    <3> DEFINE l == own[u].level
    <3> DEFINE k == Idx(Pre(v, l))
    <3>2. l \in 0 .. LEVELS - 1
      BY <3>1, <1>1, NodeEta
    <3>3. k \in Indices
      BY <3>2, <2>0, PreUp, EntryNumbers
    <3>4. Pre(v, l + 1) = own[u].pre
      BY <3>1
    <3>5. /\ ~IsValid(h.table[u][k]) => S[own[u].root][v] = None
          /\ IsValid(h.table[u][k]) /\ l = 0 => S[own[u].root][v] = h.table[u][k].ppn
      BY <3>1, <3>4, <1>a DEF Shape, Exact
    <3>6. CASE u = t /\ k = j
      <4>1. l # 0 /\ g.table[u][k] = e
        BY <3>6, <1>5
      <4> QED BY <4>1, <3>1, <1>4
    <3>7. CASE ~(u = t /\ k = j)
      <4>1. g.table[u][k] = h.table[u][k]
        BY <3>1, <3>3, <3>7, <1>5
      <4> QED BY <4>1, <3>1, <3>5
    <3> QED BY <3>6, <3>7
  <2> QED BY <2>1, <2>2
<1>17. Grown(h, own, g, own2, own[t].root, {})
  <2>1. own2[n].root = own[t].root
    BY <1>8, <1>9 DEF r
  <2> QED BY <2>1, <1>1, <1>5, <1>9, <1>a DEF Grown
<1> QED BY <1>10, <1>11, <1>12, <1>13, <1>15, <1>16, <1>17 DEF Shape

\* A page nothing is mapped in.
NoSpace == [v \in VPages |-> None]

\* alloc_zeroed() of a root.
LEMMA RootShape ==
    ASSUME NEW h, NEW own, NEW S, Shape(h, own, S), NEW n \in Pages, n \notin h.used,
           NEW g, g = TakeTable(h, n),
           NEW own2, own2 = With(own, n, Node(n, LEVELS - 1, 0)),
           NEW S2, S2 = With(S, n, NoSpace)
    PROVE  Shape(g, own2, S2) /\ Grown(h, own, g, own2, n, {})
<1> DEFINE T == DOMAIN own
<1> DEFINE x == Node(n, LEVELS - 1, 0)
<1>1. /\ h.used \subseteq Pages /\ T \subseteq h.used
      /\ h.table \in [T -> [Indices -> Entries]]
      /\ own \in [T -> Nodes] /\ S \in [DOMAIN S -> Spaces]
  BY DEF Shape, HeapType
<1>2. n \notin T
  BY <1>1
<1>3. /\ g.used = h.used \cup {n}
      /\ g.table \in [T \cup {n} -> [Indices -> Entries]]
      /\ \A k \in Indices : g.table[n][k] = Zero
      /\ \A u \in T : g.table[u] = h.table[u]
  <2> HIDE DEF T
  <2>1. TableTaken(g, h, T, n)
    BY <1>1, <1>2, TakeTableAt
  <2> QED BY <2>1 DEF TableTaken
<1>4. x \in Nodes /\ x.root = n /\ x.level = LEVELS - 1 /\ x.pre = 0
  <2>1. x \in Nodes
    BY TableAssumption DEF Node, Nodes
  <2> QED BY <2>1, NodeFields
<1>5. /\ DOMAIN own2 = T \cup {n} /\ own2[n] = x /\ \A u \in T : own2[u] = own[u]
      /\ own2 \in [DOMAIN own2 -> Nodes]
  <2>1. own2 = With(own, n, x)
    OBVIOUS
  <2>2. own \in [DOMAIN own -> Nodes] /\ x \in Nodes /\ n \notin DOMAIN own
    BY <1>1, <1>2, <1>4
  <2> HIDE DEF x
  <2>3. Extended(own2, own, n, x)
    BY <2>1, WithAt
  <2>4. With(own, n, x) \in [DOMAIN own \cup {n} -> Nodes]
    BY <2>2, WithType, Zenon
  <2> QED BY <2>1, <2>2, <2>3, <2>4 DEF Extended
<1>6. /\ DOMAIN S2 = DOMAIN S \cup {n} /\ S2[n] = NoSpace /\ \A r \in DOMAIN S : r # n => S2[r] = S[r]
      /\ S2 \in [DOMAIN S2 -> Spaces]
  <2>1. S \in [DOMAIN S -> Spaces] /\ NoSpace \in Spaces
    BY <1>1 DEF NoSpace, Spaces
  <2>2. Extended(S2, S, n, NoSpace)
    BY WithAt
  <2>3. With(S, n, NoSpace) \in [DOMAIN S \cup {n} -> Spaces]
    BY <2>1, WithType, Zenon
  <2> QED BY <2>1, <2>2, <2>3 DEF Extended
<1> HIDE DEF T, x
<1>a. T = DOMAIN own
  BY DEF T
<1>7. RootsOK(own, S) /\ DownOK(h, own) /\ UpOK(h, own) /\ OneEach(own) /\ Exact(h, own, S)
  BY DEF Shape
<1>8. \A u \in T : own[u].root \in DOMAIN S /\ own[u].root # n
  BY <1>1, <1>2, <1>7, <1>a DEF RootsOK
<1>9. HeapType(g, own2, S2)
  BY <1>1, <1>3, <1>5, <1>6 DEF HeapType
<1>10. RootsOK(own2, S2)
  <2>1. ASSUME NEW u \in DOMAIN own2
        PROVE  own2[u].root \in DOMAIN S2 /\ (own2[u].level = LEVELS - 1 => own2[u].root = u)
    <3>1. CASE u = n
      BY <3>1, <1>4, <1>5, <1>6
    <3>2. CASE u \in T
      BY <3>2, <1>5, <1>6, <1>7, <1>a DEF RootsOK
    <3> QED BY <3>1, <3>2, <1>5
  <2>2. ASSUME NEW u \in DOMAIN S2 PROVE u \in DOMAIN own2 /\ own2[u] = Node(u, LEVELS - 1, 0)
    <3>1. CASE u = n
      BY <3>1, <1>5 DEF x
    <3>2. CASE u # n
      BY <3>2, <1>5, <1>6, <1>7, <1>a DEF RootsOK
    <3> QED BY <3>1, <3>2
  <2> QED BY <2>1, <2>2 DEF RootsOK
<1>11. DownOK(g, own2)
  <2> SUFFICES ASSUME NEW u \in DOMAIN own2, NEW k \in Indices, IsValid(g.table[u][k])
               PROVE  /\ own2[u].level = 0 => IsLeaf(g.table[u][k])
                      /\ own2[u].level # 0 =>
                            /\ ~IsLeaf(g.table[u][k])
                            /\ g.table[u][k].ppn \in DOMAIN own2
                            /\ own2[g.table[u][k].ppn] = Node(own2[u].root, own2[u].level - 1, Sub(own2[u].pre, k))
    BY DEF DownOK
  <2>1. u # n
    <3>1. g.table[n][k] = Zero /\ ~IsValid(Zero)
      BY <1>3, EntryFacts
    <3> QED BY <3>1
  <2>2. u \in T /\ own2[u] = own[u]
    BY <2>1, <1>5
  <2> DEFINE y == h.table[u][k]
  <2>3. g.table[u][k] = y
    BY <2>2, <1>3
  <2>4. /\ own[u].level = 0 => IsLeaf(y)
        /\ own[u].level # 0 => /\ ~IsLeaf(y)
                               /\ y.ppn \in T
                               /\ own[y.ppn] = Node(own[u].root, own[u].level - 1, Sub(own[u].pre, k))
    BY <2>2, <2>3, <1>7, <1>a DEF DownOK
  <2> HIDE DEF y
  <2> QED BY <2>2, <2>3, <2>4, <1>5
<1>12. UpOK(g, own2)
  <2> SUFFICES ASSUME NEW u \in DOMAIN own2, own2[u].level # LEVELS - 1
               PROVE  \E w \in DOMAIN own2 :
                        /\ own2[w] = Node(own2[u].root, own2[u].level + 1, Up(own2[u].pre))
                        /\ IsValid(g.table[w][Idx(own2[u].pre)]) /\ g.table[w][Idx(own2[u].pre)].ppn = u
    BY DEF UpOK
  <2>1. u # n
    BY <1>4, <1>5
  <2>2. u \in T /\ own2[u] = own[u]
    BY <2>1, <1>5
  <2>3. PICK w \in T : /\ own[w] = Node(own[u].root, own[u].level + 1, Up(own[u].pre))
                       /\ IsValid(h.table[w][Idx(own[u].pre)]) /\ h.table[w][Idx(own[u].pre)].ppn = u
    BY <2>2, <1>7, <1>a DEF UpOK
  <2>4. w \in DOMAIN own2 /\ own2[w] = own[w] /\ g.table[w] = h.table[w]
    BY <1>3, <1>5
  <2> QED BY <2>2, <2>3, <2>4
<1>13. OneEach(own2)
  <2>1. \A u \in T : own[u] # x
    BY <1>8, <1>4
  <2> QED BY <2>1, <1>5, <1>7, <1>a DEF OneEach
<1>14. Exact(g, own2, S2)
  <2> SUFFICES ASSUME NEW u \in DOMAIN own2, NEW v \in VPages,
                      Pre(v, own2[u].level + 1) = own2[u].pre
               PROVE  LET y == g.table[u][Idx(Pre(v, own2[u].level))]
                      IN  /\ ~IsValid(y) => S2[own2[u].root][v] = None
                          /\ IsValid(y) /\ own2[u].level = 0 => S2[own2[u].root][v] = y.ppn
    BY DEF Exact
  <2>1. CASE u = n
    <3>1. S2[own2[u].root][v] = None
      BY <2>1, <1>4, <1>5, <1>6 DEF NoSpace
    <3> DEFINE i == LEVELS - 1
    <3>2. own2[u].level = i /\ i \in 0 .. LEVELS - 1
      BY <2>1, <1>4, <1>5, TableAssumption
    <3> HIDE DEF i
    <3>3. Idx(Pre(v, i)) \in Indices
      BY <3>2, PreEnds, PreUp, EntryNumbers
    <3>4. g.table[u][Idx(Pre(v, i))] = Zero
      BY <2>1, <3>3, <1>3
    <3> QED BY <3>1, <3>2, <3>4, EntryFacts
  <2>2. CASE u # n
    <3>1. u \in T /\ own2[u] = own[u] /\ g.table[u] = h.table[u]
      BY <2>2, <1>3, <1>5
    <3>2. S2[own[u].root] = S[own[u].root]
      BY <3>1, <1>6, <1>8
    <3> DEFINE y == h.table[u][Idx(Pre(v, own[u].level))]
    <3>3. /\ ~IsValid(y) => S[own[u].root][v] = None
          /\ IsValid(y) /\ own[u].level = 0 => S[own[u].root][v] = y.ppn
      BY <3>1, <1>7, <1>a DEF Exact
    <3> QED BY <3>1, <3>2, <3>3
  <2> QED BY <2>1, <2>2
<1>15. Grown(h, own, g, own2, n, {})
  BY <1>1, <1>3, <1>4, <1>5, <1>a DEF Grown
<1> QED BY <1>9, <1>10, <1>11, <1>12, <1>13, <1>14, <1>15 DEF Shape

\* The entries above a table of the last level are valid.
LEMMA PathValid ==
    ASSUME NEW h, NEW own, NEW S, Shape(h, own, S), NEW v \in VPages, NEW t \in DOMAIN own,
           own[t].level = 0, own[t].pre = Pre(v, 1), NEW l \in 1 .. LEVELS - 1
    PROVE  \E u \in DOMAIN own :
                own[u] = Node(own[t].root, l, Pre(v, l + 1)) /\ IsValid(h.table[u][Idx(Pre(v, l))])
<1> DEFINE r == own[t].root
<1> DEFINE P(i) == \E u \in DOMAIN own :
                        /\ own[u] = Node(r, i, Pre(v, i + 1))
                        /\ i # 0 => IsValid(h.table[u][Idx(Pre(v, i))])
<1> DEFINE Q == {i \in Nat : i <= LEVELS - 1 => P(i)}
<1>0. LEVELS \in Nat \ {0} /\ v \in Nat
  BY TableAssumption, PreEnds
<1>1. 0 \in Q
  <2>1. own[t] \in Nodes
    BY DEF Shape, HeapType
  <2>2. own[t] = Node(r, 0, Pre(v, 1)) /\ 0 + 1 = 1
    BY <2>1, NodeEta
  <2> HIDE DEF r
  <2>3. P(0)
    BY <2>2
  <2> QED BY <2>3
<1> HIDE DEF r
<1>2. ASSUME NEW i \in Q PROVE i + 1 \in Q
  <2> SUFFICES ASSUME i + 1 <= LEVELS - 1 PROVE P(i + 1)
    OBVIOUS
  <2>1. i \in Nat /\ i <= LEVELS - 1 /\ i # LEVELS - 1 /\ i + 1 \in 0 .. LEVELS - 1 /\ i + 1 # 0
    BY <1>0
  <2>2. PICK u \in DOMAIN own : own[u] = Node(r, i, Pre(v, i + 1))
    BY <2>1
  <2>3. own[u].root = r /\ own[u].level = i /\ own[u].pre = Pre(v, i + 1)
    BY <2>2, NodeFields
  <2>4. UpOK(h, own) /\ own[u].level # LEVELS - 1
    BY <2>1, <2>3 DEF Shape
  <2>5. PICK w \in DOMAIN own : /\ own[w] = Node(own[u].root, own[u].level + 1, Up(own[u].pre))
                                /\ IsValid(h.table[w][Idx(own[u].pre)])
    BY <2>4 DEF UpOK
  <2>6. Up(Pre(v, i + 1)) = Pre(v, (i + 1) + 1)
    BY <2>1, <1>0, PreUp
  <2> QED BY <2>3, <2>5, <2>6
<1>3. Q \in SUBSET Nat
  OBVIOUS
<1> HIDE DEF Q
<1>4. Q = Nat
  BY <1>1, <1>2, <1>3, D!SetInduction
<1>5. l \in Nat /\ l <= LEVELS - 1 /\ l # 0
  BY <1>0
<1>6. P(l)
  BY <1>4, <1>5 DEF Q
<1> QED BY <1>5, <1>6 DEF r

\* Page v now stands for page.
Put(s, v, page) == [s EXCEPT ![v] = page]

\* The last step of map().
LEMMA LeafShape ==
    ASSUME NEW h, NEW own, NEW S, Shape(h, own, S),
           NEW v \in VPages, NEW t \in DOMAIN own, own[t].level = 0, own[t].pre = Pre(v, 1),
           NEW e \in Entries, IsValid(e), IsLeaf(e), e.ppn \in Nat,
           NEW g, g = SetEntry(h, t, Idx(Pre(v, 0)), e),
           NEW S2, S2 = With(S, own[t].root, Put(S[own[t].root], v, e.ppn))
    PROVE  Shape(g, own, S2) /\ Grown(h, own, g, own, own[t].root, {})
<1> DEFINE T == DOMAIN own
<1> DEFINE r == own[t].root
<1> DEFINE j == Idx(Pre(v, 0))
<1> DEFINE s == Put(S[r], v, e.ppn)
<1>1. /\ h.used \subseteq Pages /\ T \subseteq h.used
      /\ h.table \in [T -> [Indices -> Entries]]
      /\ own \in [T -> Nodes] /\ S \in [DOMAIN S -> Spaces]
  BY DEF Shape, HeapType
<1>2. RootsOK(own, S) /\ DownOK(h, own) /\ UpOK(h, own) /\ OneEach(own) /\ Exact(h, own, S)
  BY DEF Shape
<1>3. v \in Nat /\ Pre(v, 0) = v /\ j \in Indices /\ Pre(v, 1) = Up(v) /\ LEVELS \in Nat
  <2>1. v \in Nat /\ Pre(v, 0) = v
    BY PreEnds
  <2>2. 0 \in 0 .. LEVELS - 1 /\ 0 + 1 = 1 /\ LEVELS \in Nat
    BY TableAssumption
  <2>3. Up(Pre(v, 0)) = Pre(v, 0 + 1)
    BY <2>1, <2>2, PreUp
  <2> QED BY <2>1, <2>2, <2>3, EntryNumbers
<1>4. /\ g.used = h.used
      /\ g.table \in [T -> [Indices -> Entries]]
      /\ g.table[t][j] = e
      /\ \A u \in T, k \in Indices : u # t \/ k # j => g.table[u][k] = h.table[u][k]
  <2>1. EntrySet(g, h, T, t, j, e)
    <3>1. t \in T /\ g = SetEntry(h, t, j, e)
      OBVIOUS
    <3> HIDE DEF T, j
    <3> QED BY <3>1, <1>1, <1>3, SetEntryAt
  <2> QED BY <2>1 DEF EntrySet
<1>5. r \in DOMAIN S /\ S[r] \in Spaces
  BY <1>1, <1>2 DEF RootsOK
<1>6. s \in Spaces /\ s[v] = e.ppn /\ \A w \in VPages : w # v => s[w] = S[r][w]
  <2> DEFINE f == S[r]
  <2> DEFINE p == e.ppn
  <2>1. f \in [VPages -> Nat \cup {None}] /\ p \in Nat
    BY <1>5 DEF Spaces
  <2> HIDE DEF f, p
  <2>2. Put(f, v, p) \in [VPages -> Nat \cup {None}] /\ Put(f, v, p)[v] = p /\ \A w \in VPages : w # v => Put(f, v, p)[w] = f[w]
    BY <2>1 DEF Put
  <2> QED BY <2>2 DEF f, p, Spaces
<1>7. /\ DOMAIN S2 = DOMAIN S /\ S2[r] = s /\ \A q \in DOMAIN S : q # r => S2[q] = S[q]
      /\ S2 \in [DOMAIN S2 -> Spaces]
  <2>1. S2 = With(S, r, s)
    OBVIOUS
  <2> HIDE DEF r, s
  <2>2. S \in [DOMAIN S -> Spaces] /\ s \in Spaces
    BY <1>1, <1>6
  <2>3. Extended(S2, S, r, s)
    BY <2>1, WithAt
  <2>4. With(S, r, s) \in [DOMAIN S \cup {r} -> Spaces]
    BY <2>2, WithType, Zenon
  <2>5. DOMAIN S \cup {r} = DOMAIN S
    BY <1>5
  <2> QED BY <2>1, <2>2, <2>3, <2>4, <2>5 DEF Extended
<1> HIDE DEF T, r, s, j
<1>a. T = DOMAIN own /\ t \in T
  BY DEF T
<1>8. HeapType(g, own, S2)
  BY <1>1, <1>4, <1>7, <1>a DEF HeapType
<1>9. RootsOK(own, S2)
  BY <1>2, <1>7 DEF RootsOK
<1>10. DownOK(g, own)
  <2> SUFFICES ASSUME NEW u \in DOMAIN own, NEW k \in Indices, IsValid(g.table[u][k])
               PROVE  /\ own[u].level = 0 => IsLeaf(g.table[u][k])
                      /\ own[u].level # 0 =>
                            /\ ~IsLeaf(g.table[u][k])
                            /\ g.table[u][k].ppn \in DOMAIN own
                            /\ own[g.table[u][k].ppn] = Node(own[u].root, own[u].level - 1, Sub(own[u].pre, k))
    BY DEF DownOK
  <2>1. CASE u = t /\ k = j
    BY <2>1, <1>4
  <2>2. CASE ~(u = t /\ k = j)
    <3>1. g.table[u][k] = h.table[u][k]
      BY <2>2, <1>4, <1>a
    <3> QED BY <3>1, <1>2 DEF DownOK
  <2> QED BY <2>1, <2>2
<1>11. UpOK(g, own)
  <2> SUFFICES ASSUME NEW u \in DOMAIN own, own[u].level # LEVELS - 1
               PROVE  \E w \in DOMAIN own :
                        /\ own[w] = Node(own[u].root, own[u].level + 1, Up(own[u].pre))
                        /\ IsValid(g.table[w][Idx(own[u].pre)]) /\ g.table[w][Idx(own[u].pre)].ppn = u
    BY DEF UpOK
  <2>1. PICK w \in DOMAIN own : /\ own[w] = Node(own[u].root, own[u].level + 1, Up(own[u].pre))
                                /\ IsValid(h.table[w][Idx(own[u].pre)]) /\ h.table[w][Idx(own[u].pre)].ppn = u
    BY <1>2 DEF UpOK
  <2>2. own[u] \in Nodes
    BY <1>1, <1>a
  <2>3. own[u].level \in 0 .. LEVELS - 1 /\ own[u].pre \in Nat
    BY <2>2, NodeEta
  <2>4. own[w].level = own[u].level + 1
    BY <2>1, NodeFields
  <2>5. w # t
    BY <2>3, <2>4, <1>3
  <2>6. Idx(own[u].pre) \in Indices
    BY <2>3, EntryNumbers
  <2>7. g.table[w][Idx(own[u].pre)] = h.table[w][Idx(own[u].pre)]
    BY <2>5, <2>6, <1>4, <1>a
  <2> QED BY <2>1, <2>7
<1>12. Exact(g, own, S2)
  <2> SUFFICES ASSUME NEW u \in DOMAIN own, NEW w \in VPages, Pre(w, own[u].level + 1) = own[u].pre
               PROVE  LET y == g.table[u][Idx(Pre(w, own[u].level))]
                      IN  /\ ~IsValid(y) => S2[own[u].root][w] = None
                          /\ IsValid(y) /\ own[u].level = 0 => S2[own[u].root][w] = y.ppn
    BY DEF Exact
  <2> DEFINE i == own[u].level
  <2> DEFINE k == Idx(Pre(w, i))
  <2> DEFINE y == h.table[u][k]
  <2>0. own[u] \in Nodes
    BY <1>1, <1>a
  <2>1. i \in 0 .. LEVELS - 1 /\ own[u] = Node(own[u].root, i, own[u].pre)
    BY <2>0, NodeEta
  <2>2. w \in Nat /\ k \in Indices /\ Pre(w, i) \in Nat
    BY <2>1, PreEnds, PreUp, EntryNumbers
  <2>3. /\ ~IsValid(y) => S[own[u].root][w] = None
        /\ IsValid(y) /\ i = 0 => S[own[u].root][w] = y.ppn
    BY <1>2 DEF Exact
  <2>4. own[u].root \in DOMAIN S
    BY <1>2 DEF RootsOK
  <2>5. CASE u = t /\ k = j
    <3>1. i = 0 /\ Pre(w, 0) = w
      BY <2>5, PreEnds
    <3>2. Idx(w) = Idx(v) /\ Up(w) = Up(v)
      <4>1. 0 \in 0 .. LEVELS - 1 /\ 0 + 1 = 1
        BY TableAssumption
      <4>2. Up(Pre(w, 0)) = Pre(w, 0 + 1)
        BY <2>2, <4>1, PreUp
      <4>3. Idx(w) = Idx(v)
        BY <2>5, <3>1, <1>3 DEF j
      <4>4. Pre(w, 1) = Pre(v, 1)
        BY <2>5, <3>1, <4>1
      <4> QED BY <4>1, <4>2, <4>3, <4>4, <3>1, <1>3
    <3>3. w = v
      <4>1. Sub(Up(w), Idx(w)) = w /\ Sub(Up(v), Idx(v)) = v
        BY <2>2, <1>3, EntryNumbers
      <4> QED BY <4>1, <3>2
    <3>4. g.table[u][k] = e /\ own[u].root = r
      BY <2>5, <1>4 DEF r
    <3> HIDE DEF k, i
    <3>5. S2[r][w] = e.ppn
      BY <3>3, <1>6, <1>7
    <3> QED BY <3>4, <3>5 DEF k, i
  <2>6. CASE ~(u = t /\ k = j)
    <3>1. g.table[u][k] = y
      BY <2>2, <2>6, <1>4, <1>a
    <3>2. CASE own[u].root # r \/ w # v
      <4>1. S2[own[u].root][w] = S[own[u].root][w]
        BY <3>2, <2>4, <1>6, <1>7
      <4> QED BY <4>1, <3>1, <2>3
    <3>3. CASE own[u].root = r /\ w = v
      <4>1. CASE i = 0
        <5>1. 0 + 1 = 1
          OBVIOUS
        <5>2. own[u].pre = Pre(v, 1)
          BY <3>3, <4>1, <5>1
        <5>3. own[t] = Node(r, 0, Pre(v, 1))
          <6>1. own[t] \in Nodes
            BY <1>1, <1>a
          <6> QED BY <6>1, NodeEta DEF r
        <5>4. own[u] = own[t]
          BY <5>2, <5>3, <3>3, <4>1, <2>1
        <5>5. u = t
          BY <5>4, <1>2, <1>a DEF OneEach
        <5> QED BY <5>5, <2>6, <3>3, <4>1 DEF j
      <4>2. CASE i # 0
        <5>1. IsValid(y)
          <6>1. i \in 1 .. LEVELS - 1
            BY <2>1, <4>2, <1>3
          <6> HIDE DEF i
          <6>2. PICK w2 \in DOMAIN own :
                    own[w2] = Node(own[t].root, i, Pre(v, i + 1)) /\ IsValid(h.table[w2][Idx(Pre(v, i))])
            BY <6>1, PathValid
          <6>3. own[u].pre = Pre(v, i + 1) /\ own[u].root = own[t].root
            BY <3>3 DEF i, r
          <6>4. own[u] = own[w2]
            BY <6>2, <6>3, <2>1
          <6>5. u = w2
            BY <6>4, <1>2 DEF OneEach
          <6> QED BY <6>2, <6>5, <3>3
        <5> QED BY <5>1, <3>1, <4>2
      <4> QED BY <4>1, <4>2
    <3> QED BY <3>2, <3>3
  <2> QED BY <2>5, <2>6
<1>13. Grown(h, own, g, own, own[t].root, {})
  BY <1>1, <1>4, <1>a DEF Grown
<1> QED BY <1>2, <1>8, <1>9, <1>10, <1>11, <1>12, <1>13 DEF Shape

-----------------------------------------------------------------------------
(***************************************************************************)
(* map() and map_range().                                                  *)
(***************************************************************************)

\* Where map() is when its loop has come down to level i.
At(w, h, own, S, r, v, i) ==
    \E own2 : /\ Shape(w.heap, own2, S)
              /\ Grown(h, own, w.heap, own2, r, {})
              /\ w.page \in DOMAIN own2
              /\ own2[w.page] = Node(r, i, Pre(v, i + 1))
              /\ w.idx = Idx(Pre(v, i))

\* Memory that was exhausted stays so.
LEMMA FullStays ==
    /\ \A h, first, n : ~Take(h, first, n).full => ~h.full /\ first # 0
    /\ \A h, n : ~TakeTable(h, n).full => ~h.full /\ n # 0
    /\ \A h, t, j, e : ~SetEntry(h, t, j, e).full => ~h.full
    /\ \A w, i, vaddr : ~StepDown(w, i, vaddr).heap.full => ~w.heap.full
<1>1. \A h, first, n : ~Take(h, first, n).full => ~h.full /\ first # 0
  BY DEF Take
<1>2. \A h, n : ~TakeTable(h, n).full => ~h.full /\ n # 0
  BY DEF TakeTable
<1>3. \A h, t, j, e : ~SetEntry(h, t, j, e).full => ~h.full
  BY DEF SetEntry
<1>4. ASSUME NEW w, NEW i, NEW vaddr, ~StepDown(w, i, vaddr).heap.full PROVE ~w.heap.full
  <2> DEFINE n == FirstFit(w.heap, 1)
  <2> DEFINE g == SetEntry(TakeTable(w.heap, n), w.page, w.idx, [ppn |-> n, flags |-> {"V"}])
  <2>1. CASE IsValid(w.heap.table[w.page][w.idx])
    BY <2>1, <1>4 DEF StepDown
  <2>2. CASE ~IsValid(w.heap.table[w.page][w.idx])
    <3>1. StepDown(w, i, vaddr).heap = g
      BY <2>2 DEF StepDown
    <3> QED BY <3>1, <1>4, <1>2, <1>3
  <2> QED BY <2>1, <2>2
<1> QED BY <1>1, <1>2, <1>3, <1>4

\* A page.
LEMMA FitsOne ==
    ASSUME NEW h, NEW n \in Pages, Fits(h, n, 1)
    PROVE  n \notin h.used
<1>1. n \in n .. n + 1 - 1
  BY TableAssumption DEF Pages
<1> QED BY <1>1 DEF Fits

LEMMA StepDownAt ==
    ASSUME NEW w, NEW h, NEW own, NEW S, NEW r, NEW vaddr \in Nat, NEW v, v = PageOf(vaddr),
           NEW i \in 0 .. LEVELS - 1, i + 1 \in 0 .. LEVELS - 1,
           At(w, h, own, S, r, v, i + 1), ~StepDown(w, i, vaddr).heap.full
    PROVE  At(StepDown(w, i, vaddr), h, own, S, r, v, i)
<1> DEFINE z == StepDown(w, i, vaddr)
<1> DEFINE x == Pre(v, i + 1)
<1> DEFINE e == w.heap.table[w.page][w.idx]
<1>1. PICK own1 : /\ Shape(w.heap, own1, S)
                  /\ Grown(h, own, w.heap, own1, r, {})
                  /\ w.page \in DOMAIN own1
                  /\ own1[w.page] = Node(r, i + 1, Pre(v, (i + 1) + 1))
                  /\ w.idx = Idx(x)
  BY DEF At
<1>2. v \in VPages /\ Vpn(vaddr, i) = Idx(Pre(v, i))
  BY VpnIsIdx
<1>3. x \in Nat /\ Up(x) = Pre(v, (i + 1) + 1) /\ Idx(x) \in Indices /\ Sub(Up(x), Idx(x)) = x
  <2>1. v \in Nat
    BY <1>2, PreEnds
  <2>2. x \in Nat /\ Up(x) = Pre(v, (i + 1) + 1)
    BY <2>1, PreUp
  <2> HIDE DEF x
  <2> QED BY <2>2, EntryNumbers
<1>4. /\ own1[w.page].root = r /\ own1[w.page].level = i + 1 /\ own1[w.page].pre = Up(x)
      /\ own1[w.page].level # 0 /\ own1[w.page].level - 1 = i
  <2>1. own1[w.page].root = r /\ own1[w.page].level = i + 1 /\ own1[w.page].pre = Up(x)
    BY <1>1, <1>3, NodeFields
  <2> QED BY <2>1, TableAssumption
<1>5. z.idx = Idx(Pre(v, i))
  BY <1>2 DEF StepDown
<1> HIDE DEF x
<1>6. CASE IsValid(e)
  <2>1. z.heap = w.heap /\ z.page = e.ppn
    BY <1>6 DEF StepDown
  <2>2. /\ e.ppn \in DOMAIN own1
        /\ own1[e.ppn] = Node(own1[w.page].root, own1[w.page].level - 1, Sub(own1[w.page].pre, w.idx))
    <3>1. DownOK(w.heap, own1) /\ w.idx \in Indices
      BY <1>1, <1>3 DEF Shape
    <3> QED BY <3>1, <1>1, <1>4, <1>6 DEF DownOK
  <2>3. own1[z.page] = Node(r, i, x)
    BY <2>1, <2>2, <1>1, <1>3, <1>4
  <2> HIDE DEF z, e
  <2> QED BY <2>1, <2>2, <2>3, <1>1, <1>5 DEF At, z, x
<1>7. CASE ~IsValid(e)
  <2> DEFINE n == FirstFit(w.heap, 1)
  <2> DEFINE g == SetEntry(TakeTable(w.heap, n), w.page, w.idx, [ppn |-> n, flags |-> {"V"}])
  <2>1. z.heap = g /\ z.page = n
    BY <1>7 DEF StepDown
  <2>2. n # 0
    BY <2>1, FullStays
  <2>3. n \in Pages /\ Fits(w.heap, n, 1)
    BY <2>2, FirstFitFits
  <2>4. n \notin w.heap.used
    BY <2>3, FitsOne
  <2> DEFINE own2 == With(own1, n, Node(own1[w.page].root, own1[w.page].level - 1, Sub(own1[w.page].pre, w.idx)))
  <2>5. w.idx \in Indices /\ ~IsValid(w.heap.table[w.page][w.idx]) /\ w.page \in DOMAIN own1 /\ own1[w.page].level # 0
    BY <1>1, <1>3, <1>4, <1>7
  <2>6. Shape(g, own2, S) /\ Grown(w.heap, own1, g, own2, own1[w.page].root, {})
    <3> DEFINE a == w.heap
    <3> DEFINE t == w.page
    <3> DEFINE j == w.idx
    <3> HIDE DEF n
    <3>1. /\ Shape(a, own1, S) /\ t \in DOMAIN own1 /\ own1[t].level # 0
          /\ j \in Indices /\ ~IsValid(a.table[t][j]) /\ n \in Pages /\ n \notin a.used
          /\ g = SetEntry(TakeTable(a, n), t, j, [ppn |-> n, flags |-> {"V"}])
          /\ own2 = With(own1, n, Node(own1[t].root, own1[t].level - 1, Sub(own1[t].pre, j)))
      BY <1>1, <2>3, <2>4, <2>5
    <3> HIDE DEF a, t, j, g, own2
    <3>2. Shape(g, own2, S) /\ Grown(a, own1, g, own2, own1[t].root, {})
      BY <3>1, LinkShape
    <3> QED BY <3>2 DEF a, t
  <2>7. n \in DOMAIN own2 /\ own2[n] = Node(r, i, x)
    <3> DEFINE y == Node(own1[w.page].root, own1[w.page].level - 1, Sub(own1[w.page].pre, w.idx))
    <3>1. y = Node(r, i, x)
      BY <1>1, <1>3, <1>4
    <3> HIDE DEF y, n
    <3>2. Extended(With(own1, n, y), own1, n, y)
      BY WithAt
    <3>3. own2 = With(own1, n, y)
      BY DEF y
    <3> HIDE DEF own2
    <3> QED BY <3>1, <3>2, <3>3 DEF Extended
  <2> HIDE DEF n, g, own2, z, e
  <2>8. Grown(w.heap, own1, g, own2, r, {})
    BY <2>6, <1>4
  <2>9. Grown(h, own, g, own2, r, {} \cup {})
    BY <2>8, <1>1, GrownTrans
  <2>10. Grown(h, own, g, own2, r, {})
    <3>1. {} \cup {} = {}
      OBVIOUS
    <3> QED BY <2>9, <3>1
  <2> QED BY <2>1, <2>6, <2>7, <2>10, <1>5 DEF At, z, x
<1> QED BY <1>6, <1>7

\* What map() does to the tree of r: it maps a page.
Mapped(g, h, own, S, r, v, page) ==
    \E own2 : Shape(g, own2, With(S, r, Put(S[r], v, page))) /\ Grown(h, own, g, own2, r, {})

LEMMA MapShape ==
    ASSUME NEW h, NEW own, NEW S, Shape(h, own, S), NEW r \in DOMAIN S,
           NEW vaddr \in Nat, NEW page \in Nat, NEW bits \in SUBSET Flags, bits \cap {"R", "W", "X"} # {},
           ~Map(h, r, vaddr, page, bits).full
    PROVE  ~h.full /\ Mapped(Map(h, r, vaddr, page, bits), h, own, S, r, PageOf(vaddr), page)
<1> DEFINE v == PageOf(vaddr)
<1> DEFINE L == LEVELS - 1
<1> DEFINE e == [ppn |-> page, flags |-> bits \cup {"V"}]
<1>0. LEVELS \in Nat \ {0} /\ L \in Nat
  BY TableAssumption
<1>1. PICK f : /\ Walk(f, h, r, vaddr, L)
               /\ Map(h, r, vaddr, page, bits) = SetEntry(f[L].heap, f[L].page, f[L].idx, e)
  BY <1>0, MapWalks
<1>2. /\ f[0] = [heap |-> h, page |-> r, idx |-> Vpn(vaddr, L)]
      /\ \A n \in 1 .. L : f[n] = StepDown(f[n - 1], L - n, vaddr)
  BY <1>1, Zenon DEF Walk
<1>3. v \in VPages /\ v \in Nat /\ \A i \in 0 .. L : Vpn(vaddr, i) = Idx(Pre(v, i))
  <2>1. \A i \in 0 .. L : v \in VPages /\ Vpn(vaddr, i) = Idx(Pre(v, i))
    BY VpnIsIdx
  <2>2. 0 \in 0 .. L
    BY <1>0
  <2>3. v \in VPages
    BY <2>1, <2>2
  <2> QED BY <2>1, <2>3, PreEnds
<1> HIDE DEF v
<1> DEFINE P(n) == ~f[n].heap.full => ~h.full /\ At(f[n], h, own, S, r, v, L - n)
<1> DEFINE Q == {n \in Nat : n <= L => P(n)}
<1>4. 0 \in Q
  <2>1. f[0].heap = h /\ f[0].page = r /\ f[0].idx = Vpn(vaddr, L) /\ L - 0 = L /\ L \in 0 .. L /\ L + 1 = LEVELS
    BY <1>0, <1>2
  <2>2. f[0].idx = Idx(Pre(v, L))
    BY <2>1, <1>3
  <2>3. r \in DOMAIN own /\ own[r] = Node(r, L, 0)
    BY DEF Shape, RootsOK
  <2>4. Pre(v, L + 1) = 0
    BY <2>1, <1>3, PreEnds
  <2>5. Grown(h, own, h, own, r, {})
    BY GrownRefl
  <2> HIDE DEF L
  <2>6. At(f[0], h, own, S, r, v, L)
    BY <2>1, <2>2, <2>3, <2>4, <2>5 DEF At
  <2> QED BY <2>1, <2>6
<1>5. ASSUME NEW n \in Q PROVE n + 1 \in Q
  <2> SUFFICES ASSUME n + 1 <= L, ~f[n + 1].heap.full
               PROVE  ~h.full /\ At(f[n + 1], h, own, S, r, v, L - (n + 1))
    OBVIOUS
  <2>1. n \in Nat /\ n <= L /\ n + 1 \in 1 .. L /\ (n + 1) - 1 = n
    BY <1>0
  <2> DEFINE i == L - (n + 1)
  <2>2. i \in 0 .. LEVELS - 1 /\ i + 1 \in 0 .. LEVELS - 1 /\ L - n = i + 1
    BY <2>1, <1>0
  <2>3. f[n + 1] = StepDown(f[n], i, vaddr)
    BY <2>1, <1>2
  <2> HIDE DEF i
  <2>4. ~f[n].heap.full
    BY <2>3, FullStays
  <2>5. ~h.full /\ At(f[n], h, own, S, r, v, i + 1)
    BY <2>1, <2>2, <2>4
  <2> DEFINE w == f[n]
  <2>6. ~StepDown(w, i, vaddr).heap.full /\ At(w, h, own, S, r, v, i + 1)
    BY <2>3, <2>5
  <2> HIDE DEF w
  <2>7. At(StepDown(w, i, vaddr), h, own, S, r, v, i)
    BY <2>2, <2>6, StepDownAt DEF v
  <2>8. At(f[n + 1], h, own, S, r, v, i)
    BY <2>3, <2>7 DEF w
  <2> QED BY <2>5, <2>8 DEF i
<1>6. Q \in SUBSET Nat
  OBVIOUS
<1> HIDE DEF Q
<1>7. Q = Nat
  BY <1>4, <1>5, <1>6, D!SetInduction
<1>8. P(L)
  BY <1>0, <1>7 DEF Q
<1> DEFINE w == f[L]
<1> DEFINE g == Map(h, r, vaddr, page, bits)
<1>9. g = SetEntry(w.heap, w.page, w.idx, e) /\ ~w.heap.full
  BY <1>1, FullStays
<1>10. L - L = 0 /\ 0 + 1 = 1
  BY <1>0
<1>11. ~h.full /\ At(w, h, own, S, r, v, 0)
  BY <1>8, <1>9, <1>10
<1> HIDE DEF w, g
<1>12. PICK own2 : /\ Shape(w.heap, own2, S)
                   /\ Grown(h, own, w.heap, own2, r, {})
                   /\ w.page \in DOMAIN own2
                   /\ own2[w.page] = Node(r, 0, Pre(v, 1))
                   /\ w.idx = Idx(Pre(v, 0))
  BY <1>10, <1>11 DEF At
<1>13. e \in Entries /\ IsValid(e) /\ IsLeaf(e) /\ e.ppn = page
  BY EntryFacts
<1> HIDE DEF e
<1> DEFINE S2 == With(S, r, Put(S[r], v, page))
<1>14. Shape(g, own2, S2) /\ Grown(w.heap, own2, g, own2, r, {})
  <2> DEFINE a == w.heap
  <2> DEFINE t == w.page
  <2>1. own2[t].root = r /\ own2[t].level = 0 /\ own2[t].pre = Pre(v, 1)
    BY <1>12, NodeFields
  <2>2. /\ Shape(a, own2, S) /\ t \in DOMAIN own2 /\ own2[t].level = 0 /\ own2[t].pre = Pre(v, 1)
        /\ e.ppn \in Nat /\ g = SetEntry(a, t, Idx(Pre(v, 0)), e)
        /\ S2 = With(S, own2[t].root, Put(S[own2[t].root], v, e.ppn))
    BY <2>1, <1>9, <1>12, <1>13
  <2> HIDE DEF a, t, S2
  <2>3. Shape(g, own2, S2) /\ Grown(a, own2, g, own2, own2[t].root, {})
    BY <2>2, <1>3, <1>13, LeafShape
  <2> QED BY <2>1, <2>3 DEF a
<1>15. Grown(h, own, g, own2, r, {})
  <2>1. Grown(h, own, g, own2, r, {} \cup {})
    <3> HIDE DEF S2
    <3> QED BY <1>12, <1>14, GrownTrans
  <2>2. {} \cup {} = {}
    OBVIOUS
  <2> QED BY <2>1, <2>2
<1>16. Mapped(g, h, own, S, r, v, page)
  BY <1>14, <1>15 DEF Mapped
<1> QED BY <1>11, <1>16 DEF g, v

\* v is the k-th page from b on, where the address space wraps.
IsPlace(v, k, b, N) == (v - b) % N = k <=> v = (b + k) % N

LEMMA PlaceUnique ==
    ASSUME NEW N \in Nat \ {0}, NEW b \in Nat, NEW k \in 0 .. N - 1, NEW v \in 0 .. N - 1
    PROVE  IsPlace(v, k, b, N)
<1> DEFINE x == v - b
<1> DEFINE y == b + k
<1>0. x \in Int /\ y \in Int /\ v \in Int /\ k \in Int
  OBVIOUS
<1>1. v % N = v /\ k % N = k
  BY ModSmall
<1>2. ASSUME x % N = k PROVE v = y % N
  <2> DEFINE d == -(x \div N)
  <2>1. x \div N \in Int /\ x = N * (x \div N) + (x % N)
    BY <1>0, DivRemainder
  <2>2. d \in Int /\ N * d = -(N * (x \div N))
    BY <2>1
  <2>3. y = N * d + v
    BY <2>1, <2>2, <1>2, <1>0
  <2> HIDE DEF d, y
  <2>4. (N * d + v) % N = v % N
    BY <2>2, <1>0, ModMultiple
  <2> QED BY <2>3, <2>4, <1>1
<1>3. ASSUME v = y % N PROVE x % N = k
  <2> DEFINE d == -(y \div N)
  <2>1. y \div N \in Int /\ y = N * (y \div N) + (y % N)
    BY <1>0, DivRemainder
  <2>2. d \in Int /\ N * d = -(N * (y \div N))
    BY <2>1
  <2>3. x = N * d + k
    BY <2>1, <2>2, <1>3, <1>0
  <2> HIDE DEF d, x
  <2>4. (N * d + k) % N = k % N
    BY <2>2, <1>0, ModMultiple
  <2> QED BY <2>3, <2>4, <1>1
<1> QED BY <1>2, <1>3 DEF IsPlace

LEMMA MultipleDiv ==
    ASSUME NEW M \in Nat \ {0}, NEW q \in Nat
    PROVE  (q * M) \div M = q /\ (q * M) % M = 0
<1> DEFINE x == q * M
<1>1. x \in Int /\ x = M * q + 0 /\ 0 \in 0 .. M - 1 /\ q \in Int
  OBVIOUS
<1> HIDE DEF x
<1>2. x \div M = q /\ x % M = 0
  BY <1>1, DivUnique
<1> QED BY <1>2 DEF x

\* The address of the k-th page of a range.
LEMMA PageOfRange ==
    ASSUME NEW vaddr \in Nat, NEW k \in Nat
    PROVE  LET b == vaddr \div PageSize
           IN  /\ b \in Nat /\ b * PageSize + k * PageSize \in Nat
               /\ PageOf(b * PageSize + k * PageSize) = (b + k) % Span[LEVELS]
<1> DEFINE b == vaddr \div PageSize
<1>0. PageSize \in Nat \ {0}
  BY TableAssumption
<1>1. b \in Nat
  BY <1>0, DivNat
<1> HIDE DEF b
<1> DEFINE q == b + k
<1>2. b * PageSize + k * PageSize = q * PageSize /\ q \in Nat /\ q * PageSize \in Nat
  BY <1>0, <1>1
<1>3. (q * PageSize) \div PageSize = q
  <2> HIDE DEF q
  <2> QED BY <1>0, <1>2, MultipleDiv
<1>4. PageOf(q * PageSize) = q % Span[LEVELS]
  <2> HIDE DEF q
  <2> QED BY <1>3 DEF PageOf
<1> QED BY <1>1, <1>2, <1>4 DEF b

\* map_range() maps the pages that have one of the size bytes, and no more than
\* there are.
LEMMA NumPagesFacts ==
    ASSUME NEW size \in Nat
    PROVE  /\ NumPages(size) \in Nat
           /\ \A k \in Nat : k < NumPages(size) <=> k * PageSize < size
           /\ size \in 0 .. AddressSpace => NumPages(size) <= Span[LEVELS]
<1> DEFINE P == PageSize
<1> DEFINE x == size + P - 1
<1> DEFINE n == x \div P
<1> DEFINE s == x % P
<1>0. P \in Nat \ {0}
  BY TableAssumption
<1>1. x \in Nat /\ NumPages(size) = n
  BY <1>0 DEF NumPages
<1> HIDE DEF P
<1>2. n \in Nat /\ x = P * n + s /\ s \in 0 .. P - 1
  <2>0. x \in Int
    BY <1>1
  <2> HIDE DEF x
  <2>1. n \in Nat
    BY <1>0, <1>1, DivNat
  <2>2. x = P * n + s
    BY <1>0, <2>0, DivRemainder
  <2>3. s \in 0 .. P - 1
    BY <1>0, <2>0, ModRange
  <2> QED BY <2>1, <2>2, <2>3
<1> HIDE DEF n, s
<1>3. ASSUME NEW k \in Nat PROVE k < n <=> k * P < size
  <2>1. CASE k < n
    <3>1. P * k <= P * (n - 1)
      BY <2>1, <1>0, <1>2
    <3>2. P * (n - 1) = P * n - P
      BY <1>0, <1>2
    <3>3. k * P = P * k /\ P * k \in Nat /\ P * n \in Nat
      BY <1>0, <1>2
    <3>4. P * n = size + P - 1 - s
      BY <1>0, <1>2, <3>3
    <3> QED BY <2>1, <3>1, <3>2, <3>3, <3>4, <1>0, <1>2
  <2>2. CASE ~(k < n)
    <3>1. P * k >= P * n
      BY <2>2, <1>0, <1>2
    <3>3. k * P = P * k /\ P * k \in Nat /\ P * n \in Nat
      BY <1>0, <1>2
    <3>4. P * n = size + P - 1 - s
      BY <1>0, <1>2, <3>3
    <3> QED BY <2>2, <3>1, <3>3, <3>4, <1>0, <1>2
  <2> QED BY <2>1, <2>2
<1>4. ASSUME size \in 0 .. AddressSpace PROVE n <= Span[LEVELS]
  <2> DEFINE N == Span[LEVELS]
  <2>1. LEVELS \in 0 .. LEVELS
    BY TableAssumption
  <2>2. N \in Nat
    BY <2>1, SpanFacts
  <2>3. AddressSpace = P * N
    BY DEF AddressSpace, P
  <2> HIDE DEF N
  <2>4. P * N \in Nat /\ N * P = P * N
    BY <2>2, <1>0
  <2>5. ~(N * P < size)
    BY <2>3, <2>4, <1>4
  <2>6. ~(N < n)
    BY <2>2, <2>5, <1>3
  <2> QED BY <2>2, <2>6, <1>2 DEF N
<1> QED BY <1>1, <1>2, <1>3, <1>4 DEF P

\* s when the first k pages of the range are mapped.
CoveredTo(s, b, page, k) ==
    [v \in VPages |-> IF (v - b) % Span[LEVELS] < k THEN page + ((v - b) % Span[LEVELS]) ELSE s[v]]

LEMMA CoveredToStep ==
    ASSUME NEW s \in Spaces, NEW b \in Nat, NEW page \in Nat
    PROVE  /\ CoveredTo(s, b, page, 0) = s
           /\ \A k \in 0 .. Span[LEVELS] - 1 :
                CoveredTo(s, b, page, k + 1) = Put(CoveredTo(s, b, page, k), (b + k) % Span[LEVELS], page + k)
<1> DEFINE N == Span[LEVELS]
<1>0. N \in Nat \ {0}
  <2>1. LEVELS \in 0 .. LEVELS
    BY TableAssumption
  <2> QED BY <2>1, SpanFacts
<1>1. VPages = 0 .. N - 1 /\ s \in [VPages -> Nat \cup {None}]
  BY DEF VPages, Spaces
<1> HIDE DEF N
<1>2. \A v \in VPages : (v - b) % N \in 0 .. N - 1
  <2>1. \A v \in VPages : v - b \in Int
    BY <1>0, <1>1
  <2>2. ASSUME NEW v \in VPages PROVE (v - b) % N \in 0 .. N - 1
    <3>1. v - b \in Int
      BY <2>1
    <3> QED BY <3>1, <1>0, ModRange, Zenon
  <2> QED BY <2>2
<1>3. CoveredTo(s, b, page, 0) = s
  <2>1. \A v \in VPages : ~((v - b) % N < 0)
    BY <1>0, <1>2
  <2>2. s = [v \in VPages |-> s[v]]
    BY <1>1
  <2> QED BY <2>1, <2>2 DEF CoveredTo, N
<1>4. ASSUME NEW k \in 0 .. N - 1
      PROVE  CoveredTo(s, b, page, k + 1) = Put(CoveredTo(s, b, page, k), (b + k) % N, page + k)
  <2> DEFINE c == CoveredTo(s, b, page, k)
  <2> DEFINE d == CoveredTo(s, b, page, k + 1)
  <2> DEFINE u == (b + k) % N
  <2>1. u \in VPages
    <3>1. b + k \in Int
      BY <1>0
    <3> QED BY <3>1, <1>0, <1>1, ModRange
  <2>2. ASSUME NEW v \in VPages PROVE (v - b) % N = k <=> v = u
    <3>1. v \in 0 .. N - 1 /\ N \in Nat \ {0}
      BY <1>0, <1>1
    <3>2. IsPlace(v, k, b, N)
      BY <3>1, PlaceUnique
    <3> QED BY <3>2 DEF IsPlace
  <2>3. \A v \in VPages : /\ c[v] = IF (v - b) % N < k THEN page + ((v - b) % N) ELSE s[v]
                          /\ d[v] = IF (v - b) % N < k + 1 THEN page + ((v - b) % N) ELSE s[v]
    BY DEF CoveredTo, N
  <2>4. /\ d = [v \in VPages |-> d[v]]
        /\ Put(c, u, page + k) = [v \in VPages |-> IF v = u THEN page + k ELSE c[v]]
    BY DEF CoveredTo, Put
  <2> HIDE DEF c, d, u
  <2>5. ASSUME NEW v \in VPages PROVE d[v] = IF v = u THEN page + k ELSE c[v]
    <3> DEFINE m == (v - b) % N
    <3>1. m \in 0 .. N - 1 /\ (m = k <=> v = u)
      BY <1>2, <2>2
    <3>2. /\ c[v] = IF m < k THEN page + m ELSE s[v]
          /\ d[v] = IF m < k + 1 THEN page + m ELSE s[v]
      BY <2>3
    <3> HIDE DEF m
    <3>3. CASE v = u
      BY <3>1, <3>2, <3>3, <1>0
    <3>4. CASE v # u
      BY <3>1, <3>2, <3>4, <1>0
    <3> QED BY <3>3, <3>4
  <2>6. d = Put(c, u, page + k)
    BY <2>4, <2>5
  <2> QED BY <2>6 DEF c, d, u
<1> QED BY <1>3, <1>4 DEF N

LEMMA CoveredToEnd ==
    ASSUME NEW s, NEW vaddr \in Nat, NEW page \in Nat, NEW size \in Nat
    PROVE  CoveredTo(s, vaddr \div PageSize, page, NumPages(size)) = Covered(s, vaddr, page, size)
<1> DEFINE b == vaddr \div PageSize
<1> DEFINE N == Span[LEVELS]
<1> DEFINE n == NumPages(size)
<1>0. N \in Nat \ {0} /\ b \in Nat
  <2>1. LEVELS \in 0 .. LEVELS /\ PageSize \in Nat \ {0}
    BY TableAssumption
  <2> QED BY <2>1, SpanFacts, DivNat
<1>1. VPages = 0 .. N - 1
  BY DEF VPages
<1> HIDE DEF N, b
<1>2. ASSUME NEW v \in VPages PROVE (v - b) % N < n <=> ((v - b) % N) * PageSize < size
  <2> DEFINE m == (v - b) % N
  <2>1. v - b \in Int
    BY <1>0, <1>1
  <2>2. m \in 0 .. N - 1
    BY <2>1, <1>0, ModRange
  <2>3. m \in Nat
    BY <2>2, <1>0
  <2> HIDE DEF m, n
  <2>4. m < n <=> m * PageSize < size
    BY <2>3, NumPagesFacts DEF n
  <2> QED BY <2>4 DEF m
<1> HIDE DEF n
<1>3. [v \in VPages |-> IF (v - b) % N < n THEN page + ((v - b) % N) ELSE s[v]]
          = [v \in VPages |-> IF ((v - b) % N) * PageSize < size THEN page + ((v - b) % N) ELSE s[v]]
  BY <1>2
<1> QED BY <1>3 DEF CoveredTo, Covered, N, b, n

LEMMA CoveredToType ==
    ASSUME NEW s \in Spaces, NEW b \in Nat, NEW page \in Nat, NEW k
    PROVE  CoveredTo(s, b, page, k) \in Spaces
<1> DEFINE N == Span[LEVELS]
<1>0. N \in Nat \ {0}
  <2>1. LEVELS \in 0 .. LEVELS
    BY TableAssumption
  <2> QED BY <2>1, SpanFacts
<1>1. VPages = 0 .. N - 1 /\ s \in [VPages -> Nat \cup {None}]
  BY DEF VPages, Spaces
<1> HIDE DEF N
<1>2. \A v \in VPages : page + ((v - b) % N) \in Nat
  <2>1. \A v \in VPages : v - b \in Int
    BY <1>0, <1>1
  <2>2. \A v \in VPages : (v - b) % N \in 0 .. N - 1
    BY <2>1, <1>0, ModRange
  <2>3. \A m \in 0 .. N - 1 : page + m \in Nat
    BY <1>0
  <2> QED BY <2>2, <2>3
<1> DEFINE m(v) == page + ((v - b) % N)
<1>3. \A v \in VPages : m(v) \in Nat \cup {None} /\ s[v] \in Nat \cup {None}
  BY <1>1, <1>2
<1>4. CoveredTo(s, b, page, k) = [v \in VPages |-> IF (v - b) % N < k THEN m(v) ELSE s[v]]
  BY DEF CoveredTo, N
<1> HIDE DEF m
<1> QED BY <1>3, <1>4 DEF Spaces

LEMMA WithAgain ==
    ASSUME NEW S, NEW r, NEW a, NEW b
    PROVE  /\ With(With(S, r, a), r, b) = With(S, r, b)
           /\ With(S, r, a)[r] = a
           /\ r \in DOMAIN With(S, r, a)
  BY DEF With

LEMMA WithSame ==
    ASSUME NEW S, NEW X, S \in [DOMAIN S -> X], NEW r \in DOMAIN S
    PROVE  With(S, r, S[r]) = S
  BY DEF With

LEMMA MapFull ==
    ASSUME NEW h, NEW r, NEW vaddr, NEW page, NEW bits, ~Map(h, r, vaddr, page, bits).full
    PROVE  ~h.full
<1> DEFINE L == LEVELS - 1
<1> DEFINE e == [ppn |-> page, flags |-> bits \cup {"V"}]
<1>0. L \in Nat
  BY TableAssumption
<1>1. PICK f : /\ Walk(f, h, r, vaddr, L)
               /\ Map(h, r, vaddr, page, bits) = SetEntry(f[L].heap, f[L].page, f[L].idx, e)
  BY <1>0, MapWalks
<1>2. /\ f[0] = [heap |-> h, page |-> r, idx |-> Vpn(vaddr, L)]
      /\ \A n \in 1 .. L : f[n] = StepDown(f[n - 1], L - n, vaddr)
  BY <1>1, Zenon DEF Walk
<1> HIDE DEF L, e
<1> DEFINE Q == {n \in Nat : n <= L => (~f[n].heap.full => ~h.full)}
<1>3. 0 \in Q
  <2>1. f[0].heap = h
    BY <1>2
  <2> QED BY <2>1
<1>4. ASSUME NEW n \in Q PROVE n + 1 \in Q
  <2> SUFFICES ASSUME n + 1 <= L, ~f[n + 1].heap.full PROVE ~h.full
    OBVIOUS
  <2>1. n \in Nat /\ n <= L /\ n + 1 \in 1 .. L /\ (n + 1) - 1 = n
    BY <1>0
  <2>2. f[n + 1] = StepDown(f[n], L - (n + 1), vaddr)
    BY <2>1, <1>2
  <2>3. ~f[n].heap.full
    BY <2>2, FullStays
  <2> QED BY <2>1, <2>3
<1>5. Q \in SUBSET Nat
  OBVIOUS
<1> HIDE DEF Q
<1>6. Q = Nat
  BY <1>3, <1>4, <1>5, D!SetInduction
<1>7. ~f[L].heap.full
  BY <1>1, FullStays
<1> QED BY <1>0, <1>6, <1>7 DEF Q

LEMMA MapRangeFull ==
    ASSUME NEW h, NEW r, NEW vaddr, NEW page, NEW size \in Nat, NEW bits,
           ~MapRange(h, r, vaddr, page, size, bits).full
    PROVE  ~h.full
<1> DEFINE base == (vaddr \div PageSize) * PageSize
<1> DEFINE n == NumPages(size)
<1>1. n \in Nat
  BY NumPagesFacts
<1>2. PICK f : Ranges(f, h, r, base, page, bits, n) /\ MapRange(h, r, vaddr, page, size, bits) = f[n]
  <2>1. n \in Nat /\ base = (vaddr \div PageSize) * PageSize
    BY <1>1
  <2> HIDE DEF base
  <2> QED BY <2>1, MapRangeMaps
<1>3. /\ f[0] = h
      /\ \A k \in 1 .. n : f[k] = Map(f[k - 1], r, base + ((k - 1) * PageSize), page + (k - 1), bits)
  BY <1>2, Zenon DEF Ranges
<1> HIDE DEF n, base
<1> DEFINE Q == {k \in Nat : k <= n => (~f[k].full => ~h.full)}
<1>4. 0 \in Q
  BY <1>3
<1>5. ASSUME NEW k \in Q PROVE k + 1 \in Q
  <2> SUFFICES ASSUME k + 1 <= n, ~f[k + 1].full PROVE ~h.full
    OBVIOUS
  <2>1. k \in Nat /\ k <= n /\ k + 1 \in 1 .. n /\ (k + 1) - 1 = k
    BY <1>1
  <2> DEFINE a == base + (((k + 1) - 1) * PageSize)
  <2> DEFINE p == page + ((k + 1) - 1)
  <2> DEFINE g == f[(k + 1) - 1]
  <2>2. f[k + 1] = Map(g, r, a, p, bits)
    BY <2>1, <1>3
  <2> HIDE DEF a, p, g
  <2>3. ~g.full
    BY <2>2, MapFull
  <2>4. ~f[k].full
    BY <2>1, <2>3 DEF g
  <2> QED BY <2>1, <2>4
<1>6. Q \in SUBSET Nat
  OBVIOUS
<1> HIDE DEF Q
<1>7. Q = Nat
  BY <1>4, <1>5, <1>6, D!SetInduction
<1> QED BY <1>1, <1>2, <1>7 DEF Q

\* The range from vaddr on stands for the buffer.
RangeMapped(g, h, own, S, r, s) ==
    \E own2 : Shape(g, own2, With(S, r, s)) /\ Grown(h, own, g, own2, r, {})

LEMMA MapRangeShape ==
    ASSUME NEW h, NEW own, NEW S, Shape(h, own, S), NEW r \in DOMAIN S,
           NEW vaddr \in Nat, NEW page \in Nat, NEW size \in 0 .. AddressSpace,
           NEW bits \in SUBSET Flags, bits \cap {"R", "W", "X"} # {},
           ~MapRange(h, r, vaddr, page, size, bits).full
    PROVE  /\ ~h.full
           /\ RangeMapped(MapRange(h, r, vaddr, page, size, bits), h, own, S, r, Covered(S[r], vaddr, page, size))
<1> DEFINE b == vaddr \div PageSize
<1> DEFINE base == b * PageSize
<1> DEFINE n == NumPages(size)
<1> DEFINE N == Span[LEVELS]
<1> DEFINE c(k) == CoveredTo(S[r], b, page, k)
<1>0. /\ N \in Nat \ {0} /\ b \in Nat /\ size \in Nat /\ PageSize \in Nat \ {0}
      /\ S \in [DOMAIN S -> Spaces] /\ S[r] \in Spaces
  <2>1. LEVELS \in 0 .. LEVELS /\ PageSize \in Nat \ {0}
    BY TableAssumption
  <2>2. N \in Nat \ {0} /\ b \in Nat
    BY <2>1, SpanFacts, DivNat
  <2>3. AddressSpace \in Nat
    BY <2>1, <2>2 DEF AddressSpace
  <2>4. S \in [DOMAIN S -> Spaces]
    BY DEF Shape, HeapType
  <2> QED BY <2>1, <2>2, <2>3, <2>4
<1>1. n \in Nat /\ n <= N
  BY <1>0, NumPagesFacts
<1>2. PICK f : Ranges(f, h, r, base, page, bits, n) /\ MapRange(h, r, vaddr, page, size, bits) = f[n]
  <2>1. n \in Nat /\ base = (vaddr \div PageSize) * PageSize
    BY <1>1
  <2> HIDE DEF base
  <2> QED BY <2>1, MapRangeMaps
<1>3. /\ f[0] = h
      /\ \A k \in 1 .. n : f[k] = Map(f[k - 1], r, base + ((k - 1) * PageSize), page + (k - 1), bits)
  BY <1>2, Zenon DEF Ranges
<1> DEFINE P(k) == ~f[k].full => ~h.full /\ RangeMapped(f[k], h, own, S, r, c(k))
<1> DEFINE Q == {k \in Nat : k <= n => P(k)}
<1>4. 0 \in Q
  <2>1. c(0) = S[r]
    BY <1>0, CoveredToStep
  <2>2. With(S, r, S[r]) = S
    BY <1>0, WithSame
  <2>3. Grown(h, own, h, own, r, {})
    BY GrownRefl
  <2>4. RangeMapped(h, h, own, S, r, S[r])
    BY <2>2, <2>3 DEF RangeMapped
  <2>5. P(0)
    BY <2>1, <2>4, <1>3
  <2> QED BY <2>5
<1>5. ASSUME NEW k \in Q PROVE k + 1 \in Q
  <2> SUFFICES ASSUME k + 1 <= n, ~f[k + 1].full
               PROVE  ~h.full /\ RangeMapped(f[k + 1], h, own, S, r, c(k + 1))
    OBVIOUS
  <2>1. k \in Nat /\ k <= n /\ k + 1 \in 1 .. n /\ (k + 1) - 1 = k /\ k \in 0 .. N - 1 /\ page + k \in Nat
    BY <1>0, <1>1
  <2> DEFINE a == base + k * PageSize
  <2> DEFINE g == f[k]
  <2>2. f[k + 1] = Map(g, r, a, page + k, bits)
    BY <2>1, <1>3
  <2>3. a \in Nat /\ PageOf(a) = (b + k) % N
    BY <2>1, PageOfRange
  <2> HIDE DEF a, g
  <2>4. ~g.full
    <3> DEFINE pk == page + k
    <3>1. ~Map(g, r, a, pk, bits).full
      BY <2>2
    <3> HIDE DEF pk
    <3> QED BY <3>1, MapFull
  <2>5. ~h.full /\ RangeMapped(g, h, own, S, r, c(k))
    BY <2>1, <2>4 DEF g
  <2> DEFINE s == c(k)
  <2> DEFINE Sk == With(S, r, s)
  <2>6. PICK own1 : Shape(g, own1, Sk) /\ Grown(h, own, g, own1, r, {})
    BY <2>5 DEF RangeMapped
  <2>7. r \in DOMAIN Sk /\ Sk[r] = s /\ \A x : With(Sk, r, x) = With(S, r, x)
    <3> HIDE DEF s
    <3> QED BY WithAgain
  <2> DEFINE pk == page + k
  <2> HIDE DEF Sk, s, pk
  <2>8. Mapped(Map(g, r, a, pk, bits), g, own1, Sk, r, PageOf(a), pk)
    <3>1. pk \in Nat /\ ~Map(g, r, a, pk, bits).full
      BY <2>1, <2>2 DEF pk
    <3> QED BY <3>1, <2>3, <2>6, <2>7, MapShape
  <2>9. PICK own2 : /\ Shape(f[k + 1], own2, With(Sk, r, Put(Sk[r], PageOf(a), pk)))
                    /\ Grown(g, own1, f[k + 1], own2, r, {})
    BY <2>2, <2>8 DEF Mapped, pk
  <2>10. Put(Sk[r], PageOf(a), pk) = c(k + 1)
    BY <2>1, <2>3, <2>7, <1>0, CoveredToStep DEF s, pk
  <2>11. Shape(f[k + 1], own2, With(S, r, c(k + 1)))
    BY <2>7, <2>9, <2>10
  <2>12. Grown(h, own, f[k + 1], own2, r, {} \cup {})
    BY <2>6, <2>9, GrownTrans
  <2>13. {} \cup {} = {}
    OBVIOUS
  <2> QED BY <2>5, <2>11, <2>12, <2>13 DEF RangeMapped
<1>6. Q \in SUBSET Nat
  OBVIOUS
<1> HIDE DEF Q
<1>7. Q = Nat
  BY <1>4, <1>5, <1>6, D!SetInduction
<1>8. P(n)
  BY <1>1, <1>7 DEF Q
<1>9. c(n) = Covered(S[r], vaddr, page, size)
  BY <1>0, CoveredToEnd
<1> QED BY <1>2, <1>8, <1>9
-----------------------------------------------------------------------------
(***************************************************************************)
(* From h to g the tree of r was given the space s, and the pages N were   *)
(* allocated for other use.                                                *)
(***************************************************************************)

Reached(g, h, own, S, r, s, N) ==
    \E own2 : Shape(g, own2, With(S, r, s)) /\ Grown(h, own, g, own2, r, N)

LEMMA ReachedMap ==
    ASSUME NEW g, NEW h, NEW own, NEW S, NEW r, NEW s, NEW N, Reached(g, h, own, S, r, s, N),
           NEW vaddr \in Nat, NEW page \in Nat, NEW bits \in SUBSET Flags, bits \cap {"R", "W", "X"} # {},
           ~Map(g, r, vaddr, page, bits).full
    PROVE  Reached(Map(g, r, vaddr, page, bits), h, own, S, r, Put(s, PageOf(vaddr), page), N)
<1> DEFINE k == Map(g, r, vaddr, page, bits)
<1> DEFINE S1 == With(S, r, s)
<1> DEFINE v == PageOf(vaddr)
<1>1. PICK own1 : Shape(g, own1, S1) /\ Grown(h, own, g, own1, r, N)
  BY DEF Reached
<1>2. r \in DOMAIN S1 /\ S1[r] = s /\ \A x : With(S1, r, x) = With(S, r, x)
  BY WithAgain
<1> HIDE DEF S1
<1>3. Mapped(k, g, own1, S1, r, v, page)
  BY <1>1, <1>2, MapShape
<1> HIDE DEF k, v
<1>4. PICK own2 : /\ Shape(k, own2, With(S1, r, Put(S1[r], v, page)))
                  /\ Grown(g, own1, k, own2, r, {})
  BY <1>3 DEF Mapped
<1>5. Shape(k, own2, With(S, r, Put(s, v, page)))
  BY <1>2, <1>4
<1>6. Grown(h, own, k, own2, r, N \cup {})
  BY <1>1, <1>4, GrownTrans
<1>7. N \cup {} = N
  OBVIOUS
<1> QED BY <1>5, <1>6, <1>7 DEF Reached, k, v

LEMMA ReachedMapRange ==
    ASSUME NEW g, NEW h, NEW own, NEW S, NEW r, NEW s, NEW N, Reached(g, h, own, S, r, s, N),
           NEW vaddr \in Nat, NEW page \in Nat, NEW size \in 0 .. AddressSpace,
           NEW bits \in SUBSET Flags, bits \cap {"R", "W", "X"} # {},
           ~MapRange(g, r, vaddr, page, size, bits).full
    PROVE  Reached(MapRange(g, r, vaddr, page, size, bits), h, own, S, r, Covered(s, vaddr, page, size), N)
<1> DEFINE k == MapRange(g, r, vaddr, page, size, bits)
<1> DEFINE S1 == With(S, r, s)
<1>1. PICK own1 : Shape(g, own1, S1) /\ Grown(h, own, g, own1, r, N)
  BY DEF Reached
<1>2. r \in DOMAIN S1 /\ S1[r] = s /\ \A x : With(S1, r, x) = With(S, r, x)
  BY WithAgain
<1> HIDE DEF S1
<1> DEFINE c == Covered(S1[r], vaddr, page, size)
<1>3. RangeMapped(k, g, own1, S1, r, c)
  BY <1>1, <1>2, MapRangeShape
<1> HIDE DEF k, c
<1>4. PICK own2 : Shape(k, own2, With(S1, r, c)) /\ Grown(g, own1, k, own2, r, {})
  BY <1>3 DEF RangeMapped
<1>5. c = Covered(s, vaddr, page, size)
  BY <1>2 DEF c
<1>6. Shape(k, own2, With(S, r, c))
  BY <1>2, <1>4
<1>7. Grown(h, own, k, own2, r, N \cup {})
  BY <1>1, <1>4, GrownTrans
<1>8. N \cup {} = N
  OBVIOUS
<1>9. Reached(k, h, own, S, r, c, N)
  BY <1>6, <1>7, <1>8 DEF Reached
<1> QED BY <1>5, <1>9 DEF k

\* alloc() of n pages, of which none was in use.
Taken(g, first, n) ==
    /\ first \in Pages
    /\ first .. first + n - 1 \subseteq Pages
    /\ first .. first + n - 1 \cap g.used = {}

LEMMA TakenFirstFit ==
    ASSUME NEW g, NEW n \in Nat, NEW first, first = FirstFit(g, n), ~Take(g, first, n).full
    PROVE  ~g.full /\ Taken(g, first, n) /\ Fits(g, first, n)
<1>1. ~g.full /\ first # 0
  BY FullStays
<1>2. first \in Pages /\ Fits(g, first, n)
  BY <1>1, FirstFitFits
<1> QED BY <1>1, <1>2 DEF Taken, Fits

LEMMA ReachedTake ==
    ASSUME NEW g, NEW h, NEW own, NEW S, NEW r, NEW s, NEW N, Reached(g, h, own, S, r, s, N),
           NEW n \in Nat, NEW first, Fits(g, first, n)
    PROVE  Reached(Take(g, first, n), h, own, S, r, s, N \cup (first .. first + n - 1))
<1> DEFINE k == Take(g, first, n)
<1> DEFINE M == first .. first + n - 1
<1> DEFINE S1 == With(S, r, s)
<1>1. PICK own1 : Shape(g, own1, S1) /\ Grown(h, own, g, own1, r, N)
  BY DEF Reached
<1> HIDE DEF S1
<1>2. Shape(k, own1, S1) /\ Grown(g, own1, k, own1, r, M)
  BY <1>1, TakeShape
<1> HIDE DEF k, M
<1>3. Grown(h, own, k, own1, r, N \cup M)
  BY <1>1, <1>2, GrownTrans
<1>4. Reached(k, h, own, S, r, s, N \cup M)
  BY <1>2, <1>3 DEF Reached, S1
<1> QED BY <1>4 DEF k, M

-----------------------------------------------------------------------------
(***************************************************************************)
(* setup_process()                                                         *)
(***************************************************************************)

Archs == [page_table : Pages, trap_frame : Pages, user_stack : Pages,
          kernel_stack : Pages, segments : SUBSET Pages]

\* The four pages that are mapped, in the order in which they are.
SetUpSpace(trap, stack) ==
    Put(Put(Put(Put(NoSpace, PageOf(TRAMPOLINE), TrampolineCode),
                PageOf(TRAPFRAME), trap),
            PageOf(KILLME), KillmeCode),
        PageOf(USER_STACK_START - PageSize), stack)

LEMMA AddressFacts ==
    /\ TRAMPOLINE \in Nat /\ TRAPFRAME \in Nat /\ KILLME \in Nat /\ USER_STACK_START - PageSize \in Nat
    /\ PageOf(TRAMPOLINE) # PageOf(TRAPFRAME) /\ PageOf(TRAMPOLINE) # PageOf(KILLME)
    /\ PageOf(TRAMPOLINE) # PageOf(USER_STACK_START - PageSize)
    /\ PageOf(TRAPFRAME) # PageOf(KILLME) /\ PageOf(TRAPFRAME) # PageOf(USER_STACK_START - PageSize)
    /\ PageOf(KILLME) # PageOf(USER_STACK_START - PageSize)
    /\ \A vaddr \in Nat : PageOf(vaddr) \in VPages
    /\ TrampolineCode \in Nat /\ KillmeCode \in Nat
<1> DEFINE at == <<TRAMPOLINE, TRAPFRAME, KILLME, USER_STACK_START - PageSize>>
<1>1. /\ \A i \in 1 .. 4 : at[i] \in Nat
      /\ \A i, j \in 1 .. 4 : i # j => PageOf(at[i]) # PageOf(at[j])
  BY AddressAssumption
<1>2. at[1] = TRAMPOLINE /\ at[2] = TRAPFRAME /\ at[3] = KILLME /\ at[4] = USER_STACK_START - PageSize
  OBVIOUS
<1> HIDE DEF at
<1>3. at[1] \in Nat /\ at[2] \in Nat /\ at[3] \in Nat /\ at[4] \in Nat
  BY <1>1
<1>4. /\ PageOf(at[1]) # PageOf(at[2]) /\ PageOf(at[1]) # PageOf(at[3]) /\ PageOf(at[1]) # PageOf(at[4])
      /\ PageOf(at[2]) # PageOf(at[3]) /\ PageOf(at[2]) # PageOf(at[4]) /\ PageOf(at[3]) # PageOf(at[4])
  BY <1>1
<1>5. \A vaddr \in Nat : PageOf(vaddr) \in VPages
  <2>1. 0 \in 0 .. LEVELS - 1
    BY TableAssumption
  <2> QED BY <2>1, VpnIsIdx
<1>6. TrampolineCode \in Nat /\ KillmeCode \in Nat
  BY TableAssumption DEF TrampolineCode, KillmeCode
<1> QED BY <1>2, <1>3, <1>4, <1>5, <1>6

LEMMA FreshSpaceIsSetUp ==
    ASSUME NEW arch
    PROVE  FreshSpace(arch) = SetUpSpace(arch.trap_frame, arch.user_stack)
<1> DEFINE a == PageOf(TRAMPOLINE)
<1> DEFINE b == PageOf(TRAPFRAME)
<1> DEFINE c == PageOf(KILLME)
<1> DEFINE d == PageOf(USER_STACK_START - PageSize)
<1>1. a # b /\ a # c /\ a # d /\ b # c /\ b # d /\ c # d
  BY AddressFacts
<1>2. FreshSpace(arch) = [v \in VPages |-> CASE v = a -> TrampolineCode
                                            [] v = b -> arch.trap_frame
                                            [] v = c -> KillmeCode
                                            [] v = d -> arch.user_stack
                                            [] OTHER -> None]
  BY DEF FreshSpace
<1>3. SetUpSpace(arch.trap_frame, arch.user_stack) =
          [[[[NoSpace EXCEPT ![a] = TrampolineCode] EXCEPT ![b] = arch.trap_frame]
                EXCEPT ![c] = KillmeCode] EXCEPT ![d] = arch.user_stack]
  BY DEF SetUpSpace, Put
<1> HIDE DEF a, b, c, d
<1> QED BY <1>1, <1>2, <1>3 DEF NoSpace

\* A process that was just set up.
IsSetUp(s, h, own, S, kernel_stack) ==
    LET arch == s.arch
    IN  /\ arch \in Archs
        /\ arch.page_table \notin h.used
        /\ arch.kernel_stack = kernel_stack
        /\ arch.segments = {}
        /\ Reached(s.heap, h, own, S, arch.page_table, FreshSpace(arch), {arch.trap_frame, arch.user_stack})

LEMMA SetupShape ==
    ASSUME NEW h, NEW own, NEW S, NEW kernel_stack,
           ~Setup(h, kernel_stack).heap.full
    PROVE  /\ ~h.full
           /\ Shape(h, own, S) /\ kernel_stack \in Pages =>
                IsSetUp(Setup(h, kernel_stack), h, own, S, kernel_stack)
<1> DEFINE s == Setup(h, kernel_stack)
<1> DEFINE trap  == FirstFit(h, 1)
<1> DEFINE h1    == Take(h, trap, 1)
<1> DEFINE root  == FirstFit(h1, 1)
<1> DEFINE h0    == TakeTable(h1, root)
<1> DEFINE h2    == Map(h0, root, TRAMPOLINE, TrampolineCode, {"R", "X"})
<1> DEFINE h3    == Map(h2, root, TRAPFRAME, trap, {"R", "W"})
<1> DEFINE h4    == Map(h3, root, KILLME, KillmeCode, {"R", "X", "U"})
<1> DEFINE stack == FirstFit(h4, 1)
<1> DEFINE k4    == Take(h4, stack, 1)
<1> DEFINE vs    == USER_STACK_START - PageSize
<1> DEFINE h5    == Map(k4, root, vs, stack, {"R", "W", "U"})
<1> DEFINE arch  == [page_table |-> root, trap_frame |-> trap, user_stack |-> stack,
                     kernel_stack |-> kernel_stack, segments |-> {}]
<1>1. s.heap = h5 /\ s.arch = arch
  BY DEF Setup
<1> DEFINE B1 == {"R", "X"}
<1> DEFINE B2 == {"R", "W"}
<1> DEFINE B3 == {"R", "X", "U"}
<1> DEFINE B4 == {"R", "W", "U"}
<1>2. /\ B1 \in SUBSET Flags /\ B1 \cap {"R", "W", "X"} # {}
      /\ B2 \in SUBSET Flags /\ B2 \cap {"R", "W", "X"} # {}
      /\ B3 \in SUBSET Flags /\ B3 \cap {"R", "W", "X"} # {}
      /\ B4 \in SUBSET Flags /\ B4 \cap {"R", "W", "X"} # {}
  BY DEF Flags
<1>3. /\ h2 = Map(h0, root, TRAMPOLINE, TrampolineCode, B1)
      /\ h3 = Map(h2, root, TRAPFRAME, trap, B2)
      /\ h4 = Map(h3, root, KILLME, KillmeCode, B3)
      /\ h5 = Map(k4, root, vs, stack, B4)
      /\ h1 = Take(h, trap, 1) /\ h0 = TakeTable(h1, root) /\ k4 = Take(h4, stack, 1)
      /\ trap = FirstFit(h, 1) /\ root = FirstFit(h1, 1) /\ stack = FirstFit(h4, 1)
  OBVIOUS
<1>4. ~h5.full
  BY <1>1
<1>5. arch = [page_table |-> root, trap_frame |-> trap, user_stack |-> stack,
              kernel_stack |-> kernel_stack, segments |-> {}]
  OBVIOUS
<1> DEFINE tc == TrampolineCode
<1> DEFINE kc == KillmeCode
<1>6. vs \in Nat /\ TRAMPOLINE \in Nat /\ TRAPFRAME \in Nat /\ KILLME \in Nat /\ tc \in Nat /\ kc \in Nat
  BY AddressFacts
<1> HIDE DEF s, trap, h1, root, h0, h2, h3, h4, stack, k4, vs, h5, arch, B1, B2, B3, B4, tc, kc
<1>7. ~k4.full
  BY <1>3, <1>4, MapFull
<1>8. ~h4.full /\ Taken(h4, stack, 1) /\ Fits(h4, stack, 1)
  BY <1>3, <1>7, TakenFirstFit
<1>9. ~h3.full
  BY <1>3, <1>8, MapFull
<1>10. ~h2.full
  BY <1>3, <1>9, MapFull
<1>11. ~h0.full
  BY <1>3, <1>10, MapFull
<1>12. ~h1.full /\ root # 0
  BY <1>3, <1>11, FullStays
<1>13. ~h.full /\ Taken(h, trap, 1) /\ Fits(h, trap, 1)
  BY <1>3, <1>12, TakenFirstFit
<1> SUFFICES ASSUME Shape(h, own, S), kernel_stack \in Pages
             PROVE  IsSetUp(Setup(h, kernel_stack), h, own, S, kernel_stack)
  BY <1>13
<1>14. root \in Pages /\ root \notin h1.used
  <2>1. root \in Pages /\ Fits(h1, root, 1)
    BY <1>3, <1>12, FirstFitFits
  <2> QED BY <2>1, FitsOne
<1>15. /\ trap \in Pages /\ stack \in Pages /\ trap \in Nat /\ stack \in Nat
       /\ trap .. trap + 1 - 1 = {trap} /\ stack .. stack + 1 - 1 = {stack}
  BY <1>8, <1>13, TableAssumption DEF Taken, Pages
<1>16. h1.used = h.used \cup {trap}
  BY <1>3, <1>15 DEF Take
<1>17. Shape(h1, own, S) /\ Grown(h, own, h1, own, root, {trap})
  <2>1. Shape(h1, own, S) /\ Grown(h, own, h1, own, root, trap .. trap + 1 - 1)
    BY <1>3, <1>13, TakeShape
  <2> QED BY <2>1, <1>15
<1> DEFINE s0 == NoSpace
<1>18. Reached(h0, h, own, S, root, s0, {trap})
  <2> DEFINE own2 == With(own, root, Node(root, LEVELS - 1, 0))
  <2> DEFINE S2 == With(S, root, NoSpace)
  <2>1. Shape(h0, own2, S2) /\ Grown(h1, own, h0, own2, root, {})
    <3>1. own2 = With(own, root, Node(root, LEVELS - 1, 0)) /\ S2 = With(S, root, NoSpace)
      OBVIOUS
    <3> HIDE DEF own2, S2
    <3> QED BY <3>1, <1>3, <1>14, <1>17, RootShape
  <2> HIDE DEF own2
  <2>2. Grown(h, own, h0, own2, root, {trap} \cup {})
    <3> HIDE DEF S2
    <3> QED BY <2>1, <1>17, GrownTrans
  <2>3. {trap} \cup {} = {trap}
    OBVIOUS
  <2> QED BY <2>1, <2>2, <2>3 DEF Reached
<1> HIDE DEF s0
<1> DEFINE s1 == Put(s0, PageOf(TRAMPOLINE), tc)
<1>19. Reached(h2, h, own, S, root, s1, {trap})
  <2>1. h2 = Map(h0, root, TRAMPOLINE, tc, B1)
    BY <1>3 DEF tc
  <2> QED BY <2>1, <1>2, <1>6, <1>10, <1>18, ReachedMap
<1> HIDE DEF s1
<1> DEFINE s2 == Put(s1, PageOf(TRAPFRAME), trap)
<1>20. Reached(h3, h, own, S, root, s2, {trap})
  BY <1>2, <1>3, <1>6, <1>9, <1>15, <1>19, ReachedMap
<1> HIDE DEF s2
<1> DEFINE s3 == Put(s2, PageOf(KILLME), kc)
<1>21. Reached(h4, h, own, S, root, s3, {trap})
  <2>1. h4 = Map(h3, root, KILLME, kc, B3)
    BY <1>3 DEF kc
  <2> QED BY <2>1, <1>2, <1>6, <1>8, <1>20, ReachedMap
<1> HIDE DEF s3
<1>22. Reached(k4, h, own, S, root, s3, {trap, stack})
  <2>1. Reached(k4, h, own, S, root, s3, {trap} \cup (stack .. stack + 1 - 1))
    BY <1>3, <1>8, <1>21, ReachedTake
  <2>2. {trap} \cup (stack .. stack + 1 - 1) = {trap, stack}
    BY <1>15
  <2> QED BY <2>1, <2>2
<1> DEFINE s4 == Put(s3, PageOf(vs), stack)
<1>23. Reached(h5, h, own, S, root, s4, {trap, stack})
  BY <1>2, <1>3, <1>4, <1>6, <1>15, <1>22, ReachedMap
<1>24. s4 = SetUpSpace(trap, stack)
  BY DEF s0, s1, s2, s3, SetUpSpace, tc, kc, vs
<1> HIDE DEF s4
<1>25. arch.page_table = root /\ arch.trap_frame = trap /\ arch.user_stack = stack
         /\ arch.kernel_stack = kernel_stack /\ arch.segments = {}
  BY <1>5
<1>26. FreshSpace(arch) = s4
  BY <1>24, <1>25, FreshSpaceIsSetUp
<1>27. arch \in Archs
  BY <1>5, <1>14, <1>15 DEF Archs
<1>28. root \notin h.used
  BY <1>14, <1>16
<1>29. IsSetUp(s, h, own, S, kernel_stack)
  BY <1>1, <1>23, <1>25, <1>26, <1>27, <1>28 DEF IsSetUp
<1> QED BY <1>29 DEF s

-----------------------------------------------------------------------------
(***************************************************************************)
(* load_exe()                                                              *)
(***************************************************************************)

\* A range stands for the pages of the buffer.
LEMMA CoveredValues ==
    ASSUME NEW s, NEW vaddr \in Nat, NEW page \in Nat, NEW size \in Nat, NEW v \in VPages
    PROVE  LET x == Covered(s, vaddr, page, size)[v]
           IN  x = s[v] \/ x \in page .. page + NumPages(size) - 1
<1> DEFINE b == vaddr \div PageSize
<1> DEFINE N == Span[LEVELS]
<1> DEFINE n == NumPages(size)
<1> DEFINE m == (v - b) % N
<1>0. N \in Nat \ {0} /\ b \in Nat
  <2>1. LEVELS \in 0 .. LEVELS /\ PageSize \in Nat \ {0}
    BY TableAssumption
  <2> QED BY <2>1, SpanFacts, DivNat
<1>1. v \in 0 .. N - 1
  BY DEF VPages
<1>2. Covered(s, vaddr, page, size)[v] = IF m * PageSize < size THEN page + m ELSE s[v]
  BY DEF Covered
<1> HIDE DEF N, b
<1>3. v - b \in Int
  BY <1>0, <1>1
<1>4. m \in Nat
  BY <1>0, <1>3, ModRange
<1> HIDE DEF m
<1>5. n \in Nat /\ (m < n <=> m * PageSize < size)
  BY <1>4, NumPagesFacts
<1> HIDE DEF n
<1>6. CASE m < n
  <2>1. page + m \in page .. page + n - 1
    BY <1>4, <1>5, <1>6
  <2> QED BY <2>1, <1>2, <1>5, <1>6 DEF n
<1>7. CASE ~(m < n)
  BY <1>2, <1>5, <1>7
<1> QED BY <1>6, <1>7

\* l has what load_exe() allocated and mapped in the tree of r since h.
IsLoaded(l, h, own, S, r) ==
    /\ l.pages \subseteq Pages
    /\ Reached(l.heap, h, own, S, r, l.space, l.pages)
    /\ \A v \in VPages : l.space[v] = S[r][v] \/ l.space[v] \in l.pages

LEMMA LoadSegmentShape ==
    ASSUME NEW l, NEW h, NEW own, NEW S, NEW r,
           NEW seg, seg.start \in Nat, seg.size \in 0 .. AddressSpace, seg.size \in Nat,
           ~LoadSegment(l, r, seg).heap.full
    PROVE  ~l.heap.full /\ (IsLoaded(l, h, own, S, r) => IsLoaded(LoadSegment(l, r, seg), h, own, S, r))
<1> DEFINE k == LoadSegment(l, r, seg)
<1> DEFINE a == l.heap
<1> DEFINE s == l.space
<1> DEFINE N == l.pages
<1> DEFINE start == seg.start
<1> DEFINE size == seg.size
<1> DEFINE n == NumPages(seg.size)
<1> DEFINE first == FirstFit(l.heap, n)
<1> DEFINE M == first .. first + n - 1
<1> DEFINE bits == {"R", "W", "X", "U"}
<1> DEFINE b == Take(a, first, n)
<1> DEFINE g == MapRange(b, r, start, first, size, bits)
<1> DEFINE c == Covered(s, start, first, size)
<1>1. k.heap = g /\ k.pages = N \cup M /\ k.space = c
  BY DEF LoadSegment
<1>2. bits \in SUBSET Flags /\ bits \cap {"R", "W", "X"} # {}
  BY DEF Flags
<1>3. /\ g = MapRange(b, r, start, first, size, bits) /\ b = Take(a, first, n) /\ first = FirstFit(a, n)
      /\ start \in Nat /\ size \in 0 .. AddressSpace /\ size \in Nat /\ n \in Nat /\ n = NumPages(size)
      /\ M = first .. first + n - 1 /\ c = Covered(s, start, first, size)
      /\ ~g.full
  BY <1>1, NumPagesFacts
<1>4. IsLoaded(l, h, own, S, r) <=> /\ N \subseteq Pages
                                    /\ Reached(a, h, own, S, r, s, N)
                                    /\ \A v \in VPages : s[v] = S[r][v] \/ s[v] \in N
  BY DEF IsLoaded
<1>5. l.heap = a
  OBVIOUS
<1> HIDE DEF k, a, s, N, start, size, n, first, M, bits, b, g, c
<1>6. ~b.full
  BY <1>3, MapRangeFull
<1>7. ~a.full /\ Taken(a, first, n) /\ Fits(a, first, n)
  BY <1>3, <1>6, TakenFirstFit
<1>8. first \in Nat /\ M \subseteq Pages
  BY <1>3, <1>7, TableAssumption DEF Taken, Pages
<1>9. ASSUME IsLoaded(l, h, own, S, r) PROVE IsLoaded(k, h, own, S, r)
  <2>1. Reached(b, h, own, S, r, s, N \cup M)
    BY <1>3, <1>4, <1>7, <1>9, ReachedTake
  <2> DEFINE NM == N \cup M
  <2>2. Reached(b, h, own, S, r, s, NM)
    BY <2>1
  <2>3. k.pages = NM /\ NM \subseteq Pages /\ M \subseteq NM /\ N \subseteq NM
    BY <1>1, <1>4, <1>8, <1>9
  <2> HIDE DEF NM
  <2>4. Reached(g, h, own, S, r, c, NM)
    BY <2>2, <1>2, <1>3, <1>8, ReachedMapRange
  <2>5. \A v \in VPages : c[v] = s[v] \/ c[v] \in M
    BY <1>3, <1>8, CoveredValues
  <2>6. \A v \in VPages : c[v] = S[r][v] \/ c[v] \in NM
    BY <2>3, <2>5, <1>4, <1>9
  <2> QED BY <2>3, <2>4, <2>6, <1>1 DEF IsLoaded
<1> QED BY <1>5, <1>7, <1>9 DEF k

LEMMA LoadShape ==
    ASSUME NEW h, NEW own, NEW S, NEW r \in DOMAIN S,
           NEW segs \in Seq([start : Nat, size : 0 .. AddressSpace]),
           NEW l, l = [heap |-> h, pages |-> {}, space |-> S[r]],
           ~LoadSegments(l, r, segs).heap.full
    PROVE  ~h.full /\ (Shape(h, own, S) => IsLoaded(LoadSegments(l, r, segs), h, own, S, r))
<1> DEFINE n == Len(segs)
<1>0. AddressSpace \in Nat
  <2>1. LEVELS \in 0 .. LEVELS /\ PageSize \in Nat \ {0}
    BY TableAssumption
  <2>2. Span[LEVELS] \in Nat
    BY <2>1, SpanFacts
  <2> QED BY <2>1, <2>2 DEF AddressSpace
<1>1. n \in Nat /\ \A k \in 1 .. n : segs[k].start \in Nat /\ segs[k].size \in 0 .. AddressSpace /\ segs[k].size \in Nat
  <2> DEFINE X == [start : Nat, size : 0 .. AddressSpace]
  <2>1. \A x \in X : x.start \in Nat /\ x.size \in 0 .. AddressSpace /\ x.size \in Nat
    BY <1>0
  <2>2. segs \in Seq(X)
    OBVIOUS
  <2> HIDE DEF X
  <2>3. n \in Nat /\ \A k \in 1 .. n : segs[k] \in X
    BY <2>2
  <2> QED BY <2>1, <2>3
<1>2. PICK f : Loads(f, l, r, segs, n) /\ LoadSegments(l, r, segs) = f[n]
  BY <1>1, LoadSegmentsLoads
<1>3. f[0] = l /\ \A k \in 1 .. n : f[k] = LoadSegment(f[k - 1], r, segs[k])
  BY <1>2, Zenon DEF Loads
<1>4. l.heap = h /\ l.pages = {} /\ l.space = S[r]
  OBVIOUS
<1> HIDE DEF n
<1> DEFINE P(k) == ~f[k].heap.full => ~h.full /\ (Shape(h, own, S) => IsLoaded(f[k], h, own, S, r))
<1> DEFINE Q == {k \in Nat : k <= n => P(k)}
<1>5. 0 \in Q
  <2>1. ASSUME Shape(h, own, S) PROVE IsLoaded(l, h, own, S, r)
    <3>1. S \in [DOMAIN S -> Spaces]
      BY <2>1 DEF Shape, HeapType
    <3>2. With(S, r, S[r]) = S
      BY <3>1, WithSame
    <3>3. Grown(h, own, h, own, r, {})
      BY <2>1, GrownRefl
    <3>4. Reached(h, h, own, S, r, S[r], {})
      BY <2>1, <3>2, <3>3 DEF Reached
    <3> QED BY <3>4, <1>4 DEF IsLoaded
  <2>2. P(0)
    BY <2>1, <1>3, <1>4
  <2> QED BY <2>2
<1>6. ASSUME NEW k \in Q PROVE k + 1 \in Q
  <2> SUFFICES ASSUME k + 1 <= n, ~f[k + 1].heap.full
               PROVE  ~h.full /\ (Shape(h, own, S) => IsLoaded(f[k + 1], h, own, S, r))
    OBVIOUS
  <2>1. k \in Nat /\ k <= n /\ k + 1 \in 1 .. n /\ (k + 1) - 1 = k
    BY <1>1
  <2> DEFINE w == f[k]
  <2> DEFINE seg == segs[k + 1]
  <2>2. f[k + 1] = LoadSegment(w, r, seg)
    BY <2>1, <1>3
  <2>3. seg.start \in Nat /\ seg.size \in 0 .. AddressSpace /\ seg.size \in Nat
    BY <2>1, <1>1
  <2> HIDE DEF w, seg
  <2>4. ~w.heap.full /\ (IsLoaded(w, h, own, S, r) => IsLoaded(LoadSegment(w, r, seg), h, own, S, r))
    BY <2>2, <2>3, LoadSegmentShape
  <2>5. ~h.full /\ (Shape(h, own, S) => IsLoaded(w, h, own, S, r))
    BY <2>1, <2>4 DEF w
  <2> QED BY <2>2, <2>4, <2>5
<1>7. Q \in SUBSET Nat
  OBVIOUS
<1> HIDE DEF Q
<1>8. Q = Nat
  BY <1>5, <1>6, <1>7, D!SetInduction
<1>9. P(n)
  <2>1. n \in Q /\ n <= n
    BY <1>1, <1>8
  <2> HIDE DEF P
  <2> QED BY <2>1 DEF Q
<1> QED BY <1>2, <1>9

-----------------------------------------------------------------------------
(***************************************************************************)
(* The tables of a tree, and what virt_to_phys() finds in it.              *)
(***************************************************************************)

\* The tables of the tree of r.
Tables(own, r) == {t \in DOMAIN own : own[t].root = r}

LEMMA BranchesOf ==
    ASSUME NEW own, NEW S, Shape(Heap, own, S), NEW X \in SUBSET DOMAIN own, NEW y
    PROVE  y \in Branches(X) <=>
                \E q \in X, j \in Indices : /\ IsValid(table[q][j]) /\ ~IsLeaf(table[q][j])
                                            /\ table[q][j].ppn = y
<1>1. \A q \in X : table[q] \in [Indices -> Entries]
  BY DEF Shape, HeapType, Heap
<1>2. \A q \in X : Range(table[q]) = {table[q][j] : j \in Indices}
  BY <1>1 DEF Range
<1> DEFINE U == UNION {Range(table[q]) : q \in X}
<1>3. \A x : x \in U <=> \E q \in X, j \in Indices : x = table[q][j]
  BY <1>2
<1>4. y \in Branches(X) <=> \E x \in U : IsValid(x) /\ ~IsLeaf(x) /\ x.ppn = y
  BY DEF Branches
<1> HIDE DEF U
<1> QED BY <1>3, <1>4

LEMMA TablesOfLevel ==
    ASSUME NEW own, NEW S, Shape(Heap, own, S), NEW r \in DOMAIN S, NEW m \in 0 .. LEVELS
    PROVE  TablesAt(r)[m] = {t \in Tables(own, r) : own[t].level = LEVELS - 1 - m}
<1> DEFINE f == TablesAt(r)
<1> DEFINE Lev(n) == {t \in DOMAIN own : own[t].root = r /\ own[t].level = LEVELS - 1 - n}
<1>0. LEVELS \in Nat \ {0}
  BY TableAssumption
<1>1. f[0] = {r} /\ \A n \in 1 .. LEVELS : f[n] = Branches(f[n - 1])
  <2>1. Levels(f, r, LEVELS)
    BY <1>0, TablesAtIsRecursive
  <2> HIDE DEF f
  <2> QED BY <2>1, Zenon DEF Levels
<1>2. /\ RootsOK(own, S) /\ DownOK(Heap, own) /\ UpOK(Heap, own)
      /\ own \in [DOMAIN own -> Nodes]
      /\ Heap.table = table
  BY DEF Shape, HeapType, Heap
<1>3. \A t \in DOMAIN own : own[t].level \in 0 .. LEVELS - 1 /\ own[t].pre \in Nat
  BY <1>2 DEF Nodes
<1> HIDE DEF f
<1> DEFINE Q == {n \in Nat : n <= LEVELS => f[n] = Lev(n)}
<1>4. 0 \in Q
  <2>1. r \in DOMAIN own /\ own[r].root = r /\ own[r].level = LEVELS - 1 - 0
    <3>1. r \in DOMAIN own /\ own[r] = Node(r, LEVELS - 1, 0)
      BY <1>2 DEF RootsOK
    <3> QED BY <3>1, <1>0, NodeFields
  <2>2. ASSUME NEW t \in DOMAIN own, own[t].root = r, own[t].level = LEVELS - 1 - 0 PROVE t = r
    <3>1. own[t].level = LEVELS - 1
      BY <2>2, <1>0
    <3> QED BY <3>1, <2>2, <1>2 DEF RootsOK
  <2>3. Lev(0) = {r}
    BY <2>1, <2>2
  <2> QED BY <2>3, <1>1
<1>5. ASSUME NEW n \in Q PROVE n + 1 \in Q
  <2> SUFFICES ASSUME n + 1 <= LEVELS PROVE f[n + 1] = Lev(n + 1)
    OBVIOUS
  <2>1. n \in Nat /\ n <= LEVELS /\ n + 1 \in 1 .. LEVELS /\ (n + 1) - 1 = n
    BY <1>0
  <2>2. f[n + 1] = Branches(Lev(n))
    BY <2>1, <1>1
  <2> DEFINE i == LEVELS - 1 - n
  <2> DEFINE X == Lev(n)
  <2>3. i \in 0 .. LEVELS - 1 /\ LEVELS - 1 - (n + 1) = i - 1
    BY <2>1, <1>0
  <2>4. X = {t \in DOMAIN own : own[t].root = r /\ own[t].level = i}
    OBVIOUS
  <2>5. Lev(n + 1) = {t \in DOMAIN own : own[t].root = r /\ own[t].level = i - 1}
    BY <2>3
  <2>6. X \in SUBSET DOMAIN own
    OBVIOUS
  <2> HIDE DEF X, i
  <2>7. ASSUME NEW y \in Branches(X) PROVE y \in DOMAIN own /\ own[y].root = r /\ own[y].level = i - 1
    <3>1. PICK q \in X, j \in Indices : /\ IsValid(table[q][j]) /\ ~IsLeaf(table[q][j])
                                        /\ table[q][j].ppn = y
      BY <2>6, BranchesOf
    <3>2. q \in DOMAIN own /\ own[q].root = r /\ own[q].level = i
      BY <2>4
    <3>3. own[q].level # 0
      BY <3>1, <3>2, <1>2 DEF DownOK
    <3>4. y \in DOMAIN own /\ own[y] = Node(own[q].root, own[q].level - 1, Sub(own[q].pre, j))
      BY <3>1, <3>2, <3>3, <1>2 DEF DownOK
    <3> QED BY <3>2, <3>4, NodeFields
  <2>8. ASSUME NEW y \in DOMAIN own, own[y].root = r, own[y].level = i - 1 PROVE y \in Branches(X)
    <3>1. own[y].level # LEVELS - 1 /\ own[y].level + 1 = i /\ i # 0 /\ Idx(own[y].pre) \in Indices
      BY <2>3, <2>8, <1>0, <1>3, EntryNumbers
    <3> DEFINE j == Idx(own[y].pre)
    <3>2. PICK u \in DOMAIN own : /\ own[u] = Node(own[y].root, own[y].level + 1, Up(own[y].pre))
                                  /\ IsValid(table[u][j]) /\ table[u][j].ppn = y
      BY <3>1, <1>2 DEF UpOK
    <3>3. own[u].root = r /\ own[u].level = i
      BY <3>1, <3>2, <2>8, NodeFields
    <3>4. ~IsLeaf(table[u][j])
      BY <3>1, <3>2, <3>3, <1>2 DEF DownOK
    <3>5. u \in X
      BY <3>3, <2>4
    <3> HIDE DEF j
    <3>6. j \in Indices
      BY <3>1 DEF j
    <3> QED BY <3>2, <3>4, <3>5, <3>6, <2>6, BranchesOf
  <2>9. Branches(X) = Lev(n + 1)
    <3>1. \A y : y \in Branches(X) <=> y \in DOMAIN own /\ own[y].root = r /\ own[y].level = i - 1
      BY <2>7, <2>8
    <3> QED BY <3>1, <2>5
  <2> QED BY <2>2, <2>9 DEF X
<1>6. Q \in SUBSET Nat
  OBVIOUS
<1> HIDE DEF Q
<1>7. Q = Nat
  BY <1>4, <1>5, <1>6, D!SetInduction
<1>8. f[m] = Lev(m)
  <2>1. m \in Nat /\ m <= LEVELS
    BY <1>0
  <2> QED BY <2>1, <1>7 DEF Q
<1> QED BY <1>8 DEF f, Tables

\* unmap() frees the tables of the tree but its root.
LEMMA TablesOfTree ==
    ASSUME NEW own, NEW S, Shape(Heap, own, S), NEW r \in DOMAIN S
    PROVE  Tree(r) = Tables(own, r) /\ {r} \cup TablesBelow(r) = Tables(own, r)
<1> DEFINE f == TablesAt(r)
<1> DEFINE M == Tables(own, r)
<1>0. LEVELS \in Nat \ {0}
  BY TableAssumption
<1>1. \A m \in 0 .. LEVELS : f[m] = {t \in M : own[t].level = LEVELS - 1 - m}
  BY TablesOfLevel
<1>2. \A t \in M : own[t].level \in 0 .. LEVELS - 1
  BY DEF Shape, HeapType, Nodes, Tables
<1>3. f[0] = {r}
  <2>1. Levels(f, r, LEVELS)
    BY <1>0, TablesAtIsRecursive
  <2> HIDE DEF f
  <2> QED BY <2>1, Zenon DEF Levels
<1>4. Tree(r) = UNION {f[n] : n \in 0 .. LEVELS} /\ TablesBelow(r) = UNION {f[n] : n \in 1 .. LEVELS}
  BY DEF Tree, TablesBelow
<1> HIDE DEF f, M
<1>5. UNION {f[n] : n \in 0 .. LEVELS} \subseteq M
  BY <1>1
<1>6. ASSUME NEW t \in M PROVE \E n \in 0 .. LEVELS : t \in f[n]
  <2> DEFINE n == LEVELS - 1 - own[t].level
  <2>1. n \in 0 .. LEVELS /\ own[t].level = LEVELS - 1 - n
    BY <1>0, <1>2
  <2> HIDE DEF n
  <2> QED BY <2>1, <1>1
<1>7. UNION {f[n] : n \in 0 .. LEVELS} = {r} \cup UNION {f[n] : n \in 1 .. LEVELS}
  <2>1. \A n \in 0 .. LEVELS : n = 0 \/ n \in 1 .. LEVELS
    BY <1>0
  <2>2. 0 \in 0 .. LEVELS /\ \A n \in 1 .. LEVELS : n \in 0 .. LEVELS
    BY <1>0
  <2> QED BY <2>1, <2>2, <1>3
<1>8. UNION {f[n] : n \in 0 .. LEVELS} = M
  BY <1>5, <1>6
<1> QED BY <1>4, <1>7, <1>8 DEF M

\* What an address stands for, with the offset in its page.
Physical(x, vaddr) == IF x = None THEN None ELSE (x * PageSize) + (vaddr % PageSize)

\* virt_to_phys() after the tables of the levels above i: at the table for the
\* page, or at the end of its walk.
Looking(w, own, S, r, v, vaddr, i) ==
    \/ /\ w.page = None
       /\ w.addr = Physical(S[r][v], vaddr)
    \/ /\ i # 0
       /\ w.page \in DOMAIN own
       /\ own[w.page] = Node(r, i - 1, Pre(v, i))

LEMMA LookUpStep ==
    ASSUME NEW own, NEW S, Shape(Heap, own, S), NEW r \in DOMAIN S,
           NEW vaddr \in Nat, NEW v, v = PageOf(vaddr), NEW i \in 0 .. LEVELS - 1,
           NEW w, Looking(w, own, S, r, v, vaddr, i + 1)
    PROVE  Looking(LookUp(w, i, vaddr), own, S, r, v, vaddr, i)
<1>0. /\ LEVELS \in Nat \ {0} /\ PageSize \in Nat \ {0} /\ None \notin Nat
  BY TableAssumption
<1>1. CASE w.page = None
  <2>1. LookUp(w, i, vaddr) = w
    BY <1>1 DEF LookUp
  <2>2. \A t \in DOMAIN own : t # None
    BY <1>0 DEF Shape, HeapType, Heap, Pages
  <2> QED BY <2>1, <2>2, <1>1 DEF Looking
<1>2. CASE w.page # None
  <2> DEFINE t == w.page
  <2> DEFINE x == Pre(v, i)
  <2> DEFINE e == table[t][Vpn(vaddr, i)]
  <2> DEFINE mask == PageSize * Span[i]
  <2> DEFINE z == LookUp(w, i, vaddr)
  <2>1. t \in DOMAIN own /\ own[t] = Node(r, i, Pre(v, i + 1))
    <3>1. (i + 1) - 1 = i
      BY <1>0
    <3>2. t \in DOMAIN own /\ own[t] = Node(r, (i + 1) - 1, Pre(v, i + 1))
      BY <1>2 DEF Looking
    <3> QED BY <3>1, <3>2
  <2>2. own[t].root = r /\ own[t].level = i /\ own[t].pre = Pre(v, i + 1)
    BY <2>1, NodeFields
  <2>3. v \in VPages /\ v \in Nat /\ Vpn(vaddr, i) = Idx(x)
    BY VpnIsIdx, PreEnds
  <2>4. x \in Nat /\ Up(x) = Pre(v, i + 1)
    BY <2>3, PreUp
  <2>5. Idx(x) \in Indices /\ Sub(Up(x), Idx(x)) = x
    <3> HIDE DEF x
    <3> QED BY <2>4, EntryNumbers
  <2>6. /\ Heap.table = table /\ DownOK(Heap, own) /\ Exact(Heap, own, S)
        /\ table \in [DOMAIN own -> [Indices -> Entries]]
    BY DEF Shape, HeapType, Heap
  <2>7. e \in Entries /\ e.ppn \in Nat
    <3>1. e \in Entries
      BY <2>1, <2>3, <2>5, <2>6
    <3> HIDE DEF e
    <3> QED BY <3>1 DEF Entries
  <2>8. /\ ~IsValid(e) => S[r][v] = None
        /\ IsValid(e) /\ i = 0 => S[r][v] = e.ppn
    BY <2>1, <2>2, <2>3, <2>6 DEF Exact
  <2>9. IsValid(e) => /\ i = 0 => IsLeaf(e)
                      /\ i # 0 => /\ ~IsLeaf(e) /\ e.ppn \in DOMAIN own
                                  /\ own[e.ppn] = Node(r, i - 1, x)
    BY <2>1, <2>2, <2>3, <2>4, <2>5, <2>6 DEF DownOK
  <2>10. z = IF ~IsValid(e) THEN [page |-> None, addr |-> None]
             ELSE IF IsLeaf(e)
             THEN [page |-> None, addr |-> (((e.ppn * PageSize) \div mask) * mask) + (vaddr % mask)]
             ELSE [page |-> e.ppn, addr |-> None]
    BY <1>2 DEF LookUp
  <2>11. CASE ~IsValid(e)
    <3>1. z.page = None /\ z.addr = None
      BY <2>10, <2>11
    <3> HIDE DEF z
    <3>2. Looking(z, own, S, r, v, vaddr, i)
      BY <3>1, <2>8, <2>11 DEF Looking, Physical
    <3> QED BY <3>2 DEF z
  <2>12. CASE IsValid(e) /\ i = 0
    <3>1. mask = PageSize
      BY <2>12, <1>0, SpanFacts
    <3>2. z.page = None /\ z.addr = (((e.ppn * PageSize) \div mask) * mask) + (vaddr % mask)
      BY <2>9, <2>10, <2>12
    <3>3. (e.ppn * PageSize) \div PageSize = e.ppn
      BY <2>7, <1>0, MultipleDiv
    <3>4. z.addr = (e.ppn * PageSize) + (vaddr % PageSize)
      BY <3>1, <3>2, <3>3
    <3>5. S[r][v] = e.ppn /\ e.ppn # None
      BY <2>7, <2>8, <2>12, <1>0
    <3> HIDE DEF z
    <3>6. Looking(z, own, S, r, v, vaddr, i)
      BY <3>2, <3>4, <3>5 DEF Looking, Physical
    <3> QED BY <3>6 DEF z
  <2>13. CASE IsValid(e) /\ i # 0
    <3>1. z.page = e.ppn
      BY <2>9, <2>10, <2>13
    <3> HIDE DEF z, e
    <3>2. Looking(z, own, S, r, v, vaddr, i)
      BY <3>1, <2>9, <2>13 DEF Looking
    <3> QED BY <3>2 DEF z
  <2> QED BY <2>11, <2>12, <2>13
<1> QED BY <1>1, <1>2

LEMMA VirtToPhysExact ==
    ASSUME NEW own, NEW S, Shape(Heap, own, S), NEW r \in DOMAIN S, NEW vaddr \in Nat
    PROVE  VirtToPhys(r, vaddr) = Physical(S[r][PageOf(vaddr)], vaddr)
<1> DEFINE v == PageOf(vaddr)
<1>0. LEVELS \in Nat \ {0}
  BY TableAssumption
<1>1. PICK f : Looks(f, r, vaddr, LEVELS) /\ VirtToPhys(r, vaddr) = f[LEVELS].addr
  BY <1>0, VirtToPhysLooks
<1>2. f[0] = [page |-> r, addr |-> None] /\ \A n \in 1 .. LEVELS : f[n] = LookUp(f[n - 1], LEVELS - n, vaddr)
  BY <1>1, Zenon DEF Looks
<1> DEFINE Q == {n \in Nat : n <= LEVELS => Looking(f[n], own, S, r, v, vaddr, LEVELS - n)}
<1>3. 0 \in Q
  <2>1. f[0].page = r /\ LEVELS - 0 = LEVELS
    BY <1>0, <1>2
  <2>2. r \in DOMAIN own /\ own[r] = Node(r, LEVELS - 1, 0)
    BY DEF Shape, RootsOK
  <2>3. Pre(v, LEVELS) = 0
    BY AddressFacts, PreEnds
  <2>4. Looking(f[0], own, S, r, v, vaddr, LEVELS)
    BY <2>1, <2>2, <2>3, <1>0 DEF Looking
  <2> QED BY <2>1, <2>4
<1>4. ASSUME NEW n \in Q PROVE n + 1 \in Q
  <2> SUFFICES ASSUME n + 1 <= LEVELS PROVE Looking(f[n + 1], own, S, r, v, vaddr, LEVELS - (n + 1))
    OBVIOUS
  <2> DEFINE i == LEVELS - (n + 1)
  <2> DEFINE w == f[n]
  <2>1. n \in Nat /\ n <= LEVELS /\ n + 1 \in 1 .. LEVELS /\ (n + 1) - 1 = n /\ i \in 0 .. LEVELS - 1 /\ LEVELS - n = i + 1
    BY <1>0
  <2>2. f[n + 1] = LookUp(w, i, vaddr) /\ Looking(w, own, S, r, v, vaddr, i + 1)
    BY <2>1, <1>2
  <2> HIDE DEF i, w
  <2>3. Looking(LookUp(w, i, vaddr), own, S, r, v, vaddr, i)
    BY <2>1, <2>2, LookUpStep
  <2> QED BY <2>2, <2>3 DEF i
<1>5. Q \in SUBSET Nat
  OBVIOUS
<1> HIDE DEF Q
<1>6. Q = Nat
  BY <1>3, <1>4, <1>5, D!SetInduction
<1>7. LEVELS - LEVELS = 0
  BY <1>0
<1>8. Looking(f[LEVELS], own, S, r, v, vaddr, LEVELS - LEVELS)
  BY <1>0, <1>6 DEF Q
<1>9. f[LEVELS].addr = Physical(S[r][v], vaddr)
  BY <1>7, <1>8 DEF Looking
<1> QED BY <1>1, <1>9

-----------------------------------------------------------------------------
(***************************************************************************)
(* The inductive invariant, as a predicate on the parts of a state: the    *)
(* heap h, the records pr of the processes, their spaces sp, the windows   *)
(* win and the lost pages lo.                                              *)
(***************************************************************************)

\* The pages of a process that hold no table.
Data(arch) == {arch.trap_frame, arch.user_stack} \cup arch.segments \cup StackOf(arch)

WindowsOf(win) == UNION {w.first .. w.first + NumPages(w.size) - 1 : w \in win}

CodePages == {None, TrampolineCode, KillmeCode}

Typed(pr, sp, win) ==
    /\ pr \in [DOMAIN pr -> Archs]
    /\ sp \in [DOMAIN pr -> Spaces]
    /\ win \subseteq [first : Pages, size : 0 .. AddressSpace]

\* Each process has a tree of its own, which holds its space.
OwnTree(S, pr, sp) ==
    /\ \A p \in DOMAIN pr : pr[p].page_table \in DOMAIN S /\ S[pr[p].page_table] = sp[p]
    /\ \A p, q \in DOMAIN pr : p # q => pr[p].page_table # pr[q].page_table

\* Pages that hold no table are used for one thing.
OwnData(own, pr, win, lo) ==
    /\ \A p \in DOMAIN pr :
        /\ Data(pr[p]) \cap DOMAIN own = {}
        /\ Data(pr[p]) \cap WindowsOf(win) = {}
        /\ Data(pr[p]) \cap lo = {}
        /\ StackOf(pr[p]) \cap ({pr[p].trap_frame, pr[p].user_stack} \cup pr[p].segments) = {}
    /\ \A p, q \in DOMAIN pr : p # q => Data(pr[p]) \cap Data(pr[q]) = {}
    /\ WindowsOf(win) \cap DOMAIN own = {}

\* What a page in use is used for.
Accounted(h, own, pr, win, lo) ==
    \A x : x \in h.used <=>
        \/ x \in DOMAIN own
        \/ \E p \in DOMAIN pr : x \in Data(pr[p])
        \/ x \in WindowsOf(win)
        \/ x \in lo

\* The tables that are lost are those of the trees of no process.
LostTrees(own, pr, lo) ==
    \A t \in DOMAIN own : t \in lo <=> \A p \in DOMAIN pr : own[t].root # pr[p].page_table

\* A process sees its own pages, windows and the code of the kernel.
OwnSpace(pr, sp, win) ==
    \A p \in DOMAIN pr, v \in VPages : sp[p][v] \in CodePages \cup Data(pr[p]) \cup WindowsOf(win)

Good(h, own, S, pr, sp, win, lo) ==
    /\ Shape(h, own, S)
    /\ Typed(pr, sp, win)
    /\ OwnTree(S, pr, sp)
    /\ OwnData(own, pr, win, lo)
    /\ Accounted(h, own, pr, win, lo)
    /\ LostTrees(own, pr, lo)
    /\ OwnSpace(pr, sp, win)

\* Process p gets the record arch and the space s.  C are the data pages it had,
\* N those that were allocated, and L what is lost.
Advanced(h, own, pr, p, arch, s, win, C, N, L) ==
    LET r == arch.page_table
    IN  /\ arch \in Archs
        /\ p \in DOMAIN pr => C = Data(pr[p])
        /\ p \notin DOMAIN pr => C = {}
        /\ (p \in DOMAIN pr /\ pr[p].page_table = r) \/ r \notin h.used
        /\ Data(arch) \subseteq C \cup N
        /\ C \cup N \subseteq Data(arch) \cup L
        /\ Data(arch) \cap L = {}
        /\ L \subseteq (C \cup N) \cup DOMAIN own
        /\ \A t \in DOMAIN own :
            t \in L <=> p \in DOMAIN pr /\ pr[p].page_table # r /\ own[t].root = pr[p].page_table
        /\ StackOf(arch) \cap ({arch.trap_frame, arch.user_stack} \cup arch.segments) = {}
        /\ \A v \in VPages : s[v] \in CodePages \cup Data(arch) \cup WindowsOf(win)

LEMMA Advance ==
    ASSUME NEW h, NEW own, NEW S, NEW pr, NEW sp, NEW win, NEW lo, Good(h, own, S, pr, sp, win, lo),
           NEW g, NEW p, NEW arch, NEW s, NEW C, NEW N, NEW L,
           Advanced(h, own, pr, p, arch, s, win, C, N, L),
           Reached(g, h, own, S, arch.page_table, s, N)
    PROVE  \E own2, S2 : Good(g, own2, S2, With(pr, p, arch), With(sp, p, s), win, lo \cup L)
<1> DEFINE r == arch.page_table
<1> DEFINE S2 == With(S, r, s)
<1> DEFINE pr2 == With(pr, p, arch)
<1> DEFINE sp2 == With(sp, p, s)
<1> DEFINE lo2 == lo \cup L
<1> DEFINE W == WindowsOf(win)
<1> DEFINE A == Data(arch)
<1>1. PICK own2 : Shape(g, own2, S2) /\ Grown(h, own, g, own2, r, N)
  BY DEF Reached
<1>2. /\ DOMAIN own \subseteq DOMAIN own2
      /\ \A t \in DOMAIN own : own2[t] = own[t]
      /\ \A t \in DOMAIN own2 : t \notin DOMAIN own => own2[t].root = r /\ t \notin h.used
      /\ g.used = (h.used \cup N) \cup DOMAIN own2
      /\ N \cap h.used = {}
      /\ N \cap DOMAIN own2 = {}
  BY <1>1 DEF Grown
<1>3. /\ arch \in Archs
      /\ p \in DOMAIN pr => C = Data(pr[p])
      /\ p \notin DOMAIN pr => C = {}
      /\ (p \in DOMAIN pr /\ pr[p].page_table = r) \/ r \notin h.used
      /\ A \subseteq C \cup N /\ C \cup N \subseteq A \cup L /\ A \cap L = {}
      /\ L \subseteq (C \cup N) \cup DOMAIN own
      /\ \A t \in DOMAIN own : t \in L <=> p \in DOMAIN pr /\ pr[p].page_table # r /\ own[t].root = pr[p].page_table
      /\ StackOf(arch) \cap ({arch.trap_frame, arch.user_stack} \cup arch.segments) = {}
      /\ \A v \in VPages : s[v] \in CodePages \cup A \cup W
  BY DEF Advanced
<1>4. /\ Shape(h, own, S) /\ Typed(pr, sp, win) /\ OwnTree(S, pr, sp) /\ OwnData(own, pr, win, lo)
      /\ Accounted(h, own, pr, win, lo) /\ LostTrees(own, pr, lo) /\ OwnSpace(pr, sp, win)
  BY DEF Good
<1>5. /\ DOMAIN own \subseteq h.used
      /\ DOMAIN S \subseteq DOMAIN own
      /\ \A t \in DOMAIN own : own[t].root \in DOMAIN S
  BY <1>4 DEF Shape, HeapType, RootsOK
<1>6. /\ DOMAIN pr2 = DOMAIN pr \cup {p} /\ pr2[p] = arch
      /\ \A q \in DOMAIN pr : q # p => pr2[q] = pr[q]
  <2>1. Extended(pr2, pr, p, arch)
    BY WithAt
  <2> QED BY <2>1 DEF Extended
<1>7. /\ sp2[p] = s /\ \A q \in DOMAIN sp : q # p => sp2[q] = sp[q]
      /\ DOMAIN sp = DOMAIN pr
  <2>1. Extended(sp2, sp, p, s)
    BY WithAt
  <2> QED BY <2>1, <1>4 DEF Extended, Typed
<1>8. /\ DOMAIN S2 = DOMAIN S \cup {r} /\ S2[r] = s
      /\ \A q \in DOMAIN S : q # r => S2[q] = S[q]
  <2>1. Extended(S2, S, r, s)
    BY WithAt
  <2> QED BY <2>1 DEF Extended
<1>9. s \in Spaces
  BY <1>1, <1>8 DEF Shape, HeapType
<1>10. \A q \in DOMAIN pr : q # p => pr[q].page_table # r
  BY <1>3, <1>4, <1>5 DEF OwnTree
<1>11. C \cap DOMAIN own = {} /\ C \cap W = {} /\ C \cap lo = {} /\ C \subseteq h.used /\ W \subseteq h.used /\ lo \subseteq h.used
  BY <1>3, <1>4 DEF OwnData, Accounted
<1>12. \A q \in DOMAIN pr : q # p => Data(pr[q]) \subseteq h.used /\ Data(pr[q]) \cap C = {}
  BY <1>3, <1>4 DEF OwnData, Accounted
<1>13. Typed(pr2, sp2, win)
  <2>1. pr2 \in [DOMAIN pr \cup {p} -> Archs]
    BY <1>3, <1>4, WithType DEF Typed
  <2>2. sp2 \in [DOMAIN pr \cup {p} -> Spaces]
    BY <1>4, <1>7, <1>9, WithType DEF Typed
  <2> HIDE DEF pr2, sp2
  <2> QED BY <2>1, <2>2, <1>4, <1>6 DEF Typed
<1> HIDE DEF S2, pr2, sp2, W, A, r
<1>14. OwnTree(S2, pr2, sp2)
  <2>1. \A q \in DOMAIN pr2 : pr2[q].page_table \in DOMAIN S2 /\ S2[pr2[q].page_table] = sp2[q]
    <3>1. pr2[p].page_table = r
      BY <1>6 DEF r
    <3>2. ASSUME NEW q \in DOMAIN pr, q # p PROVE pr2[q].page_table \in DOMAIN S2 /\ S2[pr2[q].page_table] = sp2[q]
      <4>1. pr[q].page_table \in DOMAIN S /\ S[pr[q].page_table] = sp[q] /\ pr[q].page_table # r
        BY <3>2, <1>4, <1>10 DEF OwnTree
      <4> QED BY <4>1, <3>2, <1>6, <1>7, <1>8
    <3> QED BY <3>1, <3>2, <1>6, <1>7, <1>8
  <2>2. ASSUME NEW a \in DOMAIN pr2, NEW b \in DOMAIN pr2, a # b PROVE pr2[a].page_table # pr2[b].page_table
    <3>1. pr2[p].page_table = r
      BY <1>6 DEF r
    <3>2. \A q \in DOMAIN pr2 : q # p => q \in DOMAIN pr /\ pr2[q] = pr[q] /\ pr[q].page_table # r
      BY <1>6, <1>10
    <3> QED BY <2>2, <3>1, <3>2, <1>4 DEF OwnTree
  <2> QED BY <2>1, <2>2 DEF OwnTree
<1>15. OwnData(own2, pr2, win, lo2)
  <2>1. A \cap DOMAIN own2 = {} /\ A \cap W = {} /\ A \cap lo2 = {}
    BY <1>2, <1>3, <1>11
  <2>2. ASSUME NEW q \in DOMAIN pr, q # p
        PROVE  Data(pr[q]) \cap DOMAIN own2 = {} /\ Data(pr[q]) \cap W = {} /\ Data(pr[q]) \cap lo2 = {} /\ Data(pr[q]) \cap A = {}
    <3>1. Data(pr[q]) \cap DOMAIN own = {} /\ Data(pr[q]) \cap W = {} /\ Data(pr[q]) \cap lo = {}
      BY <1>4 DEF OwnData, W
    <3>2. Data(pr[q]) \subseteq h.used /\ Data(pr[q]) \cap C = {}
      BY <2>2, <1>12
    <3> QED BY <3>1, <3>2, <1>2, <1>3
  <2>3. W \cap DOMAIN own2 = {}
    <3>1. W \cap DOMAIN own = {}
      BY <1>4 DEF OwnData, W
    <3> QED BY <3>1, <1>2, <1>11
  <2>4. ASSUME NEW q \in DOMAIN pr2
        PROVE  /\ Data(pr2[q]) \cap DOMAIN own2 = {}
               /\ Data(pr2[q]) \cap W = {}
               /\ Data(pr2[q]) \cap lo2 = {}
               /\ StackOf(pr2[q]) \cap ({pr2[q].trap_frame, pr2[q].user_stack} \cup pr2[q].segments) = {}
    <3>1. CASE q = p
      <4>1. pr2[q] = arch
        BY <3>1, <1>6
      <4> QED BY <4>1, <2>1, <1>3 DEF A
    <3>2. CASE q # p
      <4>1. q \in DOMAIN pr /\ pr2[q] = pr[q]
        BY <3>2, <1>6
      <4>2. StackOf(pr[q]) \cap ({pr[q].trap_frame, pr[q].user_stack} \cup pr[q].segments) = {}
        BY <4>1, <1>4 DEF OwnData
      <4> QED BY <4>1, <4>2, <3>2, <2>2
    <3> QED BY <3>1, <3>2
  <2>5. ASSUME NEW a \in DOMAIN pr2, NEW b \in DOMAIN pr2, a # b PROVE Data(pr2[a]) \cap Data(pr2[b]) = {}
    <3>1. \A q \in DOMAIN pr2 : q # p => q \in DOMAIN pr /\ pr2[q] = pr[q] /\ Data(pr[q]) \cap A = {}
      BY <1>6, <2>2
    <3>2. Data(pr2[p]) = A
      BY <1>6 DEF A
    <3> QED BY <2>5, <3>1, <3>2, <1>4 DEF OwnData
  <2> QED BY <2>3, <2>4, <2>5 DEF OwnData, W
<1>16. Accounted(g, own2, pr2, win, lo2)
  <2> SUFFICES ASSUME NEW x
               PROVE  x \in g.used <=> \/ x \in DOMAIN own2
                                       \/ \E q \in DOMAIN pr2 : x \in Data(pr2[q])
                                       \/ x \in W
                                       \/ x \in lo2
    BY DEF Accounted, W
  <2>1. x \in h.used <=> \/ x \in DOMAIN own
                         \/ \E q \in DOMAIN pr : x \in Data(pr[q])
                         \/ x \in W
                         \/ x \in lo
    BY <1>4 DEF Accounted, W
  <2>2. (\E q \in DOMAIN pr2 : x \in Data(pr2[q])) <=> (x \in A \/ \E q \in DOMAIN pr : q # p /\ x \in Data(pr[q]))
    BY <1>6 DEF A
  <2>3. (\E q \in DOMAIN pr : x \in Data(pr[q])) <=> (x \in C \/ \E q \in DOMAIN pr : q # p /\ x \in Data(pr[q]))
    BY <1>3
  <2>4. x \in C \/ x \in N <=> x \in A \/ (x \in L /\ x \notin DOMAIN own)
    BY <1>2, <1>3, <1>5, <1>11
  <2> QED BY <2>1, <2>2, <2>3, <2>4, <1>2, <1>3
<1>17. LostTrees(own2, pr2, lo2)
  <2> SUFFICES ASSUME NEW t \in DOMAIN own2
               PROVE  t \in lo2 <=> \A q \in DOMAIN pr2 : own2[t].root # pr2[q].page_table
    BY DEF LostTrees
  <2>0. (\A q \in DOMAIN pr2 : own2[t].root # pr2[q].page_table)
            <=> own2[t].root # r /\ \A q \in DOMAIN pr : q # p => own2[t].root # pr[q].page_table
    BY <1>6 DEF r
  <2>1. CASE t \notin DOMAIN own
    <3>1. own2[t].root = r /\ t \notin h.used
      BY <2>1, <1>2
    <3>2. t \notin lo2
      BY <3>1, <2>1, <1>2, <1>3, <1>11
    <3> QED BY <3>1, <3>2, <2>0
  <2>2. CASE t \in DOMAIN own
    <3>1. own2[t] = own[t] /\ (t \in lo <=> \A q \in DOMAIN pr : own[t].root # pr[q].page_table)
      BY <2>2, <1>2, <1>4 DEF LostTrees
    <3>2. t \in L <=> p \in DOMAIN pr /\ pr[p].page_table # r /\ own[t].root = pr[p].page_table
      BY <2>2, <1>3
    <3>3. CASE own[t].root = r
      <4>1. p \in DOMAIN pr /\ pr[p].page_table = r
        BY <3>3, <2>2, <1>3, <1>5
      <4> QED BY <4>1, <3>1, <3>2, <3>3, <2>0
    <3>4. CASE own[t].root # r
      <4>1. CASE p \in DOMAIN pr /\ own[t].root = pr[p].page_table
        <5>1. \A q \in DOMAIN pr : q # p => pr[q].page_table # pr[p].page_table
          BY <4>1, <1>4 DEF OwnTree
        <5> QED BY <4>1, <5>1, <3>1, <3>2, <3>4, <2>0
      <4>2. CASE ~(p \in DOMAIN pr /\ own[t].root = pr[p].page_table)
        BY <4>2, <3>1, <3>2, <3>4, <2>0
      <4> QED BY <4>1, <4>2
    <3> QED BY <3>3, <3>4
  <2> QED BY <2>1, <2>2
<1>18. OwnSpace(pr2, sp2, win)
  <2> SUFFICES ASSUME NEW q \in DOMAIN pr2, NEW v \in VPages
               PROVE  sp2[q][v] \in CodePages \cup Data(pr2[q]) \cup W
    BY DEF OwnSpace, W
  <2>1. CASE q = p
    BY <2>1, <1>3, <1>6, <1>7 DEF A
  <2>2. CASE q # p
    <3>1. q \in DOMAIN pr /\ pr2[q] = pr[q] /\ sp2[q] = sp[q]
      BY <2>2, <1>6, <1>7
    <3> QED BY <3>1, <1>4 DEF OwnSpace, W
  <2> QED BY <2>1, <2>2
<1>19. Good(g, own2, S2, pr2, sp2, win, lo2)
  BY <1>1, <1>13, <1>14, <1>15, <1>16, <1>17, <1>18 DEF Good
<1> QED BY <1>19 DEF pr2, sp2

Without(f, F) == [t \in DOMAIN f \ F |-> f[t]]

\* unmap() and the rest of ArchProcess::free(): what is left is as it was.
LEMMA DropShape ==
    ASSUME NEW h, NEW own, NEW S, Shape(h, own, S), NEW r \in DOMAIN S, NEW F,
           \A t \in DOMAIN own : t \in F <=> own[t].root = r,
           NEW g, g.used = h.used \ F, g.table = Without(h.table, F),
           NEW own2, own2 = Without(own, F),
           NEW S2, S2 = Without(S, {r})
    PROVE  Shape(g, own2, S2)
<1> DEFINE T == DOMAIN own
<1> DEFINE T2 == DOMAIN own \ F
<1>1. /\ h.used \subseteq Pages /\ T \subseteq h.used
      /\ h.table \in [T -> [Indices -> Entries]]
      /\ own \in [T -> Nodes] /\ S \in [DOMAIN S -> Spaces]
  BY DEF Shape, HeapType
<1>2. RootsOK(own, S) /\ DownOK(h, own) /\ UpOK(h, own) /\ OneEach(own) /\ Exact(h, own, S)
  BY DEF Shape
<1>3. /\ DOMAIN own2 = T2 /\ DOMAIN h.table = T
      /\ \A t \in T2 : own2[t] = own[t] /\ g.table[t] = h.table[t] /\ t \in T /\ own[t].root # r
      /\ \A t \in T : own[t].root # r => t \in T2
      /\ DOMAIN S2 = DOMAIN S \ {r} /\ \A q \in DOMAIN S2 : S2[q] = S[q]
  BY <1>1 DEF Without
<1>4. /\ g.table \in [T2 -> [Indices -> Entries]] /\ own2 \in [T2 -> Nodes]
      /\ S2 \in [DOMAIN S2 -> Spaces]
  BY <1>1 DEF Without
<1> HIDE DEF T2
<1>5. HeapType(g, own2, S2)
  <2>1. g.used \subseteq Pages /\ T2 \subseteq g.used
    BY <1>1 DEF T2
  <2> QED BY <2>1, <1>3, <1>4 DEF HeapType
<1>6. RootsOK(own2, S2)
  <2>1. \A t \in T2 : own[t].root \in DOMAIN S2 /\ (own[t].level = LEVELS - 1 => own[t].root = t)
    BY <1>2, <1>3 DEF RootsOK
  <2>2. ASSUME NEW q \in DOMAIN S2 PROVE q \in T2 /\ own[q] = Node(q, LEVELS - 1, 0)
    <3>1. q \in T /\ own[q] = Node(q, LEVELS - 1, 0) /\ q # r
      BY <1>2, <1>3 DEF RootsOK
    <3>2. own[q].root # r
      BY <3>1, NodeFields
    <3> QED BY <3>1, <3>2, <1>3
  <2>3. \A q \in DOMAIN S2 : q \in DOMAIN own2 /\ own2[q] = Node(q, LEVELS - 1, 0)
    BY <2>2, <1>3
  <2>4. ASSUME NEW t \in DOMAIN own2
        PROVE  own2[t].root \in DOMAIN S2 /\ (own2[t].level = LEVELS - 1 => own2[t].root = t)
    <3>1. t \in T2 /\ own2[t] = own[t]
      BY <1>3, Zenon
    <3> QED BY <3>1, <2>1, Zenon
  <2> QED BY <2>3, <2>4, Zenon DEF RootsOK
<1>7. DownOK(g, own2)
  <2> DEFINE B(t, j, e) ==
        IsValid(e) =>
            /\ own2[t].level = 0 => IsLeaf(e)
            /\ own2[t].level # 0 =>
                  /\ ~IsLeaf(e) /\ e.ppn \in DOMAIN own2
                  /\ own2[e.ppn] = Node(own2[t].root, own2[t].level - 1, Sub(own2[t].pre, j))
  <2> SUFFICES ASSUME NEW t \in DOMAIN own2, NEW j \in Indices, IsValid(g.table[t][j])
               PROVE  B(t, j, g.table[t][j])
    BY DEF DownOK
  <2> DEFINE e == h.table[t][j]
  <2>1. t \in T2 /\ g.table[t][j] = e /\ own2[t] = own[t] /\ t \in T /\ own[t].root # r
    BY <1>3
  <2>2. /\ own[t].level = 0 => IsLeaf(e)
        /\ own[t].level # 0 => /\ ~IsLeaf(e) /\ e.ppn \in T
                               /\ own[e.ppn] = Node(own[t].root, own[t].level - 1, Sub(own[t].pre, j))
    BY <2>1, <1>2 DEF DownOK
  <2> HIDE DEF e
  <2>3. own[t].level # 0 => e.ppn \in T2 /\ own2[e.ppn] = own[e.ppn]
    BY <2>1, <2>2, <1>3, NodeFields
  <2> QED BY <2>1, <2>2, <2>3, <1>3
<1>8. UpOK(g, own2)
  <2> SUFFICES ASSUME NEW t \in T2, own2[t].level # LEVELS - 1
               PROVE  \E u \in T2 : LET e == g.table[u][Idx(own2[t].pre)]
                                    IN  /\ own2[u] = Node(own2[t].root, own2[t].level + 1, Up(own2[t].pre))
                                        /\ IsValid(e) /\ e.ppn = t
    BY <1>3 DEF UpOK
  <2>1. own2[t] = own[t] /\ t \in T /\ own[t].root # r
    BY <1>3
  <2>2. PICK u \in T : LET e == h.table[u][Idx(own[t].pre)]
                       IN  /\ own[u] = Node(own[t].root, own[t].level + 1, Up(own[t].pre))
                           /\ IsValid(e) /\ e.ppn = t
    BY <2>1, <1>2 DEF UpOK
  <2>3. own[u].root # r
    BY <2>1, <2>2, NodeFields
  <2>4. u \in T2 /\ own2[u] = own[u] /\ g.table[u] = h.table[u]
    BY <2>3, <1>3
  <2> QED BY <2>1, <2>2, <2>4
<1>9. OneEach(own2)
  BY <1>2, <1>3 DEF OneEach
<1>10. Exact(g, own2, S2)
  <2> SUFFICES ASSUME NEW t \in T2, NEW v \in VPages, Pre(v, own2[t].level + 1) = own2[t].pre
               PROVE  LET e == g.table[t][Idx(Pre(v, own2[t].level))]
                      IN  /\ ~IsValid(e) => S2[own2[t].root][v] = None
                          /\ IsValid(e) /\ own2[t].level = 0 => S2[own2[t].root][v] = e.ppn
    BY <1>3 DEF Exact
  <2>1. own2[t] = own[t] /\ g.table[t] = h.table[t] /\ t \in T /\ own[t].root # r
    BY <1>3
  <2>2. own[t].root \in DOMAIN S
    BY <2>1, <1>2 DEF RootsOK
  <2>3. S2[own[t].root] = S[own[t].root]
    BY <2>1, <2>2, <1>3
  <2>4. LET e == h.table[t][Idx(Pre(v, own[t].level))]
        IN  /\ ~IsValid(e) => S[own[t].root][v] = None
            /\ IsValid(e) /\ own[t].level = 0 => S[own[t].root][v] = e.ppn
    BY <2>1, <1>2 DEF Exact
  <2> QED BY <2>1, <2>3, <2>4
<1> QED BY <1>5, <1>6, <1>7, <1>8, <1>9, <1>10 DEF Shape

\* kill()
LEMMA Drop ==
    ASSUME NEW h, NEW own, NEW S, NEW pr, NEW sp, NEW win, NEW lo, Good(h, own, S, pr, sp, win, lo),
           NEW p \in DOMAIN pr, NEW F, F = Data(pr[p]) \cup Tables(own, pr[p].page_table),
           NEW g, g.used = h.used \ F, g.table = Without(h.table, F),
           NEW pr2, pr2 = Without(pr, {p}),
           NEW sp2, sp2 = Without(sp, {p})
    PROVE  \E own2, S2 : Good(g, own2, S2, pr2, sp2, win, lo)
<1> DEFINE r == pr[p].page_table
<1> DEFINE A == Data(pr[p])
<1> DEFINE own2 == Without(own, F)
<1> DEFINE S2 == Without(S, {r})
<1> DEFINE W == WindowsOf(win)
<1>1. /\ Shape(h, own, S) /\ Typed(pr, sp, win) /\ OwnTree(S, pr, sp) /\ OwnData(own, pr, win, lo)
      /\ Accounted(h, own, pr, win, lo) /\ LostTrees(own, pr, lo) /\ OwnSpace(pr, sp, win)
  BY DEF Good
<1>2. r \in DOMAIN S /\ A \cap DOMAIN own = {} /\ A \cap W = {} /\ A \cap lo = {} /\ W \cap DOMAIN own = {}
  BY <1>1 DEF OwnTree, OwnData
<1>3. \A t \in DOMAIN own : t \in F <=> own[t].root = r
  BY <1>2 DEF Tables
<1>4. F \subseteq A \cup DOMAIN own
  BY DEF Tables
<1>5. /\ DOMAIN own2 = DOMAIN own \ F /\ \A t \in DOMAIN own2 : own2[t] = own[t] /\ t \in DOMAIN own /\ own[t].root # r
      /\ DOMAIN S2 = DOMAIN S \ {r} /\ \A q \in DOMAIN S2 : S2[q] = S[q]
      /\ DOMAIN pr2 = DOMAIN pr \ {p} /\ \A q \in DOMAIN pr2 : pr2[q] = pr[q] /\ sp2[q] = sp[q] /\ q \in DOMAIN pr /\ q # p
  BY <1>1, <1>3 DEF Without, Typed
<1>6. Shape(g, own2, S2)
  <2>1. own2 = Without(own, F) /\ S2 = Without(S, {r})
    OBVIOUS
  <2> HIDE DEF own2, S2, r, A
  <2> QED BY <2>1, <1>1, <1>2, <1>3, DropShape
<1>7. Typed(pr2, sp2, win)
  BY <1>1 DEF Typed, Without
<1> HIDE DEF own2, S2, r, A, W
<1>8. \A q \in DOMAIN pr2 : pr[q].page_table # r /\ Data(pr[q]) \cap A = {} /\ Data(pr[q]) \cap F = {}
  <2>1. \A q \in DOMAIN pr2 : pr[q].page_table # r /\ Data(pr[q]) \cap A = {} /\ Data(pr[q]) \cap DOMAIN own = {}
    BY <1>1, <1>5 DEF OwnTree, OwnData, r, A
  <2> QED BY <2>1, <1>4
<1>9. OwnTree(S2, pr2, sp2)
  <2>1. ASSUME NEW q \in DOMAIN pr2 PROVE pr2[q].page_table \in DOMAIN S2 /\ S2[pr2[q].page_table] = sp2[q]
    <3>1. pr[q].page_table \in DOMAIN S /\ S[pr[q].page_table] = sp[q] /\ pr[q].page_table # r
      BY <1>1, <1>5, <1>8 DEF OwnTree
    <3>2. pr[q].page_table \in DOMAIN S2
      BY <3>1, <1>5
    <3>3. pr2[q] = pr[q] /\ sp2[q] = sp[q] /\ S2[pr[q].page_table] = S[pr[q].page_table]
      BY <3>2, <1>5, Zenon
    <3> QED BY <3>1, <3>2, <3>3, Zenon
  <2>2. \A a, b \in DOMAIN pr2 : a # b => pr2[a].page_table # pr2[b].page_table
    <3>1. \A a, b \in DOMAIN pr : a # b => pr[a].page_table # pr[b].page_table
      BY <1>1 DEF OwnTree
    <3>2. \A a \in DOMAIN pr2 : a \in DOMAIN pr /\ pr2[a] = pr[a]
      BY <1>5
    <3> QED BY <3>1, <3>2
  <2> QED BY <2>1, <2>2, Zenon DEF OwnTree
<1>10. OwnData(own2, pr2, win, lo)
  <2>1. ASSUME NEW q \in DOMAIN pr2
        PROVE  /\ Data(pr2[q]) \cap DOMAIN own2 = {}
               /\ Data(pr2[q]) \cap W = {}
               /\ Data(pr2[q]) \cap lo = {}
               /\ StackOf(pr2[q]) \cap ({pr2[q].trap_frame, pr2[q].user_stack} \cup pr2[q].segments) = {}
    <3>1. q \in DOMAIN pr /\ pr2[q] = pr[q] /\ DOMAIN own2 \subseteq DOMAIN own
      BY <1>5, Zenon
    <3>2. /\ Data(pr[q]) \cap DOMAIN own = {}
          /\ Data(pr[q]) \cap W = {}
          /\ Data(pr[q]) \cap lo = {}
          /\ StackOf(pr[q]) \cap ({pr[q].trap_frame, pr[q].user_stack} \cup pr[q].segments) = {}
      BY <3>1, <1>1, Zenon DEF OwnData, W
    <3> QED BY <3>1, <3>2
  <2>2. \A a, b \in DOMAIN pr2 : a # b => Data(pr2[a]) \cap Data(pr2[b]) = {}
    <3>1. \A a, b \in DOMAIN pr : a # b => Data(pr[a]) \cap Data(pr[b]) = {}
      BY <1>1 DEF OwnData
    <3>2. \A a \in DOMAIN pr2 : a \in DOMAIN pr /\ pr2[a] = pr[a]
      BY <1>5
    <3> QED BY <3>1, <3>2
  <2>3. W \cap DOMAIN own2 = {}
    BY <1>2, <1>5
  <2> QED BY <2>1, <2>2, <2>3, Zenon DEF OwnData, W
<1>11. W \cap F = {} /\ lo \cap F = {}
  <2>1. W \cap F = {}
    BY <1>2, <1>4
  <2>2. \A t \in DOMAIN own : own[t].root = r => t \notin lo
    BY <1>1 DEF LostTrees, r
  <2> QED BY <2>1, <2>2, <1>2, <1>3, <1>4
<1>12. Accounted(g, own2, pr2, win, lo)
  <2> SUFFICES ASSUME NEW x
               PROVE  x \in g.used <=> \/ x \in DOMAIN own2
                                       \/ \E q \in DOMAIN pr2 : x \in Data(pr2[q])
                                       \/ x \in W
                                       \/ x \in lo
    BY DEF Accounted, W
  <2>1. x \in h.used <=> \/ x \in DOMAIN own
                         \/ \E q \in DOMAIN pr : x \in Data(pr[q])
                         \/ x \in W
                         \/ x \in lo
    BY <1>1 DEF Accounted, W
  <2>2. (\E q \in DOMAIN pr : x \in Data(pr[q])) <=> x \in A \/ \E q \in DOMAIN pr2 : x \in Data(pr2[q])
    BY <1>5 DEF A
  <2>3. x \in A => x \in F
    BY DEF A
  <2>4. x \in F => ~\E q \in DOMAIN pr2 : x \in Data(pr2[q])
    BY <1>5, <1>8
  <2> QED BY <2>1, <2>2, <2>3, <2>4, <1>5, <1>11
<1>13. LostTrees(own2, pr2, lo)
  <2> SUFFICES ASSUME NEW t \in DOMAIN own2
               PROVE  t \in lo <=> \A q \in DOMAIN pr2 : own2[t].root # pr2[q].page_table
    BY DEF LostTrees
  <2>1. own2[t] = own[t] /\ t \in DOMAIN own /\ own[t].root # r
    BY <1>5
  <2>2. t \in lo <=> \A q \in DOMAIN pr : own[t].root # pr[q].page_table
    BY <2>1, <1>1 DEF LostTrees
  <2>3. (\A q \in DOMAIN pr : own[t].root # pr[q].page_table) <=> \A q \in DOMAIN pr2 : own[t].root # pr2[q].page_table
    <3>1. \A q \in DOMAIN pr2 : q \in DOMAIN pr /\ pr2[q] = pr[q]
      BY <1>5
    <3>2. \A q \in DOMAIN pr : q = p \/ q \in DOMAIN pr2
      BY <1>5
    <3>3. own[t].root # pr[p].page_table
      BY <2>1 DEF r
    <3> QED BY <3>1, <3>2, <3>3, Zenon
  <2> QED BY <2>1, <2>2, <2>3
<1>14. OwnSpace(pr2, sp2, win)
  BY <1>1, <1>5 DEF OwnSpace
<1>15. Good(g, own2, S2, pr2, sp2, win, lo)
  BY <1>6, <1>7, <1>9, <1>10, <1>12, <1>13, <1>14 DEF Good
<1> QED BY <1>15

\* sys_create_window()
LEMMA AddWindow ==
    ASSUME NEW h, NEW own, NEW S, NEW pr, NEW sp, NEW win, NEW lo, Good(h, own, S, pr, sp, win, lo),
           NEW size \in 0 .. AddressSpace, NEW n \in Nat, n = NumPages(size),
           NEW first \in Pages, Fits(h, first, n),
           NEW win2, win2 = win \cup {[first |-> first, size |-> size]}
    PROVE  Good(Take(h, first, n), own, S, pr, sp, win2, lo)
<1> DEFINE g == Take(h, first, n)
<1> DEFINE M == first .. first + n - 1
<1> DEFINE W == WindowsOf(win)
<1>1. /\ Shape(h, own, S) /\ Typed(pr, sp, win) /\ OwnTree(S, pr, sp) /\ OwnData(own, pr, win, lo)
      /\ Accounted(h, own, pr, win, lo) /\ LostTrees(own, pr, lo) /\ OwnSpace(pr, sp, win)
  BY DEF Good
<1>2. Shape(g, own, S)
  BY <1>1, TakeShape
<1>3. WindowsOf(win2) = W \cup M
  <2> DEFINE w == [first |-> first, size |-> size]
  <2> DEFINE P(x) == x.first .. x.first + NumPages(x.size) - 1
  <2>1. P(w) = M
    OBVIOUS
  <2>2. WindowsOf(win2) = UNION {P(x) : x \in win2} /\ W = UNION {P(x) : x \in win}
    BY DEF WindowsOf
  <2>3. win2 = win \cup {w}
    OBVIOUS
  <2> HIDE DEF w, P, M, W
  <2>4. \A y : y \in UNION {P(x) : x \in win2} <=> y \in UNION {P(x) : x \in win} \/ y \in P(w)
    BY <2>3
  <2> QED BY <2>1, <2>2, <2>4
<1>4. g.used = h.used \cup M
  BY DEF Take
<1>5. M \cap h.used = {} /\ DOMAIN own \subseteq h.used
  BY <1>1 DEF Fits, Shape, HeapType
<1>6. \A p \in DOMAIN pr : Data(pr[p]) \subseteq h.used
  BY <1>1 DEF Accounted
<1>7. Typed(pr, sp, win2)
  BY <1>1 DEF Typed
<1> HIDE DEF g, M, W
<1>8. OwnData(own, pr, win2, lo)
  <2>1. (W \cup M) \cap DOMAIN own = {}
    BY <1>1, <1>5 DEF OwnData, W
  <2>2. \A p \in DOMAIN pr : Data(pr[p]) \cap (W \cup M) = {}
    BY <1>1, <1>5, <1>6 DEF OwnData, W
  <2> QED BY <2>1, <2>2, <1>1, <1>3 DEF OwnData
<1>9. Accounted(g, own, pr, win2, lo)
  BY <1>1, <1>3, <1>4 DEF Accounted, W
<1>10. OwnSpace(pr, sp, win2)
  BY <1>1, <1>3 DEF OwnSpace, W
<1> QED BY <1>1, <1>2, <1>7, <1>8, <1>9, <1>10 DEF Good, g

-----------------------------------------------------------------------------
(***************************************************************************)
(* The actions.                                                            *)
(***************************************************************************)

\* There are trees and spaces that explain the state.
PtInv == \E own, S : Good(Heap, own, S, proc, space, windows, lost)

LEMMA GoodHeap ==
    ASSUME NEW h, NEW own, NEW S, NEW pr, NEW sp, NEW win, NEW lo, Good(h, own, S, pr, sp, win, lo),
           NEW g, g.used = h.used, g.table = h.table
    PROVE  Good(g, own, S, pr, sp, win, lo)
<1>1. Shape(h, own, S) /\ Accounted(h, own, pr, win, lo)
  BY DEF Good
<1>2. Shape(g, own, S)
  BY <1>1 DEF Shape, HeapType, DownOK, UpOK, Exact
<1>3. Accounted(g, own, pr, win, lo)
  BY <1>1 DEF Accounted
<1> QED BY <1>2, <1>3 DEF Good

\* A state whose heap is g.
LEMMA InvNext ==
    ASSUME NEW g, NEW pr, NEW sp, NEW win, NEW lo,
           \E own, S : Good(g, own, S, pr, sp, win, lo),
           used' = g.used, table' = g.table, proc' = pr, space' = sp, windows' = win, lost' = lo
    PROVE  PtInv'
<1>1. PICK own, S : Good(g, own, S, pr, sp, win, lo)
  OBVIOUS
<1> DEFINE k == [used |-> used', table |-> table', full |-> FALSE]
<1>2. k.used = g.used /\ k.table = g.table
  OBVIOUS
<1> HIDE DEF k
<1>3. Good(k, own, S, pr, sp, win, lo)
  BY <1>1, <1>2, GoodHeap
<1>4. Good(k, own, S, proc', space', windows', lost')
  BY <1>3
<1> QED BY <1>4 DEF PtInv, Heap, k

LEMMA ReachedFrom ==
    ASSUME NEW h, NEW k, NEW g, NEW own, NEW S, NEW r, NEW s, NEW N1, NEW N2,
           Shape(k, own, S), Grown(h, own, k, own, r, N1), Reached(g, k, own, S, r, s, N2)
    PROVE  Reached(g, h, own, S, r, s, N1 \cup N2)
<1>1. PICK own2 : Shape(g, own2, With(S, r, s)) /\ Grown(k, own, g, own2, r, N2)
  BY DEF Reached
<1>2. Grown(h, own, g, own2, r, N1 \cup N2)
  BY <1>1, GrownTrans
<1> QED BY <1>1, <1>2 DEF Reached

LEMMA ReachedFresh ==
    ASSUME NEW h, NEW g, NEW own, NEW S, NEW r, NEW s, NEW N, Reached(g, h, own, S, r, s, N)
    PROVE  N \cap h.used = {}
  BY DEF Reached, Grown

LEMMA FreshSpaceValues ==
    ASSUME NEW arch, NEW v \in VPages
    PROVE  FreshSpace(arch)[v] \in CodePages \cup {arch.trap_frame, arch.user_stack}
  BY DEF FreshSpace, CodePages

LEMMA WithExcept ==
    ASSUME NEW f, NEW X, f \in [DOMAIN f -> X], NEW p \in DOMAIN f, NEW x, NEW g, g = [f EXCEPT ![p] = x]
    PROVE  g = With(f, p, x)
  BY DEF With

LEMMA InitInv ==
    PtInit => PtInv
<1> SUFFICES ASSUME PtInit PROVE PtInv
  OBVIOUS
<1> DEFINE e == [x \in {} |-> x]
<1>1. used = {} /\ table = << >> /\ proc = << >> /\ windows = {} /\ space = << >> /\ lost = {}
  BY DEF PtInit
<1>2. DOMAIN table = {} /\ DOMAIN proc = {} /\ DOMAIN space = {} /\ DOMAIN e = {}
  BY <1>1
<1>3. table \in [{} -> [Indices -> Entries]] /\ proc \in [{} -> Archs] /\ space \in [{} -> Spaces]
      /\ e \in [{} -> Nodes] /\ e \in [{} -> Spaces]
  BY <1>1
<1> HIDE DEF e
<1>4. Heap.used = {} /\ Heap.table = table
  BY <1>1 DEF Heap
<1>5. Shape(Heap, e, e)
  BY <1>2, <1>3, <1>4 DEF Shape, HeapType, RootsOK, DownOK, UpOK, OneEach, Exact
<1>6. Typed(proc, space, windows) /\ OwnTree(e, proc, space) /\ LostTrees(e, proc, lost) /\ OwnSpace(proc, space, windows)
  BY <1>1, <1>2, <1>3 DEF Typed, OwnTree, LostTrees, OwnSpace
<1>7. WindowsOf(windows) = {}
  BY <1>1 DEF WindowsOf
<1>8. OwnData(e, proc, windows, lost) /\ Accounted(Heap, e, proc, windows, lost)
  BY <1>1, <1>2, <1>4, <1>7 DEF OwnData, Accounted
<1> QED BY <1>5, <1>6, <1>8 DEF PtInv, Good

LEMMA MapWindowInv ==
    ASSUME PtInv, NEW p \in Procs, NEW w \in windows, NEW vaddr \in WindowAddrs, MapWindow(p, w, vaddr)
    PROVE  PtInv'
<1> DEFINE arch == proc[p]
<1> DEFINE r == arch.page_table
<1> DEFINE first == w.first
<1> DEFINE size == w.size
<1> DEFINE bits == {"R", "W", "U"}
<1> DEFINE h == MapRange(Heap, r, vaddr, first, size, bits)
<1> DEFINE s == Covered(space[p], vaddr, first, size)
<1> DEFINE H == Heap
<1>1. /\ p \in DOMAIN proc /\ ~h.full /\ used' = h.used /\ table' = h.table
      /\ space' = [space EXCEPT ![p] = s]
      /\ proc' = proc /\ windows' = windows /\ lost' = lost
  BY DEF MapWindow, Live
<1>2. PICK own, S : Good(H, own, S, proc, space, windows, lost)
  BY DEF PtInv
<1>3. /\ Shape(H, own, S) /\ Typed(proc, space, windows) /\ OwnTree(S, proc, space) /\ OwnData(own, proc, windows, lost)
      /\ OwnSpace(proc, space, windows)
  BY <1>2 DEF Good
<1>4. /\ arch \in Archs /\ r \in DOMAIN S /\ S[r] = space[p]
      /\ proc \in [DOMAIN proc -> Archs] /\ space \in [DOMAIN space -> Spaces] /\ p \in DOMAIN space
  BY <1>1, <1>3 DEF Typed, OwnTree
<1>5. /\ first \in Pages /\ size \in 0 .. AddressSpace /\ vaddr \in Nat
      /\ first .. first + NumPages(size) - 1 \subseteq WindowsOf(windows)
  <2>1. w \in [first : Pages, size : 0 .. AddressSpace]
    BY <1>3 DEF Typed
  <2>2. first .. first + NumPages(size) - 1 \subseteq WindowsOf(windows)
    BY DEF WindowsOf
  <2> QED BY <2>1, <2>2, SizeAssumption
<1>6. first \in Nat /\ size \in Nat
  <2>1. AddressSpace \in Nat
    <3>1. LEVELS \in 0 .. LEVELS /\ PageSize \in Nat \ {0}
      BY TableAssumption
    <3> QED BY <3>1, SpanFacts DEF AddressSpace
  <2> QED BY <2>1, <1>5, TableAssumption DEF Pages
<1>7. bits \in SUBSET Flags /\ bits \cap {"R", "W", "X"} # {}
  BY DEF Flags
<1>8. h = MapRange(H, r, vaddr, first, size, bits)
  OBVIOUS
<1>9. s = Covered(S[r], vaddr, first, size)
  BY <1>4
<1> HIDE DEF first, size, bits, h, s, H, arch, r
<1>10. RangeMapped(h, H, own, S, r, s)
  BY <1>1, <1>3, <1>4, <1>5, <1>6, <1>7, <1>8, <1>9, MapRangeShape
<1>11. Reached(h, H, own, S, r, s, {})
  BY <1>10 DEF RangeMapped, Reached
<1>12. \A v \in VPages : s[v] \in CodePages \cup Data(arch) \cup WindowsOf(windows)
  <2>1. \A v \in VPages : s[v] = S[r][v] \/ s[v] \in first .. first + NumPages(size) - 1
    BY <1>5, <1>6, <1>9, CoveredValues
  <2>2. \A v \in VPages : S[r][v] \in CodePages \cup Data(arch) \cup WindowsOf(windows)
    BY <1>1, <1>3, <1>4 DEF OwnSpace, arch
  <2> QED BY <2>1, <2>2, <1>5
<1>13. Advanced(H, own, proc, p, arch, s, windows, Data(arch), {}, {})
  <2>1. /\ proc[p].page_table = r /\ arch.page_table = r /\ proc[p] = arch
    BY DEF arch, r
  <2>2. StackOf(arch) \cap ({arch.trap_frame, arch.user_stack} \cup arch.segments) = {}
    BY <1>1, <1>3 DEF OwnData, arch
  <2> QED BY <2>1, <2>2, <1>1, <1>4, <1>12 DEF Advanced
<1>14. \E own2, S2 : Good(h, own2, S2, With(proc, p, arch), With(space, p, s), windows, lost \cup {})
  BY <1>2, <1>11, <1>13, Advance DEF r
<1>15. With(proc, p, arch) = proc /\ space' = With(space, p, s) /\ lost \cup {} = lost
  <2>1. With(proc, p, proc[p]) = proc
    BY <1>1, <1>4, WithSame
  <2>2. space' = With(space, p, s)
    BY <1>1, <1>4, WithExcept
  <2> QED BY <2>1, <2>2 DEF arch
<1>16. \E own2, S2 : Good(h, own2, S2, proc, space', windows, lost)
  BY <1>14, <1>15
<1> QED BY <1>1, <1>16, InvNext

LEMMA CreateWindowInv ==
    ASSUME PtInv, NEW size \in WindowSizes, CreateWindow(size)
    PROVE  PtInv'
<1> DEFINE n == NumPages(size)
<1> DEFINE first == FirstFit(Heap, n)
<1> DEFINE h == Take(Heap, first, n)
<1> DEFINE win == windows \cup {[first |-> first, size |-> size]}
<1>1. /\ ~h.full /\ used' = h.used /\ windows' = win
      /\ table' = table /\ proc' = proc /\ space' = space /\ lost' = lost
  BY DEF CreateWindow
<1>2. PICK own, S : Good(Heap, own, S, proc, space, windows, lost)
  BY DEF PtInv
<1>3. size \in 0 .. AddressSpace /\ size \in Nat
  <2>1. AddressSpace \in Nat
    <3>1. LEVELS \in 0 .. LEVELS /\ PageSize \in Nat \ {0}
      BY TableAssumption
    <3> QED BY <3>1, SpanFacts DEF AddressSpace
  <2> QED BY <2>1, SizeAssumption
<1>4. n \in Nat /\ n = NumPages(size)
  BY <1>3, NumPagesFacts
<1>5. h.table = table
  BY DEF Take, Heap
<1>6. first = FirstFit(Heap, n) /\ h = Take(Heap, first, n) /\ win = windows \cup {[first |-> first, size |-> size]}
  OBVIOUS
<1> HIDE DEF n, first, h, win
<1>7. Taken(Heap, first, n) /\ Fits(Heap, first, n)
  BY <1>1, <1>4, <1>6, TakenFirstFit
<1>8. first \in Pages
  BY <1>7 DEF Taken
<1>9. Good(h, own, S, proc, space, win, lost)
  BY <1>2, <1>3, <1>4, <1>6, <1>7, <1>8, AddWindow
<1> QED BY <1>1, <1>5, <1>9, InvNext

LEMMA KillInv ==
    ASSUME PtInv, NEW p \in Procs, Kill(p)
    PROVE  PtInv'
<1> DEFINE arch == proc[p]
<1> DEFINE r == arch.page_table
<1> DEFINE F == Freed(arch)
<1> DEFINE g == [used |-> used \ F, table |-> Without(table, F), full |-> FALSE]
<1> DEFINE pr == Without(proc, {p})
<1> DEFINE sp == Without(space, {p})
<1>1. PICK own, S : Good(Heap, own, S, proc, space, windows, lost)
  BY DEF PtInv
<1>2. Shape(Heap, own, S) /\ Typed(proc, space, windows) /\ OwnTree(S, proc, space)
  BY <1>1 DEF Good
<1>3. /\ p \in DOMAIN proc /\ used' = used \ F /\ table' = [q \in DOMAIN table \ F |-> table[q]]
      /\ proc' = [q \in DOMAIN proc \ {p} |-> proc[q]] /\ space' = [q \in DOMAIN proc \ {p} |-> space[q]]
      /\ windows' = windows /\ lost' = lost
  BY DEF Kill, Live
<1>4. DOMAIN space = DOMAIN proc /\ r \in DOMAIN S
  BY <1>2, <1>3 DEF Typed, OwnTree
<1>5. proc' = pr /\ space' = sp /\ used' = g.used /\ table' = g.table
  BY <1>3, <1>4 DEF Without
<1>6. F = Data(arch) \cup Tables(own, r)
  <2>1. {r} \cup TablesBelow(r) = Tables(own, r)
    BY <1>2, <1>4, TablesOfTree
  <2>2. F = ({arch.page_table, arch.trap_frame, arch.user_stack} \cup TablesBelow(r) \cup arch.segments) \cup StackOf(arch)
    BY DEF Freed, Owned
  <2>3. Data(arch) = {arch.trap_frame, arch.user_stack} \cup arch.segments \cup StackOf(arch)
    BY DEF Data
  <2> DEFINE B == TablesBelow(r)
  <2> DEFINE sg == arch.segments
  <2> DEFINE st == StackOf(arch)
  <2> DEFINE d == Data(arch)
  <2> DEFINE tb == Tables(own, r)
  <2> HIDE DEF B, sg, st, d, tb
  <2>4. {r} \cup B = tb /\ F = ({r, arch.trap_frame, arch.user_stack} \cup B \cup sg) \cup st /\ d = {arch.trap_frame, arch.user_stack} \cup sg \cup st
    BY <2>1, <2>2, <2>3 DEF B, sg, st, d, tb
  <2> HIDE DEF r, F
  <2>5. F = d \cup tb
    BY <2>4
  <2> QED BY <2>5 DEF d, tb
<1>7. g.used = Heap.used \ F /\ g.table = Without(Heap.table, F)
  BY DEF Heap
<1> HIDE DEF F, g, pr, sp
<1>8. \E own2, S2 : Good(g, own2, S2, pr, sp, windows, lost)
  <2> DEFINE H == Heap
  <2>1. Good(H, own, S, proc, space, windows, lost) /\ g.used = H.used \ F /\ g.table = Without(H.table, F)
    BY <1>1, <1>7
  <2>2. pr = Without(proc, {p}) /\ sp = Without(space, {p})
    BY DEF pr, sp
  <2> HIDE DEF H
  <2> QED BY <2>1, <2>2, <1>3, <1>6, Drop
<1> QED BY <1>3, <1>5, <1>8, InvNext

LEMMA ExecveInv ==
    ASSUME PtInv, NEW p \in Procs, Execve(p)
    PROVE  PtInv'
<1> DEFINE H == Heap
<1> DEFINE old == proc[p]
<1> DEFINE s == Setup(Heap, old.kernel_stack)
<1> DEFINE g == s.heap
<1> DEFINE arch == s.arch
<1> DEFINE sf == FreshSpace(arch)
<1> DEFINE N == {arch.trap_frame, arch.user_stack}
<1> DEFINE L == Owned(old)
<1>1. /\ p \in DOMAIN proc /\ ~g.full /\ used' = g.used /\ table' = g.table
      /\ proc' = [proc EXCEPT ![p] = arch] /\ space' = [space EXCEPT ![p] = sf]
      /\ lost' = lost \cup L /\ windows' = windows
  BY DEF Execve, Live
<1>2. PICK own, S : Good(H, own, S, proc, space, windows, lost)
  BY DEF PtInv
<1>3. /\ Shape(H, own, S) /\ Typed(proc, space, windows) /\ OwnTree(S, proc, space) /\ OwnData(own, proc, windows, lost)
      /\ Accounted(H, own, proc, windows, lost)
  BY <1>2 DEF Good
<1>4. /\ old \in Archs /\ old.page_table \in DOMAIN S
      /\ proc \in [DOMAIN proc -> Archs] /\ space \in [DOMAIN space -> Spaces] /\ p \in DOMAIN space
  BY <1>1, <1>3 DEF Typed, OwnTree
<1>5. IsSetUp(s, H, own, S, old.kernel_stack)
  <2> DEFINE ks == old.kernel_stack
  <2>1. ks \in Pages /\ s = Setup(H, ks) /\ ~s.heap.full
    BY <1>1, <1>4 DEF Archs
  <2> HIDE DEF ks, H, s
  <2>2. IsSetUp(s, H, own, S, ks)
    BY <2>1, <1>3, SetupShape
  <2> QED BY <2>2 DEF ks
<1>6. {old.page_table} \cup TablesBelow(old.page_table) = Tables(own, old.page_table)
  BY <1>3, <1>4, TablesOfTree
<1> DEFINE T == Tables(own, old.page_table)
<1>7. L = T \cup {old.trap_frame, old.user_stack} \cup old.segments
  <2> DEFINE B == TablesBelow(old.page_table)
  <2>1. L = {old.page_table, old.trap_frame, old.user_stack} \cup B \cup old.segments
    BY DEF Owned
  <2>2. {old.page_table} \cup B = T
    BY <1>6
  <2> HIDE DEF B, T, L, old
  <2> QED BY <2>1, <2>2
<1> HIDE DEF H, old, s, g, sf, N, L, T
<1>8. /\ arch \in Archs /\ arch.page_table \notin H.used
      /\ arch.kernel_stack = old.kernel_stack /\ arch.segments = {}
      /\ Reached(g, H, own, S, arch.page_table, sf, N)
  BY <1>5 DEF IsSetUp, g, sf, N
<1> HIDE DEF arch
<1>9. StackOf(arch) = StackOf(old)
  BY <1>8 DEF StackOf
<1>10. Data(arch) = N \cup StackOf(old) /\ Data(old) = {old.trap_frame, old.user_stack} \cup old.segments \cup StackOf(old)
  BY <1>8, <1>9 DEF Data, N
<1>11. /\ DOMAIN own \subseteq H.used /\ DOMAIN S \subseteq DOMAIN own
       /\ Data(old) \subseteq H.used /\ Data(old) \cap DOMAIN own = {}
       /\ StackOf(old) \cap ({old.trap_frame, old.user_stack} \cup old.segments) = {}
  <2>1. DOMAIN own \subseteq H.used /\ DOMAIN S \subseteq DOMAIN own
    BY <1>3 DEF Shape, HeapType, RootsOK
  <2>2. Data(old) \subseteq H.used
    BY <1>1, <1>3 DEF Accounted, old
  <2>3. Data(old) \cap DOMAIN own = {} /\ StackOf(old) \cap ({old.trap_frame, old.user_stack} \cup old.segments) = {}
    BY <1>1, <1>3 DEF OwnData, old
  <2> QED BY <2>1, <2>2, <2>3
<1>12. N \cap H.used = {}
  BY <1>8, ReachedFresh
<1>13. \A t : t \in T <=> t \in DOMAIN own /\ own[t].root = old.page_table
  BY DEF T, Tables
<1>14. Advanced(H, own, proc, p, arch, sf, windows, Data(old), N, L)
  <2>1. Data(arch) \subseteq Data(old) \cup N /\ Data(old) \cup N \subseteq Data(arch) \cup L
    BY <1>7, <1>10
  <2>2. Data(arch) \cap L = {}
    BY <1>7, <1>10, <1>11, <1>12, <1>13
  <2>3. L \subseteq (Data(old) \cup N) \cup DOMAIN own
    BY <1>7, <1>10, <1>13
  <2>4. old.page_table # arch.page_table
    BY <1>4, <1>8, <1>11
  <2>5. \A t \in DOMAIN own : t \in L <=> own[t].root = old.page_table
    BY <1>7, <1>10, <1>11, <1>13
  <2>6. StackOf(arch) \cap ({arch.trap_frame, arch.user_stack} \cup arch.segments) = {}
    <3>1. {arch.trap_frame, arch.user_stack} \cup arch.segments = N
      BY <1>8 DEF N
    <3> QED BY <3>1, <1>9, <1>10, <1>11, <1>12
  <2>7. \A v \in VPages : sf[v] \in CodePages \cup Data(arch) \cup WindowsOf(windows)
    <3>1. \A v \in VPages : sf[v] \in CodePages \cup N
      BY FreshSpaceValues DEF sf, N
    <3> QED BY <3>1, <1>10
  <2> QED BY <2>1, <2>2, <2>3, <2>4, <2>5, <2>6, <2>7, <1>1, <1>8 DEF Advanced, old
<1>15. \E own2, S2 : Good(g, own2, S2, With(proc, p, arch), With(space, p, sf), windows, lost \cup L)
  BY <1>2, <1>8, <1>14, Advance
<1>16. proc' = With(proc, p, arch)
  BY <1>1, <1>4, WithExcept
<1>17. space' = With(space, p, sf)
  BY <1>1, <1>4, WithExcept
<1> QED BY <1>1, <1>15, <1>16, <1>17, InvNext

LEMMA LoadExeInv ==
    ASSUME PtInv, NEW p \in Procs, NEW prog \in Programs, LoadExe(p, prog)
    PROVE  PtInv'
<1> DEFINE H == Heap
<1> DEFINE old == proc[p]
<1> DEFINE r == old.page_table
<1> DEFINE n == NumPages(prog.size)
<1> DEFINE bin == FirstFit(Heap, n)
<1> DEFINE k == Take(Heap, bin, n)
<1> DEFINE l0 == [heap |-> k, pages |-> {}, space |-> space[p]]
<1> DEFINE segs == prog.segments
<1> DEFINE l == LoadSegments(l0, r, segs)
<1> DEFINE g == l.heap
<1> DEFINE arch == [old EXCEPT !.segments = l.pages]
<1> DEFINE s == l.space
<1> DEFINE M == l.pages
<1> DEFINE L == bin .. bin + n - 1
<1>1. /\ p \in DOMAIN proc /\ ~g.full /\ used' = g.used /\ table' = g.table /\ old.segments = {}
      /\ proc' = [proc EXCEPT ![p].segments = M] /\ space' = [space EXCEPT ![p] = s]
      /\ lost' = lost \cup L /\ windows' = windows
  BY DEF LoadExe, Live
<1>2. PICK own, S : Good(H, own, S, proc, space, windows, lost)
  BY DEF PtInv
<1>3. /\ Shape(H, own, S) /\ Typed(proc, space, windows) /\ OwnTree(S, proc, space) /\ OwnData(own, proc, windows, lost)
      /\ Accounted(H, own, proc, windows, lost) /\ OwnSpace(proc, space, windows)
  BY <1>2 DEF Good
<1>4. /\ old \in Archs /\ r \in DOMAIN S /\ S[r] = space[p]
      /\ proc \in [DOMAIN proc -> Archs] /\ space \in [DOMAIN space -> Spaces] /\ p \in DOMAIN space
  BY <1>1, <1>3 DEF Typed, OwnTree
<1>5. n \in Nat /\ segs \in Seq([start : Nat, size : 0 .. AddressSpace])
  BY SizeAssumption, NumPagesFacts
<1>6. proc' = [proc EXCEPT ![p] = arch]
  BY <1>1, <1>4
<1>7. /\ k = Take(H, bin, n) /\ bin = FirstFit(H, n) /\ l = LoadSegments(l0, r, segs) /\ g = l.heap /\ s = l.space /\ M = l.pages
      /\ L = bin .. bin + n - 1
  OBVIOUS
<1>8. l0 = [heap |-> k, pages |-> {}, space |-> S[r]]
  BY <1>4
<1>9. k.used = H.used \cup L
  BY DEF Take
<1>10. M \subseteq Pages => /\ arch \in Archs /\ arch.segments = M /\ arch.page_table = r
                            /\ arch.trap_frame = old.trap_frame /\ arch.user_stack = old.user_stack
                            /\ arch.kernel_stack = old.kernel_stack
  BY <1>4 DEF Archs
<1> HIDE DEF H, r, n, bin, k, l0, segs, l, g, arch, s, M, L, old
<1>11. ~k.full /\ (Shape(k, own, S) => IsLoaded(l, k, own, S, r))
  BY <1>1, <1>4, <1>5, <1>7, <1>8, LoadShape
<1>12. Fits(H, bin, n)
  BY <1>5, <1>7, <1>11, TakenFirstFit
<1>13. Shape(k, own, S) /\ Grown(H, own, k, own, r, L)
  BY <1>3, <1>5, <1>7, <1>12, TakeShape
<1>14. /\ M \subseteq Pages /\ Reached(g, k, own, S, r, s, M)
       /\ \A v \in VPages : s[v] = S[r][v] \/ s[v] \in M
  BY <1>7, <1>11, <1>13 DEF IsLoaded
<1>15. M \cap k.used = {}
  BY <1>14, ReachedFresh
<1> DEFINE N == L \cup M
<1>16. Reached(g, H, own, S, r, s, N)
  BY <1>13, <1>14, ReachedFrom
<1>17. L \cap H.used = {}
  BY <1>13 DEF Grown
<1>18. Data(arch) = Data(old) \cup M /\ StackOf(arch) = StackOf(old)
  <2>1. StackOf(arch) = StackOf(old)
    BY <1>10, <1>14 DEF StackOf
  <2>2. arch.segments = M /\ arch.trap_frame = old.trap_frame /\ arch.user_stack = old.user_stack /\ old.segments = {}
    BY <1>1, <1>10, <1>14
  <2>3. Data(arch) = {old.trap_frame, old.user_stack} \cup M \cup StackOf(old)
    BY <2>1, <2>2 DEF Data
  <2>4. Data(old) = {old.trap_frame, old.user_stack} \cup {} \cup StackOf(old)
    BY <2>2 DEF Data
  <2> QED BY <2>1, <2>3, <2>4
<1>19. /\ DOMAIN own \subseteq H.used /\ Data(old) \subseteq H.used
       /\ StackOf(old) \cap ({old.trap_frame, old.user_stack} \cup old.segments) = {}
       /\ StackOf(old) \subseteq Data(old)
  <2>1. DOMAIN own \subseteq H.used
    BY <1>3 DEF Shape, HeapType
  <2>2. Data(old) \subseteq H.used
    BY <1>1, <1>3 DEF Accounted, old
  <2>3. StackOf(old) \cap ({old.trap_frame, old.user_stack} \cup old.segments) = {}
    BY <1>1, <1>3 DEF OwnData, old
  <2>4. StackOf(old) \subseteq Data(old)
    BY DEF Data
  <2> QED BY <2>1, <2>2, <2>3, <2>4
<1>20. Advanced(H, own, proc, p, arch, s, windows, Data(old), N, L)
  <2>1. Data(arch) \subseteq Data(old) \cup N /\ Data(old) \cup N \subseteq Data(arch) \cup L
    BY <1>18
  <2>2. Data(arch) \cap L = {}
    BY <1>9, <1>15, <1>17, <1>18, <1>19
  <2>3. L \subseteq (Data(old) \cup N) \cup DOMAIN own
    OBVIOUS
  <2>4. proc[p].page_table = arch.page_table /\ arch \in Archs
    BY <1>10, <1>14 DEF old, r
  <2>5. \A t \in DOMAIN own : t \notin L
    BY <1>17, <1>19
  <2>6. StackOf(arch) \cap ({arch.trap_frame, arch.user_stack} \cup arch.segments) = {}
    <3>1. arch.segments = M /\ arch.trap_frame = old.trap_frame /\ arch.user_stack = old.user_stack
      BY <1>10, <1>14
    <3>2. StackOf(old) \cap M = {}
      BY <1>9, <1>15, <1>19
    <3> QED BY <3>1, <3>2, <1>18, <1>19
  <2>7. \A v \in VPages : s[v] \in CodePages \cup Data(arch) \cup WindowsOf(windows)
    <3>1. \A v \in VPages : S[r][v] \in CodePages \cup Data(old) \cup WindowsOf(windows)
      BY <1>1, <1>3, <1>4 DEF OwnSpace, old
    <3> QED BY <3>1, <1>14, <1>18
  <2> HIDE DEF N
  <2> QED BY <2>1, <2>2, <2>3, <2>4, <2>5, <2>6, <2>7, <1>1 DEF Advanced, old
<1> HIDE DEF N
<1>21. arch.page_table = r
  BY <1>10, <1>14
<1>22. \E own2, S2 : Good(g, own2, S2, With(proc, p, arch), With(space, p, s), windows, lost \cup L)
  BY <1>2, <1>16, <1>20, <1>21, Advance
<1>23. proc' = With(proc, p, arch)
  BY <1>1, <1>4, <1>6, WithExcept
<1>24. space' = With(space, p, s)
  BY <1>1, <1>4, WithExcept
<1> QED BY <1>1, <1>22, <1>23, <1>24, InvNext

LEMMA CreateInv ==
    ASSUME PtInv, NEW p \in Procs, Create(p)
    PROVE  PtInv'
<1> DEFINE H == Heap
<1> DEFINE trap == FirstFit(Heap, 1)
<1> DEFINE h1 == Take(Heap, trap, 1)
<1> DEFINE kstack == FirstFit(h1, KernelStack)
<1> DEFINE k == Take(h1, kstack, KernelStack)
<1> DEFINE K == kstack .. kstack + KernelStack - 1
<1> DEFINE s == Setup(k, kstack)
<1> DEFINE g == s.heap
<1> DEFINE arch == s.arch
<1> DEFINE r == arch.page_table
<1> DEFINE sf == FreshSpace(arch)
<1> DEFINE M == {arch.trap_frame, arch.user_stack}
<1>1. /\ p \notin DOMAIN proc /\ ~g.full /\ used' = g.used /\ table' = g.table
      /\ proc' = With(proc, p, arch) /\ space' = With(space, p, sf)
      /\ lost' = lost \cup {trap} /\ windows' = windows
  BY DEF Create, Live
<1>2. PICK own, S : Good(H, own, S, proc, space, windows, lost)
  BY DEF PtInv
<1>3. Shape(H, own, S)
  BY <1>2 DEF Good
<1>4. /\ trap = FirstFit(H, 1) /\ h1 = Take(H, trap, 1) /\ kstack = FirstFit(h1, KernelStack)
      /\ k = Take(h1, kstack, KernelStack) /\ s = Setup(k, kstack) /\ g = s.heap /\ KernelStack \in Nat
  BY TableAssumption
<1>5. h1.used = H.used \cup trap .. trap + 1 - 1 /\ k.used = h1.used \cup K
  BY DEF Take
<1> HIDE DEF H, trap, h1, kstack, k, s, g
<1>6. ~k.full
  BY <1>1, <1>4, SetupShape
<1>7. ~h1.full /\ Taken(h1, kstack, KernelStack) /\ Fits(h1, kstack, KernelStack)
  BY <1>4, <1>6, TakenFirstFit
<1>8. Taken(H, trap, 1) /\ Fits(H, trap, 1)
  BY <1>4, <1>7, TakenFirstFit
<1>9. trap .. trap + 1 - 1 = {trap} /\ kstack \in Pages
  BY <1>7, <1>8, TableAssumption DEF Taken, Pages
<1> HIDE DEF K, r
<1>10. Shape(h1, own, S) /\ Grown(H, own, h1, own, r, {trap})
  <2>1. Shape(h1, own, S) /\ Grown(H, own, h1, own, r, trap .. trap + 1 - 1)
    BY <1>3, <1>4, <1>8, TakeShape
  <2> QED BY <2>1, <1>9
<1>11. Shape(k, own, S) /\ Grown(h1, own, k, own, r, K)
  BY <1>4, <1>7, <1>10, TakeShape DEF K
<1>12. IsSetUp(s, k, own, S, kstack)
  BY <1>1, <1>4, <1>9, <1>11, SetupShape
<1>13. /\ arch \in Archs /\ arch.page_table = r /\ r \notin k.used
       /\ arch.kernel_stack = kstack /\ arch.segments = {}
       /\ Reached(g, k, own, S, r, sf, M)
  BY <1>4, <1>12 DEF IsSetUp, r
<1> HIDE DEF arch, sf, M
<1> DEFINE N0 == {trap} \cup K
<1> DEFINE N == N0 \cup M
<1>14. Grown(H, own, k, own, r, N0)
  BY <1>10, <1>11, GrownTrans
<1>15. Reached(g, H, own, S, r, sf, N)
  <2> HIDE DEF N0
  <2> QED BY <1>11, <1>13, <1>14, ReachedFrom
<1>16. M \cap k.used = {}
  BY <1>13, ReachedFresh
<1>17. k.used = (H.used \cup {trap}) \cup K /\ trap \notin H.used /\ K \cap (H.used \cup {trap}) = {}
  <2>1. h1.used = H.used \cup {trap} /\ k.used = h1.used \cup K
    BY <1>5, <1>9
  <2>2. {trap} \cap H.used = {}
    BY <1>10 DEF Grown
  <2>3. K \cap h1.used = {}
    BY <1>11 DEF Grown
  <2> QED BY <2>1, <2>2, <2>3
<1>18. StackOf(arch) = K /\ Data(arch) = M \cup K /\ {arch.trap_frame, arch.user_stack} \cup arch.segments = M
  BY <1>13 DEF StackOf, Data, M, K
<1>19. DOMAIN own \subseteq H.used
  BY <1>3 DEF Shape, HeapType
<1>20. Advanced(H, own, proc, p, arch, sf, windows, {}, N, {trap})
  <2>1. Data(arch) \subseteq {} \cup N /\ {} \cup N \subseteq Data(arch) \cup {trap}
    BY <1>18
  <2>2. Data(arch) \cap {trap} = {}
    BY <1>16, <1>17, <1>18
  <2>3. {trap} \subseteq ({} \cup N) \cup DOMAIN own
    OBVIOUS
  <2>4. arch.page_table \notin H.used
    BY <1>13, <1>17
  <2>5. \A t \in DOMAIN own : t \notin {trap}
    BY <1>17, <1>19
  <2>6. StackOf(arch) \cap ({arch.trap_frame, arch.user_stack} \cup arch.segments) = {}
    BY <1>16, <1>17, <1>18
  <2>7. \A v \in VPages : sf[v] \in CodePages \cup Data(arch) \cup WindowsOf(windows)
    <3>1. \A v \in VPages : sf[v] \in CodePages \cup M
      BY FreshSpaceValues DEF sf, M
    <3> QED BY <3>1, <1>18
  <2> HIDE DEF N
  <2> QED BY <2>1, <2>2, <2>3, <2>4, <2>5, <2>6, <2>7, <1>1, <1>13 DEF Advanced
<1> HIDE DEF N
<1>21. \E own2, S2 : Good(g, own2, S2, With(proc, p, arch), With(space, p, sf), windows, lost \cup {trap})
  <2>1. Reached(g, H, own, S, arch.page_table, sf, N)
    BY <1>13, <1>15
  <2> QED BY <2>1, <1>2, <1>20, Advance
<1> QED BY <1>1, <1>21, InvNext

-----------------------------------------------------------------------------
(***************************************************************************)
(* The theorems.                                                           *)
(***************************************************************************)

LEMMA PtInvNext ==
    PtInv /\ [PtNext]_vars => PtInv'
<1> SUFFICES ASSUME PtInv, [PtNext]_vars PROVE PtInv'
  OBVIOUS
<1>1. CASE UNCHANGED vars
  BY <1>1 DEF vars, PtInv, Heap
<1>2. ASSUME NEW p \in Procs, Create(p) PROVE PtInv'
  BY <1>2, CreateInv
<1>3. ASSUME NEW p \in Procs, Execve(p) PROVE PtInv'
  BY <1>3, ExecveInv
<1>4. ASSUME NEW p \in Procs, Kill(p) PROVE PtInv'
  BY <1>4, KillInv
<1>5. ASSUME NEW p \in Procs, NEW prog \in Programs, LoadExe(p, prog) PROVE PtInv'
  BY <1>5, LoadExeInv
<1>6. ASSUME NEW p \in Procs, NEW w \in windows, NEW vaddr \in WindowAddrs, MapWindow(p, w, vaddr) PROVE PtInv'
  BY <1>6, MapWindowInv
<1>7. ASSUME NEW size \in WindowSizes, CreateWindow(size) PROVE PtInv'
  BY <1>7, CreateWindowInv
<1> QED BY <1>1, <1>2, <1>3, <1>4, <1>5, <1>6, <1>7 DEF PtNext

\* In every state, every table is at one place in the tree of one process or of a
\* lost ArchProcess, the entries of the tables are what was mapped last, and every
\* other page is used for one thing: map(), map_range(), unmap() and the calls of
\* the process code keep the memory of the kernel in order.
THEOREM PageTableInvariant == PtSpec => []PtInv
<1>1. PtInit => PtInv
  BY InitInv
<1>2. PtInv /\ [PtNext]_vars => PtInv'
  BY PtInvNext
<1> QED BY <1>1, <1>2, PTL DEF PtSpec

\* virt_to_phys() gives every address of a process what was last mapped there,
\* with the offset in its page, and nothing for the rest.
THEOREM TranslationIsExact == PtSpec => []TranslationExact
<1>1. PtInv => TranslationExact
  <2> SUFFICES ASSUME PtInv, NEW p \in Live, NEW vaddr \in 0 .. AddressSpace - 1
               PROVE  VirtToPhys(proc[p].page_table, vaddr) = Physical(space[p][vaddr \div PageSize], vaddr)
    BY DEF TranslationExact, Physical
  <2> DEFINE N == Span[LEVELS]
  <2> DEFINE x == vaddr \div PageSize
  <2>0. PageSize \in Nat \ {0} /\ LEVELS \in 0 .. LEVELS
    BY TableAssumption
  <2>1. N \in Nat \ {0} /\ AddressSpace = PageSize * N
    BY <2>0, SpanFacts DEF AddressSpace
  <2> HIDE DEF N
  <2>2. PageSize * N \in Nat /\ vaddr \in Nat /\ vaddr < PageSize * N
    BY <2>0, <2>1
  <2>3. x \in Nat
    BY <2>0, <2>2, DivNat
  <2>4. vaddr = PageSize * x + (vaddr % PageSize) /\ vaddr % PageSize \in 0 .. PageSize - 1
    BY <2>0, <2>2, DivRemainder, ModRange
  <2> HIDE DEF x
  <2>5. x < N
    <3>1. CASE x >= N
      <4>1. PageSize * x >= PageSize * N
        BY <3>1, <2>0, <2>1, <2>3
      <4> DEFINE a == PageSize * x
      <4> DEFINE b == PageSize * N
      <4> DEFINE c == vaddr % PageSize
      <4>2. a \in Nat /\ b \in Nat /\ c \in Nat /\ vaddr = a + c /\ a >= b /\ vaddr < b
        BY <4>1, <2>0, <2>1, <2>2, <2>3, <2>4
      <4> HIDE DEF a, b, c
      <4> QED BY <4>2
    <3> QED BY <3>1, <2>1, <2>3
  <2>6. x % N = x
    BY <2>1, <2>3, <2>5, ModSmall
  <2>7. PageOf(vaddr) = x
    BY <2>6 DEF PageOf, x, N
  <2>8. PICK own, S : Good(Heap, own, S, proc, space, windows, lost)
    BY DEF PtInv
  <2>9. Shape(Heap, own, S) /\ proc[p].page_table \in DOMAIN S /\ S[proc[p].page_table] = space[p]
    BY <2>8 DEF Good, OwnTree, Live
  <2>10. VirtToPhys(proc[p].page_table, vaddr) = Physical(S[proc[p].page_table][PageOf(vaddr)], vaddr)
    BY <2>2, <2>9, VirtToPhysExact
  <2> QED BY <2>7, <2>9, <2>10 DEF x
<1> QED BY <1>1, PageTableInvariant, PTL

\* The memory of a process, in terms of the invariant.
LEMMA MemoryIs ==
    ASSUME NEW own, NEW S, Good(Heap, own, S, proc, space, windows, lost), NEW p \in Live
    PROVE  MemoryOf(p) = Tables(own, proc[p].page_table) \cup Data(proc[p])
<1>1. Shape(Heap, own, S) /\ proc[p].page_table \in DOMAIN S
  BY DEF Good, OwnTree, Live
<1>2. Tree(proc[p].page_table) = Tables(own, proc[p].page_table)
  BY <1>1, TablesOfTree
<1> QED BY <1>2 DEF MemoryOf, Data

\* Two processes share no table, stack, trap frame or segment, and none of these
\* is a window or lost, whatever was freed before.
THEOREM MemoryIsPrivate == PtSpec => []MemoryPrivate
<1>1. PtInv => MemoryPrivate
  <2> SUFFICES ASSUME PtInv PROVE MemoryPrivate
    OBVIOUS
  <2>1. PICK own, S : Good(Heap, own, S, proc, space, windows, lost)
    BY DEF PtInv
  <2> DEFINE T(p) == Tables(own, proc[p].page_table)
  <2>2. WindowPages = WindowsOf(windows)
    BY DEF WindowPages, WindowsOf
  <2>3. OwnTree(S, proc, space) /\ OwnData(own, proc, windows, lost) /\ LostTrees(own, proc, lost)
    BY <2>1 DEF Good
  <2>4. \A p \in Live : MemoryOf(p) = T(p) \cup Data(proc[p])
    BY <2>1, MemoryIs
  <2>5. \A p \in Live : T(p) \subseteq DOMAIN own /\ T(p) \cap lost = {}
    BY <2>3 DEF LostTrees, Tables, Live
  <2>6. \A p, q \in Live : p # q => T(p) \cap T(q) = {}
    BY <2>3 DEF OwnTree, Tables, Live
  <2>7. /\ \A p \in Live : /\ Data(proc[p]) \cap DOMAIN own = {} /\ Data(proc[p]) \cap WindowPages = {}
                           /\ Data(proc[p]) \cap lost = {}
        /\ \A p, q \in Live : p # q => Data(proc[p]) \cap Data(proc[q]) = {}
        /\ WindowPages \cap DOMAIN own = {}
    BY <2>2, <2>3 DEF OwnData, Live
  <2> HIDE DEF T
  <2>8. \A p \in Live : MemoryOf(p) \cap (WindowPages \cup lost) = {}
    BY <2>4, <2>5, <2>7
  <2>9. ASSUME NEW p \in Live, NEW q \in Live \ {p} PROVE MemoryOf(p) \cap MemoryOf(q) = {}
    <3>1. MemoryOf(p) = T(p) \cup Data(proc[p]) /\ MemoryOf(q) = T(q) \cup Data(proc[q])
      BY <2>4
    <3>2. T(p) \cap T(q) = {} /\ T(p) \subseteq DOMAIN own /\ T(q) \subseteq DOMAIN own
      BY <2>5, <2>6
    <3>3. /\ Data(proc[p]) \cap DOMAIN own = {} /\ Data(proc[q]) \cap DOMAIN own = {}
          /\ Data(proc[p]) \cap Data(proc[q]) = {}
      BY <2>7
    <3> QED BY <3>1, <3>2, <3>3
  <2> QED BY <2>8, <2>9 DEF MemoryPrivate
<1> QED BY <1>1, PageTableInvariant, PTL

\* Each page in use belongs to a live process or a window, or is one of the three
\* kinds known to be lost: kill() gives back every table of the tree.
THEOREM NothingElseLeaks == PtSpec => []NothingLeaks
<1>1. PtInv => NothingLeaks
  <2> SUFFICES ASSUME PtInv PROVE NothingLeaks
    OBVIOUS
  <2>1. PICK own, S : Good(Heap, own, S, proc, space, windows, lost)
    BY DEF PtInv
  <2>2. WindowPages = WindowsOf(windows)
    BY DEF WindowPages, WindowsOf
  <2>3. Accounted(Heap, own, proc, windows, lost) /\ LostTrees(own, proc, lost) /\ Heap.used = used
    BY <2>1 DEF Good, Heap
  <2>4. \A p \in Live : MemoryOf(p) = Tables(own, proc[p].page_table) \cup Data(proc[p])
    BY <2>1, MemoryIs
  <2>5. ASSUME NEW x
        PROVE  x \in used <=> (\E p \in Live : x \in MemoryOf(p)) \/ x \in WindowPages \/ x \in lost
    <3>1. x \in used <=> \/ x \in DOMAIN own
                         \/ \E p \in Live : x \in Data(proc[p])
                         \/ x \in WindowPages
                         \/ x \in lost
      BY <2>2, <2>3 DEF Accounted, Live
    <3>2. x \in DOMAIN own => x \in lost \/ \E p \in Live : x \in Tables(own, proc[p].page_table)
      BY <2>3 DEF LostTrees, Tables, Live
    <3>3. \A p \in Live : x \in Tables(own, proc[p].page_table) => x \in DOMAIN own
      BY DEF Tables
    <3> QED BY <3>1, <3>2, <3>3, <2>4
  <2> DEFINE U == UNION {MemoryOf(p) : p \in Live}
  <2>6. \A x : x \in U <=> \E p \in Live : x \in MemoryOf(p)
    BY Zenon
  <2>7. NothingLeaks <=> used = U \cup WindowPages \cup lost
    BY DEF NothingLeaks
  <2> HIDE DEF U
  <2>8. \A x : x \in used <=> x \in U \/ x \in WindowPages \/ x \in lost
    BY <2>5, <2>6
  <2> QED BY <2>7, <2>8
<1> QED BY <1>1, PageTableInvariant, PTL

\* No process has a freed page in its tables, or a table among its pages.
THEOREM MappedPagesAreInUse == PtSpec => []NoMappingToFreed
<1>1. PtInv => NoMappingToFreed
  <2> SUFFICES ASSUME PtInv, NEW p \in Live, NEW v \in VPages
               PROVE  space[p][v] \in (used \ DOMAIN table) \cup CodePages
    BY DEF NoMappingToFreed, CodePages
  <2>1. PICK own, S : Good(Heap, own, S, proc, space, windows, lost)
    BY DEF PtInv
  <2>2. Heap.used = used /\ Heap.table = table
    BY DEF Heap
  <2>3. DOMAIN table = DOMAIN own
    BY <2>1, <2>2 DEF Good, Shape, HeapType
  <2>4. /\ Data(proc[p]) \cap DOMAIN own = {} /\ WindowsOf(windows) \cap DOMAIN own = {}
        /\ Data(proc[p]) \subseteq used /\ WindowsOf(windows) \subseteq used
    BY <2>1, <2>2 DEF Good, OwnData, Accounted, Live
  <2>5. space[p][v] \in CodePages \cup Data(proc[p]) \cup WindowsOf(windows)
    BY <2>1 DEF Good, OwnSpace, Live
  <2> QED BY <2>3, <2>4, <2>5
<1> QED BY <1>1, PageTableInvariant, PTL
=============================================================================
